----------------------------- MODULE UserPages ------------------------------
(***************************************************************************)
(* The admin console's list of users and its page of one user.             *)
(***************************************************************************)
EXTENDS PageRuntime

CONSTANT MaxPage    \* bound: the pages a list has

----------------------------------------------------------------------------
(***************************************************************************)
(* The admin console's user list (frontends/admin, pages/users/UsersPage). *)
(* users is the page number and the stamp of the list on screen.  A form   *)
(* that does not pass its checks only sets a banner and has no action.     *)
(***************************************************************************)

UsersDb0 == [stamp |-> 0]

UsersUi0 ==
    Confirm0 @@
    [users |-> None, loading |-> TRUE, saving |-> FALSE,
     currentPage |-> 1, totalPages |-> 0,
     showCreateModal |-> FALSE, showRoleModal |-> FALSE, selectedUser |-> None]

\* The query is built from the refs when the call is sent.
fetchUsers(u) == Call("load", u.currentPage, {"loading"})

\* onMounted
UsersCalls0 == <<fetchUsers(UsersUi0)>>

Covered(u) == u.showCreateModal \/ u.showRoleModal \/ AppModalShown(u.dialog)

HeaderOffers(u) == IF Covered(u) THEN {} ELSE {"showCreate"}
FilterOffers(u) == IF Covered(u) THEN {} ELSE {"search"}

TableOffers(u) ==
    IF Covered(u) \/ u.loading \/ u.users = None THEN {}
    ELSE {"assignRoles", "delete"} \X Items

PaginationOffers(u) ==
    IF Covered(u) \/ u.loading \/ u.totalPages <= 1 THEN {}
    ELSE {p \in {u.currentPage - 1, u.currentPage + 1} : p \in 1 .. u.totalPages}

CreateModalOffers(u) ==
    IF ~u.showCreateModal THEN {} ELSE {"cancel"} \cup (IF u.saving THEN {} ELSE {"create"})

RoleModalOffers(u) ==
    IF ~u.showRoleModal THEN {} ELSE {"cancel"} \cup (IF u.saving THEN {} ELSE {"save"})

Fetch(u) == Handle([u EXCEPT !.loading = TRUE], <<fetchUsers(u)>>)

applySearch == "search" \in FilterOffers(ui) /\ Fetch([ui EXCEPT !.currentPage = 1])

goToPage ==
    \E p \in PaginationOffers(ui) : Fetch([ui EXCEPT !.currentPage = p])

createModal ==
    \/ /\ "showCreate" \in HeaderOffers(ui)
       /\ Handle([ui EXCEPT !.showCreateModal = TRUE], <<>>)
    \/ /\ "cancel" \in CreateModalOffers(ui)
       /\ Handle([ui EXCEPT !.showCreateModal = FALSE], <<>>)

createUser ==
    /\ "create" \in CreateModalOffers(ui)
    /\ Handle([ui EXCEPT !.saving = TRUE], <<Call("createUser", None, {"saving"})>>)

openRoleModal ==
    \E x \in Items :
      /\ <<"assignRoles", x>> \in TableOffers(ui)
      /\ Handle([ui EXCEPT !.selectedUser = x, !.showRoleModal = TRUE], <<>>)

cancelRoles ==
    /\ "cancel" \in RoleModalOffers(ui)
    /\ Handle([ui EXCEPT !.showRoleModal = FALSE], <<>>)

AssignRolesUnflagged ==
    /\ "save" \in RoleModalOffers(ui)
    /\ ui.selectedUser # None
    /\ Handle(ui, <<Call("assignRoles", ui.selectedUser, {"saving"})>>)

assignRoles ==
    /\ "save" \in RoleModalOffers(ui)
    /\ ui.selectedUser # None
    /\ Handle([ui EXCEPT !.saving = TRUE],
              <<Call("assignRoles", ui.selectedUser, {"saving"})>>)

deleteUser ==
    \E x \in Items : <<"delete", x>> \in TableOffers(ui) /\ askConfirm(x)

usersConfirmed ==
    runConfirm(ui, IF ui.confirmAction = None THEN <<>>
               ELSE <<Call("deleteUser", ui.confirmAction, {})>>)

\* The answer carries the number of pages there are by now.
fetchUsersThen(i) ==
    /\ calls[i].fn = "load"
    /\ \/ \E n \in 0 .. MaxPage :
            Settle(i, [ui EXCEPT !.users = [page |-> calls[i].arg, stamp |-> db.stamp],
                                 !.totalPages = n], db)
       \/ Fail(i, ui, db)

\* await fetchUsers() at the end of another function.
UsersRefetch(i, u) == Await(i, [u EXCEPT !.loading = TRUE], Changed, fetchUsers(u))

createUserThen(i) ==
    /\ calls[i].fn = "createUser"
    /\ UsersRefetch(i, [ui EXCEPT !.showCreateModal = FALSE]) \/ Fail(i, ui, Changed)

assignRolesThen(i) ==
    /\ calls[i].fn = "assignRoles"
    /\ UsersRefetch(i, [ui EXCEPT !.showRoleModal = FALSE]) \/ Fail(i, ui, Changed)

deleteUserThen(i) ==
    /\ calls[i].fn = "deleteUser"
    /\ UsersRefetch(i, ui) \/ Fail(i, ui, Changed)

UsersStep ==
    \/ applySearch \/ goToPage \/ createModal \/ createUser
    \/ openRoleModal \/ cancelRoles \/ assignRoles
    \/ deleteUser \/ usersConfirmed \/ cancelConfirm \/ dialogGone
    \/ \E i \in DOMAIN calls :
         \/ fetchUsersThen(i) \/ createUserThen(i)
         \/ assignRolesThen(i) \/ deleteUserThen(i)

UsersFresh == ui.users = [page |-> ui.currentPage, stamp |-> db.stamp]

----------------------------------------------------------------------------
(***************************************************************************)
(* The admin console's page of one user (frontends/admin, pages/users/     *)
(* UserDetailPage).  The record is reduced to a text field, email, and a   *)
(* flag, mfa_enabled; the other fields are saved like one or the other.    *)
(* Which roles there are and which are ticked is left out.  Switching tabs *)
(* changes nothing else and has no action.                                 *)
(***************************************************************************)

\* user = {} before the first load: the text reads as '', the flag as undefined,
\* which is no Boolean.
Unloaded == [email |-> 0, mfa_enabled |-> None]
EmptyForm == [email |-> 0, mfa_enabled |-> FALSE]

UserDb0 == [rec |-> [email |-> 1, mfa_enabled |-> TRUE], locked |-> FALSE]

UserUi0 ==
    Confirm0 @@
    [user |-> Unloaded, locked |-> FALSE, edit |-> EmptyForm, loading |-> TRUE, saving |-> FALSE]

fetchUser == Call("load", None, {"loading"})

\* onMounted
UserCalls0 == <<fetchUser, Call("fetchAllRoles", None, {})>>

Hidden(u) == u.loading \/ AppModalShown(u.dialog)

LockOffers(u) == IF Hidden(u) THEN {} ELSE IF u.locked THEN {"enable"} ELSE {"disable"}

InfoTabOffers(u) ==
    IF Hidden(u) THEN {} ELSE {"email", "mfa"} \cup (IF u.saving THEN {} ELSE {"save"})

SecurityTabOffers(u) == IF ~Hidden(u) /\ u.locked THEN {"enable"} ELSE {}

RolesTabOffers(u) ==
    IF Hidden(u) \/ u.saving THEN {} ELSE {"saveRoles"}

typeForm ==
    \/ /\ "email" \in InfoTabOffers(ui)
       /\ Type([ui EXCEPT !.edit.email = 3], "email")
    \/ /\ "mfa" \in InfoTabOffers(ui)
       /\ Type([ui EXCEPT !.edit.mfa_enabled = FALSE], "mfa_enabled")

saveInfo ==
    LET diff == Diff(ui.edit, ui.user)
    IN  /\ "save" \in InfoTabOffers(ui)
        /\ diff # {}
        /\ Handle([ui EXCEPT !.saving = TRUE],
                  <<Call("saveInfo", [put |-> [f \in diff |-> ui.edit[f]],
                                      stray |-> diff \ aux.touched,
                                      loaded |-> ui.user # Unloaded], {"saving"})>>)

saveRoles ==
    /\ "saveRoles" \in RolesTabOffers(ui)
    /\ Handle([ui EXCEPT !.saving = TRUE],
              <<Call("saveRoles", None, {"saving"})>>)

disableUser == "disable" \in LockOffers(ui) /\ askConfirm("disableUser")

userConfirmed ==
    runConfirm(ui, IF ui.confirmAction = None THEN <<>> ELSE <<Call("disableUser", None, {})>>)

enableUser ==
    /\ "enable" \in LockOffers(ui) \cup SecurityTabOffers(ui)
    /\ Handle(ui, <<Call("enableUser", None, {})>>)

fetchUserThen(i) ==
    /\ calls[i].fn = "load"
    /\ \/ SettleForm(i, [ui EXCEPT !.user = db.rec, !.edit = db.rec, !.locked = db.locked])
       \/ Fail(i, ui, db)

fetchAllRolesThen(i) ==
    /\ calls[i].fn = "fetchAllRoles"
    /\ Settle(i, ui, db) \/ Fail(i, ui, db)

UserRefetch(i, d) == Await(i, [ui EXCEPT !.loading = TRUE], d, fetchUser) \/ Fail(i, ui, d)

saveInfoThen(i) ==
    calls[i].fn = "saveInfo" /\ UserRefetch(i, [db EXCEPT !.rec = calls[i].arg.put @@ @])

\* The page is loaded again in the background: saving ends without waiting.
saveRolesThen(i) ==
    /\ calls[i].fn = "saveRoles"
    /\ \/ /\ ui' = Finally(calls[i], [ui EXCEPT !.loading = TRUE])
          /\ calls' = Append(RemoveAt(calls, i), fetchUser)
          /\ aux' = [aux EXCEPT !.alone = Len(calls) = 1]
          /\ UNCHANGED <<page, db>>
       \/ Fail(i, ui, db)

disableUserThen(i) == calls[i].fn = "disableUser" /\ UserRefetch(i, [db EXCEPT !.locked = TRUE])
enableUserThen(i) == calls[i].fn = "enableUser" /\ UserRefetch(i, [db EXCEPT !.locked = FALSE])

UserStep ==
    \/ typeForm \/ saveInfo \/ saveRoles \/ enableUser
    \/ disableUser \/ userConfirmed \/ cancelConfirm \/ dialogGone
    \/ \E i \in DOMAIN calls :
         \/ fetchUserThen(i) \/ fetchAllRolesThen(i) \/ saveInfoThen(i)
         \/ saveRolesThen(i) \/ disableUserThen(i) \/ enableUserThen(i)

UserFresh == ui.user = db.rec /\ ui.locked = db.locked

\* Every field that a loaded page sends was changed by the user.
OnlyEditedOnceLoaded ==
    \A i \in DOMAIN calls :
      calls[i].fn = "saveInfo" /\ calls[i].arg.loaded => calls[i].arg.stray = {}
=============================================================================
