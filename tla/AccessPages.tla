---------------------------- MODULE AccessPages -----------------------------
(***************************************************************************)
(* The admin console's pages of roles and of scopes.                       *)
(***************************************************************************)
EXTENDS PageRuntime

----------------------------------------------------------------------------
(***************************************************************************)
(* The admin console's role editor (frontends/admin, pages/roles).         *)
(*                                                                         *)
(* roles is the stamp of the list on screen.  editPermissions names the    *)
(* role whose permission set the checkboxes show, None for the empty set;  *)
(* ticking a box does not change whose set it is and has no action.        *)
(***************************************************************************)

RolesDb0 == [stamp |-> 0]

RolesUi0 ==
    Confirm0 @@
    [roles |-> None, loading |-> TRUE, saving |-> FALSE,
     showCreateModal |-> FALSE, showEditModal |-> FALSE, newRoleName |-> FALSE,
     selectedRole |-> None, editPermissions |-> None, crossed |-> FALSE]

fetchRoles == Call("load", None, {"loading"})

\* onMounted
RolesCalls0 == <<fetchRoles>>

RolesCovered(u) == u.showCreateModal \/ u.showEditModal \/ AppModalShown(u.dialog)

RolesHeaderOffers(u) == IF RolesCovered(u) THEN {} ELSE {"showCreate"}

\* The roles of Items are not built in; a built-in one has no delete button.
RolesTableOffers(u) ==
    IF RolesCovered(u) \/ u.loading \/ u.roles = None THEN {}
    ELSE {"edit", "delete"} \X Items

RolesCreateModalOffers(u) ==
    IF ~u.showCreateModal THEN {}
    ELSE {"name", "cancel"} \cup (IF u.saving \/ ~u.newRoleName THEN {} ELSE {"create"})

RolesEditModalOffers(u) ==
    IF ~u.showEditModal THEN {} ELSE {"cancel"} \cup (IF u.saving THEN {} ELSE {"save"})

rolesCreateModal ==
    \/ /\ "showCreate" \in RolesHeaderOffers(ui)
       /\ Handle([ui EXCEPT !.showCreateModal = TRUE], <<>>)
    \/ /\ "name" \in RolesCreateModalOffers(ui) /\ ~ui.newRoleName
       /\ Handle([ui EXCEPT !.newRoleName = TRUE], <<>>)
    \/ /\ "cancel" \in RolesCreateModalOffers(ui)
       /\ Handle([ui EXCEPT !.showCreateModal = FALSE], <<>>)

createRole ==
    /\ "create" \in RolesCreateModalOffers(ui)
    /\ Handle([ui EXCEPT !.saving = TRUE], <<Call("createRole", None, {"saving"})>>)

\* crossed (observer): an editor was opened while the load of another was in flight.
Opening == \E i \in DOMAIN calls : calls[i].fn = "openEditModal"

\* A plausible slip: the previous role's boxes stay ticked until the load ends.
OpenEditModalUncleared ==
    \E r \in Items :
      /\ <<"edit", r>> \in RolesTableOffers(ui)
      /\ Handle([ui EXCEPT !.selectedRole = r, !.showEditModal = TRUE, !.crossed = @ \/ Opening],
                <<Call("openEditModal", r, {})>>)

rolesOpenEditModal ==
    \E r \in Items :
      /\ <<"edit", r>> \in RolesTableOffers(ui)
      /\ Handle([ui EXCEPT !.selectedRole = r, !.editPermissions = None,
                           !.showEditModal = TRUE, !.crossed = @ \/ Opening],
                <<Call("openEditModal", r, {})>>)

rolesCancelEdit ==
    /\ "cancel" \in RolesEditModalOffers(ui)
    /\ Handle([ui EXCEPT !.showEditModal = FALSE], <<>>)

updateRole ==
    /\ "save" \in RolesEditModalOffers(ui)
    /\ ui.selectedRole # None
    /\ Handle([ui EXCEPT !.saving = TRUE],
              <<Call("updateRole", ui.selectedRole, {"saving"})>>)

deleteRole ==
    \E r \in Items : <<"delete", r>> \in RolesTableOffers(ui) /\ askConfirm(r)

rolesConfirmed ==
    runConfirm(ui, IF ui.confirmAction = None THEN <<>>
               ELSE <<Call("deleteRole", ui.confirmAction, {})>>)

fetchRolesThen(i) ==
    /\ calls[i].fn = "load"
    /\ \/ Settle(i, [ui EXCEPT !.roles = db.stamp], db)
       \/ Fail(i, ui, db)

\* await fetchRoles() at the end of another function.
RolesRefetch(i, u, d) == Await(i, [u EXCEPT !.loading = TRUE], d, fetchRoles)

createRoleThen(i) ==
    /\ calls[i].fn = "createRole"
    /\ \/ RolesRefetch(i, [ui EXCEPT !.showCreateModal = FALSE, !.newRoleName = FALSE], Changed)
       \/ Fail(i, ui, Changed)

\* The continuation does not ask which role is being edited by now.
openEditModalThen(i) ==
    /\ calls[i].fn = "openEditModal"
    /\ \/ Settle(i, [ui EXCEPT !.editPermissions = calls[i].arg], db)
       \/ Fail(i, ui, db)

\* The second PUT reads the selected role and the boxes again.
updateRoleThen(i) ==
    /\ calls[i].fn = "updateRole"
    /\ \/ Await(i, ui, Changed,
                Call("permissions", [at |-> ui.selectedRole, to |-> ui.editPermissions], {}))
       \/ Fail(i, ui, Changed)

permissionsThen(i) ==
    /\ calls[i].fn = "permissions"
    /\ \/ RolesRefetch(i, [ui EXCEPT !.showEditModal = FALSE], Changed)
       \/ Fail(i, ui, Changed)

deleteRoleThen(i) ==
    /\ calls[i].fn = "deleteRole"
    /\ RolesRefetch(i, ui, Changed) \/ Fail(i, ui, Changed)

RolesStep ==
    \/ rolesCreateModal \/ createRole \/ rolesOpenEditModal \/ rolesCancelEdit \/ updateRole
    \/ deleteRole \/ rolesConfirmed \/ cancelConfirm \/ dialogGone
    \/ \E i \in DOMAIN calls :
         \/ fetchRolesThen(i) \/ createRoleThen(i) \/ openEditModalThen(i)
         \/ updateRoleThen(i) \/ permissionsThen(i) \/ deleteRoleThen(i)

RolesFresh == ui.roles = db.stamp

\* Every permission set on its way to the server belongs to the role it replaces,
\* or is empty, unless loads of two editors crossed.
PermissionsOfRole ==
    ui.crossed \/ \A i \in DOMAIN calls :
      calls[i].fn = "permissions" => calls[i].arg.to \in {calls[i].arg.at, None}

----------------------------------------------------------------------------
(***************************************************************************)
(* The admin console's scope catalogue (frontends/admin, pages/scopes).    *)
(* scopes is the stamp of the list on screen.                              *)
(***************************************************************************)

ScopesDb0 == [stamp |-> 0]

ScopesUi0 ==
    Confirm0 @@
    [scopes |-> None, loading |-> TRUE, saving |-> FALSE,
     showCreateModal |-> FALSE, showEditModal |-> FALSE, newScope |-> FALSE,
     selectedScope |-> None]

fetchScopes == Call("load", None, {"loading"})

\* onMounted
ScopesCalls0 == <<fetchScopes>>

ScopesCovered(u) == u.showCreateModal \/ u.showEditModal \/ AppModalShown(u.dialog)

ScopesHeaderOffers(u) == IF ScopesCovered(u) THEN {} ELSE {"showCreate"}

\* The scopes of Items are not built in; a built-in one has no delete button.
ScopesTableOffers(u) ==
    IF ScopesCovered(u) \/ u.loading \/ u.scopes = None THEN {}
    ELSE {"edit", "delete"} \X Items

\* newScope: the form has a name.
ScopesCreateModalOffers(u) ==
    IF ~u.showCreateModal THEN {}
    ELSE {"name", "cancel"} \cup (IF u.saving \/ ~u.newScope THEN {} ELSE {"create"})

ScopesEditModalOffers(u) ==
    IF ~u.showEditModal THEN {} ELSE {"cancel"} \cup (IF u.saving THEN {} ELSE {"save"})

scopesCreateModal ==
    \/ /\ "showCreate" \in ScopesHeaderOffers(ui)
       /\ Handle([ui EXCEPT !.showCreateModal = TRUE], <<>>)
    \/ /\ "name" \in ScopesCreateModalOffers(ui) /\ ~ui.newScope
       /\ Handle([ui EXCEPT !.newScope = TRUE], <<>>)
    \/ /\ "cancel" \in ScopesCreateModalOffers(ui)
       /\ Handle([ui EXCEPT !.showCreateModal = FALSE], <<>>)

createScope ==
    /\ "create" \in ScopesCreateModalOffers(ui)
    /\ Handle([ui EXCEPT !.saving = TRUE], <<Call("createScope", None, {"saving"})>>)

scopesOpenEditModal ==
    \E s \in Items :
      /\ <<"edit", s>> \in ScopesTableOffers(ui)
      /\ Handle([ui EXCEPT !.selectedScope = s, !.showEditModal = TRUE], <<>>)

scopesCancelEdit ==
    /\ "cancel" \in ScopesEditModalOffers(ui)
    /\ Handle([ui EXCEPT !.showEditModal = FALSE], <<>>)

updateScope ==
    /\ "save" \in ScopesEditModalOffers(ui)
    /\ ui.selectedScope # None
    /\ Handle([ui EXCEPT !.saving = TRUE],
              <<Call("updateScope", ui.selectedScope, {"saving"})>>)

deleteScope ==
    \E s \in Items : <<"delete", s>> \in ScopesTableOffers(ui) /\ askConfirm(s)

scopesConfirmed ==
    runConfirm(ui, IF ui.confirmAction = None THEN <<>>
               ELSE <<Call("deleteScope", ui.confirmAction, {})>>)

fetchScopesThen(i) ==
    /\ calls[i].fn = "load"
    /\ Settle(i, [ui EXCEPT !.scopes = db.stamp], db) \/ Fail(i, ui, db)

\* await fetchScopes() at the end of another function.
ScopesRefetch(i, u) == Await(i, [u EXCEPT !.loading = TRUE], Changed, fetchScopes)

createScopeThen(i) ==
    /\ calls[i].fn = "createScope"
    /\ \/ ScopesRefetch(i, [ui EXCEPT !.showCreateModal = FALSE, !.newScope = FALSE])
       \/ Fail(i, ui, Changed)

updateScopeThen(i) ==
    /\ calls[i].fn = "updateScope"
    /\ ScopesRefetch(i, [ui EXCEPT !.showEditModal = FALSE]) \/ Fail(i, ui, Changed)

deleteScopeThen(i) ==
    /\ calls[i].fn = "deleteScope"
    /\ ScopesRefetch(i, ui) \/ Fail(i, ui, Changed)

ScopesStep ==
    \/ scopesCreateModal \/ createScope \/ scopesOpenEditModal \/ scopesCancelEdit \/ updateScope
    \/ deleteScope \/ scopesConfirmed \/ cancelConfirm \/ dialogGone
    \/ \E i \in DOMAIN calls :
         \/ fetchScopesThen(i) \/ createScopeThen(i)
         \/ updateScopeThen(i) \/ deleteScopeThen(i)

ScopesFresh == ui.scopes = db.stamp
=============================================================================
