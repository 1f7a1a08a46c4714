----------------------- MODULE AdminOrganizationPages -----------------------
(***************************************************************************)
(* The admin console's list of organizations and its page of one.          *)
(***************************************************************************)
EXTENDS PageRuntime

----------------------------------------------------------------------------
(***************************************************************************)
(* The admin console's list of organizations with its create form          *)
(* (frontends/admin, pages/organizations/OrganizationsPage).  orgs is the  *)
(* stamp of the list on screen.  The form is inline: it covers nothing, so *)
(* it can be closed, opened and filled again while a create is in flight.  *)
(***************************************************************************)

OrganizationsDb0 == [stamp |-> 0]

OrganizationsUi0 ==
    [orgs |-> None, loading |-> TRUE, creating |-> FALSE,
     showCreate |-> FALSE, createForm |-> FALSE]

fetchOrgs == Call("load", None, {"loading"})

\* onMounted
OrganizationsCalls0 == <<fetchOrgs>>

\* createForm: the required fields have been filled in.
CreateFormOffers(u) ==
    IF ~u.showCreate THEN {}
    ELSE {"fields"} \cup (IF u.creating \/ ~u.createForm THEN {} ELSE {"submit"})

toggleCreate == Handle([ui EXCEPT !.showCreate = ~@], <<>>)

organizationsTypeForm ==
    /\ "fields" \in CreateFormOffers(ui) /\ ~ui.createForm
    /\ Handle([ui EXCEPT !.createForm = TRUE], <<>>)

createOrg ==
    /\ "submit" \in CreateFormOffers(ui)
    /\ Handle([ui EXCEPT !.creating = TRUE], <<Call("createOrg", None, {"creating"})>>)

fetchOrgsThen(i) ==
    /\ calls[i].fn = "load"
    /\ Settle(i, [ui EXCEPT !.orgs = db.stamp], db) \/ Fail(i, ui, db)

createOrgThen(i) ==
    /\ calls[i].fn = "createOrg"
    /\ \/ Await(i, [ui EXCEPT !.showCreate = FALSE, !.createForm = FALSE, !.loading = TRUE],
                Changed, fetchOrgs)
       \/ Fail(i, ui, Changed)

OrganizationsStep ==
    \/ toggleCreate \/ organizationsTypeForm \/ createOrg
    \/ \E i \in DOMAIN calls : fetchOrgsThen(i) \/ createOrgThen(i)

OrganizationsFresh == ui.orgs = db.stamp

----------------------------------------------------------------------------
(***************************************************************************)
(* The admin console's page of one organization (frontends/admin, pages/   *)
(* organizations/OrganizationDetailPage): the brand form, the members, the *)
(* transfer of ownership and deletion.  The form is reduced to two fields. *)
(* members is the stamp of the list on screen.                             *)
(***************************************************************************)

OrganizationDb0 == [rec |-> [name |-> 1, logo_uri |-> 0], stamp |-> 0]

OrganizationUi0 ==
    Confirm0 @@
    [org |-> None, edit |-> [name |-> 0, logo_uri |-> 0], members |-> None,
     loading |-> TRUE, saving |-> FALSE, left |-> FALSE]

fetchOrg == Call("load", None, {"loading"})
fetchMembers == Call("members", None, {})

\* onMounted
OrganizationCalls0 == <<fetchOrg, fetchMembers>>

Hidden(u) == u.left \/ u.loading \/ AppModalShown(u.dialog)

EditOffers(u) ==
    IF Hidden(u) THEN {} ELSE {"name", "logo_uri"} \cup (IF u.saving THEN {} ELSE {"save"})

MembersOffers(u) == IF Hidden(u) \/ u.members = None THEN {} ELSE {"remove"} \X Items

\* A valid user id is typed and submitted in one step.
TransferOffers(u) == IF Hidden(u) THEN {} ELSE {"transfer"}

DangerOffers(u) == IF Hidden(u) THEN {} ELSE {"delete"}

organizationTypeForm ==
    \E f \in {"name", "logo_uri"} :
      /\ f \in EditOffers(ui)
      /\ Type([ui EXCEPT !.edit[f] = 3], f)

\* Without a loaded organization the comparison throws, and nothing is sent.
saveChanges ==
    /\ "save" \in EditOffers(ui)
    /\ ui.org # None
    /\ LET diff == Diff(ui.edit, ui.org)
       IN  /\ diff # {}
           /\ Handle([ui EXCEPT !.saving = TRUE],
                     <<Call("saveChanges", [put |-> [f \in diff |-> ui.edit[f]],
                                            stray |-> diff \ aux.touched], {"saving"})>>)

removeMember ==
    \E m \in Items :
      <<"remove", m>> \in MembersOffers(ui) /\ askConfirm([op |-> "removeMember", at |-> m])

transferOwnership ==
    "transfer" \in TransferOffers(ui) /\ askConfirm([op |-> "transferOwnership", at |-> None])

deleteOrg == "delete" \in DangerOffers(ui) /\ askConfirm([op |-> "deleteOrg", at |-> None])

confirmed ==
    /\ ~ui.left
    /\ runConfirm(ui, IF ui.confirmAction = None THEN <<>>
                  ELSE <<Call(ui.confirmAction.op, ui.confirmAction.at, {})>>)

fetchOrgThen(i) ==
    /\ calls[i].fn = "load"
    /\ \/ SettleForm(i, [ui EXCEPT !.org = db.rec, !.edit = db.rec])
       \/ Fail(i, ui, db)

fetchMembersThen(i) ==
    /\ calls[i].fn = "members"
    /\ \/ Settle(i, [ui EXCEPT !.members = db.stamp], db)
       \/ Fail(i, [ui EXCEPT !.members = None], db)

saveChangesThen(i) ==
    /\ calls[i].fn = "saveChanges"
    /\ LET d == [db EXCEPT !.rec = calls[i].arg.put @@ @]
       IN  Await(i, [ui EXCEPT !.loading = TRUE], d, fetchOrg) \/ Fail(i, ui, d)

removeMemberThen(i) ==
    /\ calls[i].fn = "removeMember"
    /\ Await(i, ui, Changed, fetchMembers) \/ Fail(i, ui, Changed)

transferOwnershipThen(i) ==
    /\ calls[i].fn = "transferOwnership"
    /\ Await(i, ui, Changed, fetchMembers) \/ Fail(i, ui, Changed)

\* window.location leaves the application: the calls in flight go with it.
deleteOrgThen(i) ==
    /\ calls[i].fn = "deleteOrg"
    /\ \/ /\ ui' = [ui EXCEPT !.left = TRUE, !.saving = FALSE, !.dialog = "closed"]
          /\ calls' = <<>>
          /\ UNCHANGED <<page, db, aux>>
       \/ Fail(i, ui, db)

OrganizationStep ==
    \/ organizationTypeForm \/ saveChanges \/ removeMember \/ transferOwnership
    \/ deleteOrg \/ confirmed \/ cancelConfirm \/ dialogGone
    \/ \E i \in DOMAIN calls :
         \/ fetchOrgThen(i) \/ fetchMembersThen(i) \/ saveChangesThen(i)
         \/ removeMemberThen(i) \/ transferOwnershipThen(i) \/ deleteOrgThen(i)

OrganizationFresh == ui.left \/ ui.org = db.rec

\* Every field that is sent was changed by the user.
OnlyEdited ==
    \A i \in DOMAIN calls :
      calls[i].fn = "saveChanges" => calls[i].arg.stray = {}
=============================================================================
