------------------------- MODULE PortalMembersPanel -------------------------
(***************************************************************************)
(* The portal's organizations (frontends/user, pages/account/              *)
(* OrganizationsPage): the list, the forms around it and the members panel.*)
(* The consents panel of the same page is PortalConsentsPanel; the two     *)
(* share the list and the dialog only.                                     *)
(*                                                                         *)
(* One members panel serves all organizations, the Items.  members names   *)
(* the organization whose members it holds, and lastInviteToken the one    *)
(* invited to and the one whose panel was open when the answer came; None  *)
(* is none.  orgs is the stamp of the list on screen.  The user manages    *)
(* every organization listed; inputs are filled in and submitted in one    *)
(* step.                                                                   *)
(*                                                                         *)
(* Each expansion and each refresh draws a sequence number, and an answer  *)
(* is used only if its number is still the last one drawn.  A call carries *)
(* latest, which says so, in place of the number.                          *)
(***************************************************************************)
EXTENDS PageRuntime

Db0 == [stamp |-> 0]

\* lost: the last load of the panel has failed, and an error is on screen.
Ui0 == Confirm0 @@
       [orgs |-> None, loading |-> TRUE, creating |-> FALSE, accepting |-> FALSE,
        expandedSlug |-> None, members |-> None, lastInviteToken |-> None, lost |-> FALSE]

fetchOrgs == Call("load", None, {"loading"})

\* onMounted
Calls0 == <<fetchOrgs>>

MembersCall(slug) == Call("members", [at |-> slug, latest |-> TRUE], {})

\* The calls after a sequence number has been drawn.
Overtaken(cs) ==
    [i \in DOMAIN cs |-> IF cs[i].fn = "members" THEN [cs[i] EXCEPT !.arg.latest = FALSE]
                         ELSE cs[i]]

HeadOffers(u) ==
    IF AppModalShown(u.dialog) THEN {}
    ELSE (IF u.creating THEN {} ELSE {"createOrg"})
         \cup (IF u.accepting THEN {} ELSE {"acceptInvite"})
         \cup (IF u.orgs = None THEN {} ELSE {"acceptSuccession"})

ListOffers(u) ==
    IF AppModalShown(u.dialog) \/ u.loading \/ u.orgs = None THEN {}
    ELSE {"members"} \X Items

\* The panel is drawn inside the list item of its organization.
PanelOffers(u) ==
    IF AppModalShown(u.dialog) \/ u.loading \/ u.expandedSlug = None THEN {}
    ELSE {"invite", "nominate", "withdraw"}
         \cup (IF u.members = None THEN {} ELSE {"remove"})
         \cup (IF u.lastInviteToken = None THEN {} ELSE {"dismiss"})

----------------------------------------------------------------------------
createOrg ==
    /\ "createOrg" \in HeadOffers(ui)
    /\ Handle([ui EXCEPT !.creating = TRUE], <<Call("createOrg", None, {"creating"})>>)

acceptInvite ==
    /\ "acceptInvite" \in HeadOffers(ui)
    /\ Handle([ui EXCEPT !.accepting = TRUE], <<Call("acceptInvite", None, {"accepting"})>>)

acceptSuccession ==
    /\ "acceptSuccession" \in HeadOffers(ui)
    /\ Handle(ui, <<Call("acceptSuccession", None, {})>>)

\* A plausible slip: the token stays when the panel moves on to another organization.
ToggleMembersTokenKept ==
    \E slug \in Items :
      /\ <<"members", slug>> \in ListOffers(ui)
      /\ IF ui.expandedSlug = slug THEN Handle([ui EXCEPT !.expandedSlug = None], <<>>)
         ELSE /\ Len(calls) < MaxCalls
              /\ ui' = [ui EXCEPT !.expandedSlug = slug, !.members = None, !.lost = FALSE]
              /\ calls' = Append(Overtaken(calls), MembersCall(slug))
              /\ aux' = Used
              /\ UNCHANGED <<page, db>>

toggleMembers ==
    \E slug \in Items :
      /\ <<"members", slug>> \in ListOffers(ui)
      /\ IF ui.expandedSlug = slug THEN Handle([ui EXCEPT !.expandedSlug = None], <<>>)
         ELSE /\ Len(calls) < MaxCalls
              /\ ui' = [ui EXCEPT !.expandedSlug = slug, !.members = None,
                                  !.lastInviteToken = None, !.lost = FALSE]
              /\ calls' = Append(Overtaken(calls), MembersCall(slug))
              /\ aux' = Used
              /\ UNCHANGED <<page, db>>

invite ==
    /\ "invite" \in PanelOffers(ui)
    /\ Handle(ui, <<Call("invite", ui.expandedSlug, {})>>)

dismissToken ==
    /\ "dismiss" \in PanelOffers(ui)
    /\ Handle([ui EXCEPT !.lastInviteToken = None], <<>>)

nominateSuccessor ==
    /\ "nominate" \in PanelOffers(ui)
    /\ Handle(ui, <<Call("nominateSuccessor", ui.expandedSlug, {})>>)

withdrawSuccession ==
    /\ "withdraw" \in PanelOffers(ui)
    /\ Handle(ui, <<Call("withdrawSuccession", None, {})>>)

removeMember == "remove" \in PanelOffers(ui) /\ askConfirm(ui.expandedSlug)

confirmed ==
    runConfirm(ui, IF ui.confirmAction = None THEN <<>>
                   ELSE <<Call("removeMember", ui.confirmAction, {})>>)

----------------------------------------------------------------------------
fetchOrgsThen(i) ==
    /\ calls[i].fn = "load"
    /\ Settle(i, [ui EXCEPT !.orgs = db.stamp], db) \/ Fail(i, ui, db)

\* createOrg, acceptInvite, acceptSuccession and withdrawSuccession.
RefetchThen(i) ==
    /\ calls[i].fn \in {"createOrg", "acceptInvite", "acceptSuccession", "withdrawSuccession"}
    /\ \/ Await(i, [ui EXCEPT !.loading = TRUE], Changed, fetchOrgs)
       \/ Fail(i, ui, Changed)

\* A plausible slip: the answer is used whichever panel is open by now.
MembersUnguarded(i) ==
    /\ calls[i].fn = "members"
    /\ \/ Settle(i, [ui EXCEPT !.members = calls[i].arg.at], db)
       \/ Fail(i, [ui EXCEPT !.lost = @ \/ calls[i].arg.latest], db)

membersThen(i) ==
    /\ calls[i].fn = "members"
    /\ LET at == calls[i].arg.at
           latest == calls[i].arg.latest
       IN  \/ Settle(i, IF latest /\ ui.expandedSlug = at THEN [ui EXCEPT !.members = at]
                        ELSE ui, db)
           \/ Fail(i, [ui EXCEPT !.lost = @ \/ latest], db)

\* A plausible slip: a number is drawn whichever panel is open.
RefreshMembersUnasked(i, u, slug) ==
    /\ ui' = [Finally(calls[i], u) EXCEPT !.lost = FALSE]
    /\ calls' = Append(Overtaken(RemoveAt(calls, i)), MembersCall(slug))
    /\ UNCHANGED page

\* The rest of a function that leaves the refs u and awaits refreshMembers(slug).
refreshMembers(i, u, slug) ==
    /\ IF u.expandedSlug # slug
       THEN ui' = Finally(calls[i], u) /\ calls' = RemoveAt(calls, i)
       ELSE /\ ui' = [Finally(calls[i], u) EXCEPT !.lost = FALSE]
            /\ calls' = Append(Overtaken(RemoveAt(calls, i)), MembersCall(slug))
    /\ UNCHANGED page

removeMemberThen(i) ==
    /\ calls[i].fn = "removeMember"
    /\ \/ refreshMembers(i, ui, calls[i].arg) /\ UNCHANGED <<db, aux>>
       \/ Fail(i, ui, db)

\* fetchOrgs swallows its own failure, so that refreshMembers follows either way.
nominateSuccessorThen(i) ==
    \/ /\ calls[i].fn = "nominateSuccessor"
       /\ \/ Await(i, [ui EXCEPT !.loading = TRUE], Changed,
                   Call("nominateLoad", calls[i].arg, {"loading"}))
          \/ Fail(i, ui, Changed)
    \/ /\ calls[i].fn = "nominateLoad"
       /\ \/ refreshMembers(i, [ui EXCEPT !.orgs = db.stamp], calls[i].arg) /\ UNCHANGED aux
          \/ refreshMembers(i, ui, calls[i].arg) /\ aux' = [aux EXCEPT !.calm = FALSE]
       /\ UNCHANGED db

\* The panel that is open by now shows the token.
inviteThen(i) ==
    /\ calls[i].fn = "invite"
    /\ \/ Settle(i, [ui EXCEPT !.lastInviteToken = [of |-> calls[i].arg, under |-> ui.expandedSlug]],
                 db)
       \/ Fail(i, ui, db)

Step ==
    \/ createOrg \/ acceptInvite \/ acceptSuccession \/ toggleMembers \/ invite \/ dismissToken
    \/ nominateSuccessor \/ withdrawSuccession \/ removeMember
    \/ confirmed \/ cancelConfirm \/ dialogGone
    \/ \E i \in DOMAIN calls :
         \/ fetchOrgsThen(i) \/ RefetchThen(i) \/ membersThen(i) \/ removeMemberThen(i)
         \/ nominateSuccessorThen(i) \/ inviteThen(i)

Fresh == ui.orgs = db.stamp

\* The members under an organization are its own, and the invite token under it came
\* while it was open.
OwnMembers ==
    ui.expandedSlug # None =>
      /\ ui.members \in {None, ui.expandedSlug}
      /\ ui.lastInviteToken # None => ui.lastInviteToken.under = ui.expandedSlug

\* An open panel shows the members, waits for them, or has reported a failure.
PanelLoads ==
    \/ ui.expandedSlug \in {None, ui.members} \/ ui.lost
    \/ \E i \in DOMAIN calls :
         /\ calls[i].fn = "members"
         /\ calls[i].arg = [at |-> ui.expandedSlug, latest |-> TRUE]
=============================================================================
