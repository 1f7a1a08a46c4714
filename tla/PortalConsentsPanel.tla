------------------------ MODULE PortalConsentsPanel ------------------------
(***************************************************************************)
(* The consents panel of the portal's organizations (frontends/user,       *)
(* pages/account/OrganizationsPage): the applications an organization has  *)
(* authorized and the requests of its members that await a decision.  The  *)
(* list of organizations around it is loaded.                              *)
(*                                                                         *)
(* One panel serves all organizations, the Items.  consents,               *)
(* pendingRequests and grantLink name the organization whose data they     *)
(* hold, None for none.  Each list has a sequence counter; a call carries  *)
(* latest, the counters whose last number it has drawn.                    *)
(***************************************************************************)
EXTENDS PageRuntime

Counters == {"consents", "requests"}

Db0 == [stamp |-> 0]

\* lost: the lists whose last load has failed.  passed: the lists whose last load
\* was overtaken by a refresh for another organization or, when it was half of a
\* refresh of the panel, by a revocation.
Ui0 == Confirm0 @@
       [expandedConsentsSlug |-> None, consents |-> None, pendingRequests |-> None,
        grantLink |-> None, lost |-> {}, passed |-> {}]

Calls0 == <<>>

PanelCall(fn, slug, drawn) == Call(fn, [at |-> slug, latest |-> drawn], {})

\* The calls after a number has been drawn from each of the counters in S.
Overtaken(cs, S) == [i \in DOMAIN cs |-> [cs[i] EXCEPT !.arg.latest = @ \ S]]

ListOffers(u) == IF AppModalShown(u.dialog) THEN {} ELSE {"consents"} \X Items

PanelOffers(u) ==
    IF AppModalShown(u.dialog) \/ u.expandedConsentsSlug = None THEN {}
    ELSE (IF u.pendingRequests = None THEN {} ELSE {"approve", "reject"})
         \cup (IF u.consents = None THEN {} ELSE {"revoke"})
         \cup {"generate"}

\* The numbers that a handler draws, the refs it leaves and the calls it sends.
Send(u, S, new) ==
    /\ ui' = u
    /\ calls' = Overtaken(calls, S) \o new
    /\ aux' = Used
    /\ UNCHANGED <<page, db>>

toggleConsents ==
    \E slug \in Items :
      /\ <<"consents", slug>> \in ListOffers(ui)
      /\ IF ui.expandedConsentsSlug = slug
         THEN Handle([ui EXCEPT !.expandedConsentsSlug = None], <<>>)
         ELSE /\ Len(calls) < MaxCalls
              /\ Send([ui EXCEPT !.expandedConsentsSlug = slug, !.consents = None,
                                 !.pendingRequests = None, !.grantLink = None,
                                 !.lost = {}, !.passed = {}],
                      Counters,
                      <<PanelCall("requests", slug, {"requests"}),
                        PanelCall("consents", slug, {"consents"})>>)

generateGrantLink ==
    /\ "generate" \in PanelOffers(ui)
    /\ Handle([ui EXCEPT !.grantLink = ui.expandedConsentsSlug], <<>>)

approveConsentRequest ==
    "approve" \in PanelOffers(ui) /\ askConfirm([op |-> "approve", at |-> ui.expandedConsentsSlug])

rejectConsentRequest ==
    "reject" \in PanelOffers(ui) /\ askConfirm([op |-> "reject", at |-> ui.expandedConsentsSlug])

revokeConsents ==
    "revoke" \in PanelOffers(ui) /\ askConfirm([op |-> "revoke", at |-> ui.expandedConsentsSlug])

\* A revocation draws its number before it is sent.
confirmed ==
    LET action == ui.confirmAction
        revoke == action # None /\ action.op = "revoke"
        halved == revoke /\ \E i \in DOMAIN calls :
                              calls[i].fn = "panel" /\ "requests" \in calls[i].arg.latest
    IN  /\ "confirm" \in AppConfirmDialogOffers(ui)
        /\ Len(calls) < MaxCalls
        /\ ui' = [ui EXCEPT !.dialog = "leaving", !.confirmAction = None,
                             !.passed = IF halved THEN @ \cup {"requests"} ELSE @]
        /\ calls' = IF action = None THEN calls
                    ELSE Append(Overtaken(calls, IF revoke THEN {"consents"} ELSE {}),
                                PanelCall(action.op, action.at,
                                          IF revoke THEN {"consents"} ELSE {}))
        /\ aux' = [Used EXCEPT !.runs = IF action = None THEN @ ELSE @ + 1]
        /\ UNCHANGED <<page, db>>

----------------------------------------------------------------------------
\* Whether the answer of call i may still change the list of counter c.
Current(i, c) ==
    c \in calls[i].arg.latest /\ ui.expandedConsentsSlug = calls[i].arg.at

fetchPendingRequestsThen(i) ==
    /\ calls[i].fn = "requests"
    /\ \/ Settle(i, IF Current(i, "requests")
                    THEN [ui EXCEPT !.pendingRequests = calls[i].arg.at] ELSE ui, db)
       \/ Fail(i, IF Current(i, "requests") THEN [ui EXCEPT !.lost = @ \cup {"requests"}]
                  ELSE ui, db)

\* The end of toggleConsents and of a revocation.
consentsThen(i) ==
    /\ calls[i].fn = "consents"
    /\ \/ Settle(i, IF Current(i, "consents")
                    THEN [ui EXCEPT !.consents = calls[i].arg.at] ELSE ui, db)
       \/ Fail(i, IF Current(i, "consents") THEN [ui EXCEPT !.lost = @ \cup {"consents"}]
                  ELSE ui, db)

\* Both numbers are drawn whichever panel is open.
refreshConsentPanel(i) ==
    LET slug == calls[i].arg.at
    IN  /\ ui' = IF ui.expandedConsentsSlug = slug
                 THEN [ui EXCEPT !.lost = {}, !.passed = {}]
                 ELSE [ui EXCEPT !.passed = Counters]
        /\ calls' = Append(Overtaken(RemoveAt(calls, i), Counters),
                           PanelCall("panel", slug, Counters))
        /\ UNCHANGED <<page, db, aux>>

decidedThen(i) ==
    /\ calls[i].fn \in {"approve", "reject"}
    /\ refreshConsentPanel(i) \/ Fail(i, ui, db)

\* A plausible slip: only the numbers are compared.
PanelUnguarded(i) ==
    /\ calls[i].fn = "panel"
    /\ \/ Settle(i, IF calls[i].arg.latest = Counters
                    THEN [ui EXCEPT !.consents = calls[i].arg.at,
                                    !.pendingRequests = calls[i].arg.at] ELSE ui, db)
       \/ Fail(i, IF Current(i, "consents") THEN [ui EXCEPT !.lost = Counters] ELSE ui, db)

\* Promise.all of the two lists; an answer is used if both are still awaited.
refreshConsentPanelThen(i) ==
    /\ calls[i].fn = "panel"
    /\ \/ Settle(i, IF \A c \in Counters : Current(i, c)
                    THEN [ui EXCEPT !.consents = calls[i].arg.at,
                                    !.pendingRequests = calls[i].arg.at] ELSE ui, db)
       \/ Fail(i, IF Current(i, "consents") THEN [ui EXCEPT !.lost = Counters] ELSE ui, db)

revokeConsentsThen(i) ==
    /\ calls[i].fn = "revoke"
    /\ \/ Await(i, ui, db, [calls[i] EXCEPT !.fn = "consents"])
       \/ Fail(i, IF "consents" \in calls[i].arg.latest
                  THEN [ui EXCEPT !.lost = @ \cup {"consents"}] ELSE ui, db)

Step ==
    \/ toggleConsents \/ generateGrantLink
    \/ approveConsentRequest \/ rejectConsentRequest \/ revokeConsents
    \/ confirmed \/ cancelConfirm \/ dialogGone
    \/ \E i \in DOMAIN calls :
         \/ fetchPendingRequestsThen(i) \/ consentsThen(i) \/ decidedThen(i)
         \/ refreshConsentPanelThen(i) \/ revokeConsentsThen(i)

\* What is shown under an organization is its own.
OwnPanel ==
    ui.expandedConsentsSlug # None =>
      {ui.consents, ui.pendingRequests, ui.grantLink} \subseteq {None, ui.expandedConsentsSlug}

\* An open panel shows its list of counter c, waits for it, or has reported a failure.
Loads(c, list) ==
    \/ ui.expandedConsentsSlug \in {None, list} \/ c \in ui.lost
    \/ \E i \in DOMAIN calls : Current(i, c)

\* Both lists load, but for those whose load the code itself has overtaken.
PanelLoadsUndisturbed ==
    /\ "consents" \in ui.passed \/ Loads("consents", ui.consents)
    /\ "requests" \in ui.passed \/ Loads("requests", ui.pendingRequests)
=============================================================================
