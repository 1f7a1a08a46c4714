----------------------- MODULE PortalApplicationPages -----------------------
(***************************************************************************)
(* The portal's two pages about clients, and the dialog they share.        *)
(***************************************************************************)
EXTENDS PageRuntime

----------------------------------------------------------------------------
(***************************************************************************)
(* The dialog in which a member asks an organization to authorize an       *)
(* application.  The portal's applications page and its page of authorized *)
(* applications each have a copy of it.  Which application and which       *)
(* organization it is about is left out: a request is sent with what the   *)
(* dialog shows.                                                           *)
(***************************************************************************)

\* requestAuthOrgs: the user is in an organization that can be chosen.
RequestAuth0 ==
    [requestAuthOpen |-> FALSE, requestAuthOrgs |-> FALSE,
     requestAuthLoading |-> FALSE, requestAuthSubmitting |-> FALSE]

RequestAuthOffers(u) ==
    IF ~u.requestAuthOpen THEN {}
    ELSE {"close"} \cup (IF u.requestAuthLoading \/ ~u.requestAuthOrgs \/ u.requestAuthSubmitting
                         THEN {} ELSE {"submit"})

\* The organizations are loaded each time the dialog is opened.
OpenRequestAuth ==
    Handle([ui EXCEPT !.requestAuthOrgs = FALSE, !.requestAuthOpen = TRUE,
                      !.requestAuthLoading = TRUE],
           <<Call("organizations", None, {"requestAuthLoading"})>>)

CloseRequestAuth ==
    /\ "close" \in RequestAuthOffers(ui)
    /\ Handle([ui EXCEPT !.requestAuthOpen = FALSE], <<>>)

SubmitRequestAuth ==
    /\ "submit" \in RequestAuthOffers(ui)
    /\ Handle([ui EXCEPT !.requestAuthSubmitting = TRUE],
              <<Call("submitRequestAuth", None, {"requestAuthSubmitting"})>>)

\* A failure closes the dialog, even one that has been opened anew meanwhile.
OpenRequestAuthThen(i) ==
    /\ calls[i].fn = "organizations"
    /\ \/ \E some \in BOOLEAN : Settle(i, [ui EXCEPT !.requestAuthOrgs = some], db)
       \/ Fail(i, [ui EXCEPT !.requestAuthOpen = FALSE], db)

SubmitRequestAuthThen(i) ==
    /\ calls[i].fn = "submitRequestAuth"
    /\ \/ Settle(i, [ui EXCEPT !.requestAuthOpen = FALSE], db)
       \/ Fail(i, [ui EXCEPT !.requestAuthOpen = FALSE], db)

----------------------------------------------------------------------------
(***************************************************************************)
(* The portal's own applications (frontends/user, pages/account/           *)
(* ApplicationsPage): creation, rotation of the secret, deletion.  apps is *)
(* the stamp of the list on screen.  A secret is one bit, so that two      *)
(* secrets of an application in a row differ; "new" is the application     *)
(* created last.  The create form and the secret are inside the page and   *)
(* cover nothing.                                                          *)
(***************************************************************************)

OwnDb0 == [stamp |-> 0, secrets |-> [a \in Items \cup {"new"} |-> 0]]

OwnUi0 ==
    Confirm0 @@ RequestAuth0 @@
    [apps |-> None, loading |-> TRUE, creating |-> FALSE,
     oneTimeSecret |-> None, oneTimeSecretFor |-> None]

ownFetchApps == Call("load", None, {"loading"})

\* onMounted
OwnCalls0 == <<ownFetchApps>>

Covered(u) == AppModalShown(u.dialog) \/ u.requestAuthOpen

SecretOffers(u) == IF Covered(u) \/ u.oneTimeSecret = None THEN {} ELSE {"dismiss"}

CreateFormOffers(u) == IF Covered(u) \/ u.creating THEN {} ELSE {"create"}

OwnListOffers(u) ==
    IF Covered(u) \/ u.loading \/ u.apps = None THEN {}
    ELSE {"requestAuth", "rotate", "delete"} \X Items

dismissSecret ==
    /\ "dismiss" \in SecretOffers(ui)
    /\ Handle([ui EXCEPT !.oneTimeSecret = None, !.oneTimeSecretFor = None], <<>>)

createApp ==
    /\ "create" \in CreateFormOffers(ui)
    /\ Handle([ui EXCEPT !.creating = TRUE], <<Call("createApp", None, {"creating"})>>)

rotateSecret ==
    \E a \in Items : <<"rotate", a>> \in OwnListOffers(ui) /\ askConfirm([op |-> "rotateSecret", at |-> a])

deleteApp ==
    \E a \in Items : <<"delete", a>> \in OwnListOffers(ui) /\ askConfirm([op |-> "deleteApp", at |-> a])

ownConfirmed ==
    runConfirm(ui, IF ui.confirmAction = None THEN <<>>
                   ELSE <<Call(ui.confirmAction.op, ui.confirmAction.at, {})>>)

ownOpenRequestAuth == \E a \in Items : <<"requestAuth", a>> \in OwnListOffers(ui) /\ OpenRequestAuth
ownSubmitRequestAuth == SubmitRequestAuth

ownFetchAppsThen(i) ==
    /\ calls[i].fn = "load"
    /\ Settle(i, [ui EXCEPT !.apps = db.stamp], db) \/ Fail(i, ui, db)

Refetch(i, u, d) == Await(i, [u EXCEPT !.loading = TRUE], d, ownFetchApps) \/ Fail(i, ui, d)

\* A PUBLIC application has no secret; the one on screen goes away.
createAppThen(i) ==
    /\ calls[i].fn = "createApp"
    /\ LET d == [Changed EXCEPT !.secrets["new"] = 1 - @]
       IN  \E s \in {None, d.secrets["new"]} :
             Refetch(i, [ui EXCEPT !.oneTimeSecret = s, !.oneTimeSecretFor = "new"], d)

\* A plausible slip: the secret is shown under the application shown last.
RotatedUnnamed(i) ==
    /\ calls[i].fn = "rotateSecret"
    /\ LET a == calls[i].arg
           d == [Changed EXCEPT !.secrets[a] = 1 - @]
       IN  Refetch(i, [ui EXCEPT !.oneTimeSecret = d.secrets[a]], d)

rotateSecretThen(i) ==
    /\ calls[i].fn = "rotateSecret"
    /\ LET a == calls[i].arg
           d == [Changed EXCEPT !.secrets[a] = 1 - @]
       IN  Refetch(i, [ui EXCEPT !.oneTimeSecret = d.secrets[a], !.oneTimeSecretFor = a], d)

deleteAppThen(i) == calls[i].fn = "deleteApp" /\ Refetch(i, ui, Changed)

OwnStep ==
    \/ dismissSecret \/ createApp \/ rotateSecret \/ deleteApp
    \/ ownOpenRequestAuth \/ CloseRequestAuth \/ ownSubmitRequestAuth
    \/ ownConfirmed \/ cancelConfirm \/ dialogGone
    \/ \E i \in DOMAIN calls :
         \/ ownFetchAppsThen(i) \/ createAppThen(i) \/ rotateSecretThen(i) \/ deleteAppThen(i)
         \/ OpenRequestAuthThen(i) \/ SubmitRequestAuthThen(i)

OwnFresh == ui.apps = db.stamp

\* The secret on screen is the one that the application named beside it now has.
SecretWorks ==
    ui.oneTimeSecret # None => /\ ui.oneTimeSecretFor # None
                               /\ ui.oneTimeSecret = db.secrets[ui.oneTimeSecretFor]

----------------------------------------------------------------------------
(***************************************************************************)
(* The applications a user has authorized (frontends/user, pages/account/  *)
(* AuthorizedAppsPage).  apps is the stamp of the list on screen.          *)
(***************************************************************************)

AuthorizedDb0 == [stamp |-> 0]

AuthorizedUi0 == Confirm0 @@ RequestAuth0 @@ [apps |-> None, loading |-> TRUE]

authorizedFetchApps == Call("load", None, {"loading"})

\* onMounted
AuthorizedCalls0 == <<authorizedFetchApps>>

AuthorizedListOffers(u) ==
    IF AppModalShown(u.dialog) \/ u.requestAuthOpen \/ u.loading \/ u.apps = None THEN {}
    ELSE {"requestAuth", "revoke"} \X Items

revokeApp == \E a \in Items : <<"revoke", a>> \in AuthorizedListOffers(ui) /\ askConfirm(a)

authorizedConfirmed ==
    runConfirm(ui, IF ui.confirmAction = None THEN <<>>
                   ELSE <<Call("revokeApp", ui.confirmAction, {})>>)

authorizedOpenRequestAuth == \E a \in Items : <<"requestAuth", a>> \in AuthorizedListOffers(ui) /\ OpenRequestAuth
authorizedSubmitRequestAuth == SubmitRequestAuth

authorizedFetchAppsThen(i) ==
    /\ calls[i].fn = "load"
    /\ Settle(i, [ui EXCEPT !.apps = db.stamp], db) \/ Fail(i, ui, db)

revokeAppThen(i) ==
    /\ calls[i].fn = "revokeApp"
    /\ \/ Await(i, [ui EXCEPT !.loading = TRUE], Changed, authorizedFetchApps)
       \/ Fail(i, ui, Changed)

AuthorizedStep ==
    \/ revokeApp \/ authorizedOpenRequestAuth \/ CloseRequestAuth \/ authorizedSubmitRequestAuth
    \/ authorizedConfirmed \/ cancelConfirm \/ dialogGone
    \/ \E i \in DOMAIN calls :
         \/ authorizedFetchAppsThen(i) \/ revokeAppThen(i)
         \/ OpenRequestAuthThen(i) \/ SubmitRequestAuthThen(i)

AuthorizedFresh == ui.apps = db.stamp
=============================================================================
