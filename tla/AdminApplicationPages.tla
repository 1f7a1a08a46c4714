----------------------- MODULE AdminApplicationPages ------------------------
(***************************************************************************)
(* The admin console's list of clients and its page of one client.         *)
(***************************************************************************)
EXTENDS PageRuntime

----------------------------------------------------------------------------
(***************************************************************************)
(* The admin console's client list (frontends/admin, pages/applications/   *)
(* ApplicationsPage): creation, dynamic registration, secret reset,        *)
(* suspension and deletion.  clients is the stamp of the list on screen;   *)
(* a client secret is one bit, so that two secrets in a row differ.        *)
(***************************************************************************)

ApplicationsDb0 == [stamp |-> 0, secret |-> 0]

ApplicationsUi0 ==
    Confirm0 @@
    [clients |-> None, loading |-> TRUE, creating |-> FALSE, registering |-> FALSE,
     showCreateModal |-> FALSE, showDcrModal |-> FALSE,
     showSecretModal |-> FALSE, newClientSecret |-> None]

fetchClients == Call("load", None, {"loading"})

\* onMounted
ApplicationsCalls0 == <<fetchClients>>

\* The overlay on top: the dialog, then the last one of the template.
ApplicationsTop(u) ==
    CASE AppModalShown(u.dialog) -> "confirm"
      [] u.showSecretModal       -> "secret"
      [] u.showDcrModal          -> "dcr"
      [] u.showCreateModal       -> "create"
      [] OTHER                   -> "page"

ApplicationsHeaderOffers(u) == IF ApplicationsTop(u) = "page" THEN {"showDcr", "showCreate"} ELSE {}

TableOffers(u) ==
    IF ApplicationsTop(u) # "page" \/ u.loading \/ u.clients = None THEN {}
    ELSE {"resetSecret", "setSuspended", "delete"} \X Items

CreateModalOffers(u) ==
    IF ApplicationsTop(u) # "create" THEN {} ELSE {"cancel"} \cup (IF u.creating THEN {} ELSE {"submit"})

DcrModalOffers(u) ==
    IF ApplicationsTop(u) # "dcr" THEN {} ELSE {"cancel"} \cup (IF u.registering THEN {} ELSE {"submit"})

ApplicationsSecretModalOffers(u) == IF ApplicationsTop(u) = "secret" THEN {"done"} ELSE {}

modals ==
    \/ /\ "showCreate" \in ApplicationsHeaderOffers(ui)
       /\ Handle([ui EXCEPT !.showCreateModal = TRUE], <<>>)
    \/ /\ "showDcr" \in ApplicationsHeaderOffers(ui)
       /\ Handle([ui EXCEPT !.showDcrModal = TRUE], <<>>)
    \/ /\ "cancel" \in CreateModalOffers(ui)
       /\ Handle([ui EXCEPT !.showCreateModal = FALSE], <<>>)
    \/ /\ "cancel" \in DcrModalOffers(ui)
       /\ Handle([ui EXCEPT !.showDcrModal = FALSE], <<>>)

applicationsDismissSecret ==
    /\ "done" \in ApplicationsSecretModalOffers(ui)
    /\ Handle([ui EXCEPT !.showSecretModal = FALSE, !.newClientSecret = None], <<>>)

createClient ==
    /\ "submit" \in CreateModalOffers(ui)
    /\ Handle([ui EXCEPT !.creating = TRUE], <<Call("createClient", None, {"creating"})>>)

registerViaDcr ==
    /\ "submit" \in DcrModalOffers(ui)
    /\ Handle([ui EXCEPT !.registering = TRUE],
              <<Call("registerViaDcr", None, {"registering"})>>)

Ask(button) == \E x \in Items : <<button, x>> \in TableOffers(ui)
                                /\ askConfirm([op |-> button, at |-> x])

deleteClient == Ask("delete")
applicationsResetSecret == Ask("resetSecret")
setSuspended == Ask("setSuspended")

applicationsConfirmed ==
    runConfirm(ui, IF ui.confirmAction = None THEN <<>>
               ELSE <<Call(ui.confirmAction.op, ui.confirmAction.at, {})>>)

fetchClientsThen(i) ==
    /\ calls[i].fn = "load"
    /\ Settle(i, [ui EXCEPT !.clients = db.stamp], db) \/ Fail(i, ui, db)

\* A new secret; a PUBLIC client gets none, and its modal is shown all the same.
NewSecret == [Changed EXCEPT !.secret = 1 - @]
ShowSecret(u, s) == [u EXCEPT !.newClientSecret = s, !.showSecretModal = TRUE]

Registered(i, u) ==
    \/ \E s \in {None, 1 - db.secret} :
         Await(i, [ShowSecret(u, s) EXCEPT !.loading = TRUE], NewSecret, fetchClients)
    \/ Fail(i, ui, NewSecret)

createClientThen(i) ==
    calls[i].fn = "createClient" /\ Registered(i, [ui EXCEPT !.showCreateModal = FALSE])

registerViaDcrThen(i) ==
    calls[i].fn = "registerViaDcr" /\ Registered(i, [ui EXCEPT !.showDcrModal = FALSE])

\* The list shows nothing of a secret and is not loaded again.
applicationsResetSecretThen(i) ==
    /\ calls[i].fn = "resetSecret"
    /\ LET d == [db EXCEPT !.secret = 1 - @]
       IN  Settle(i, ShowSecret(ui, d.secret), d) \/ Fail(i, ui, d)

ChangedThenFetch(i) ==
    \/ Await(i, [ui EXCEPT !.loading = TRUE], Changed, fetchClients)
    \/ Fail(i, ui, Changed)

deleteClientThen(i) == calls[i].fn = "delete" /\ ChangedThenFetch(i)
setSuspendedThen(i) == calls[i].fn = "setSuspended" /\ ChangedThenFetch(i)

ApplicationsStep ==
    \/ modals \/ applicationsDismissSecret \/ createClient \/ registerViaDcr
    \/ deleteClient \/ applicationsResetSecret \/ setSuspended
    \/ applicationsConfirmed \/ cancelConfirm \/ dialogGone
    \/ \E i \in DOMAIN calls :
         \/ fetchClientsThen(i) \/ createClientThen(i) \/ registerViaDcrThen(i)
         \/ applicationsResetSecretThen(i) \/ deleteClientThen(i) \/ setSuspendedThen(i)

ApplicationsFresh == ui.clients = db.stamp

----------------------------------------------------------------------------
(***************************************************************************)
(* The admin console's page of one client (frontends/admin, pages/         *)
(* applications/ApplicationDetailPage).  The record is reduced to a plain  *)
(* field, name, and a list, redirect_uris; the other fields of the form    *)
(* are saved like one or the other, and which scopes are ticked is left    *)
(* out.  Switching tabs changes nothing else and has no action: a control  *)
(* is offered when some tab offers it.                                     *)
(***************************************************************************)

Blank == [name |-> 0, redirect_uris |-> 0]

\* The stored list may be spelled in either way.
ApplicationDb0 ==
    {[rec |-> [name |-> 1, redirect_uris |-> v], secret |-> 0] :
       v \in {1, 2}}

ApplicationUi0 ==
    Confirm0 @@
    [client |-> Blank, edit |-> Blank,
     allScopes |-> FALSE, loading |-> TRUE, saving |-> FALSE, savingScopes |-> FALSE,
     showSecretModal |-> FALSE, newClientSecret |-> None]

fetchClient == Call("load", None, {"loading"})

\* onMounted
ApplicationCalls0 == <<fetchClient, Call("fetchAllScopes", None, {})>>

ApplicationTop(u) ==
    CASE AppModalShown(u.dialog) -> "confirm"
      [] u.showSecretModal       -> "secret"
      [] OTHER                   -> "page"

\* The save button stays while the page is loading.
ApplicationHeaderOffers(u) == IF ApplicationTop(u) = "page" /\ ~u.saving THEN {"save"} ELSE {}

InfoTabOffers(u) == IF ApplicationTop(u) = "page" /\ ~u.loading THEN {"name"} ELSE {}
AuthTabOffers(u) == IF ApplicationTop(u) = "page" /\ ~u.loading THEN {"redirect_uris"} ELSE {}

ScopesTabOffers(u) ==
    IF ApplicationTop(u) # "page" \/ u.loading THEN {}
    ELSE IF ~u.allScopes \/ u.savingScopes THEN {} ELSE {"saveScopes"}

\* Only a loaded client is known to be CONFIDENTIAL.
CredentialsTabOffers(u) ==
    IF ApplicationTop(u) = "page" /\ ~u.loading /\ u.client # Blank THEN {"resetSecret"} ELSE {}

ApplicationSecretModalOffers(u) == IF ApplicationTop(u) = "secret" THEN {"done"} ELSE {}

typeForm ==
    \/ /\ "name" \in InfoTabOffers(ui)
       /\ Type([ui EXCEPT !.edit.name = 3], "name")
    \/ /\ "redirect_uris" \in AuthTabOffers(ui)
       /\ Type([ui EXCEPT !.edit.redirect_uris = 3], "redirect_uris")

\* The list is split and joined before it is compared and sent.
Body(u) == [u.edit EXCEPT !.redirect_uris = Joined(@)]

\* The call that sends the fields f: what they become, those of them that the user
\* has not changed, and those that splitting and joining has respelled.
Put(f) ==
    Call("saveChanges",
         [put |-> [x \in f |-> Body(ui)[x]],
          stray |-> f \ aux.touched,
          respelled |-> {x \in f : Body(ui)[x] # ui.edit[x]}],
         {"saving"})

\* A plausible slip: the whole form is sent, changed or not.
SaveChangesWhole ==
    /\ "save" \in ApplicationHeaderOffers(ui)
    /\ Handle([ui EXCEPT !.saving = TRUE], <<Put(DOMAIN ui.edit)>>)

\* Nothing is sent when nothing differs.
saveChanges ==
    /\ "save" \in ApplicationHeaderOffers(ui)
    /\ Diff(Body(ui), ui.client) # {}
    /\ Handle([ui EXCEPT !.saving = TRUE], <<Put(Diff(Body(ui), ui.client))>>)

saveScopes ==
    /\ "saveScopes" \in ScopesTabOffers(ui)
    /\ Handle([ui EXCEPT !.savingScopes = TRUE],
              <<Call("saveScopes", None, {"savingScopes"})>>)

applicationResetSecret == "resetSecret" \in CredentialsTabOffers(ui) /\ askConfirm("resetSecret")

applicationConfirmed ==
    runConfirm(ui, IF ui.confirmAction = None THEN <<>> ELSE <<Call("resetSecret", None, {})>>)

applicationDismissSecret ==
    /\ "done" \in ApplicationSecretModalOffers(ui)
    /\ Handle([ui EXCEPT !.showSecretModal = FALSE, !.newClientSecret = None], <<>>)

fetchClientThen(i) ==
    /\ calls[i].fn = "load"
    /\ \/ SettleForm(i, [ui EXCEPT !.client = db.rec, !.edit = db.rec])
       \/ Fail(i, ui, db)

fetchAllScopesThen(i) ==
    /\ calls[i].fn = "fetchAllScopes"
    /\ Settle(i, [ui EXCEPT !.allScopes = TRUE], db) \/ Fail(i, ui, db)

saveChangesThen(i) ==
    /\ calls[i].fn = "saveChanges"
    /\ LET d == [db EXCEPT !.rec = calls[i].arg.put @@ @]
       IN  Await(i, [ui EXCEPT !.loading = TRUE], d, fetchClient) \/ Fail(i, ui, d)

saveScopesThen(i) ==
    /\ calls[i].fn = "saveScopes"
    /\ Settle(i, ui, db) \/ Fail(i, ui, db)

applicationResetSecretThen(i) ==
    /\ calls[i].fn = "resetSecret"
    /\ LET d == [db EXCEPT !.secret = 1 - @]
       IN  \/ Settle(i, [ui EXCEPT !.newClientSecret = d.secret, !.showSecretModal = TRUE], d)
           \/ Fail(i, ui, d)

ApplicationStep ==
    \/ typeForm \/ saveChanges \/ saveScopes
    \/ applicationResetSecret \/ applicationDismissSecret \/ applicationConfirmed \/ cancelConfirm \/ dialogGone
    \/ \E i \in DOMAIN calls :
         \/ fetchClientThen(i) \/ fetchAllScopesThen(i)
         \/ saveChangesThen(i) \/ saveScopesThen(i) \/ applicationResetSecretThen(i)

ApplicationFresh == ui.client = db.rec

\* A field that is sent was changed by the user, or is a list that was stored in a
\* spelling with blanks or empty entries, which every save sends.
OnlyEdited ==
    \A i \in DOMAIN calls :
      calls[i].fn = "saveChanges" => calls[i].arg.stray \subseteq calls[i].arg.respelled
=============================================================================
