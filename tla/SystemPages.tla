---------------------------- MODULE SystemPages -----------------------------
(***************************************************************************)
(* The admin console's audit log, e-mail templates and settings.           *)
(***************************************************************************)
EXTENDS PageRuntime

CONSTANT MaxPage    \* bound: the pages a list has

----------------------------------------------------------------------------
(***************************************************************************)
(* The admin console's audit log (frontends/admin, pages/logs).  logs is   *)
(* the query that the list on screen answers: its page, whether a filter   *)
(* is set, and whether there are rows, or as many as a page has.           *)
(***************************************************************************)

LogsDb0 == [stamp |-> 0]

LogsUi0 == [logs |-> None, loading |-> TRUE, page |-> 1, filter |-> FALSE]

\* The query is built from the refs when the call is sent.
fetchLogs(u) == Call("load", [page |-> u.page, filter |-> u.filter], {"loading"})

\* onMounted
LogsCalls0 == <<fetchLogs(LogsUi0)>>

FilterOffers(u) == {"type", "apply", "clear"}

\* Under a table with rows.  Previous on a later page, Next while the page is full.
PaginationOffers(u) ==
    IF u.loading \/ u.logs = None THEN {}
    ELSE IF u.logs.rows = "none" THEN {}
    ELSE (IF u.page <= 1 THEN {} ELSE {"previous"})
         \cup (IF u.page = MaxPage \/ u.logs.rows # "full" THEN {} ELSE {"next"})

Fetch(u) == Handle([u EXCEPT !.loading = TRUE], <<fetchLogs(u)>>)

typeFilter ==
    "type" \in FilterOffers(ui) /\ Handle([ui EXCEPT !.filter = ~@], <<>>)

applyFilters == "apply" \in FilterOffers(ui) /\ Fetch([ui EXCEPT !.page = 1])

clearFilters ==
    "clear" \in FilterOffers(ui) /\ Fetch([ui EXCEPT !.filter = FALSE, !.page = 1])

turnPage ==
    \/ "previous" \in PaginationOffers(ui) /\ Fetch([ui EXCEPT !.page = @ - 1])
    \/ "next" \in PaginationOffers(ui) /\ Fetch([ui EXCEPT !.page = @ + 1])

fetchLogsThen(i) ==
    /\ calls[i].fn = "load"
    /\ \/ \E rows \in {"none", "some", "full"} :
            Settle(i, [ui EXCEPT !.logs = [page |-> calls[i].arg.page,
                                           filter |-> calls[i].arg.filter,
                                           rows |-> rows]], db)
       \/ Fail(i, ui, db)

LogsStep ==
    \/ typeFilter \/ applyFilters \/ clearFilters \/ turnPage
    \/ \E i \in DOMAIN calls : fetchLogsThen(i)

LogsFresh == ui.logs.page = ui.page

----------------------------------------------------------------------------
(***************************************************************************)
(* The admin console's e-mail template editor (frontends/admin,            *)
(* pages/email).  templates is the stamp of the list on screen.            *)
(***************************************************************************)

TemplatesDb0 == [stamp |-> 0]

TemplatesUi0 ==
    [templates |-> None, loading |-> TRUE, saving |-> FALSE,
     showEditModal |-> FALSE, editing |-> None, testTo |-> FALSE]

fetchTemplates == Call("load", None, {"loading"})

\* onMounted
TemplatesCalls0 == <<fetchTemplates>>

\* testTo: a recipient has been typed.
RecipientOffers(u) == IF u.showEditModal \/ u.testTo THEN {} ELSE {"testTo"}

TableOffers(u) ==
    IF u.showEditModal \/ u.loading \/ u.templates = None THEN {}
    ELSE {"edit", "testSend"} \X Items

EditModalOffers(u) ==
    IF ~u.showEditModal THEN {} ELSE {"cancel"} \cup (IF u.saving THEN {} ELSE {"save"})

typeRecipient ==
    "testTo" \in RecipientOffers(ui) /\ Handle([ui EXCEPT !.testTo = TRUE], <<>>)

openEdit ==
    \E t \in Items :
      /\ <<"edit", t>> \in TableOffers(ui)
      /\ Handle([ui EXCEPT !.editing = t, !.showEditModal = TRUE], <<>>)

cancelEdit ==
    /\ "cancel" \in EditModalOffers(ui)
    /\ Handle([ui EXCEPT !.showEditModal = FALSE], <<>>)

saveTemplate ==
    /\ "save" \in EditModalOffers(ui)
    /\ ui.editing # None
    /\ Handle([ui EXCEPT !.saving = TRUE], <<Call("saveTemplate", ui.editing, {"saving"})>>)

testSend ==
    \E t \in Items :
      /\ <<"testSend", t>> \in TableOffers(ui)
      /\ ui.testTo
      /\ Handle(ui, <<Call("testSend", t, {})>>)

fetchTemplatesThen(i) ==
    /\ calls[i].fn = "load"
    /\ Settle(i, [ui EXCEPT !.templates = db.stamp], db) \/ Fail(i, ui, db)

saveTemplateThen(i) ==
    /\ calls[i].fn = "saveTemplate"
    /\ \/ Await(i, [ui EXCEPT !.showEditModal = FALSE, !.loading = TRUE], Changed,
                fetchTemplates)
       \/ Fail(i, ui, Changed)

testSendThen(i) ==
    /\ calls[i].fn = "testSend"
    /\ Settle(i, ui, db) \/ Fail(i, ui, db)

TemplatesStep ==
    \/ typeRecipient \/ openEdit \/ cancelEdit \/ saveTemplate \/ testSend
    \/ \E i \in DOMAIN calls :
         fetchTemplatesThen(i) \/ saveTemplateThen(i) \/ testSendThen(i)

TemplatesFresh == ui.templates = db.stamp

----------------------------------------------------------------------------
(***************************************************************************)
(* The admin console's settings (frontends/admin, pages/settings): the     *)
(* scopes and the signing keys, loaded side by side, and the buttons that  *)
(* copy an address.                                                        *)
(***************************************************************************)

SettingsDb0 == [stamp |-> 0]

SettingsUi0 ==
    [scopes |-> None, loading |-> TRUE, oidcKeys |-> FALSE, oidcLoading |-> TRUE,
     copySuccess |-> None]

fetchScopes == Call("load", None, {"loading"})
fetchOidcKeys == Call("keys", None, {"oidcLoading"})

\* onMounted
SettingsCalls0 == <<fetchScopes, fetchOidcKeys>>

ScopesCard(u) == IF u.loading THEN None ELSE u.scopes

\* The addresses are there once the keys are.
KeysCardOffers(u) ==
    IF u.oidcLoading \/ ~u.oidcKeys THEN {} ELSE {"jwks", "discovery"}

\* The label goes away 2 s after any copy, a later one's as well.
copyToClipboard ==
    \/ \E label \in KeysCardOffers(ui) : Handle([ui EXCEPT !.copySuccess = label], <<>>)
    \/ ui.copySuccess # None /\ Handle([ui EXCEPT !.copySuccess = None], <<>>)

fetchScopesThen(i) ==
    /\ calls[i].fn = "load"
    /\ Settle(i, [ui EXCEPT !.scopes = db.stamp], db) \/ Fail(i, ui, db)

fetchOidcKeysThen(i) ==
    /\ calls[i].fn = "keys"
    /\ Settle(i, [ui EXCEPT !.oidcKeys = TRUE], db) \/ Fail(i, ui, db)

SettingsStep ==
    \/ copyToClipboard
    \/ \E i \in DOMAIN calls : fetchScopesThen(i) \/ fetchOidcKeysThen(i)

SettingsFresh == ui.scopes = db.stamp
=============================================================================
