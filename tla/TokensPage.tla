----------------------------- MODULE TokensPage -----------------------------
(***************************************************************************)
(* The admin console's token list (frontends/admin, pages/tokens): paging, *)
(* filters, and revocation of one token, of all tokens of a client and of  *)
(* all tokens of a user.  tokens is the page number, the stamp and the     *)
(* fullness of the list on screen.                                         *)
(***************************************************************************)
EXTENDS PageRuntime

CONSTANT MaxPage    \* bound: the pages a list has

Db0 == [stamp |-> 0]

Ui0 == Confirm0 @@
       [tokens |-> None, loading |-> TRUE, page |-> 1,
        showBulkMenu |-> FALSE]

\* The query is built from the refs when the call is sent.
fetchTokens(u) == Call("load", u.page, {"loading"})

\* onMounted
Calls0 == <<fetchTokens(Ui0)>>

Covered(u) == AppModalShown(u.dialog)

NoRows(u) == IF u.tokens = None THEN TRUE ELSE u.tokens.rows = "none"

\* The menu lists the clients of the tokens on screen, and takes a user id,
\* which is typed and submitted in one step.
BulkMenuOffers(u) ==
    IF Covered(u) THEN {}
    ELSE {<<"toggle", None>>} \cup
         (IF ~u.showBulkMenu THEN {}
          ELSE ({"byUser"} \X Items)
               \cup (IF NoRows(u) THEN {} ELSE {"byClient"} \X Items))

FilterOffers(u) == IF Covered(u) THEN {} ELSE {"apply", "clear"}

TableOffers(u) ==
    IF Covered(u) \/ u.loading \/ NoRows(u) THEN {} ELSE {"revoke"} \X Items

\* Under the table.  Previous on a later page, Next while the page is full.
PaginationOffers(u) ==
    IF Covered(u) \/ u.loading \/ NoRows(u) THEN {}
    ELSE (IF u.page <= 1 THEN {} ELSE {"previous"})
         \cup (IF u.page = MaxPage \/ u.tokens.rows # "full" THEN {} ELSE {"next"})

Fetch(u) == Handle([u EXCEPT !.loading = TRUE], <<fetchTokens(u)>>)

applyFilters == "apply" \in FilterOffers(ui) /\ Fetch([ui EXCEPT !.page = 1])
clearFilters == "clear" \in FilterOffers(ui) /\ Fetch([ui EXCEPT !.page = 1])

turnPage ==
    \/ "previous" \in PaginationOffers(ui) /\ Fetch([ui EXCEPT !.page = @ - 1])
    \/ "next" \in PaginationOffers(ui) /\ Fetch([ui EXCEPT !.page = @ + 1])

bulkMenu ==
    /\ <<"toggle", None>> \in BulkMenuOffers(ui)
    /\ Handle([ui EXCEPT !.showBulkMenu = ~@], <<>>)

revokeToken ==
    \E x \in Items :
      <<"revoke", x>> \in TableOffers(ui) /\ askConfirm([op |-> "revokeToken", at |-> x])

\* askConfirm, after the menu has been closed.
AskFromMenu(action) ==
    /\ ui' = [ui EXCEPT !.showBulkMenu = FALSE, !.confirmAction = action, !.dialog = "open"]
    /\ aux' = [Used EXCEPT !.runs = 0]
    /\ UNCHANGED <<page, calls, db>>

revokeByClient ==
    \E x \in Items :
      <<"byClient", x>> \in BulkMenuOffers(ui) /\ AskFromMenu([op |-> "revokeByClient", at |-> x])

revokeByUser ==
    \E x \in Items :
      <<"byUser", x>> \in BulkMenuOffers(ui) /\ AskFromMenu([op |-> "doRevokeByUser", at |-> x])

confirmed ==
    runConfirm(ui, IF ui.confirmAction = None THEN <<>>
               ELSE <<Call(ui.confirmAction.op, ui.confirmAction.at, {})>>)

fetchTokensThen(i) ==
    /\ calls[i].fn = "load"
    /\ \/ \E rows \in {"none", "some", "full"} :
            Settle(i, [ui EXCEPT !.tokens = [page |-> calls[i].arg, stamp |-> db.stamp,
                                             rows |-> rows]], db)
       \/ Fail(i, ui, db)

RevokedUnfetched(i) == Settle(i, ui, Changed) \/ Fail(i, ui, Changed)

\* Each revocation ends with await fetchTokens().
Revoked(i) ==
    \/ Await(i, [ui EXCEPT !.loading = TRUE], Changed, fetchTokens(ui))
    \/ Fail(i, ui, Changed)

revokeTokenThen(i) == calls[i].fn = "revokeToken" /\ Revoked(i)
revokeByClientThen(i) == calls[i].fn = "revokeByClient" /\ Revoked(i)
doRevokeByUserThen(i) == calls[i].fn = "doRevokeByUser" /\ Revoked(i)

Step ==
    \/ applyFilters \/ clearFilters \/ turnPage \/ bulkMenu
    \/ revokeToken \/ revokeByClient \/ revokeByUser
    \/ confirmed \/ cancelConfirm \/ dialogGone
    \/ \E i \in DOMAIN calls :
         \/ fetchTokensThen(i) \/ revokeTokenThen(i)
         \/ revokeByClientThen(i) \/ doRevokeByUserThen(i)

Fresh == ui.tokens.page = ui.page /\ ui.tokens.stamp = db.stamp
=============================================================================
