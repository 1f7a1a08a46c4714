------------------------------ MODULE SdkClient ------------------------------
(***************************************************************************)
(* The request pipeline of the generated TypeScript client (clients/ts,    *)
(* generated/client): request interceptors, fetch, response interceptors,  *)
(* reading the body, and on any failure the error interceptors.  Each      *)
(* pipeline loops over the LIVE array of interceptors, across the awaits   *)
(* of the interceptors themselves, while others install and eject.         *)
(*                                                                         *)
(* lists[k] is the sequence of the arrays that interceptors.k has had: the *)
(* last one is installed, clear() starts a new one, and a loop goes on     *)
(* over the array it began with.  An array holds interceptors, and None    *)
(* where one was ejected.  handles: what use() returned, still held.       *)
(***************************************************************************)
EXTENDS Naturals, Sequences, SequencesExt, FiniteSets

CONSTANTS None, Fns, Requests, MaxClears, MaxUses

VARIABLES lists, handles, reqs

sdkVars == <<lists, handles, reqs>>

Kinds == {"request", "response", "error"}

\* at: the await the request is at; list, i: the array its loop is over and the
\* place of the interceptor that runs; due: those that the loop has yet to call;
\* error: "falsy" for undefined, null and the empty text; bare: responseStyle is
\* 'data' and throwOnError is not set.
Request0 ==
    [at |-> "idle", bare |-> FALSE, list |-> 0, i |-> 0, due |-> {}, error |-> None]

SdkInit ==
    /\ lists = [k \in Kinds |-> << <<>> >>]
    /\ handles = {}
    /\ reqs = [r \in Requests |-> Request0]

Live(k) == Last(lists[k])

Arrays == lists["request"] \o lists["response"] \o lists["error"]

----------------------------------------------------------------------------
(* class Interceptors *)

Held(f) == \E h \in handles : h.fn = f

use(k, f) ==
    /\ ~Held(f)
    /\ Len(FlattenSeq(Arrays)) < MaxUses
    /\ lists' = [lists EXCEPT ![k][Len(lists[k])] = Append(@, f)]
    /\ handles' = handles \cup {[fn |-> f, kind |-> k, list |-> Len(lists[k]), id |-> Len(Live(k)) + 1]}
    /\ UNCHANGED reqs

\* Whoever ejects an interceptor no longer awaits it.
Forgo(h) ==
    reqs' = [r \in Requests |->
               IF reqs[r].at = h.kind /\ reqs[r].list = h.list
                 THEN [reqs[r] EXCEPT !.due = @ \ {h.fn}] ELSE reqs[r]]

\* A plausible slip: the array closes up.
EjectSpliced(h) ==
    /\ h.list = Len(lists[h.kind])
    /\ lists' = [lists EXCEPT ![h.kind][Len(lists[h.kind])] =
                   IF h.id \in DOMAIN @ THEN RemoveAt(@, h.id) ELSE @]
    /\ handles' = handles \ {h}
    /\ Forgo(h)

\* By id, of the array that is installed now.  An id from before a clear() may
\* be that of another: such a handle is not used again.
eject(h) ==
    /\ h.list = Len(lists[h.kind])
    /\ lists' = [lists EXCEPT ![h.kind][Len(lists[h.kind])] =
                   IF h.id \in DOMAIN @ THEN [@ EXCEPT ![h.id] = None] ELSE @]
    /\ handles' = handles \ {h}
    /\ Forgo(h)

clear(k) ==
    /\ Len(Arrays) < Cardinality(Kinds) + MaxClears
    /\ lists' = [lists EXCEPT ![k] = Append(@, <<>>)]
    /\ UNCHANGED <<handles, reqs>>

----------------------------------------------------------------------------
(* request *)

\* for (const fn of fns): the places that a loop past place i has yet to visit.
Ahead(k, n, i) == {j \in DOMAIN lists[k][n] : j > i /\ lists[k][n][j] # None}

\* The loop calls the next interceptor, or is over.
Loop(q, k, n, i, over) ==
    IF Ahead(k, n, i) = {} THEN over
    ELSE LET j == CHOOSE x \in Ahead(k, n, i) : \A y \in Ahead(k, n, i) : x <= y
         IN  [q EXCEPT !.at = k, !.list = n, !.i = j,
                       !.due = @ \ {lists[k][n][j]}]

Enter(q, k, over) ==
    Loop([q EXCEPT !.due = ToSet(Live(k)) \ {None}], k, Len(lists[k]), 0,
         [over EXCEPT !.due = {}])

\* A plausible slip: the last error is passed on as it is.
ReportAsIs(q) == [q EXCEPT !.at = "failed"]

\* finalError = finalError || {}, which is thrown or a field of the result; a bare
\* result is undefined.
report(q) == [q EXCEPT !.at = "failed", !.error = IF q.bare THEN "falsy" ELSE "error"]

\* The catch block.
catch(q, error) ==
    LET e == [q EXCEPT !.error = error] IN Enter(e, "error", report(e))

Goes(r, q) == reqs' = [reqs EXCEPT ![r] = q] /\ UNCHANGED <<lists, handles>>

\* setAuthParams and the validator may throw.
beforeRequest(r) ==
    /\ reqs[r].at = "idle"
    /\ \E bare \in BOOLEAN :
         LET q == [Request0 EXCEPT !.bare = bare] IN
         \/ Goes(r, Enter(q, "request", [q EXCEPT !.at = "fetch"]))
         \/ Goes(r, catch(q, "error"))

\* An interceptor of the request returns, or throws.
interceptRequest(r) ==
    LET q == reqs[r] IN
    /\ q.at = "request"
    /\ \/ Goes(r, Loop(q, "request", q.list, q.i, [q EXCEPT !.at = "fetch"]))
       \/ Goes(r, catch(q, "error"))

fetch(r) ==
    LET q == reqs[r] IN
    /\ q.at = "fetch"
    /\ \/ Goes(r, Enter(q, "response", [q EXCEPT !.at = "body"]))
       \/ Goes(r, catch(q, "error"))

interceptResponse(r) ==
    LET q == reqs[r] IN
    /\ q.at = "response"
    /\ \/ Goes(r, Loop(q, "response", q.list, q.i, [q EXCEPT !.at = "body"]))
       \/ Goes(r, catch(q, "error"))

\* The body of a response that is ok is the data, unless it cannot be read; that
\* of another is the error, and may be empty.
body(r) ==
    LET q == reqs[r] IN
    /\ q.at = "body"
    /\ \/ Goes(r, [q EXCEPT !.at = "done"])
       \/ \E e \in {"error", "falsy"} : Goes(r, catch(q, e))

\* An interceptor of the error turns it into another one, into nothing, or throws,
\* which leaves request with the error it threw.
interceptError(r) ==
    LET q == reqs[r] IN
    /\ q.at = "error"
    /\ \/ \E e \in {"error", "falsy"} :
            LET p == [q EXCEPT !.error = e] IN Goes(r, Loop(p, "error", q.list, q.i, report(p)))
       \/ Goes(r, [q EXCEPT !.at = "failed", !.error = "error", !.due = {}])

again(r) == reqs[r].at \in {"done", "failed"} /\ Goes(r, Request0)

SdkNext ==
    \/ \E k \in Kinds : clear(k) \/ \E f \in Fns : use(k, f)
    \/ \E h \in handles : eject(h)
    \/ \E r \in Requests :
         \/ beforeRequest(r) \/ interceptRequest(r) \/ fetch(r) \/ interceptResponse(r)
         \/ body(r) \/ interceptError(r) \/ again(r)
=============================================================================
