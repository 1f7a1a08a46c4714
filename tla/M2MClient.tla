------------------------------ MODULE M2MClient -----------------------------
(***************************************************************************)
(* The client-credentials client of the TypeScript SDK (clients/ts/src/    *)
(* auth.ts, M2MClient): one cached token, renewed a margin before its      *)
(* expiry, and authedFetch, which answers a 401 by one renewal and one     *)
(* retry.  Several calls run at a time.  Promises are the only order       *)
(* between them: every renewal is chained to the one before it.            *)
(***************************************************************************)
EXTENDS Integers, Sequences

CONSTANTS
    Calls,          \* the calls of authedFetch that can be under way
    Ttls,           \* the lifetimes the server may give its tokens
    ClockSkew,      \* clockSkewSec
    MaxTime,        \* bound: the clock
    MaxIssued       \* bound: tokens the server issues

VARIABLES
    client,     \* the fields of the M2MClient
    fetches,    \* the calls of authedFetch
    srv,        \* the server: the tokens it issued and those it revoked
    now         \* the time

m2mVars == <<client, fetches, srv, now>>

NotPosting == -1

(***************************************************************************)
(* A token is its number, 0 is undefined.  chain: the renewals chained to  *)
(* refreshChain, the first of them running; posting: when it looked at the *)
(* clock before its token request, while that is in flight.  good: that    *)
(* time for the last request that succeeded.                               *)
(***************************************************************************)
Client0 == [accessToken |-> 0, expiresAt |-> 0, chain |-> <<>>, posting |-> NotPosting,
            good |-> -100]

\* first: the token of the first attempt, when that was refused.
Fetch0 == [st |-> "idle", token |-> 0, first |-> 0]

M2MInit ==
    /\ client = Client0
    /\ fetches = [c \in Calls |-> Fetch0]
    /\ \E ttl \in Ttls : srv = [ttl |-> ttl, expiry |-> <<>>, revoked |-> 0]
    /\ now = 0

Valid(token) == srv.revoked < token /\ now < srv.expiry[token]

Fresh == client.accessToken # 0 /\ client.expiresAt - ClockSkew > now

----------------------------------------------------------------------------
(* getAccessToken *)

\* Call c goes on with a token: the request goes out.
Sent(c, f, token) == fetches' = [fetches EXCEPT ![c] = [f EXCEPT !.st = "sent", !.token = token]]

Chain(c, f, force) ==
    /\ client' = [client EXCEPT !.chain = Append(@, [call |-> c, force |-> force])]
    /\ fetches' = [fetches EXCEPT ![c] = [f EXCEPT !.st = "chained"]]

\* A plausible slip: the token of the cache will do, even after a 401.
GetAccessTokenCached(c, f, force) ==
    IF Fresh THEN Sent(c, f, client.accessToken) /\ UNCHANGED client ELSE Chain(c, f, force)

getAccessToken(c, f, force) ==
    IF ~force /\ Fresh THEN Sent(c, f, client.accessToken) /\ UNCHANGED client
    ELSE Chain(c, f, force)

Running == client.chain # <<>> /\ client.posting = NotPosting

\* The renewal that has come to its turn finds that the one before it has left
\* a token it can use.
recheck ==
    /\ Running /\ ~Head(client.chain).force /\ Fresh
    /\ LET c == Head(client.chain).call IN Sent(c, fetches[c], client.accessToken)
    /\ client' = [client EXCEPT !.chain = Tail(@)]
    /\ UNCHANGED <<srv, now>>

\* A plausible slip: it asks for a token whatever is in the cache.
PostFormAlways ==
    /\ Running
    /\ client' = [client EXCEPT !.posting = now]
    /\ UNCHANGED <<fetches, srv, now>>

postForm ==
    /\ Running /\ ~(~Head(client.chain).force /\ Fresh)
    /\ client' = [client EXCEPT !.posting = now]
    /\ UNCHANGED <<fetches, srv, now>>

Issued == [srv EXCEPT !.expiry = Append(@, now + srv.ttl)]

\* The token arrives.  Its lifetime is counted from before the request.
tokenArrives ==
    LET c == Head(client.chain).call
        token == Len(srv.expiry) + 1
    IN  /\ client.posting # NotPosting /\ Len(srv.expiry) < MaxIssued
        /\ srv' = Issued
        /\ client' = [accessToken |-> token, expiresAt |-> client.posting + srv.ttl,
                      chain |-> Tail(client.chain), posting |-> NotPosting, good |-> client.posting]
        /\ Sent(c, fetches[c], token)
        /\ UNCHANGED now

\* A plausible slip: the chain keeps the rejection, so that it rejects those that
\* are chained to it as well.
TokenFailsChain ==
    LET waiting == {client.chain[i].call : i \in DOMAIN client.chain}
    IN  /\ client.posting # NotPosting
        /\ fetches' = [c \in Calls |-> IF c \in waiting THEN [fetches[c] EXCEPT !.st = "failed"]
                                       ELSE fetches[c]]
        /\ client' = [client EXCEPT !.chain = <<>>, !.posting = NotPosting]
        /\ srv' \in {srv, IF Len(srv.expiry) < MaxIssued THEN Issued ELSE srv}
        /\ UNCHANGED now

\* Another: a request that fails is tried again.
TokenFailsRetried ==
    /\ client.posting # NotPosting
    /\ client' = [client EXCEPT !.posting = NotPosting]
    /\ UNCHANGED <<fetches, srv, now>>

\* The request is refused, cannot be made, or is not answered in timeoutMs (the
\* server may have issued a token); the next renewal runs all the same.
tokenFails ==
    /\ client.posting # NotPosting
    /\ fetches' = [fetches EXCEPT ![Head(client.chain).call] = [Fetch0 EXCEPT !.st = "failed"]]
    /\ client' = [client EXCEPT !.chain = Tail(@), !.posting = NotPosting]
    /\ srv' \in {srv, IF Len(srv.expiry) < MaxIssued THEN Issued ELSE srv}
    /\ UNCHANGED now

----------------------------------------------------------------------------
(* authedFetch *)

authedFetch(c) ==
    /\ fetches[c].st \notin {"chained", "sent"}
    /\ getAccessToken(c, Fetch0, FALSE)
    /\ UNCHANGED <<srv, now>>

\* The answer to a request; or, for a token that is not valid, 401.  A first 401
\* renews the token, and the result of the second attempt is the result.
answer(c) ==
    LET f == fetches[c]
    IN  /\ f.st = "sent"
        /\ \/ /\ Valid(f.token)
              /\ fetches' = [fetches EXCEPT ![c] = [Fetch0 EXCEPT !.st = "ok"]]
              /\ UNCHANGED client
           \/ /\ ~Valid(f.token) /\ f.first = 0
              /\ getAccessToken(c, [f EXCEPT !.first = f.token], TRUE)
           \/ /\ ~Valid(f.token) /\ f.first # 0
              /\ fetches' = [fetches EXCEPT ![c].st = "refused"]
              /\ UNCHANGED client
        /\ UNCHANGED <<srv, now>>

\* fetchImpl rejects.
networkError(c) ==
    /\ fetches[c].st = "sent"
    /\ fetches' = [fetches EXCEPT ![c] = [Fetch0 EXCEPT !.st = "failed"]]
    /\ UNCHANGED <<client, srv, now>>

----------------------------------------------------------------------------
(* The server and the clock *)

revoke ==
    /\ srv.revoked < Len(srv.expiry)
    /\ srv' = [srv EXCEPT !.revoked = Len(srv.expiry)]
    /\ UNCHANGED <<client, fetches, now>>

tick ==
    /\ now < MaxTime /\ now' = now + 1
    /\ UNCHANGED <<client, fetches, srv>>

----------------------------------------------------------------------------
(* The specification *)

M2MNext ==
    \/ \E c \in Calls : authedFetch(c) \/ answer(c) \/ networkError(c)
    \/ recheck \/ postForm \/ tokenArrives \/ tokenFails
    \/ revoke \/ tick

\* The event loop runs the chain, postForm has a time-out, and fetch settles.
M2MFairness ==
    /\ WF_m2mVars(recheck \/ postForm) /\ WF_m2mVars(tokenArrives \/ tokenFails)
    /\ \A c \in Calls : WF_m2mVars(answer(c) \/ networkError(c))
=============================================================================
