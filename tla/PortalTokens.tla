---------------------------- MODULE PortalTokens ----------------------------
(***************************************************************************)
(* The tokens of the portal in several tabs (frontends/user/services/http):*)
(* each tab has its refresh token in a module variable, all share the copy *)
(* in localStorage, and a tab hears of another tab's write through a       *)
(* storage event, some time later and in order.  The server rotates a      *)
(* refresh token on use, and takes a second presentation for theft, which  *)
(* ends the whole family; see TokenLifecycle.                              *)
(*                                                                         *)
(* A token is its number in the order of issue.  The access token, which   *)
(* only lives in memory, is left out: any request may be answered by 401.  *)
(***************************************************************************)
EXTENDS Naturals, Sequences

CONSTANTS
    None,           \* null
    Tabs,           \* the tabs that are open
    Requests,       \* the requests a page can have in flight
    MaxIssued       \* bound: the refresh tokens the server issues

VARIABLES
    issued,     \* the refresh tokens so far: family and state
    stored,     \* localStorage['refresh_token']
    tab,        \* what each tab has in memory
    obs         \* observer: whether tabs crossed, and a token was reused

tokenVars == <<issued, stored, tab, obs>>

Tokens == 1 .. MaxIssued

\* The answer of a refresh call that gave no token.
Refused == 0

(***************************************************************************)
(* inflight: the refresh call the tab waits for, with its answer once the  *)
(* server has served it.  waiting: the requests that share it.  presented: *)
(* the tokens that this page has posted.                                   *)
(***************************************************************************)
Loaded(token) ==
    [refreshToken |-> token, inflight |-> None, waiting |-> {}, events |-> <<>>, presented |-> {}]

Family(n) == {m \in DOMAIN issued : issued[m].family = issued[n].family}

Kill(S) ==
    [n \in DOMAIN issued |-> IF n \in S THEN [issued[n] EXCEPT !.st = "dead"] ELSE issued[n]]

----------------------------------------------------------------------------
(* In a tab *)

\* Tab t goes on as s and writes to localStorage.
Write(t, s, value) ==
    /\ stored' = value
    /\ tab' = [u \in Tabs |->
                 IF u = t THEN s
                 ELSE IF value = stored THEN tab[u]
                 ELSE [tab[u] EXCEPT !.events = Append(@, value)]]

\* A plausible slip: every caller posts the token.
RefreshTokensEach(s) ==
    [s EXCEPT !.inflight = [token |-> s.refreshToken, answer |-> None],
              !.presented = @ \cup {s.refreshToken}]

\* Callers share the refresh in flight.
refreshTokens(s) ==
    IF s.inflight # None THEN s
    ELSE [s EXCEPT !.inflight = [token |-> s.refreshToken, answer |-> None],
                   !.presented = @ \cup {s.refreshToken}]

\* Tabs cross when one posts its token while another one's refresh is under way
\* or before the news of it has come, ...
Posting(t, s) ==
    [obs EXCEPT !.crossed = @ \/ /\ s.inflight # tab[t].inflight
                                 /\ \/ s.events # <<>>
                                    \/ \E u \in Tabs \ {t} : tab[u].inflight # None]

\* ... when one writes before it has heard of an earlier write, ...
Writing(t) == [obs EXCEPT !.crossed = @ \/ tab[t].events # <<>>]

\* ... and when a page does not get, or no longer wants, an answer.
Missing(t, missed) == [obs EXCEPT !.crossed = @ \/ missed]

----------------------------------------------------------------------------
(* The operations *)

\* The response interceptor, on a first 401.
unauthorized(t, r) ==
    LET new == refreshTokens([tab[t] EXCEPT !.waiting = @ \cup {r}])
    IN  /\ r \notin tab[t].waiting /\ tab[t].refreshToken # None
        /\ tab' = [tab EXCEPT ![t] = new]
        /\ obs' = Posting(t, new)
        /\ UNCHANGED <<issued, stored>>

\* A page load forgets what is under way; the store restores the session when
\* there is a token.
load(t) ==
    LET new == IF stored = None THEN Loaded(None) ELSE refreshTokens(Loaded(stored))
    IN  /\ tab' = [tab EXCEPT ![t] = new]
        /\ obs' = [Posting(t, new) EXCEPT !.crossed = @ \/ tab[t].inflight # None]
        /\ UNCHANGED <<issued, stored>>

\* POST /oauth2/token at the server.
serveRefresh(t) ==
    LET n == tab[t].inflight.token
        live == issued[n].st = "live"
    IN  /\ tab[t].inflight # None /\ tab[t].inflight.answer = None
        /\ live => Len(issued) < MaxIssued
        /\ issued' = IF live THEN Append([issued EXCEPT ![n].st = "used"],
                                         [family |-> issued[n].family, st |-> "live"])
                     ELSE Kill(Family(n))
        /\ tab' = [tab EXCEPT ![t].inflight.answer = IF live THEN Len(issued) + 1 ELSE Refused]
        /\ obs' = [obs EXCEPT !.reused = @ \/ issued[n].st = "used"]
        /\ UNCHANGED stored

\* The call fails, before or after the server has served it.
loseRefresh(t) ==
    /\ tab[t].inflight # None /\ tab[t].inflight.answer # Refused
    /\ tab' = [tab EXCEPT ![t].inflight.answer = Refused]
    /\ obs' = Missing(t, tab[t].inflight.answer # None)
    /\ UNCHANGED <<issued, stored>>

\* The refresh has succeeded: setTokens, and the waiting requests go out again.
refreshed(t) ==
    LET n == tab[t].inflight.answer
    IN  /\ tab[t].inflight # None /\ tab[t].inflight.answer \in Tokens
        /\ Write(t, [tab[t] EXCEPT !.refreshToken = n, !.inflight = None, !.waiting = {}], n)
        /\ obs' = Writing(t)
        /\ UNCHANGED issued

\* The refresh has failed: clearTokens, and the waiting requests are rejected.
refreshFailed(t) ==
    /\ tab[t].inflight # None /\ tab[t].inflight.answer = Refused
    /\ Write(t, [tab[t] EXCEPT !.refreshToken = None, !.inflight = None, !.waiting = {}], None)
    /\ obs' = Writing(t)
    /\ UNCHANGED issued

\* A plausible slip: a tab does not listen to the others.
StorageEventIgnored(t) ==
    /\ tab[t].events # <<>>
    /\ tab' = [tab EXCEPT ![t].events = Tail(@)]
    /\ UNCHANGED <<issued, stored, obs>>

storageEvent(t) ==
    /\ tab[t].events # <<>>
    /\ tab' = [tab EXCEPT ![t].refreshToken = Head(tab[t].events), ![t].events = Tail(@)]
    /\ UNCHANGED <<issued, stored, obs>>

\* Someone signs in on this tab: setTokens with the first token of a family.
signIn(t) ==
    LET n == Len(issued) + 1
    IN  /\ n \in Tokens
        /\ issued' = Append(issued, [family |-> n, st |-> "live"])
        /\ Write(t, [tab[t] EXCEPT !.refreshToken = n], n)
        /\ obs' = Writing(t)

\* clearTokens, after a logout that revoked the family, the one token or
\* nothing, or after a change of the password, which revoked everything.
signOut(t) ==
    /\ tab[t].refreshToken # None
    /\ issued' \in {issued, Kill(DOMAIN issued), Kill(Family(tab[t].refreshToken))}
                   \cup (IF stored = None THEN {} ELSE {Kill({stored})})
    /\ Write(t, [tab[t] EXCEPT !.refreshToken = None], None)
    /\ obs' = Writing(t)

----------------------------------------------------------------------------
(* The specification *)

\* The tabs are open, and nobody is signed in.
TokenInit ==
    /\ issued = <<>> /\ stored = None /\ obs = [crossed |-> FALSE, reused |-> FALSE]
    /\ tab = [t \in Tabs |-> Loaded(None)]

TokenNext ==
    \E t \in Tabs :
      \/ \E r \in Requests : unauthorized(t, r)
      \/ load(t) \/ serveRefresh(t) \/ loseRefresh(t) \/ refreshed(t) \/ refreshFailed(t)
      \/ storageEvent(t) \/ signIn(t) \/ signOut(t)
=============================================================================
