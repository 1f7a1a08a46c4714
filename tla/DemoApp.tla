------------------------------- MODULE DemoApp ------------------------------
(***************************************************************************)
(* The Next.js demo (examples/nextjs-demo) on the AuthorizationCodeFlow of *)
(* the TypeScript SDK (clients/ts/src/auth.ts).  Its only state is two     *)
(* cookies of the browser: the authorize transaction and the session.  A   *)
(* handler reads them when its request arrives and sets them with its      *)
(* answer; several tabs make requests at a time.                           *)
(*                                                                         *)
(* The k-th sign-in has state, verifier and code k.  The server (external) *)
(* redeems a code once, rotates refresh tokens, and refuses a token that   *)
(* was used.                                                               *)
(***************************************************************************)
EXTENDS Naturals, FiniteSets

CONSTANTS
    Legs,           \* the requests that can be in flight
    MaxSignIns,     \* bound: sign-ins started
    MaxIssued       \* bound: refresh tokens issued

VARIABLES
    jar,        \* the cookies: fulla_tx and the refresh token of fulla_session
    legs,       \* the requests in flight
    srv,        \* the server: sign-ins started, codes, refresh tokens
    obs         \* observer

demoVars == <<jar, legs, srv, obs>>

\* A cookie, or a token, that is not there.
Absent == 0

NoLeg == [at |-> "none", tx |-> Absent, code |-> Absent, token |-> Absent]

(***************************************************************************)
(* raced: a refresh was started while another had the same token, or its   *)
(* answer was lost.  out: the browser has signed out, with no request in   *)
(* flight.                                                                 *)
(***************************************************************************)
DemoInit ==
    /\ jar = [tx |-> Absent, session |-> Absent]
    /\ legs = [l \in Legs |-> NoLeg]
    /\ srv = [started |-> 0, granted |-> {}, redeemed |-> {}, issued |-> 0, spent |-> {}]
    /\ obs = [raced |-> FALSE, out |-> FALSE]

Free(l) == legs[l].at = "none"

Leave(l) == legs' = [legs EXCEPT ![l] = NoLeg]

----------------------------------------------------------------------------
(* Signing in *)

\* /api/login: state and verifier are new, and replace those of another tab.
login ==
    /\ srv.started < MaxSignIns
    /\ srv' = [srv EXCEPT !.started = @ + 1]
    /\ jar' = [jar EXCEPT !.tx = srv.started + 1]
    /\ UNCHANGED <<legs, obs>>

\* The user signs in at the server.
grant(k) ==
    /\ k <= srv.started /\ k \notin srv.granted
    /\ srv' = [srv EXCEPT !.granted = @ \cup {k}]
    /\ UNCHANGED <<jar, legs, obs>>

failure == jar' = [jar EXCEPT !.tx = Absent]

\* A plausible slip: any transaction will do.
CompleteAuthorizationFlowAny(l, tx, k) ==
    legs' = [legs EXCEPT ![l] = [NoLeg EXCEPT !.at = "callback", !.tx = tx, !.code = k]]

\* Nothing goes to the network when the state is not that of the transaction.
completeAuthorizationFlow(l, tx, k) ==
    /\ tx = k
    /\ legs' = [legs EXCEPT ![l] = [NoLeg EXCEPT !.at = "callback", !.tx = tx, !.code = k]]

\* /callback with the code of sign-in k, the first time or again.
callback(l, k) ==
    /\ Free(l) /\ k \in srv.granted /\ jar.tx # Absent
    /\ completeAuthorizationFlow(l, jar.tx, k)
    /\ UNCHANGED <<jar, srv, obs>>

\* /callback that ends at once: another state, an error, or no code.
callbackRefused ==
    /\ jar.tx # Absent
    /\ failure
    /\ UNCHANGED <<legs, srv, obs>>

\* exchangeCode succeeds.
exchangeCode(l) ==
    LET k == legs[l].code
    IN  /\ legs[l].at = "callback" /\ legs[l].tx = k
        /\ k \notin srv.redeemed /\ srv.issued < MaxIssued
        /\ srv' = [srv EXCEPT !.redeemed = @ \cup {k}, !.issued = @ + 1]
        /\ jar' = [tx |-> Absent, session |-> srv.issued + 1]
        /\ obs' = [raced |-> FALSE, out |-> FALSE]
        /\ Leave(l)

\* It does not: the code is refused, or nothing is heard of it.
exchangeFails(l) ==
    /\ legs[l].at = "callback"
    /\ srv' \in {srv, [srv EXCEPT !.redeemed = @ \cup {legs[l].code}]}
    /\ failure
    /\ Leave(l)
    /\ UNCHANGED obs

----------------------------------------------------------------------------
(* The session *)

\* /profile: userinfo is asked with the token of the cookie.
profile(l) ==
    /\ Free(l) /\ jar.session # Absent
    /\ legs' = [legs EXCEPT ![l] = [NoLeg EXCEPT !.at = "profile", !.token = jar.session]]
    /\ UNCHANGED <<jar, srv, obs>>

profileShown(l) ==
    /\ legs[l].at = "profile"
    /\ Leave(l)
    /\ UNCHANGED <<jar, srv, obs>>

\* /api/refresh, to which a profile with an expired token is sent: it reads the
\* cookie that is there by then.
refresh(l) ==
    /\ legs[l].at = "profile"
    /\ IF jar.session = Absent THEN Leave(l) /\ UNCHANGED obs
       ELSE /\ legs' = [legs EXCEPT ![l] = [NoLeg EXCEPT !.at = "refresh", !.token = jar.session]]
            /\ obs' = [obs EXCEPT !.raced = @ \/ \E o \in Legs : /\ legs[o].at = "refresh"
                                                                /\ legs[o].token = jar.session]
    /\ UNCHANGED <<jar, srv>>

\* A plausible slip: the cookie keeps the token that was used.
RefreshedKept(l) ==
    /\ legs[l].at = "refresh" /\ legs[l].token \notin srv.spent /\ srv.issued < MaxIssued
    /\ srv' = [srv EXCEPT !.spent = @ \cup {legs[l].token}, !.issued = @ + 1]
    /\ jar' = [jar EXCEPT !.session = legs[l].token]
    /\ Leave(l)
    /\ UNCHANGED obs

\* The answer puts the rotated token in the cookie, whatever is there by now.
refreshed(l) ==
    /\ legs[l].at = "refresh" /\ legs[l].token \notin srv.spent /\ srv.issued < MaxIssued
    /\ srv' = [srv EXCEPT !.spent = @ \cup {legs[l].token}, !.issued = @ + 1]
    /\ jar' = [jar EXCEPT !.session = srv.issued + 1]
    /\ Leave(l)
    /\ UNCHANGED obs

\* The token is refused, or nothing is heard of it: the session goes.
refreshFailed(l) ==
    /\ legs[l].at = "refresh"
    /\ srv' \in {srv, [srv EXCEPT !.spent = @ \cup {legs[l].token}]}
    /\ jar' = [jar EXCEPT !.session = Absent]
    /\ Leave(l)
    /\ UNCHANGED obs

\* The tab is closed before the answer arrives.
answerLost(l) ==
    /\ legs[l].at = "refresh"
    /\ srv' \in {srv, [srv EXCEPT !.spent = @ \cup {legs[l].token}]}
    /\ obs' = [obs EXCEPT !.raced = TRUE]
    /\ Leave(l)
    /\ UNCHANGED jar

\* A plausible slip: the cookie stays until the server is through with it.
LogoutKept ==
    /\ jar.session # Absent
    /\ obs' = [obs EXCEPT !.out = \A l \in Legs : Free(l)]
    /\ UNCHANGED <<jar, legs, srv>>

\* /api/logout: the cookie goes with the redirect to the server.
logout ==
    /\ jar.session # Absent
    /\ jar' = [jar EXCEPT !.session = Absent]
    /\ obs' = [obs EXCEPT !.out = \A l \in Legs : Free(l)]
    /\ UNCHANGED <<legs, srv>>

----------------------------------------------------------------------------

DemoNext ==
    \/ login \/ callbackRefused \/ logout
    \/ \E k \in 1 .. MaxSignIns : grant(k) \/ \E l \in Legs : callback(l, k)
    \/ \E l \in Legs :
         \/ exchangeCode(l) \/ exchangeFails(l)
         \/ profile(l) \/ profileShown(l) \/ refresh(l)
         \/ refreshed(l) \/ refreshFailed(l) \/ answerLost(l)
=============================================================================
