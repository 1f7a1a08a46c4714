--------------------------- MODULE ClientSessions ---------------------------
(***************************************************************************)
(* The clients of the server that keep a session or a connection of their  *)
(* own: the user portal (the refresh tokens its tabs share, and the        *)
(* session of one tab), the admin console, the TypeScript SDK (its M2M     *)
(* client, its request pipeline and its event streams) and the Next.js     *)
(* demo.  They do not interact with each other: a behaviour is one of one  *)
(* client, chosen in the initial state, and the variables are shared.      *)
(***************************************************************************)
EXTENDS Naturals, Sequences

CONSTANTS
    None,
    Calls, Router,      \* calls of a client; the router as one of them
    PortalLoads,        \* bounds: page loads of the portal,
    MaxEvents,          \*   its storage events in flight,
    AdminLoads,         \*   page loads of the console,
    MaxLogouts,         \*   its logouts under way
    Tabs,               \* tabs of the portal that share their tokens,
    TabRequests,        \*   their requests,
    TabTokens,          \*   and a bound on their tokens
    Ttls, ClockSkew,    \* token lifetimes and clockSkewSec,
    MaxTime, M2MTokens, \*   and bounds on time and tokens
    Events, MaxChunk,   \* an event stream
    MaxAttempts, CountedAttempts,
    Fns, Pipelines,     \* interceptors and requests of the pipeline,
    MaxClears, MaxUses, \*   and bounds on clear() and use()
    Legs,               \* requests of the demo,
    MaxSignIns, DemoTokens

VARIABLES
    app,        \* the client whose behaviour this is
    mem, store, wire, count, obs

Requests == Calls \ {Router}

vars == <<app, mem, store, wire, count, obs>>

Portal == INSTANCE PortalSession WITH
    tab <- mem, stored <- store, events <- wire, loads <- count, MaxLoads <- PortalLoads
Admin == INSTANCE AdminSession WITH
    tab <- mem, persisted <- store, loads <- count, MaxLoads <- AdminLoads
Tokens == INSTANCE PortalTokens WITH
    tab <- mem, stored <- store, issued <- wire, Requests <- TabRequests, MaxIssued <- TabTokens
M2M == INSTANCE M2MClient WITH
    client <- mem, fetches <- store, srv <- wire, now <- count, MaxIssued <- M2MTokens
Sse == INSTANCE SseClient WITH stream <- mem, seen <- store, feed <- wire
Sdk == INSTANCE SdkClient WITH
    lists <- mem, handles <- store, reqs <- wire, Requests <- Pipelines
Demo == INSTANCE DemoApp WITH jar <- mem, legs <- store, srv <- wire, MaxIssued <- DemoTokens

Init ==
    \/ app = "portal" /\ Portal!SessionInit
    \/ app = "admin" /\ Admin!AdminInit /\ wire = None
    \/ app = "tokens" /\ Tokens!TokenInit /\ count = None
    \/ app = "m2m" /\ M2M!M2MInit /\ obs = None
    \/ app = "sse" /\ Sse!SseInit /\ count = None /\ obs = None
    \/ app = "sdk" /\ Sdk!SdkInit /\ count = None /\ obs = None
    \/ app = "demo" /\ Demo!DemoInit /\ count = None

Next ==
    /\ UNCHANGED app
    /\ \/ app = "portal" /\ Portal!SessionNext
       \/ app = "admin" /\ Admin!AdminNext /\ UNCHANGED wire
       \/ app = "tokens" /\ Tokens!TokenNext /\ UNCHANGED count
       \/ app = "m2m" /\ M2M!M2MNext /\ UNCHANGED obs
       \/ app = "sse" /\ Sse!SseNext /\ UNCHANGED <<count, obs>>
       \/ app = "sdk" /\ Sdk!SdkNext /\ UNCHANGED <<count, obs>>
       \/ app = "demo" /\ Demo!DemoNext /\ UNCHANGED count

portalVars == Portal!sessionVars
adminVars == Admin!adminVars
m2mVars == M2M!m2mVars
sseVars == Sse!sseVars

(***************************************************************************)
(* The event loop runs what is due, and the browser or Node ends every     *)
(* call: with an answer, an error or a time-out.  Which of them it is, is  *)
(* not up to fairness, and neither is anything the user does.              *)
(***************************************************************************)
Fairness ==
    /\ WF_portalVars(app = "portal" /\ Portal!guard)
    /\ WF_portalVars(app = "portal" /\ (Portal!refreshed \/ Portal!refreshFailed))
    /\ WF_portalVars(app = "portal" /\ Portal!logoutDone)
    /\ \A c \in Portal!Callers :
         WF_portalVars(app = "portal" /\ (Portal!unauthorized(c) \/ Portal!response(c)))
    /\ \A r \in Requests :
         WF_adminVars(app = "admin" /\ (Admin!unauthorized(r) \/ Admin!response(r)))
    /\ WF_adminVars(app = "admin" /\ Admin!guard)
    /\ WF_adminVars(app = "admin" /\ (Admin!refreshed \/ Admin!refreshFailed))
    /\ WF_adminVars(app = "admin" /\ Admin!logoutDone)
    /\ \A c \in Admin!Callers \ Requests :
         WF_adminVars(app = "admin" /\ (Admin!unauthorized(c) \/ Admin!userInfo(c) \/ Admin!userInfoFails(c)))
    /\ WF_m2mVars(app = "m2m" /\ (M2M!recheck \/ M2M!postForm))
    /\ WF_m2mVars(app = "m2m" /\ (M2M!tokenArrives \/ M2M!tokenFails))
    /\ \A c \in Calls : WF_m2mVars(app = "m2m" /\ (M2M!answer(c) \/ M2M!networkError(c)))
    /\ WF_sseVars(app = "sse" /\ Sse!loop)
    /\ WF_sseVars(app = "sse" /\ Sse!awake)
    /\ WF_sseVars(app = "sse" /\ Sse!event)
    /\ WF_sseVars(app = "sse" /\ (Sse!connect \/ Sse!connectionError))
    /\ WF_sseVars(app = "sse" /\ (Sse!done \/ Sse!connectionError \/ \E n \in 1 .. MaxChunk : Sse!read(n)))

Spec == Init /\ [][Next]_vars /\ Fairness

----------------------------------------------------------------------------
(* The user portal and the admin console *)

\* A logout of the portal sticks: no request, restore, user info or navigation that was
\* under way or begins later brings an access token back or makes the tab believe to
\* have a session, until the next sign-in or page load (clearTokens, logout of
\* stores/auth).  The code has two exceptions: a refresh that was in flight at the
\* logout still stores its tokens, and a token that another tab has stored serves the
\* next 401.  And once a page load has restored the session, a tab that believes to
\* have one has an access token, also when other tabs sign in and out.  The exception
\* is a refresh that fails for a request: the interceptor clears the tokens and leaves
\* isAuthenticated as it is (see PortalExpiryShowsLogin).
PortalSessionHolds ==
    app = "portal" =>
      /\ obs.out => ~mem.accessToken /\ ~mem.tokenPresent
      /\ mem.restore = "done" /\ mem.tokenPresent /\ ~obs.ended => mem.accessToken

\* A request of the portal that met a 401 with a failed refresh brings the user to
\* the login page.
PortalExpiryShowsLogin ==
    app = "portal" /\ obs.expired /\ mem.nav = None => mem.route = "login"

\* The portal's router turns a guest away from the login page without a page load.
GuestTurnedAway ==
    /\ mem.nav = "login" /\ mem'.nav = None
    /\ mem.route # "dashboard" /\ mem'.route = "dashboard" /\ count' = count

\* The console's router lets the user in to a page.
PageEntered == mem.nav = "page" /\ mem'.nav = None /\ mem'.route = "page"

\* Signing in takes the user from the login page into the console.
SignedIn == mem.signingIn /\ ~mem'.signingIn /\ mem.route = "login" /\ mem'.route = "page"

\* The routers decide on sessions that are there.  The portal's turns a guest away from
\* the login page only into a session it knows to work, unless a refresh has failed for
\* a request (see PortalExpiryShowsLogin).  The console's admits to a page only with an
\* access token; the exception is a session dropped since the restore began whose
\* result the guard goes by, because a logout leaves the promise of that restore as it
\* is (ensureSessionRestored).  Signing in enters the console only as an administrator,
\* unless an earlier logout or restore is still under way.
RoutesGuarded ==
    [][/\ app = "portal" /\ GuestTurnedAway => mem.accessToken \/ obs.ended
       /\ app = "admin" /\ PageEntered => mem'.accessToken \/ obs.overtaken
       /\ app = "admin" /\ SignedIn => obs'.admin \/ obs.late]_vars

\* Tab t of the portal sends a refresh for requests that begin to wait for it.
RefreshSent(t) ==
    mem'[t].waiting \ mem[t].waiting # {} /\ mem'[t].inflight # mem[t].inflight

\* The tabs reuse a rotated token, which would end the family, only when two of them
\* refreshed at the same time; otherwise a tab that has heard all storage events has
\* the token that is stored.
TabsAgree ==
    /\ obs.reused => obs.crossed
    /\ ~obs.crossed => \A t \in Tabs : mem[t].events = <<>> => mem[t].refreshToken = store

\* Who needs a new token at the same time shares one refresh.  In the portal, requests
\* that wait for a refresh present a token that their tab has not presented before
\* (the response interceptor), and tabs that do not refresh at the same moment never
\* reuse a token and agree on the stored one.  In the console all that wait for a
\* token, the restore of a page load included, wait for the same refresh
\* (refreshPromise).
RefreshShared ==
    [][/\ app = "tokens" =>
            /\ TabsAgree'
            /\ \A t \in Tabs : RefreshSent(t) => mem'[t].inflight.token \notin mem[t].presented
       /\ app = "admin" => mem'.refreshes <= 1]_vars

----------------------------------------------------------------------------
(* The SDK and the demo *)

\* The M2M client asks for a token only when its last one is about to expire or
\* was refused.
TokensSpaced ==
    mem.posting # M2M!NotPosting /\ ~Head(mem.chain).force
      => mem.posting >= mem.good + wire.ttl - ClockSkew

\* A call reports a 401 only after a second attempt, with a token issued after the
\* first, which is refused as well.
RefusedOnlyTwice ==
    \A c \in Calls : store[c].st = "refused" =>
      store[c].token > store[c].first /\ ~M2M!Valid(store[c].token)

\* Calls of authedFetch that share the token keep out of each other's way: a token is
\* asked for only when the last one is about to expire or was refused, a 401 is
\* reported only for a newer token that is refused as well, and a failed token request
\* fails the call that made it and none that is queued behind it (getAccessToken).
TokenShared ==
    [][app = "m2m" =>
         /\ TokensSpaced' /\ RefusedOnlyTwice'
         /\ \A c \in Calls : store[c].st = "chained" /\ store'[c].st = "failed"
              => mem.posting # M2M!NotPosting /\ Head(mem.chain).call = c]_vars

\* The stream hands event k to its reader.
Delivers(k) == mem.chunk # <<>> /\ Head(mem.chunk) = k /\ mem'.chunk # mem.chunk

\* A stream that reconnects skips no event and delivers one again only if it carries
\* no id to resume from; with sseMaxRetryAttempts given, there are no more attempts
\* than that (createSseClient).
StreamResumes ==
    [][app = "sse" =>
         /\ \A k \in store : Delivers(k) => k \notin wire.named
         /\ \A k \in store' : 1 .. k \subseteq store'
         /\ wire'.limited => mem'.attempt <= MaxAttempts]_vars

\* A request is passed through every interceptor that was installed when its loop
\* began and is not ejected meanwhile, whatever others install, eject or clear; and
\* one that failed reports an error, also when the server's answer or an interceptor
\* left none (the request function of client.gen.ts).  With responseStyle 'data' and
\* without throwOnError there is no place for the error, and the result is undefined.
PipelineComplete ==
    app = "sdk" =>
      \A r \in Pipelines :
        /\ wire[r].at \in {"fetch", "body", "done", "failed"} => wire[r].due = {}
        /\ wire[r].at = "failed" /\ ~wire[r].bare => wire[r].error # "falsy"

\* The demo exchanges a code only within the sign-in it was issued for; its cookie
\* never holds a refresh token that was used before, unless two requests refreshed
\* with it at the same time; and after a logout the cookie stays gone, until the next
\* sign-in or a refresh that was in flight.
DemoSessionHolds ==
    app = "demo" =>
      /\ \A l \in Legs : store[l].code = store[l].tx
      /\ mem.session \in wire.spent => obs.raced
      /\ obs.out => mem.session = Demo!Absent

----------------------------------------------------------------------------
(* Liveness *)

(***************************************************************************)
(* What someone waits for, of call c: a request of a page; for c = Router, *)
(* the guard of a navigation; a call of authedFetch; the end of a stream   *)
(* that was aborted.  In the console, a refresh that is itself refused     *)
(* with a 401 waits for itself, and all wait for it (stuck).               *)
(***************************************************************************)
Pending(c) ==
    CASE app = "portal" -> IF c = Router THEN mem.nav # None ELSE mem.reqs[c] # "idle"
      [] app = "admin" -> ~mem.stuck /\ IF c = Router THEN mem.nav # None ELSE mem.call[c] # "idle"
      [] app = "m2m" -> store[c].st \in {"chained", "sent"}
      [] app = "sse" -> c # Router /\ wire.aborted /\ mem.at # "ended"
      [] OTHER -> FALSE

\* Everything that is waited for comes: requests and navigations of a page, also
\* when they share a refresh and when it fails, calls of authedFetch behind token
\* requests that fail, and the end of an aborted stream.
EverythingEnds == \A c \in Calls : Pending(c) ~> ~Pending(c)
=============================================================================
