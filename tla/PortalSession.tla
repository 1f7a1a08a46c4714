---------------------------- MODULE PortalSession ---------------------------
(***************************************************************************)
(* The session of one tab of the portal (frontends/user): what stores/auth *)
(* makes of the tokens of services/http, the guard of the router, and      *)
(* signing out.  PortalTokens has the tokens themselves; here a token is   *)
(* there or not, the server grants a refresh or refuses it, and the other  *)
(* tabs are an environment that writes to localStorage.  Signing in is one *)
(* step up to its tokens; see PortalSignIn.                                *)
(***************************************************************************)
EXTENDS Naturals, Sequences

CONSTANTS
    None,           \* null
    Requests,       \* the requests a page can have in flight
    MaxEvents,      \* bound: storage events on their way to the tab
    MaxLoads        \* bound: page loads after the first

VARIABLES
    tab,        \* what the tab has in memory
    stored,     \* whether localStorage has a refresh token
    events,     \* the storage events that are on their way: the new values
    loads,      \* page loads after the first
    obs         \* observer

sessionVars == <<tab, stored, events, loads, obs>>

Routes == {"dashboard", "login"}

\* The requests of the page, and the one that a restore or a sign-in makes for
\* /oauth2/userinfo.
Callers == Requests \cup {"user"}

(***************************************************************************)
(* restore: how far restoreSession has come; its promise is kept for the   *)
(* life of the page.  nav: the navigation whose guard awaits that promise. *)
(* leaving: a logout whose calls are under way.  A request is idle, sent,  *)
(* waiting for a refresh, or retried.                                      *)
(***************************************************************************)
Loaded(token) ==
    [accessToken |-> FALSE, refreshToken |-> token, tokenPresent |-> token, refreshing |-> FALSE,
     restore |-> "none", route |-> "none", nav |-> None, leaving |-> FALSE,
     reqs |-> [c \in Callers |-> "idle"]]

(***************************************************************************)
(* expired: a request of this page found the session over, and the user    *)
(* has gone nowhere since.  ended: a refresh that no restore waited for    *)
(* has failed, and there has been no token since.  out: the tab has signed *)
(* out while no refresh was in flight, and since then there was no page    *)
(* load, no sign-in and no token of another tab.                           *)
(***************************************************************************)
Obs0 == [expired |-> FALSE, ended |-> FALSE, out |-> FALSE]

----------------------------------------------------------------------------
(* services/http and stores/auth *)

refreshTokens(s) == [s EXCEPT !.refreshing = TRUE]

setTokens(s) == [s EXCEPT !.accessToken = TRUE, !.refreshToken = TRUE]

\* A plausible slip: only the stored refresh token is removed.
ClearTokensStored(s) == [s EXCEPT !.accessToken = FALSE]

clearTokens(s) == [s EXCEPT !.accessToken = FALSE, !.refreshToken = FALSE]

markUnauthenticated(s) == [s EXCEPT !.tokenPresent = FALSE]

fetchUser(s) == [s EXCEPT !.reqs["user"] = "sent"]

Waiters(s) == {c \in Callers : s.reqs[c] = "waiting"}

\* The promise of the first restore serves every later caller.
restoreSession(s) ==
    IF s.restore # "none" THEN s
    ELSE IF s.accessToken THEN [s EXCEPT !.restore = "done"]
    ELSE IF ~s.refreshToken THEN [markUnauthenticated(s) EXCEPT !.restore = "done"]
    ELSE [refreshTokens(s) EXCEPT !.restore = "refreshing"]

----------------------------------------------------------------------------
(* The guard of the router *)

\* Up to its await: a guest page, and a page for which the tab seems to have no
\* session, wait for the restore; the others are entered at once.
push(s, to) ==
    IF to = "dashboard" /\ s.tokenPresent THEN [s EXCEPT !.route = to, !.nav = None]
    ELSE [restoreSession(s) EXCEPT !.nav = to]

\* A plausible slip: a guest page does not wait for the restore.
GuardHurried ==
    /\ tab.nav # None
    /\ tab.nav = "login" \/ tab.restore = "done"
    /\ tab' = [tab EXCEPT !.route = IF tab.tokenPresent THEN "dashboard" ELSE "login", !.nav = None]
    /\ UNCHANGED <<stored, events, loads, obs>>

\* After it: the decision is on the live value.
guard ==
    /\ tab.nav # None
    /\ tab.restore = "done"
    /\ tab' = [tab EXCEPT !.route = IF tab.tokenPresent THEN "dashboard" ELSE "login", !.nav = None]
    /\ UNCHANGED <<stored, events, loads, obs>>

navigate(to) ==
    /\ tab.nav = None /\ tab.route # to
    /\ tab' = push(tab, to)
    /\ obs' = [obs EXCEPT !.expired = FALSE]
    /\ UNCHANGED <<stored, events, loads>>

\* A page load: the memory is lost, with all that is under way, and the store
\* starts a restore when it finds a token.
load(to) ==
    LET fresh == Loaded(stored)
    IN  /\ loads < MaxLoads /\ loads' = loads + 1
        /\ tab' = push(IF stored THEN restoreSession(fresh) ELSE fresh, to)
        /\ events' = <<>>
        /\ obs' = Obs0
        /\ UNCHANGED stored

----------------------------------------------------------------------------
(* Requests and refreshes *)

request(r) ==
    /\ tab.route = "dashboard" /\ tab.reqs[r] = "idle"
    /\ tab' = [tab EXCEPT !.reqs[r] = "sent"]
    /\ UNCHANGED <<stored, events, loads, obs>>

\* The response interceptor on a first 401, when the tab has a refresh token.
unauthorized(c) ==
    /\ tab.reqs[c] = "sent" /\ tab.refreshToken
    /\ tab' = refreshTokens([tab EXCEPT !.reqs[c] = "waiting"])
    /\ UNCHANGED <<stored, events, loads, obs>>

\* The calls C are over.  fetchUser swallows its error, and with it a restore ends,
\* or the sign-in goes to the dashboard.
Ended(s, C) ==
    LET over == [s EXCEPT !.reqs = [c \in Callers |-> IF c \in C THEN "idle" ELSE @[c]]]
    IN  IF "user" \notin C THEN over
        ELSE IF s.restore = "fetching" THEN [over EXCEPT !.restore = "done"]
        ELSE push(over, "dashboard")

\* Any other answer, a network error, or the time-out of 15 seconds.
response(c) ==
    /\ tab.reqs[c] \in {"sent", "retried"}
    /\ tab' = Ended(tab, {c})
    /\ UNCHANGED <<stored, events, loads, obs>>

\* The refresh has succeeded: the waiting requests go out again, once, and a
\* restore goes on to fetchUser.
refreshed ==
    LET new == [setTokens(tab) EXCEPT
                  !.refreshing = FALSE,
                  !.reqs = [c \in Callers |-> IF c \in Waiters(tab) THEN "retried" ELSE @[c]]]
    IN  /\ tab.refreshing
        /\ stored' = TRUE
        /\ tab' = IF tab.restore = "refreshing"
                    THEN fetchUser([new EXCEPT !.restore = "fetching", !.tokenPresent = TRUE])
                    ELSE new
        /\ obs' = [obs EXCEPT !.ended = FALSE]
        /\ UNCHANGED <<events, loads>>

\* redirectToLogin
redirectToLogin(s) == IF s.route = "login" THEN s ELSE push(s, "login")

\* A plausible slip: a restore that fails leaves the tab as if it had a session.
RefreshFailedUnmarked ==
    LET cleared == [clearTokens(tab) EXCEPT !.refreshing = FALSE]
        new == IF tab.restore = "refreshing" THEN [cleared EXCEPT !.restore = "done"] ELSE cleared
    IN  /\ tab.refreshing
        /\ stored' = FALSE
        /\ tab' = IF Waiters(tab) = {} THEN new ELSE Ended(redirectToLogin(new), Waiters(tab))
        /\ obs' = [obs EXCEPT !.expired = @ \/ Waiters(tab) \cap Requests # {},
                              !.ended = tab.restore # "refreshing"]
        /\ UNCHANGED <<events, loads>>

\* The refresh has failed: the tokens go, a restore clears the flag too, and a
\* waiting request sends the page to the login view.
refreshFailed ==
    LET cleared == [clearTokens(tab) EXCEPT !.refreshing = FALSE]
        new == IF tab.restore = "refreshing"
                 THEN [markUnauthenticated(cleared) EXCEPT !.restore = "done"] ELSE cleared
    IN  /\ tab.refreshing
        /\ stored' = FALSE
        /\ tab' = IF Waiters(tab) = {} THEN new ELSE Ended(redirectToLogin(new), Waiters(tab))
        /\ obs' = [obs EXCEPT !.expired = @ \/ Waiters(tab) \cap Requests # {},
                              !.ended = tab.restore # "refreshing"]
        /\ UNCHANGED <<events, loads>>

----------------------------------------------------------------------------
(* The other tabs *)

otherTab(value) ==
    /\ value # stored \/ value
    /\ Len(events) < MaxEvents
    /\ stored' = value
    /\ events' = Append(events, value)
    /\ UNCHANGED <<tab, loads, obs>>

\* The storage event updates the refresh token, and nothing else.
storageEvent ==
    /\ events # <<>>
    /\ tab' = [tab EXCEPT !.refreshToken = Head(events)]
    /\ events' = Tail(events)
    /\ obs' = [obs EXCEPT !.out = @ /\ ~Head(events)]
    /\ UNCHANGED <<stored, loads>>

----------------------------------------------------------------------------
(* Signing in and out *)

\* The tokens have come; the page goes on once it knows the user.
login ==
    /\ tab.route = "login" /\ tab.nav = None /\ tab.reqs["user"] = "idle"
    /\ tab' = fetchUser([setTokens(tab) EXCEPT !.tokenPresent = TRUE])
    /\ stored' = TRUE
    /\ obs' = Obs0
    /\ UNCHANGED <<events, loads>>

\* handleLogout: /oauth2/logout and /oauth2/revoke go out, by fetch: their answers
\* do not pass the interceptor.
logout ==
    /\ tab.route = "dashboard" /\ ~tab.leaving
    /\ tab' = [tab EXCEPT !.leaving = TRUE]
    /\ UNCHANGED <<stored, events, loads, obs>>

\* clearTokens, markUnauthenticated and the navigation to the login page.
dropSession ==
    /\ tab' = push([markUnauthenticated(clearTokens(tab)) EXCEPT !.leaving = FALSE], "login")
    /\ stored' = FALSE
    /\ obs' = [obs EXCEPT !.out = ~tab.refreshing, !.ended = FALSE]
    /\ UNCHANGED <<events, loads>>

\* Promise.allSettled: the tab goes on whether its calls succeed or fail.
logoutDone == tab.leaving /\ dropSession

\* The password has been changed on the security page, and with it every token
\* of the account has been revoked.
logoutLocal == tab.route = "dashboard" /\ ~tab.leaving /\ tab.accessToken /\ dropSession

----------------------------------------------------------------------------
(* The specification *)

\* A tab is opened on either page, in a browser with or without a token.
SessionInit ==
    /\ stored \in BOOLEAN /\ events = <<>> /\ loads = 0 /\ obs = Obs0
    /\ \E to \in Routes :
         tab = push(IF stored THEN restoreSession(Loaded(TRUE)) ELSE Loaded(FALSE), to)

SessionNext ==
    \/ \E to \in Routes : navigate(to) \/ load(to)
    \/ \E r \in Requests : request(r)
    \/ \E c \in Callers : unauthorized(c) \/ response(c)
    \/ guard \/ refreshed \/ refreshFailed
    \/ \E value \in BOOLEAN : otherTab(value)
    \/ storageEvent
    \/ login \/ logout \/ logoutDone \/ logoutLocal

\* The event loop runs what is due, and the browser ends every call.
SessionFairness ==
    /\ WF_sessionVars(guard) /\ WF_sessionVars(refreshed \/ refreshFailed)
    /\ WF_sessionVars(logoutDone)
    /\ \A c \in Callers : WF_sessionVars(unauthorized(c) \/ response(c))
=============================================================================
