---------------------------- MODULE AdminSession ----------------------------
(***************************************************************************)
(* The session of the admin console in one tab (frontends/admin:           *)
(* stores/auth, router, main, AdminLayout).  The refresh token is also in  *)
(* sessionStorage, which outlives a page load; everything else is lost     *)
(* with the page.  A token is there or not.  Any request may be answered   *)
(* by 401, and by an error.                                                *)
(*                                                                         *)
(* logout is often called without an await.  It drops the session only     *)
(* when its calls to the server are over, whatever the session is by then. *)
(***************************************************************************)
EXTENDS Naturals

CONSTANTS
    None,           \* null
    Requests,       \* the requests a page can have in flight
    MaxLoads,       \* bound: page loads after the first
    MaxLogouts      \* bound: logouts that are under way at a time

VARIABLES
    tab,        \* what the page has in memory
    persisted,  \* whether sessionStorage has 'admin_refresh_token'
    loads,      \* page loads after the first
    obs         \* observer

adminVars == <<tab, persisted, loads, obs>>

Routes == {"page", "login"}

\* The two callers of restoreSession: main, and the promise the guard keeps.
Restorers == {"main", "promise"}

\* Who may be waiting for a call other than the refresh itself.
Callers == Requests \cup Restorers \cup {"signIn"}

(***************************************************************************)
(* restore: how far each restorer is, and its result.  call: the state of  *)
(* each caller's request (idle, sent, waiting for a refresh, retried); a   *)
(* restorer and a sign-in make theirs in fetchUserInfo.  refreshes: the    *)
(* exchanges in flight; stuck: one of them waits for itself.  leaving:     *)
(* logouts under way; clicked: one of them is the user's.                  *)
(***************************************************************************)
Loaded ==
    [accessToken |-> FALSE, refreshToken |-> FALSE, user |-> None, refreshes |-> 0, stuck |-> FALSE,
     restore |-> [w \in Restorers |-> "none"], call |-> [c \in Callers |-> "idle"],
     route |-> "none", nav |-> None, leaving |-> 0, clicked |-> FALSE, signingIn |-> FALSE]

(***************************************************************************)
(* overtaken: the session was dropped while the guard's restore was under  *)
(* way or after it had succeeded, and there has been no token since.       *)
(* admin: the user info of the sign-in showed an admin.  late: the sign-in *)
(* began before the session before it was over.                            *)
(***************************************************************************)
Obs0 == [overtaken |-> FALSE, admin |-> FALSE, late |-> FALSE]

----------------------------------------------------------------------------
(* Refreshing *)

\* A plausible slip: every caller starts an exchange.
RefreshAccessTokenEach(s) ==
    IF s.refreshToken THEN [s EXCEPT !.refreshes = @ + 1] ELSE s

\* All callers share one exchange.
refreshAccessToken(s) ==
    IF s.refreshToken /\ s.refreshes = 0 THEN [s EXCEPT !.refreshes = 1] ELSE s

\* logout up to its await.
logout(s) == [s EXCEPT !.leaving = IF @ < MaxLogouts THEN @ + 1 ELSE @]

restoreSession(s, w) ==
    IF ~persisted THEN [s EXCEPT !.restore[w] = "no"]
    ELSE [refreshAccessToken([s EXCEPT !.refreshToken = TRUE]) EXCEPT !.restore[w] = "refreshing"]

ensureSessionRestored(s) ==
    IF s.restore["promise"] = "none" THEN restoreSession(s, "promise") ELSE s

\* router.push, up to the await of the guard.
push(s, to) ==
    IF to = "login" \/ s.accessToken THEN [s EXCEPT !.route = to, !.nav = None]
    ELSE [ensureSessionRestored(s) EXCEPT !.nav = to]

Waiters(s) == {c \in Callers : s.call[c] = "waiting"}

\* Those that wait for the refresh go on as st.
Wake(s, st) == [s EXCEPT !.call = [c \in Callers |-> IF c \in Waiters(s) THEN st ELSE @[c]]]

\* A refresh is in flight that may still be answered.
Refreshing == tab.refreshes > 0 /\ ~tab.stuck

refreshed ==
    LET restoring == {w \in Restorers : tab.restore[w] = "refreshing"}
        woken == Wake(tab, "retried")
    IN  /\ Refreshing
        /\ persisted' = TRUE
        /\ tab' = [woken EXCEPT
                     !.accessToken = TRUE, !.refreshToken = TRUE, !.refreshes = @ - 1,
                     !.restore = [w \in Restorers |-> IF w \in restoring THEN "fetching" ELSE @[w]],
                     !.call = [c \in Callers |-> IF c \in restoring THEN "sent" ELSE @[c]]]
        /\ obs' = [obs EXCEPT !.overtaken = FALSE]
        /\ UNCHANGED loads

\* What a failed fetchUserInfo leaves: restorers and sign-ins read the user that
\* is there.
Decided(s, C) ==
    [s EXCEPT !.restore = [w \in Restorers |->
                             IF w \notin C THEN @[w] ELSE IF s.user = "admin" THEN "yes" ELSE "no"],
              !.signingIn = @ /\ "signIn" \notin C]

\* A plausible slip: a sign-in goes on whoever the user is.
EnterConsoleAnyone(s, C) == IF "signIn" \notin C THEN s ELSE push(s, "page")

\* applySession and the page's router.push after a sign-in: only an admin stays.
EnterConsole(s, C) ==
    IF "signIn" \notin C THEN s
    ELSE IF s.user = "admin" THEN push(s, "page") ELSE logout(s)

redirectToLogin(s) == IF s.route = "login" THEN s ELSE push(s, "login")

\* A plausible slip: nobody who waits learns of the failure.
RefreshFailedAlone(s) == logout([s EXCEPT !.refreshes = @ - 1])

\* The catch of the refresh.  Restorers get FALSE; the interceptors of waiting
\* requests log out too and go to the login view.
RefreshFailed(s) ==
    LET failed == Wake([logout(s) EXCEPT
                          !.refreshes = @ - 1,
                          !.restore = [w \in Restorers |-> IF @[w] = "refreshing" THEN "no" ELSE @[w]]],
                       "idle")
    IN  IF Waiters(s) = {} THEN failed
        ELSE EnterConsole(redirectToLogin(logout(Decided(failed, Waiters(s)))), Waiters(s))

refreshFailed ==
    /\ Refreshing
    /\ tab' = RefreshFailed(tab)
    /\ UNCHANGED <<persisted, loads, obs>>

\* The token endpoint answers 401: the interceptor of the console awaits the
\* refresh that is in flight, which is this one.
refreshUnauthorized ==
    /\ Refreshing /\ tab.refreshToken
    /\ tab' = [tab EXCEPT !.stuck = TRUE]
    /\ UNCHANGED <<persisted, loads, obs>>

----------------------------------------------------------------------------
(* Requests and fetchUserInfo *)

request(r) ==
    /\ tab.route = "page" /\ tab.call[r] = "idle"
    /\ tab' = [tab EXCEPT !.call[r] = "sent"]
    /\ UNCHANGED <<persisted, loads, obs>>

\* The response interceptor on a first 401.
unauthorized(c) ==
    /\ tab.call[c] = "sent" /\ tab.refreshToken
    /\ tab' = refreshAccessToken([tab EXCEPT !.call[c] = "waiting"])
    /\ UNCHANGED <<persisted, loads, obs>>

response(r) ==
    /\ tab.call[r] \in {"sent", "retried"}
    /\ tab' = [tab EXCEPT !.call[r] = "idle"]
    /\ UNCHANGED <<persisted, loads, obs>>

\* The user info arrives, with the roles of the moment.
userInfo(c) ==
    \E role \in {"admin", "other"} :
      LET known == [tab EXCEPT !.call[c] = "idle", !.user = role]
      IN  /\ tab.call[c] \in {"sent", "retried"}
          /\ tab' = EnterConsole(Decided(known, {c}), {c})
          /\ obs' = [obs EXCEPT !.admin = @ \/ (role = "admin" /\ c = "signIn")]
          /\ UNCHANGED <<persisted, loads>>

\* It does not: fetchUserInfo logs out, and the caller reads the user as it is.
userInfoFails(c) ==
    /\ tab.call[c] \in {"sent", "retried"}
    /\ tab' = EnterConsole(Decided(logout([tab EXCEPT !.call[c] = "idle"]), {c}), {c})
    /\ UNCHANGED <<persisted, loads, obs>>

----------------------------------------------------------------------------
(* Navigation *)

\* A plausible slip: the guard does not wait for the restore.
GuardHurried ==
    /\ tab.nav # None
    /\ tab' = [tab EXCEPT !.route = IF tab.restore["promise"] # "no" THEN tab.nav ELSE "login",
                          !.nav = None]
    /\ UNCHANGED <<persisted, loads, obs>>

\* The guard after its await: the result of the one restore decides.
guard ==
    /\ tab.nav # None
    /\ tab.restore["promise"] \in {"yes", "no"}
    /\ tab' = [tab EXCEPT !.route = IF tab.restore["promise"] = "yes" THEN tab.nav ELSE "login",
                          !.nav = None]
    /\ UNCHANGED <<persisted, loads, obs>>

navigate(to) ==
    /\ tab.nav = None /\ tab.route # to
    /\ tab' = push(tab, to)
    /\ UNCHANGED <<persisted, loads, obs>>

Page(to) == push(restoreSession(Loaded, "main"), to)

\* A page load; a logout under way no longer drops anything.
load(to) ==
    /\ loads < MaxLoads /\ loads' = loads + 1
    /\ tab' = Page(to)
    /\ obs' = Obs0
    /\ UNCHANGED persisted

----------------------------------------------------------------------------
(* Signing in and out *)

\* login or verifyMfa has got tokens (see AdminSignIn), and asks who it is.
signIn ==
    /\ tab.route = "login" /\ tab.nav = None /\ ~tab.signingIn
    /\ tab' = [tab EXCEPT !.accessToken = TRUE, !.refreshToken = TRUE, !.signingIn = TRUE,
                          !.call["signIn"] = "sent"]
    /\ persisted' = TRUE
    /\ obs' = [admin |-> FALSE, overtaken |-> FALSE,
               late |-> \/ tab.user # None \/ tab.refreshes > 0
                        \/ \E w \in Restorers : tab.call[w] # "idle"]
    /\ UNCHANGED loads

\* AdminLayout.handleLogout.
handleLogout ==
    /\ tab.route = "page" /\ ~tab.clicked
    /\ tab' = [logout(tab) EXCEPT !.clicked = TRUE]
    /\ UNCHANGED <<persisted, loads, obs>>

\* A logout ends: its calls have revoked the tokens or failed, and it drops the
\* session.  When it was the user's, handleLogout goes to the login view.
logoutDone ==
    /\ tab.leaving > 0
    /\ \E mine \in BOOLEAN :
         /\ mine => tab.clicked
         /\ tab.clicked /\ tab.leaving = 1 => mine
         /\ LET dropped == [tab EXCEPT !.accessToken = FALSE, !.refreshToken = FALSE, !.user = None,
                                       !.leaving = @ - 1, !.clicked = @ /\ ~mine]
            IN  tab' = IF mine THEN push(dropped, "login") ELSE dropped
    /\ persisted' = FALSE
    /\ obs' = [obs EXCEPT !.overtaken = @ \/ tab.restore["promise"] \notin {"none", "no"}]
    /\ UNCHANGED loads

----------------------------------------------------------------------------
(* The specification *)

\* A tab is opened on either page; or loaded again with the session it had.
AdminInit ==
    /\ persisted \in BOOLEAN
    /\ loads = 0 /\ obs = Obs0
    /\ \E to \in Routes : tab = Page(to)

AdminNext ==
    \/ refreshed \/ refreshFailed \/ refreshUnauthorized
    \/ \E r \in Requests : request(r) \/ response(r)
    \/ \E c \in Callers : unauthorized(c)
    \/ \E c \in Callers \ Requests : userInfo(c) \/ userInfoFails(c)
    \/ guard \/ \E to \in Routes : navigate(to) \/ load(to)
    \/ signIn \/ handleLogout \/ logoutDone

\* The event loop runs what is due, and the browser ends every call.
AdminFairness ==
    /\ WF_adminVars(guard) /\ WF_adminVars(refreshed \/ refreshFailed)
    /\ WF_adminVars(logoutDone)
    /\ \A r \in Requests : WF_adminVars(unauthorized(r) \/ response(r))
    /\ \A c \in Callers \ Requests : WF_adminVars(unauthorized(c) \/ userInfo(c) \/ userInfoFails(c))
=============================================================================
