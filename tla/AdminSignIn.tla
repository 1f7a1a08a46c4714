---------------------------- MODULE AdminSignIn -----------------------------
(***************************************************************************)
(* The login page of the admin console (frontends/admin: LoginPage, and    *)
(* login, verifyMfa, changePasswordForced and applySession of stores/auth) *)
(* up to the moment the console is entered; AdminSession has what follows. *)
(*                                                                         *)
(* A flow number stands for a PKCE verifier and the challenge made from    *)
(* it.  The verifier of a paused login waits in sessionStorage.            *)
(***************************************************************************)
EXTENDS PageRuntime

Own == 1 .. 4

\* pending: the flow whose challenge the server session holds while the second
\* factor is outstanding.
Db0 == [pending |-> None]

\* stash: sessionStorage['pkce_code_verifier'].  overtaken: the stash was that of a later
\* login when an answer cleared it.  left: the console is entered.
Ui0 == {[showMfa |-> FALSE, showPasswordChange |-> flagged, passwordChangeDone |-> FALSE,
         passwordChangeBusy |-> FALSE, loading |-> FALSE, mfaLoading |-> FALSE,
         stash |-> None, overtaken |-> FALSE, user |-> None, left |-> None] : flagged \in BOOLEAN}

Calls0 == <<>>

\* The three forms of the page exclude one another.
PasswordChangeOffers(u) ==
    IF u.left # None \/ ~u.showPasswordChange THEN {}
    ELSE {"back"} \cup (IF u.passwordChangeDone \/ u.passwordChangeBusy THEN {} ELSE {"change"})

LoginOffers(u) ==
    IF u.left # None \/ u.showPasswordChange \/ u.showMfa \/ u.loading THEN {} ELSE {"login"}

MfaOffers(u) ==
    IF u.left # None \/ u.showPasswordChange \/ ~u.showMfa THEN {}
    ELSE {"back"} \cup (IF u.mfaLoading THEN {} ELSE {"verify"})

\* A fresh pair: one that nothing holds any more.
generatePkcePair ==
    CHOOSE f \in Own : /\ f # ui.stash /\ f # db.pending
                       /\ \A i \in DOMAIN calls : calls[i].arg # f

handleLogin ==
    /\ "login" \in LoginOffers(ui)
    /\ Handle([ui EXCEPT !.loading = TRUE], <<Call("login", generatePkcePair, {"loading"})>>)

handleMfa ==
    /\ "verify" \in MfaOffers(ui)
    /\ Handle([ui EXCEPT !.mfaLoading = TRUE], <<Call("verifyMfa", ui.stash, {"mfaLoading"})>>)

handlePasswordChange ==
    /\ "change" \in PasswordChangeOffers(ui)
    /\ Handle([ui EXCEPT !.passwordChangeBusy = TRUE],
              <<Call("changePassword", None, {"passwordChangeBusy"})>>)

backToLogin ==
    /\ "back" \in MfaOffers(ui) \cup PasswordChangeOffers(ui)
    /\ Handle([ui EXCEPT !.showMfa = FALSE, !.showPasswordChange = FALSE,
                         !.passwordChangeDone = FALSE], <<>>)

\* The login ends in an MFA challenge, which alone stashes the verifier, a forced
\* password change, a code for the exchange, or an error.
loginThen(i) ==
    /\ calls[i].fn = "login"
    /\ LET f == calls[i].arg
           paused == [db EXCEPT !.pending = f]
           passed == [db EXCEPT !.pending = None]
       IN  \/ Settle(i, [ui EXCEPT !.stash = f, !.overtaken = FALSE, !.showMfa = TRUE], paused)
           \/ Settle(i, [ui EXCEPT !.showPasswordChange = TRUE], passed)
           \/ Await(i, ui, passed, Call("exchange", f, {}))
           \/ Fail(i, ui, paused) \/ Fail(i, ui, passed)

exchangeThen(i) ==
    /\ calls[i].fn = "exchange"
    /\ Await(i, ui, db, Call("fetchUserInfo", None, {})) \/ Fail(i, ui, db)

\* The server accepts the second factor of the login it waits for.  While the answer is
\* on its way, the user may go back and begin another login.
verifyMfaServed(i) ==
    /\ calls[i].fn = "verifyMfa"
    /\ calls[i].arg = db.pending /\ db.pending # None
    /\ Serve(i, [calls[i] EXCEPT !.fn = "verified"], [db EXCEPT !.pending = None])

\* A plausible slip: a wrong code uses up the verifier.
VerifyMfaBurns(i) ==
    /\ calls[i].fn \in {"verifyMfa", "verified"}
    /\ LET burnt == [ui EXCEPT !.stash = None, !.overtaken = ui.stash # calls[i].arg]
       IN  \/ calls[i].fn = "verified" /\ Await(i, burnt, db, Call("fetchUserInfo", None, {}))
           \/ Fail(i, burnt, db)

\* The verifier is used up only by success, so that a mistyped code can be retried;
\* whose verifier it is by now is not asked.
verifyMfaThen(i) ==
    /\ calls[i].fn \in {"verifyMfa", "verified"}
    /\ \/ /\ calls[i].fn = "verified"
          /\ Await(i, [ui EXCEPT !.stash = None, !.overtaken = ui.stash # calls[i].arg], db,
                   Call("fetchUserInfo", None, {}))
       \/ Fail(i, ui, db)

\* applySession: a user info without the admin role, or none, ends the session,
\* and the user again once logout is over; an admin enters the console.
applySession(i) ==
    /\ calls[i].fn = "fetchUserInfo"
    /\ \E role \in {"admin", "other", None} :
         LET u == [ui EXCEPT !.user = IF role = None THEN @ ELSE role]
         IN  IF u.user = "admin" THEN Settle(i, [u EXCEPT !.left = "console"], db)
             ELSE Settle(i, [u EXCEPT !.user = None], db)

changePasswordThen(i) ==
    /\ calls[i].fn = "changePassword"
    /\ Settle(i, [ui EXCEPT !.passwordChangeDone = TRUE], db) \/ Fail(i, ui, db)

Step ==
    \/ handleLogin \/ handleMfa \/ handlePasswordChange \/ backToLogin
    \/ \E i \in DOMAIN calls :
         \/ loginThen(i) \/ exchangeThen(i) \/ verifyMfaServed(i) \/ verifyMfaThen(i)
         \/ applySession(i) \/ changePasswordThen(i)

\* The form for the second factor can be finished: while the server waits for
\* one, the verifier at hand is that of the login it waits for, also after a
\* wrong code and after going back to the first form.  The late answer to the second
\* factor of an earlier login takes that of the later one away.
ChallengeKept ==
    "verify" \in MfaOffers(ui) /\ db.pending # None => ui.stash = db.pending \/ ui.overtaken
=============================================================================
