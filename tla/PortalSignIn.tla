---------------------------- MODULE PortalSignIn ----------------------------
(***************************************************************************)
(* How the portal signs someone in (frontends/user): the login page with   *)
(* its MFA and password-change forms, authService with its PKCE stash, and *)
(* the three callback pages a browser lands on.  One tab is modelled: its  *)
(* sessionStorage (stash, marker) outlives a page load, its refs do not.   *)
(*                                                                         *)
(* A flow number stands for a state, its PKCE verifier and the challenge   *)
(* made from it.  A flow of another application is 0.  The flag for used-  *)
(* up backup codes, which only a banner reads, and the lookups that        *)
(* decorate the page are left out.                                         *)
(***************************************************************************)
EXTENDS PageRuntime

Own == 1 .. 3

Providers == {"github", "google"}

(***************************************************************************)
(* pending: the flow whose challenge the server session holds while the    *)
(* second factor is outstanding (mfa_code_challenge).                      *)
(***************************************************************************)
Db0 == [pending |-> None]

(***************************************************************************)
(* query: what the address of the login page asks for.  left: where the    *)
(* page has gone once it is done.                                          *)
(***************************************************************************)
Login(query) ==
    [showMfa |-> FALSE, showPasswordChange |-> query = "must_change_password",
     passwordChangeDone |-> FALSE, passwordChangeBusy |-> FALSE, loading |-> FALSE,
     externalFlow |-> FALSE, query |-> query, stash |-> None, marker |-> None, left |-> None]

Ui0 == {Login(q) : q \in {None, "redirect", "authorize", "must_change_password"}}

Calls0 == <<>>

\* A page load keeps what is in sessionStorage.
Load(u) == [u EXCEPT !.stash = ui.stash, !.marker = ui.marker]

OnLogin(u) == u.left = None /\ u.query # "callback"

\* The three forms of the page exclude one another.
PasswordChangeOffers(u) ==
    IF ~OnLogin(u) \/ ~u.showPasswordChange THEN {}
    ELSE {"back"} \cup (IF u.passwordChangeDone \/ u.passwordChangeBusy THEN {} ELSE {"change"})

MfaOffers(u) ==
    IF ~OnLogin(u) \/ u.showPasswordChange \/ ~u.showMfa THEN {}
    ELSE {"back"} \cup (IF u.loading THEN {} ELSE {"verify"})

LoginOffers(u) ==
    IF ~OnLogin(u) \/ u.showPasswordChange \/ u.showMfa \/ u.loading THEN {} ELSE {"login"}

\* The links to the providers, whose addresses the server has built.
SocialOffers(u) ==
    IF ~OnLogin(u) \/ u.showPasswordChange \/ u.showMfa THEN {} ELSE Providers

----------------------------------------------------------------------------
(* The login page *)

\* A new state and verifier: ones that nothing holds any more.
generatePkcePair == CHOOSE f \in Own : f # ui.stash /\ f # db.pending

handleLogin ==
    /\ "login" \in LoginOffers(ui)
    /\ Handle([ui EXCEPT !.loading = TRUE], <<Call("login", generatePkcePair, {"loading"})>>)

handleMfa ==
    /\ "verify" \in MfaOffers(ui)
    /\ Handle([ui EXCEPT !.loading = TRUE], <<Call("verifyMfa", ui.stash, {"loading"})>>)

backToLogin ==
    \/ "back" \in MfaOffers(ui) /\ Handle([ui EXCEPT !.showMfa = FALSE], <<>>)
    \/ /\ "back" \in PasswordChangeOffers(ui)
       /\ Handle([ui EXCEPT !.showPasswordChange = FALSE, !.passwordChangeDone = FALSE], <<>>)

handlePasswordChange ==
    /\ "change" \in PasswordChangeOffers(ui)
    /\ Handle([ui EXCEPT !.passwordChangeBusy = TRUE],
              <<Call("changePassword", None, {"passwordChangeBusy"})>>)

\* An explicit target, else the authorization that sent the browser here, else home.
navigateAfterLogin(u) ==
    [u EXCEPT !.left = IF u.query \in {"redirect", "authorize"} THEN u.query ELSE "home"]

\* A plausible slip: a stash that is there is kept.
LoginKeepsStash(i) ==
    /\ calls[i].fn = "login"
    /\ LET f == calls[i].arg
           paused == [db EXCEPT !.pending = f]
           passed == [db EXCEPT !.pending = None]
       IN  \/ Settle(i, [ui EXCEPT !.stash = IF @ = None THEN f ELSE @, !.showMfa = TRUE], paused)
           \/ Settle(i, [ui EXCEPT !.showPasswordChange = TRUE], passed)
           \/ Await(i, ui, passed, Call("exchange", [code |-> f, verifier |-> f], {}))
           \/ Fail(i, ui, paused) \/ Fail(i, ui, passed)

\* A fresh login takes the place of one that waits for its second factor.  It
\* ends in an MFA challenge, a forced password change, a code or an error.
loginThen(i) ==
    /\ calls[i].fn = "login"
    /\ LET f == calls[i].arg
           paused == [db EXCEPT !.pending = f]
           passed == [db EXCEPT !.pending = None]
       IN  \/ Settle(i, [ui EXCEPT !.stash = f, !.showMfa = TRUE], paused)
           \/ Settle(i, [ui EXCEPT !.showPasswordChange = TRUE], passed)
           \/ Await(i, ui, passed, Call("exchange", [code |-> f, verifier |-> f], {}))
           \/ Fail(i, ui, paused) \/ Fail(i, ui, passed)

\* setTokens and markAuthenticated, then fetchUser, which swallows its errors.
exchangeThen(i) ==
    /\ calls[i].fn = "exchange"
    /\ Await(i, ui, db, Call("fetchUser", None, {})) \/ Fail(i, ui, db)

fetchUserThen(i) == calls[i].fn = "fetchUser" /\ Settle(i, navigateAfterLogin(ui), db)

\* The stash is used up only by success, so that a mistyped code can be retried.
verifyMfaThen(i) ==
    /\ calls[i].fn = "verifyMfa"
    /\ LET passed == [db EXCEPT !.pending = None]
       IN  \/ /\ calls[i].arg = db.pending /\ db.pending # None
              /\ Await(i, [ui EXCEPT !.stash = None], passed, Call("fetchUser", None, {}))
           \/ Fail(i, ui, IF calls[i].arg = db.pending THEN passed ELSE db)

changePasswordThen(i) ==
    /\ calls[i].fn = "changePassword"
    /\ Settle(i, [ui EXCEPT !.passwordChangeDone = TRUE], db) \/ Fail(i, ui, db)

----------------------------------------------------------------------------
(* Landings: the browser loads another page of the portal.  What it had in *)
(* flight is dropped, before or after the server has worked on it.         *)

Land(u, new) ==
    /\ ui' = u
    /\ calls' = new
    /\ db' \in {db} \cup {[db EXCEPT !.pending = calls[i].arg] :
                            i \in {j \in DOMAIN calls : calls[j].fn = "login"}}
    /\ UNCHANGED <<page, aux>>

landLogin == \E u \in Ui0 : Land(Load(u), <<>>)

OnCallback == [Login("callback") EXCEPT !.stash = ui.stash, !.marker = ui.marker]

\* A plausible slip: any verifier will do.
HasVerifierForAny(state) == ui.stash # None

hasVerifierForState(state) == state # None /\ ui.stash = state

exchangeCode(code) ==
    Land([OnCallback EXCEPT !.stash = None],
         <<Call("exchange", [code |-> code, verifier |-> ui.stash], {})>>)

\* /callback with a code and the state of its flow, or with an error.  A code
\* of a flow that is not this tab's is left to whoever can redeem it.
landCallback ==
    \/ \E code \in Own \cup {0} :
         \E state \in {code, None} :
           IF hasVerifierForState(state) THEN exchangeCode(code)
           ELSE Land([OnCallback EXCEPT !.externalFlow = TRUE], <<>>)
    \/ Land(OnCallback, <<>>)

\* SecurityPage.beginSocialLink, in this tab, up to the provider's page.
beginSocialLink ==
    \E p \in Providers : Land([OnCallback EXCEPT !.left = "provider", !.marker = p], <<>>)

\* A plausible slip: only the marker tells the two flows apart.
IsLinkFlowByMarker(provider, state) == ui.marker = provider

isLinkFlow(provider, state) == ui.marker = provider \/ state # None

\* What the provider sends back: the server gives a state to the links, none
\* to the logins.
socialCallback(provider) ==
    \E purpose \in {"link", "login"} :
      LET state == IF purpose = "link" THEN "minted" ELSE None
      IN  IF ~isLinkFlow(provider, state)
            THEN Land(OnCallback, <<Call("socialLogin", purpose, {})>>)
          ELSE IF state = None THEN Land([OnCallback EXCEPT !.marker = None], <<>>)
          ELSE Land([OnCallback EXCEPT !.marker = None], <<Call("restore", purpose, {})>>)

landGitHub == socialCallback("github")

landSocial == socialCallback("google")

\* With a session the link goes on; without one it never turns into a login.
restoreThen(i) ==
    /\ calls[i].fn = "restore"
    /\ Await(i, ui, db, Call("link", calls[i].arg, {})) \/ Fail(i, ui, db)

linkThen(i) ==
    /\ calls[i].fn = "link"
    /\ Settle(i, [ui EXCEPT !.left = "security"], db) \/ Fail(i, ui, db)

socialLoginThen(i) ==
    /\ calls[i].fn = "socialLogin"
    /\ Await(i, ui, db, Call("fetchUser", None, {})) \/ Fail(i, ui, db)

Step ==
    \/ handleLogin \/ handleMfa \/ backToLogin \/ handlePasswordChange
    \/ landLogin \/ landCallback \/ beginSocialLink \/ landGitHub \/ landSocial
    \/ \E i \in DOMAIN calls :
         \/ loginThen(i) \/ exchangeThen(i) \/ fetchUserThen(i) \/ verifyMfaThen(i)
         \/ changePasswordThen(i) \/ restoreThen(i) \/ linkThen(i) \/ socialLoginThen(i)

\* A code is presented only with the verifier of its own flow, at the token
\* endpoint and, as long as a login waits for it, with the second factor.
OwnVerifier ==
    \A i \in DOMAIN calls :
      /\ calls[i].fn = "exchange" => calls[i].arg.code = calls[i].arg.verifier
      /\ calls[i].fn = "verifyMfa" /\ db.pending # None => calls[i].arg = db.pending

\* A provider's code for a link is never posted to the login endpoint.
LinkNeverLogsIn == \A i \in DOMAIN calls : calls[i].fn = "socialLogin" => calls[i].arg = "login"
=============================================================================
