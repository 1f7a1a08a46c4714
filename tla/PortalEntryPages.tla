-------------------------- MODULE PortalEntryPages -------------------------
(***************************************************************************)
(* The portal's pages for someone who has no session (frontends/user,      *)
(* pages/auth): registration, the two halves of a password reset, and the  *)
(* landing page of the verification mail.  Each sends one request that can *)
(* take effect once: a name is registered once, a mailed token is used up. *)
(***************************************************************************)
EXTENDS PageRuntime

Forms == {"register", "reset", "verify", "forgot"}

\* done: the page's request has taken effect.
Db0 == [done |-> FALSE]

(***************************************************************************)
(* filled: what the two password fields hold.  token: the address carries  *)
(* a token.  outcome: what the page shows in the end.                      *)
(***************************************************************************)
Ui0 ==
    {[form |-> f, filled |-> "empty", token |-> t, loading |-> FALSE, outcome |-> None] :
       f \in {"register", "reset", "forgot"}, t \in BOOLEAN}
    \cup {[form |-> "verify", filled |-> "empty", token |-> FALSE, loading |-> FALSE,
           outcome |-> "error"],
          [form |-> "verify", filled |-> "empty", token |-> TRUE, loading |-> TRUE,
           outcome |-> None]}

\* onMounted of the verification page sends its request at once.
Calls0(u) == IF u.loading THEN <<Call("verify", None, {"loading"})>> ELSE <<>>

\* A submit button that is busy also keeps Enter from submitting the form.
SubmitOffers(u) == IF u.loading THEN {} ELSE {"submit"}

RegisterOffers(u) ==
    IF u.form # "register" \/ u.outcome = "success" THEN {} ELSE {"type"} \cup SubmitOffers(u)

ResetOffers(u) ==
    IF u.form # "reset" \/ ~u.token \/ u.outcome = "success"
      THEN {} ELSE {"type"} \cup SubmitOffers(u)

ForgotOffers(u) ==
    IF u.form # "forgot" \/ u.outcome = "success" THEN {} ELSE SubmitOffers(u)

\* A verified or refused address is left only by the link to the login page.
VerifyShows(u) == IF u.outcome = None THEN "loading" ELSE u.outcome

typePasswords ==
    \E v \in {"match", "short", "mismatch"} :
      /\ "type" \in RegisterOffers(ui) \cup ResetOffers(ui)
      /\ Handle([ui EXCEPT !.filled = v], <<>>)

Submit(fn, u) ==
    IF ui.filled # "match" THEN Handle([u EXCEPT !.outcome = "error"], <<>>)
    ELSE Handle([u EXCEPT !.loading = TRUE, !.outcome = None], <<Call(fn, None, {"loading"})>>)

handleRegister == "submit" \in RegisterOffers(ui) /\ Submit("register", [ui EXCEPT !.outcome = None])

handleReset == "submit" \in ResetOffers(ui) /\ Submit("reset", ui)

handleSubmit ==
    /\ "submit" \in ForgotOffers(ui)
    /\ Handle([ui EXCEPT !.loading = TRUE], <<Call("forgot", None, {"loading"})>>)

\* A plausible slip: the message is shown whatever the answer was.
AnsweredAnyhow(i, fn) ==
    /\ calls[i].fn = fn
    /\ \/ /\ ~db.done
          /\ Settle(i, [ui EXCEPT !.outcome = "success"], [done |-> TRUE])
       \/ Settle(i, [ui EXCEPT !.outcome = "success"], db)

\* The server does what the request asks for once; refused or lost, it shows
\* as an error.
Answered(i, fn) ==
    /\ calls[i].fn = fn
    /\ \/ /\ ~db.done
          /\ Settle(i, [ui EXCEPT !.outcome = "success"], [done |-> TRUE])
       \/ Fail(i, [ui EXCEPT !.outcome = "error"], [done |-> TRUE])

handleRegisterThen(i) == Answered(i, "register")

\* A timer of three seconds then goes to the login page.
handleResetThen(i) == Answered(i, "reset")

verifyThen(i) == Answered(i, "verify")

\* Whether there is such an account is not told: a failure looks the same.
handleSubmitThen(i) ==
    /\ calls[i].fn = "forgot"
    /\ \/ Settle(i, [ui EXCEPT !.outcome = "success"], [done |-> TRUE])
       \/ Fail(i, [ui EXCEPT !.outcome = "success"], [done |-> TRUE])

Step ==
    \/ typePasswords \/ handleRegister \/ handleReset \/ handleSubmit
    \/ \E i \in DOMAIN calls :
         handleRegisterThen(i) \/ handleResetThen(i) \/ verifyThen(i) \/ handleSubmitThen(i)

\* Success is reported only of a request that took effect, except by the page
\* that must not tell.
ReportsEffect == ui.outcome = "success" /\ ui.form # "forgot" => db.done
=============================================================================
