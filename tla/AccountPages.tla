---------------------------- MODULE AccountPages ----------------------------
(***************************************************************************)
(* The portal's pages about the user's own account.                        *)
(***************************************************************************)
EXTENDS PageRuntime

----------------------------------------------------------------------------
(***************************************************************************)
(* The portal's security page (frontends/user, pages/account/SecurityPage):*)
(* password, second factor, passkeys, linked social accounts and deletion  *)
(* of the account.  A form is filled in validly and submitted in one step. *)
(*                                                                         *)
(* profile is None or says whether the second factor is on, as the page    *)
(* last heard; socialLinks is the stamp of the list on screen, None for an *)
(* empty one.  The secrets of the second factor and the sets of backup     *)
(* codes are numbered: db.secret and db.codes are those the server stores  *)
(* (0 when there is none), ui.mfaSetupData is the secret on screen, None   *)
(* for none, and ui.backupCodes the set on screen.                         *)
(* The list of passkeys is left out, and with it the call that loads it    *)
(* when nothing waits for its answer.                                      *)
(***************************************************************************)

\* enrolled: the secret is the one whose code was last accepted.
SecurityDb0 == [stamp |-> 0, mfa |-> FALSE, secret |-> 0, enrolled |-> FALSE, codes |-> 0]

\* kept: the set of codes that the user last said to have saved.
SecurityUi0 ==
    Confirm0 @@
    [profile |-> None, loading |-> TRUE, socialLinks |-> None,
     changingPassword |-> FALSE, mfaSetupData |-> None, settingUpMfa |-> FALSE,
     disablingMfa |-> FALSE, backupCodes |-> 0, showBackupCodes |-> FALSE, kept |-> 0,
     registeringPasskey |-> FALSE, unlinkingProvider |-> FALSE,
     linkingProvider |-> FALSE, deletingAccount |-> FALSE, left |-> FALSE]

securityFetchProfile == Call("load", None, {"loading"})
fetchSocialLinks == Call("links", None, {})
fetchWebauthnCredentials == Call("credentials", None, {})

\* onMounted
SecurityCalls0 == <<securityFetchProfile>>

Hidden(u) == u.left \/ u.loading \/ u.showBackupCodes \/ AppModalShown(u.dialog)

PasswordCardOffers(u) == IF Hidden(u) \/ u.changingPassword THEN {} ELSE {"changePassword"}

\* A plausible slip: the card offers to set up a second factor that is on.
MfaCardOffersBoth(u) ==
    CASE Hidden(u)                -> {}
      [] u.mfaSetupData # None    -> {"verify", "cancel"}
      [] OTHER                    -> (IF u.settingUpMfa THEN {} ELSE {"setup"})
                                     \cup (IF u.profile = TRUE /\ ~u.disablingMfa THEN {"disable"} ELSE {})

\* Verifying sets no busy flag.
MfaCardOffers(u) ==
    CASE Hidden(u)        -> {}
      [] u.profile = TRUE -> IF u.disablingMfa THEN {} ELSE {"disable"}
      [] u.profile # TRUE /\ u.mfaSetupData # None -> {"verify", "cancel"}
      [] OTHER            -> IF u.settingUpMfa THEN {} ELSE {"setup"}

PasskeysCardOffers(u) == IF Hidden(u) \/ u.registeringPasskey THEN {} ELSE {"register"}

SocialCardOffers(u) ==
    IF Hidden(u) THEN {}
    ELSE (IF u.socialLinks = None THEN {}
          ELSE {<<"unlink", p>> : p \in Items \ {u.unlinkingProvider}})
         \cup (IF u.unlinkingProvider # FALSE \/ u.linkingProvider THEN {}
               ELSE {<<"link", None>>})

DangerCardOffers(u) ==
    IF Hidden(u) \/ u.deletingAccount \/ u.profile = None THEN {} ELSE {"deleteAccount"}

\* Escape and the backdrop do not close it.
BackupModalOffers(u) == IF u.left \/ ~u.showBackupCodes THEN {} ELSE {"saved"}

----------------------------------------------------------------------------
changePassword ==
    /\ "changePassword" \in PasswordCardOffers(ui)
    /\ Handle([ui EXCEPT !.changingPassword = TRUE],
              <<Call("changePassword", None, {"changingPassword"})>>)

setupMfa ==
    /\ "setup" \in MfaCardOffers(ui)
    /\ Handle([ui EXCEPT !.settingUpMfa = TRUE], <<Call("setupMfa", None, {})>>)

cancelSetup ==
    /\ "cancel" \in MfaCardOffers(ui)
    /\ Handle([ui EXCEPT !.mfaSetupData = None, !.settingUpMfa = FALSE], <<>>)

\* The code is one of the secret on screen.
verifyMfaSetup ==
    /\ "verify" \in MfaCardOffers(ui)
    /\ Handle(ui, <<Call("verifyMfaSetup", ui.mfaSetupData, {})>>)

dismissBackupCodes ==
    /\ "saved" \in BackupModalOffers(ui)
    /\ Handle([ui EXCEPT !.showBackupCodes = FALSE, !.kept = ui.backupCodes,
                         !.backupCodes = 0], <<>>)

disableMfa ==
    /\ "disable" \in MfaCardOffers(ui)
    /\ Handle([ui EXCEPT !.disablingMfa = TRUE], <<Call("disableMfa", None, {"disablingMfa"})>>)

registerPasskey ==
    /\ "register" \in PasskeysCardOffers(ui)
    /\ Handle([ui EXCEPT !.registeringPasskey = TRUE],
              <<Call("registerBegin", None, {"registeringPasskey"})>>)

beginSocialLink ==
    /\ <<"link", None>> \in SocialCardOffers(ui)
    /\ Handle([ui EXCEPT !.linkingProvider = TRUE],
              <<Call("beginSocialLink", None, {"linkingProvider"})>>)

unlinkSocial == \E p \in Items : <<"unlink", p>> \in SocialCardOffers(ui) /\ askConfirm(p)

\* The dialog's action up to its await.
confirmed ==
    /\ ~ui.left
    /\ LET p == ui.confirmAction
       IN  IF p = None THEN runConfirm(ui, <<>>)
           ELSE runConfirm([ui EXCEPT !.unlinkingProvider = p],
                           <<Call("unlinkSocial", p, {"unlinkingProvider"})>>)

deleteAccount ==
    /\ "deleteAccount" \in DangerCardOffers(ui)
    /\ Handle([ui EXCEPT !.deletingAccount = TRUE],
              <<Call("deleteAccount", None, {"deletingAccount"})>>)

----------------------------------------------------------------------------
\* Answered or not, the social accounts are loaded next, without being awaited.
securityFetchProfileThen(i) ==
    /\ calls[i].fn = "load"
    /\ \/ /\ ui' = Finally(calls[i], [ui EXCEPT !.profile = db.mfa])
          /\ aux' = [aux EXCEPT !.calm = @ \/ (aux.alone /\ Uncovered(ui))]
       \/ /\ ui' = Finally(calls[i], ui)
          /\ aux' = [aux EXCEPT !.calm = FALSE]
    /\ calls' = Append(RemoveAt(calls, i), fetchSocialLinks)
    /\ UNCHANGED <<page, db>>

fetchSocialLinksThen(i) ==
    /\ calls[i].fn = "links"
    /\ \/ Settle(i, [ui EXCEPT !.socialLinks = db.stamp], db)
       \/ Fail(i, [ui EXCEPT !.socialLinks = None], db)

fetchWebauthnCredentialsThen(i) ==
    /\ calls[i].fn = "credentials"
    /\ Settle(i, ui, db) \/ Fail(i, ui, db)

\* logoutLocal and a navigation within the application: the page is gone, but the
\* answers of its other calls still arrive.
changePasswordThen(i) ==
    /\ calls[i].fn = "changePassword"
    /\ Settle(i, [ui EXCEPT !.left = TRUE], db) \/ Fail(i, ui, db)

\* The server stores a new secret in place of the one it had, also when the second
\* factor is on.  Its number is the least that the page does not refer to.
NewSecret ==
    LET used == {ui.mfaSetupData} \cup {calls[i].arg : i \in DOMAIN calls}
    IN  [db EXCEPT !.secret = CHOOSE n \in 1..3 : n \notin used /\ 1..(n - 1) \subseteq used,
                   !.enrolled = FALSE]

setupMfaThen(i) ==
    /\ calls[i].fn = "setupMfa"
    /\ \/ Settle(i, [ui EXCEPT !.mfaSetupData = NewSecret.secret], NewSecret)
       \/ Fail(i, [ui EXCEPT !.settingUpMfa = FALSE], NewSecret)

\* The server draws a new set of codes each time it accepts a code.
NewCodes == [db EXCEPT !.mfa = TRUE, !.enrolled = TRUE, !.codes = (@ % 2) + 1]

\* A plausible slip: the codes that come with the answer are dropped.
VerifyCodesDropped(i) ==
    /\ calls[i].fn = "verifyMfaSetup"
    /\ \/ /\ calls[i].arg = db.secret
          /\ Await(i, [ui EXCEPT !.mfaSetupData = None, !.settingUpMfa = FALSE],
                   NewCodes, securityFetchProfile)
       \/ Fail(i, ui, IF calls[i].arg = db.secret THEN NewCodes ELSE db)

\* A code of a secret that has been replaced is refused.
verifyMfaSetupThen(i) ==
    /\ calls[i].fn = "verifyMfaSetup"
    /\ \/ /\ calls[i].arg = db.secret
          /\ Await(i, [ui EXCEPT !.mfaSetupData = None, !.settingUpMfa = FALSE,
                                 !.backupCodes = NewCodes.codes, !.showBackupCodes = TRUE],
                   NewCodes, securityFetchProfile)
       \/ Fail(i, ui, IF calls[i].arg = db.secret THEN NewCodes ELSE db)

disableMfaThen(i) ==
    /\ calls[i].fn = "disableMfa"
    /\ LET d == [db EXCEPT !.mfa = FALSE, !.secret = 0, !.enrolled = FALSE, !.codes = 0]
       IN  Await(i, ui, d, securityFetchProfile) \/ Fail(i, ui, d)

\* The server's options, the authenticator, the server's verdict, the new list.
registerPasskeyThen(i) ==
    \/ /\ calls[i].fn = "registerBegin"
       /\ Await(i, ui, db, Call("credentialsCreate", None, {})) \/ Fail(i, ui, db)
    \/ /\ calls[i].fn = "credentialsCreate"
       /\ Await(i, ui, db, Call("registerFinish", None, {})) \/ Settle(i, ui, db) \/ Fail(i, ui, db)
    \/ /\ calls[i].fn = "registerFinish"
       /\ Await(i, ui, db, fetchWebauthnCredentials) \/ Fail(i, ui, db)

\* A new document: the page and its calls are gone.
Leave ==
    /\ ui' = [SecurityUi0 EXCEPT !.left = TRUE, !.loading = FALSE, !.kept = ui.kept]
    /\ calls' = <<>>
    /\ UNCHANGED <<page, db, aux>>

beginSocialLinkThen(i) ==
    calls[i].fn = "beginSocialLink" /\ (Leave \/ Fail(i, ui, db))

unlinkSocialThen(i) ==
    /\ calls[i].fn = "unlinkSocial"
    /\ Await(i, ui, Changed, fetchSocialLinks) \/ Fail(i, ui, Changed)

deleteAccountThen(i) ==
    calls[i].fn = "deleteAccount" /\ (Leave \/ Fail(i, ui, db))

SecurityStep ==
    \/ changePassword \/ setupMfa \/ cancelSetup \/ verifyMfaSetup \/ dismissBackupCodes
    \/ disableMfa \/ registerPasskey \/ beginSocialLink \/ unlinkSocial \/ deleteAccount
    \/ confirmed \/ cancelConfirm \/ dialogGone
    \/ \E i \in DOMAIN calls :
         \/ securityFetchProfileThen(i) \/ fetchSocialLinksThen(i) \/ fetchWebauthnCredentialsThen(i)
         \/ changePasswordThen(i) \/ setupMfaThen(i) \/ verifyMfaSetupThen(i)
         \/ disableMfaThen(i) \/ registerPasskeyThen(i) \/ beginSocialLinkThen(i)
         \/ unlinkSocialThen(i) \/ deleteAccountThen(i)

SecurityFresh == ui.left \/ (ui.profile = db.mfa /\ ui.socialLinks = db.stamp)

\* The codes the server stores are on screen, or the user has said to have saved them.
CodesGiven == db.codes \in {0, IF ui.showBackupCodes THEN ui.backupCodes ELSE ui.kept}

\* Where the second factor is asked for, its secret is one the user has shown to have.
SecretEnrolled == db.mfa => db.enrolled

----------------------------------------------------------------------------
(***************************************************************************)
(* The portal's profile (frontends/user, pages/account/ProfilePage): a     *)
(* form of two fields, of which a save sends those that differ from the    *)
(* loaded ones.  The form is hidden while the profile is being loaded.     *)
(* An address that is not verified can be sent another message.            *)
(***************************************************************************)

Fields == {"display_name", "avatar_url"}

ProfileDb0 == [rec |-> [display_name |-> 1, avatar_url |-> 1]]

\* profile is None before the first load: both originals read as ''.
ProfileUi0 == [profile |-> None, edit |-> [f \in Fields |-> 0], loading |-> TRUE, savingProfile |-> FALSE]

profileFetchProfile == Call("load", None, {"loading"})

\* onMounted
ProfileCalls0 == <<profileFetchProfile>>

\* The address is unknown before the first load.
DetailsOffers(u) == IF u.loading \/ u.profile = None THEN {} ELSE {"resend"}

FormOffers(u) ==
    IF u.loading THEN {} ELSE Fields \cup (IF u.savingProfile THEN {} ELSE {"save"})

Original(u) == IF u.profile = None THEN [f \in Fields |-> 0] ELSE u.profile

\* A typed value replaces the field, or empties it.
typeForm ==
    \E f \in Fields, v \in {0, 3} :
      f \in FormOffers(ui) /\ Type([ui EXCEPT !.edit[f] = v], f)

resendVerification ==
    "resend" \in DetailsOffers(ui) /\ Handle(ui, <<Call("resendVerification", None, {})>>)

Patch(S) ==
    Call("saveProfile", [put |-> [f \in S |-> ui.edit[f]], stray |-> S \ aux.touched],
         {"savingProfile"})

\* A plausible slip: both fields are sent, an untouched one as well.
SaveProfileWhole ==
    /\ "save" \in FormOffers(ui)
    /\ Handle([ui EXCEPT !.savingProfile = TRUE], <<Patch(Fields)>>)

saveProfile ==
    LET diff == Diff(ui.edit, Original(ui))
    IN  /\ "save" \in FormOffers(ui)
        /\ diff # {}
        /\ Handle([ui EXCEPT !.savingProfile = TRUE], <<Patch(diff)>>)

\* startProfileEdit fills the form.
profileFetchProfileThen(i) ==
    /\ calls[i].fn = "load"
    /\ \/ SettleForm(i, [ui EXCEPT !.profile = db.rec, !.edit = db.rec])
       \/ Fail(i, ui, db)

resendVerificationThen(i) ==
    calls[i].fn = "resendVerification" /\ (Settle(i, ui, db) \/ Fail(i, ui, db))

saveProfileThen(i) ==
    /\ calls[i].fn = "saveProfile"
    /\ LET d == [db EXCEPT !.rec = calls[i].arg.put @@ @]
       IN  Await(i, [ui EXCEPT !.loading = TRUE], d, profileFetchProfile) \/ Fail(i, ui, d)

ProfileStep ==
    \/ typeForm \/ resendVerification \/ saveProfile
    \/ \E i \in DOMAIN calls :
         profileFetchProfileThen(i) \/ resendVerificationThen(i) \/ saveProfileThen(i)

ProfileFresh == ui.profile = db.rec

\* Every field that is sent was changed by the user.
OnlyEdited ==
    \A i \in DOMAIN calls : calls[i].fn = "saveProfile" => calls[i].arg.stray = {}
=============================================================================
