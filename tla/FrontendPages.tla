--------------------------- MODULE FrontendPages ----------------------------
(***************************************************************************)
(* The pages of the user portal and of the admin console, and what they    *)
(* have to keep while the user goes on clicking and answers come late, out *)
(* of order or not at all.  A page is mounted in the initial state and     *)
(* stays: the router unmounts a page with all its refs, so no page sees    *)
(* the state of another.  What outlives a page is in ClientSessions.       *)
(***************************************************************************)
EXTENDS PageRuntime

CONSTANT MaxPage    \* bound: the last page of a paged list

\* The admin console.
AdminLogin == INSTANCE AdminSignIn
Dashboard == INSTANCE AdminDashboardPage
Applications == INSTANCE AdminApplicationPages
Users == INSTANCE UserPages
Organizations == INSTANCE AdminOrganizationPages
Access == INSTANCE AccessPages
Tokens == INSTANCE TokensPage
System == INSTANCE SystemPages
\* The user portal.
Entry == INSTANCE PortalEntryPages
SignIn == INSTANCE PortalSignIn
Approval == INSTANCE ApprovalPages
Account == INSTANCE AccountPages
PortalApplications == INSTANCE PortalApplicationPages
Members == INSTANCE PortalMembersPanel
Consents == INSTANCE PortalConsentsPanel
\* Both.
Shell == INSTANCE AppShell

Mount(p, u, c, d) == page = p /\ ui = u /\ calls = c /\ db = d

Init ==
    /\ aux = Aux0
    /\ \/ ui \in AdminLogin!Ui0 /\ Mount("adminLogin", ui, AdminLogin!Calls0, AdminLogin!Db0)
       \/ db \in Dashboard!Db0 /\ Mount("dashboard", Dashboard!Ui0, Dashboard!Calls0, db)
       \/ Mount("applications", Applications!ApplicationsUi0, Applications!ApplicationsCalls0, Applications!ApplicationsDb0)
       \/ db \in Applications!ApplicationDb0 /\ Mount("application", Applications!ApplicationUi0, Applications!ApplicationCalls0, db)
       \/ Mount("users", Users!UsersUi0, Users!UsersCalls0, Users!UsersDb0)
       \/ Mount("user", Users!UserUi0, Users!UserCalls0, Users!UserDb0)
       \/ Mount("organizations", Organizations!OrganizationsUi0, Organizations!OrganizationsCalls0, Organizations!OrganizationsDb0)
       \/ Mount("organization", Organizations!OrganizationUi0, Organizations!OrganizationCalls0, Organizations!OrganizationDb0)
       \/ Mount("roles", Access!RolesUi0, Access!RolesCalls0, Access!RolesDb0)
       \/ Mount("scopes", Access!ScopesUi0, Access!ScopesCalls0, Access!ScopesDb0)
       \/ Mount("tokens", Tokens!Ui0, Tokens!Calls0, Tokens!Db0)
       \/ Mount("logs", System!LogsUi0, System!LogsCalls0, System!LogsDb0)
       \/ Mount("emailTemplates", System!TemplatesUi0, System!TemplatesCalls0, System!TemplatesDb0)
       \/ Mount("settings", System!SettingsUi0, System!SettingsCalls0, System!SettingsDb0)
       \/ ui \in Entry!Ui0 /\ Mount("entry", ui, Entry!Calls0(ui), Entry!Db0)
       \/ ui \in SignIn!Ui0 /\ Mount("signIn", ui, SignIn!Calls0, SignIn!Db0)
       \/ ui \in Approval!ConsentUi0 /\ db \in Approval!ConsentDb0 /\ Mount("consent", ui, Approval!ConsentCalls0(ui), db)
       \/ ui \in Approval!DeviceUi0 /\ Mount("device", ui, Approval!DeviceCalls0, Approval!DeviceDb0)
       \/ Mount("security", Account!SecurityUi0, Account!SecurityCalls0, Account!SecurityDb0)
       \/ Mount("profile", Account!ProfileUi0, Account!ProfileCalls0, Account!ProfileDb0)
       \/ Mount("ownApplications", PortalApplications!OwnUi0, PortalApplications!OwnCalls0, PortalApplications!OwnDb0)
       \/ Mount("authorizedApps", PortalApplications!AuthorizedUi0, PortalApplications!AuthorizedCalls0, PortalApplications!AuthorizedDb0)
       \/ Mount("members", Members!Ui0, Members!Calls0, Members!Db0)
       \/ Mount("consents", Consents!Ui0, Consents!Calls0, Consents!Db0)
       \/ ui \in Shell!ShellUi0 /\ Mount("shell", ui, Shell!ShellCalls0, Shell!ShellDb0)
       \/ Mount("errors", Shell!ErrorsUi0, Shell!ErrorsCalls0, Shell!ErrorsDb0)

Next ==
    \/ page = "adminLogin" /\ AdminLogin!Step
    \/ page = "dashboard" /\ Dashboard!Step
    \/ page = "applications" /\ Applications!ApplicationsStep
    \/ page = "application" /\ Applications!ApplicationStep
    \/ page = "users" /\ Users!UsersStep
    \/ page = "user" /\ Users!UserStep
    \/ page = "organizations" /\ Organizations!OrganizationsStep
    \/ page = "organization" /\ Organizations!OrganizationStep
    \/ page = "roles" /\ Access!RolesStep
    \/ page = "scopes" /\ Access!ScopesStep
    \/ page = "tokens" /\ Tokens!Step
    \/ page = "logs" /\ System!LogsStep
    \/ page = "emailTemplates" /\ System!TemplatesStep
    \/ page = "settings" /\ System!SettingsStep
    \/ page = "entry" /\ Entry!Step
    \/ page = "signIn" /\ SignIn!Step
    \/ page = "consent" /\ Approval!ConsentStep
    \/ page = "device" /\ Approval!DeviceStep
    \/ page = "security" /\ Account!SecurityStep
    \/ page = "profile" /\ Account!ProfileStep
    \/ page = "ownApplications" /\ PortalApplications!OwnStep
    \/ page = "authorizedApps" /\ PortalApplications!AuthorizedStep
    \/ page = "members" /\ Members!Step
    \/ page = "consents" /\ Consents!Step
    \/ page = "shell" /\ Shell!ShellStep
    \/ page = "errors" /\ Shell!ErrorsStep

Spec == Init /\ [][Next]_pageVars

----------------------------------------------------------------------------

\* The refs by which a page marks a call that changes something.
BusyFlags ==
    CASE page \in {"roles", "scopes", "emailTemplates", "users", "user", "organization"} -> {"saving"}
      [] page = "applications" -> {"creating", "registering"}
      [] page = "application" -> {"saving", "savingScopes"}
      [] page = "organizations" -> {"creating"}
      [] page = "device" -> {"approving"}
      [] page = "security" -> {"changingPassword", "disablingMfa", "registeringPasskey",
                               "linkingProvider", "deletingAccount"}
      [] page = "members" -> {"creating", "accepting"}
      [] page = "ownApplications" -> {"creating", "requestAuthSubmitting"}
      [] page = "authorizedApps" -> {"requestAuthSubmitting"}
      [] page = "profile" -> {"savingProfile"}
      [] page = "entry" -> {"loading"}
      [] page = "signIn" -> {"loading", "passwordChangeBusy"}
      [] page = "adminLogin" -> {"loading", "mfaLoading", "passwordChangeBusy"}
      [] OTHER -> {}

\* A busy flag is up exactly while the one call it stands for is in flight.
BusyTracksCall ==
    \A f \in BusyFlags :
      LET sent == {i \in DOMAIN calls : f \in calls[i].flags}
      IN  (ui[f] <=> sent # {}) /\ \A i, j \in sent : i = j

\* A decision of the user is carried out once.  A busy flag is up exactly while the
\* call it stands for is in flight: no button that has one sends its write twice, and
\* none stays dead after an error (the disabled bindings and finally blocks of the
\* handlers; the portal's invitation and the enabling of a user have no flag).
\* A destructive action runs once per confirmation, also when the confirm button is
\* clicked again while the dialog leaves (askConfirm, runConfirm), and a consent
\* page posts one decision (handleConsent).
DoneOnce ==
    /\ BusyTracksCall
    /\ aux.runs <= 1
    /\ page = "consent" => Approval!DecidedOnce

\* Whether what the page lists is what the server has.
Fresh ==
    CASE page = "applications" -> Applications!ApplicationsFresh
      [] page = "application" -> Applications!ApplicationFresh
      [] page = "users" -> Users!UsersFresh
      [] page = "user" -> Users!UserFresh
      [] page = "organizations" -> Organizations!OrganizationsFresh
      [] page = "organization" -> Organizations!OrganizationFresh
      [] page = "roles" -> Access!RolesFresh
      [] page = "scopes" -> Access!ScopesFresh
      [] page = "tokens" -> Tokens!Fresh
      [] page = "logs" -> System!LogsFresh
      [] page = "emailTemplates" -> System!TemplatesFresh
      [] page = "settings" -> System!SettingsFresh
      [] page = "security" -> Account!SecurityFresh
      [] page = "profile" -> Account!ProfileFresh
      [] page = "ownApplications" -> PortalApplications!OwnFresh
      [] page = "authorizedApps" -> PortalApplications!AuthorizedFresh
      [] page = "members" -> Members!Fresh
      [] OTHER -> TRUE

\* Each write of a page ends in the fetch that its list needs: once all calls are
\* answered, the list is what the server has, provided that the user waited for
\* answers and none failed (the fetch after the await in the handlers).
CalmListFresh == aux.calm /\ calls = <<>> => Fresh

\* A save writes only what the user has edited of the record it names.  A field is
\* written only when the user has changed it since the form was filled, so that a value
\* which another administrator has stored meanwhile is not put back (saveChanges of
\* the detail pages, saveProfile); and the editor of a role saves no permissions of
\* another one, not even when the load of its own has failed or a save is under way
\* (openEditModal, updateRole).  The code has three exceptions.  Redirect URIs that
\* were stored with blanks or empty entries are sent by every save, edited or not, and
\* may put back an older list, because saveChanges compares the joined list with the
\* stored text.  A user's page whose load has failed sends the flags it never read.  A
\* role's editor that is opened while the load of another is under way may save that
\* one's permissions.
OnlyEditedWritten ==
    /\ page = "application" => Applications!OnlyEdited
    /\ page = "user" => Users!OnlyEditedOnceLoaded
    /\ page = "organization" => Organizations!OnlyEdited
    /\ page = "profile" => Account!OnlyEdited
    /\ page = "roles" => Access!PermissionsOfRole

\* The members, the consents, the requests and the link under an organization belong to
\* it, however late the answers for the one that was open before, and an invite token
\* does not outlive the panel it came under.  An opened panel shows its lists, waits
\* for them or has reported an error: no answer is dropped as stale when it is the one
\* the panel waits for (the request counters of OrganizationsPage).  The code has two
\* exceptions.  invite writes its token under whichever organization is open when the
\* answer comes.  refreshConsentPanel draws both numbers whichever panel is open, and
\* a revocation draws one of the two that a refresh waits for: the lists of the panel
\* that waited (passed) then stay empty, but nothing foreign is put there.
OwnPanels ==
    /\ page = "members" => Members!OwnMembers /\ Members!PanelLoads
    /\ page = "consents" => Consents!OwnPanel /\ Consents!PanelLoadsUndisturbed

\* What a page tells the user is so.  A registration, reset, verification or device
\* approval is reported as done only when the server has done it.  If the user waits
\* for answers and none is lost, a client secret on screen works for the client it is
\* shown for, and who enrols in MFA has the secret and is given the recovery codes that
\* the server keeps, also after a setup begun twice (setupMfa, verifyMfaSetup; a setup
\* begun while a verification is under way replaces the secret just verified).  The
\* health card says no better of the server than its parts do.  An expired session is
\* named as such, and an error keeps the request id of its body, wherever the body has
\* it (normalizeError; the id inside an error without code is lost).  The document, the
\* theme store and in system mode the operating system agree.
ToldTruth ==
    /\ page = "entry" => Entry!ReportsEffect
    /\ page = "device" => Approval!ReportsApproval
    /\ page = "ownApplications" /\ aux.calm => PortalApplications!SecretWorks
    /\ page = "security" /\ aux.calm /\ calls = <<>> => Account!CodesGiven /\ Account!SecretEnrolled
    /\ page = "dashboard" => Dashboard!CardExplains
    /\ page = "shell" => Shell!ThemeShown
    /\ page = "errors" => Shell!ErrorTraceable

\* A code meets the PKCE verifier of its own flow, across abandoned logins, second
\* factors and social sign-ins of one tab; a provider's code that was asked for to
\* link an account never signs in; and a mistyped second factor can be tried again,
\* because the verifier at hand stays that of the login the server has paused
\* (authService and the sign-in pages of the portal, verifyMfa of the console).  In the
\* console, the answer to a second factor that comes after a later login has been
\* paused clears the verifier of the later one.
SignInsKeptApart ==
    /\ page = "signIn" => SignIn!OwnVerifier /\ SignIn!LinkNeverLogsIn
    /\ page = "adminLogin" => AdminLogin!ChallengeKept
=============================================================================
