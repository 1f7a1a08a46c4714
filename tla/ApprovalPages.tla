--------------------------- MODULE ApprovalPages ----------------------------
(***************************************************************************)
(* The portal's pages on which a user lets a client or a device in.        *)
(***************************************************************************)
EXTENDS PageRuntime

----------------------------------------------------------------------------
(***************************************************************************)
(* The portal's consent screen (frontends/user, pages/oauth/ConsentPage).  *)
(* Items are organizations.  The authorization may be bound to one of      *)
(* them, and the application may be owned by one.  Two lookups run one     *)
(* after the other, each of which only decorates the page when it answers. *)
(* The decision is posted by the browser itself, which leaves the page.    *)
(***************************************************************************)

(***************************************************************************)
(* bound, owner: the organizations of the flow and of the application.     *)
(* user: who the server says is signed in.  posts: the decisions that have *)
(* reached the server; the nonce of the page pays for the first of them.   *)
(***************************************************************************)
ConsentDb0 ==
    {[bound |-> b, owner |-> o, posts |-> <<>>] :
       b \in Items \cup {None}, o \in Items \cup {None}}

(***************************************************************************)
(* consentCsrf, userId: whether the address has the nonce and whether it   *)
(* or the store has a user.  orgName, orgLogoUri: the organization whose   *)
(* name and brand are shown.  ownerName, clientLogoUri: an owner label and *)
(* a client logo are shown.                                                *)
(***************************************************************************)
ConsentUi0 ==
    {[consentCsrf |-> c, userId |-> u, loading |-> FALSE, orgName |-> None,
      orgLogoUri |-> None, ownerName |-> FALSE, clientLogoUri |-> FALSE] :
       c \in BOOLEAN, u \in BOOLEAN}

context == Call("context", None, {})

authorizeContext == Call("authorizeContext", None, {})

\* onMounted
ConsentCalls0(u) == IF u.consentCsrf THEN <<context>> ELSE <<>>

missingUserId(u) == ~u.userId

ActionsOffers(u) ==
    IF u.loading \/ missingUserId(u) THEN {} ELSE {"approve", "deny"}

\* The brand is shown only inside the banner, which only the flow's own
\* organization opens.
BannerShown(u) == u.orgName # None

\* A plausible slip: the buttons are not disabled by the first click.
HandleConsentAgain ==
    \E action \in {"approve", "deny"} :
      /\ ~missingUserId(ui)
      /\ Handle([ui EXCEPT !.loading = TRUE], <<Call("consent", action, {})>>)

\* loading stays on: the browser is about to leave the page.
handleConsent ==
    \E action \in {"approve", "deny"} :
      /\ action \in ActionsOffers(ui)
      /\ Handle([ui EXCEPT !.loading = TRUE], <<Call("consent", action, {})>>)

\* An organization of the answer has a name, and may have a brand.
contextThen(i) ==
    /\ calls[i].fn = "context"
    /\ \/ \E owned \in BOOLEAN, branded \in BOOLEAN :
            LET org == db.bound IN
            Await(i, [ui EXCEPT !.ownerName = owned, !.orgName = org,
                                !.orgLogoUri = IF branded THEN org ELSE @],
                  db, authorizeContext)
       \/ Await(i, ui, db, authorizeContext)

authorizeContextThen(i) ==
    /\ calls[i].fn = "authorizeContext"
    /\ \/ \E logo \in BOOLEAN, branded \in BOOLEAN :
            Settle(i, [ui EXCEPT !.clientLogoUri = @ \/ logo,
                                 !.orgLogoUri = IF branded /\ db.owner # None THEN db.owner ELSE @],
                   db)
       \/ Fail(i, ui, db)

\* A logo that cannot be loaded is taken off.
logoError ==
    \/ ui.orgLogoUri # None /\ BannerShown(ui) /\ Handle([ui EXCEPT !.orgLogoUri = None], <<>>)
    \/ ui.clientLogoUri /\ Handle([ui EXCEPT !.clientLogoUri = FALSE], <<>>)

\* The post arrives, or the browser could not send it and stays.
handleConsentThen(i) ==
    /\ calls[i].fn = "consent"
    /\ \/ Settle(i, ui, [db EXCEPT !.posts = Append(@, calls[i].arg)])
       \/ Fail(i, ui, db)

ConsentStep ==
    \/ handleConsent \/ logoError
    \/ \E i \in DOMAIN calls :
         contextThen(i) \/ authorizeContextThen(i) \/ handleConsentThen(i)

\* The page decides once: a second post would meet a used nonce, and its
\* refusal would take the place of the redirect to the application.
DecidedOnce == Len(db.posts) <= 1

----------------------------------------------------------------------------
(***************************************************************************)
(* The page on which an administrator approves a device                    *)
(* (frontends/admin, pages/devices).  Items are user codes that devices    *)
(* wait for; an address with ?user_code= fills the field in.               *)
(***************************************************************************)

DeviceDb0 == [approved |-> {}]

\* success names the code whose approval the page reports.
DeviceUi0 == {[userCode |-> c, approving |-> FALSE, success |-> None] : c \in Items \cup {None}}

DeviceCalls0 == <<>>

\* The field stays editable while a code is being approved.
FormOffers(u) ==
    {"code"} \cup (IF u.approving \/ u.userCode = None THEN {} ELSE {"approve"})

typeCode ==
    \E c \in Items \cup {None} :
      /\ "code" \in FormOffers(ui) /\ c # ui.userCode
      /\ Handle([ui EXCEPT !.userCode = c], <<>>)

approve ==
    /\ "approve" \in FormOffers(ui)
    /\ Handle([ui EXCEPT !.approving = TRUE, !.success = None],
              <<Call("approve", ui.userCode, {"approving"})>>)

\* A plausible slip: any answer is taken for an approval.
ApproveAnyAnswer(i) ==
    /\ calls[i].fn = "approve"
    /\ LET code == calls[i].arg
           done == [db EXCEPT !.approved = @ \cup {code}]
       IN  \/ Settle(i, [ui EXCEPT !.success = code, !.userCode = None], done)
           \/ Settle(i, [ui EXCEPT !.success = code, !.userCode = None], db)
           \/ Fail(i, ui, done)

\* An answer may also say that nothing was approved.
approveThen(i) ==
    /\ calls[i].fn = "approve"
    /\ LET code == calls[i].arg
           done == [db EXCEPT !.approved = @ \cup {code}]
       IN  \/ Settle(i, [ui EXCEPT !.success = code, !.userCode = None], done)
           \/ Settle(i, ui, db)
           \/ Fail(i, ui, done)

DeviceStep == typeCode \/ approve \/ \E i \in DOMAIN calls : approveThen(i)

\* The page reports an approval only of a code that has been approved.
ReportsApproval == ui.success # None => ui.success \in db.approved
=============================================================================
