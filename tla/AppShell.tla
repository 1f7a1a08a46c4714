------------------------------ MODULE AppShell ------------------------------
(***************************************************************************)
(* What stands around the pages of both applications: layout, menus and    *)
(* theme, and the adapter that turns a failed call into an error.          *)
(***************************************************************************)
EXTENDS PageRuntime

----------------------------------------------------------------------------
(***************************************************************************)
(* The frame around the pages (frontends/admin, components/layout/         *)
(* AdminLayout; frontends/user, layouts/AppLayout): its menus, and the     *)
(* theme store, which mirrors the preference of the operating system.  A   *)
(* page load keeps only what localStorage has.  Signing out is in          *)
(* AdminSession and PortalSession.                                         *)
(***************************************************************************)

ShellDb0 == None
ShellCalls0 == <<>>

Preferences == {"light", "dark", "system"}

\* What a preference amounts to.
mode(u) == IF u.preference = "dark" \/ (u.preference = "system" /\ u.osDark) THEN "dark" ELSE "light"

applyTheme(u) == [u EXCEPT !.dataTheme = mode(u)]

(***************************************************************************)
(* stored: localStorage['fulla-theme'], None when it is empty or not       *)
(* available; storage: whether it is.  os: what the operating system has;  *)
(* osDark: its mirror.  listening: init has registered its listener.       *)
(***************************************************************************)
Mounted(layout, os, stored, storage, listening) ==
    applyTheme([layout |-> layout, path |-> 1, userMenuOpen |-> FALSE, mobileMenuOpen |-> FALSE,
                sidebarCollapsed |-> FALSE, os |-> os, osDark |-> os, stored |-> stored,
                preference |-> IF stored = None THEN "system" ELSE stored,
                storage |-> storage, listening |-> listening, dataTheme |-> "light"])

ShellUi0 ==
    {Mounted(layout, os, stored, TRUE, listening) :
       layout \in {"admin", "portal"}, os \in BOOLEAN, stored \in Preferences \cup {None},
       listening \in BOOLEAN}
    \cup {Mounted(layout, os, None, FALSE, TRUE) : layout \in {"admin", "portal"}, os \in BOOLEAN}

----------------------------------------------------------------------------
(* What can be clicked.  The sheet behind the open menu of the console covers *)
(* its top bar but not its sidebar; that of the portal lies under its header. *)

UserMenuOffers(u) ==
    IF u.layout = "admin" /\ u.userMenuOpen THEN {"item", "theme", "outside"} ELSE {}

PortalMenuOffers(u) ==
    IF u.layout = "portal" /\ u.userMenuOpen THEN {"item", "theme", "outside"} ELSE {}

MobileOverlayOffers(u) == IF u.mobileMenuOpen THEN {"overlay"} ELSE {}

SidebarOffers(u) == IF u.layout = "admin" THEN {"nav", "collapse"} ELSE {}

TopBarOffers(u) ==
    IF u.layout = "portal" THEN {"nav", "userMenu"}
    ELSE IF u.userMenuOpen \/ u.mobileMenuOpen THEN {} ELSE {"userMenu", "mobileMenu"}

Offered == UNION {UserMenuOffers(ui), PortalMenuOffers(ui), MobileOverlayOffers(ui),
                  SidebarOffers(ui), TopBarOffers(ui)}

----------------------------------------------------------------------------

\* The watcher of the route closes the menus.
WatchPath(u) ==
    IF u.path = ui.path THEN u ELSE [u EXCEPT !.userMenuOpen = FALSE, !.mobileMenuOpen = FALSE]

\* An item of a menu closes it by itself; a link of the sidebar, the mobile menu.
navigate ==
    \E link \in {"nav", "item"} \cap Offered, path \in 1 .. 2 :
      Handle(WatchPath([ui EXCEPT !.path = path,
                                  !.userMenuOpen = @ /\ link # "item",
                                  !.mobileMenuOpen = @ /\ link # "nav"]), <<>>)

menus ==
    \/ "userMenu" \in Offered /\ Handle([ui EXCEPT !.userMenuOpen = ~@], <<>>)
    \/ "outside" \in Offered /\ Handle([ui EXCEPT !.userMenuOpen = FALSE], <<>>)
    \/ "mobileMenu" \in Offered /\ Handle([ui EXCEPT !.mobileMenuOpen = TRUE], <<>>)
    \/ "overlay" \in Offered /\ Handle([ui EXCEPT !.mobileMenuOpen = FALSE], <<>>)
    \/ "collapse" \in Offered /\ Handle([ui EXCEPT !.sidebarCollapsed = ~@], <<>>)

\* toggle, through set: the preference is stored when storage is available.
toggle ==
    LET next == IF mode(ui) = "dark" THEN "light" ELSE "dark"
    IN  /\ "theme" \in Offered
        /\ Handle(applyTheme([ui EXCEPT !.preference = next,
                                        !.stored = IF ui.storage THEN next ELSE @]), <<>>)

\* A plausible slip: the change reaches the document but not the mirror.
OsChangedUnmirrored ==
    LET u == [ui EXCEPT !.os = ~@]
    IN  Handle(IF ui.listening /\ ui.preference = "system"
                 THEN [u EXCEPT !.dataTheme = IF u.os THEN "dark" ELSE "light"] ELSE u, <<>>)

\* The operating system changes its mind, and the listener of init hears of it.
osChanged ==
    LET u == [ui EXCEPT !.os = ~@, !.osDark = IF ui.listening THEN ~ui.os ELSE @]
    IN  Handle(IF ui.listening /\ ui.preference = "system" THEN applyTheme(u) ELSE u, <<>>)

init == Handle(Mounted(ui.layout, ui.os, ui.stored, ui.storage, ui.listening), <<>>)

ShellStep == navigate \/ menus \/ toggle \/ osChanged \/ init

\* The document shows the mode that the store reports (the toggle's label, and
\* what toggle will do), and in system mode that of the operating system.
ThemeShown ==
    /\ ui.dataTheme = mode(ui)
    /\ ui.preference = "system" /\ ui.listening => (ui.dataTheme = "dark" <=> ui.os)

----------------------------------------------------------------------------
(***************************************************************************)
(* What a page shows of an error (services/errorAdapter, the same in both  *)
(* frontends): normalizeError, over the shapes of error that a page can    *)
(* catch.  A page catches what an interceptor or a service has thrown; the *)
(* interceptor of services/http throws an error that is normalized         *)
(* already, and branded.                                                   *)
(*                                                                         *)
(* A string is 0 when it is empty; other strings are the codes and ids the *)
(* branches tell apart.  Messages follow from the code.                    *)
(***************************************************************************)

ErrorsDb0 == None
ErrorsCalls0 == <<>>

isNonEmptyString(v) == v # 0

Id(v) == IF isNonEmptyString(v) THEN v ELSE 0

Normalized(code, id, status) == [code |-> code, request_id |-> id, httpStatus |-> status]

\* The codes: reserved ones, and some that a body may carry.
NETWORK_CODE == 90
UNKNOWN_CODE == 91
RATE_LIMITED_CODE == 92
SESSION_EXPIRED_CODE == 93
InvalidRequest == 1
AccessDenied == 2

\* body: "none" (not an object), "envelope" (error is an object) or "rfc6749"
\* (error is a string, or missing).
Responses ==
    {[status |-> s, body |-> "none", code |-> 0, inner |-> 0, outer |-> 0] : s \in {0, 401, 429, 500}}
    \cup [status : {0, 401, 429, 500}, body : {"envelope", "rfc6749"},
          code : {0, InvalidRequest, AccessDenied}, inner : {0, 7}, outer : {0, 8}]

Failures == {[kind |-> "response", response |-> r] : r \in Responses} \cup {[kind |-> "network"]}

\* A plausible slip: the error of an expired session is not branded.
SessionExpiredErrorPlain == [kind |-> "plain", was |-> Normalized(SESSION_EXPIRED_CODE, 0, 401)]

sessionExpiredError == [kind |-> "branded", was |-> Normalized(SESSION_EXPIRED_CODE, 0, 401)]

isRateLimitBody(r) == r.body = "rfc6749" /\ r.code = InvalidRequest

\* A plausible slip: the id of an envelope is looked for in one place only.
EnvelopeInner(r) == Normalized(r.code, Id(r.inner), r.status)

Envelope(r) ==
    Normalized(r.code, IF isNonEmptyString(r.inner) THEN r.inner ELSE Id(r.outer), r.status)

normalizeError(err) ==
    LET r == err.response IN
    CASE err.kind = "branded" -> err.was
      [] err.kind \in {"network", "plain"} -> Normalized(NETWORK_CODE, 0, 0)
      [] OTHER ->
           IF r.status = 429 /\ isRateLimitBody(r) THEN Normalized(RATE_LIMITED_CODE, Id(r.outer), 429)
           ELSE IF r.body = "none" THEN Normalized(UNKNOWN_CODE, 0, r.status)
           ELSE IF ~isNonEmptyString(r.code) THEN Normalized(UNKNOWN_CODE, Id(r.outer), r.status)
           ELSE IF r.body = "envelope" THEN Envelope(r)
           ELSE Normalized(r.code, Id(r.outer), r.status)

ErrorsUi0 == [thrown |-> None, shown |-> None]

\* The page catches what its call threw: a 401 that no refresh could mend comes
\* as the error of an expired session.
catch ==
    \E f \in Failures, expired \in BOOLEAN :
      /\ expired => f.kind = "response" /\ f.response.status = 401
      /\ Handle([thrown |-> [failure |-> f, expired |-> expired],
                 shown |-> normalizeError(IF expired THEN sessionExpiredError ELSE f)], <<>>)

ErrorsStep == catch

\* The request ids of a body: that of the error, where the server's envelope has it,
\* and one beside the error.
RequestIds(r) ==
    ({r.outer} \cup (IF r.body = "envelope" THEN {r.inner} ELSE {})) \ {0}

\* An envelope whose error has no code, and no id beside it.
Uncoded(r) == r.body = "envelope" /\ r.code = 0 /\ r.outer = 0

\* A page names an expired session as such, and shows the request id by which
\* support finds the error in the server's log whenever the body has one; the id of
\* an envelope's error is lost when that error has no code.
ErrorTraceable ==
    ui.shown # None =>
      IF ui.thrown.expired THEN ui.shown.code = SESSION_EXPIRED_CODE
      ELSE /\ ui.shown.code # SESSION_EXPIRED_CODE
           /\ ui.thrown.failure.kind = "response" =>
                LET r == ui.thrown.failure.response
                IN  RequestIds(r) # {} /\ ~Uncoded(r) => ui.shown.request_id \in RequestIds(r)
=============================================================================
