---------------------------- MODULE PageRuntime ----------------------------
(***************************************************************************)
(* What the pages of the two single-page applications (frontends/user and  *)
(* frontends/admin) share: the browser's event loop as one mounted page    *)
(* sees it, the HTTP calls the page has in flight, and the dialogs.        *)
(*                                                                         *)
(* A handler of a page is an async function.  Each stretch of it between   *)
(* two awaits is one step, because JavaScript runs to completion; between  *)
(* two stretches the user may use every control that is on screen and      *)
(* enabled, and the answers of other calls arrive in any order.  The       *)
(* server's work on a call is taken together with the delivery of its      *)
(* answer, so that a list is what the server has when the page gets it;    *)
(* where it matters what happens in between, Serve is the server's part.   *)
(*                                                                         *)
(* An overlay (class "fixed inset-0") covers the page, so that only its    *)
(* own controls can be clicked.  Texts, banners and the timers that hide   *)
(* them are left out: no handler reads one back.                           *)
(***************************************************************************)
EXTENDS Naturals, Sequences, SequencesExt, TLC

CONSTANTS
    None,       \* null, an empty input or nothing
    Items,      \* the entities a page is about: roles, users, clients, ...
    MaxCalls    \* bound: the calls a page has in flight at a time

VARIABLES
    page,       \* the page that is mounted
    ui,         \* its refs, under the names they have in the source
    calls,      \* its calls in flight, in the order they were sent
    db,         \* what the server stores; db.stamp changes with every write
    aux         \* observer of how the page has been used

pageVars == <<page, ui, calls, db, aux>>

(***************************************************************************)
(* aux.alone: the last call was sent with no other call in flight, and no  *)
(* control has been used since.                                            *)
(* aux.calm: since such a call last loaded the page with no overlay and no *)
(* secret on screen, no control was used while a call was in flight, and   *)
(* no call has failed.                                                     *)
(* aux.runs: how often the action of the confirm dialog has been run since *)
(* the dialog was last opened.                                             *)
(* aux.touched: the fields of the page's form that the user has changed    *)
(* since the form was last filled.                                         *)
(***************************************************************************)
Aux0 == [alone |-> TRUE, calm |-> TRUE, runs |-> 0, touched |-> {}]

\* A call: the function that awaits it, its argument, and the busy flags that
\* the finally blocks around the await reset.
Call(fn, arg, flags) == [fn |-> fn, arg |-> arg, flags |-> flags]

\* The store after a write, as far as a list of it can tell.
Changed == [db EXCEPT !.stamp = 1 - @]

\* The observer after a control has been used.
Used == [aux EXCEPT !.alone = calls = <<>>, !.calm = @ /\ calls = <<>>]

\* The synchronous part of an event handler: it changes refs and sends calls.
Handle(u, new) ==
    /\ Len(calls) + Len(new) <= MaxCalls
    /\ ui' = u
    /\ calls' = calls \o new
    /\ aux' = Used
    /\ UNCHANGED <<page, db>>

Finally(c, u) == [f \in DOMAIN u |-> IF f \in c.flags THEN FALSE ELSE u[f]]

\* The refs that open an overlay, over all pages.
Overlays == {"showCreateModal", "showEditModal", "showRoleModal", "showDcrModal",
             "showSecretModal", "showBackupCodes", "requestAuthOpen"}

Uncovered(u) ==
    /\ \A f \in Overlays \cap DOMAIN u : ~u[f]
    /\ "dialog" \in DOMAIN u => u.dialog = "closed"
    /\ "oneTimeSecret" \in DOMAIN u => u.oneTimeSecret = None

\* The server has done its part of call i, the store is d, and the answer c is on its way.
Serve(i, c, d) ==
    /\ calls' = [calls EXCEPT ![i] = c]
    /\ db' = d
    /\ UNCHANGED <<page, ui, aux>>

\* Call i succeeds, the store becomes d, and its continuation runs to the end.
Settle(i, u, d) ==
    /\ ui' = Finally(calls[i], u)
    /\ calls' = RemoveAt(calls, i)
    /\ db' = d
    /\ aux' = [aux EXCEPT !.calm = @ \/ (calls[i].fn = "load" /\ aux.alone /\ Uncovered(ui))]
    /\ UNCHANGED page

\* Call i succeeds, and its continuation runs up to the await of call c; the
\* finally blocks of i are still to come.
Await(i, u, d, c) ==
    /\ ui' = u
    /\ calls' = Append(RemoveAt(calls, i), [c EXCEPT !.flags = @ \cup calls[i].flags])
    /\ db' = d
    /\ aux' = [aux EXCEPT !.alone = Len(calls) = 1]
    /\ UNCHANGED page

\* Call i fails, and the catch block leaves the refs u.  A refused call leaves
\* the store as it is; d is the store when only the answer was lost.
Fail(i, u, d) ==
    /\ ui' = Finally(calls[i], u)
    /\ calls' = RemoveAt(calls, i)
    /\ db' \in {db, d}
    /\ aux' = [aux EXCEPT !.calm = FALSE]
    /\ UNCHANGED page

----------------------------------------------------------------------------
(***************************************************************************)
(* Forms.  A field is 0 when it is empty.  A stored list may be spelled in *)
(* two ways: 2 is the list 1 with blanks or empty entries in it, which     *)
(* splitting, trimming and joining it again turns into 1.  What a user     *)
(* types is a 3.                                                           *)
(***************************************************************************)
Joined(v) == IF v = 2 THEN 1 ELSE v

\* The fields a save sends: those whose edited value differs from the loaded one.
Diff(edit, loaded) == {f \in DOMAIN edit : edit[f] # loaded[f]}

\* The user changes field f of the form.
Type(u, f) ==
    /\ ui' = u
    /\ aux' = [Used EXCEPT !.touched = @ \cup {f}]
    /\ UNCHANGED <<page, calls, db>>

\* Call i fills the form: what the user had changed is gone.
SettleForm(i, u) ==
    /\ ui' = Finally(calls[i], u)
    /\ calls' = RemoveAt(calls, i)
    /\ aux' = [aux EXCEPT !.calm = @ \/ (aux.alone /\ Uncovered(ui)), !.touched = {}]
    /\ UNCHANGED <<page, db>>

----------------------------------------------------------------------------
(***************************************************************************)
(* The confirm dialog, and the askConfirm/runConfirm pair that every page  *)
(* with a destructive action has.  A closing dialog stays on screen, and   *)
(* its buttons can be clicked, for the 150 ms of its leave transition.     *)
(***************************************************************************)
Confirm0 == [dialog |-> "closed", confirmAction |-> None]

AppModalShown(dialog) == dialog # "closed"

AppConfirmDialogOffers(u) ==
    IF AppModalShown(u.dialog) THEN {"confirm", "cancel"} ELSE {}

askConfirm(action) ==
    /\ ui' = [ui EXCEPT !.confirmAction = action, !.dialog = "open"]
    /\ aux' = [Used EXCEPT !.runs = 0]
    /\ UNCHANGED <<page, calls, db>>

cancelConfirm ==
    /\ "cancel" \in AppConfirmDialogOffers(ui)
    /\ ui.dialog = "open"
    /\ Handle([ui EXCEPT !.dialog = "leaving"], <<>>)

\* A plausible slip: the dialog is closed but still holds its action.
RunConfirmKept(u, new) ==
    /\ "confirm" \in AppConfirmDialogOffers(ui)
    /\ Len(calls) + Len(new) <= MaxCalls
    /\ ui' = [u EXCEPT !.dialog = "leaving"]
    /\ calls' = calls \o new
    /\ aux' = [Used EXCEPT !.runs = @ + 1]
    /\ UNCHANGED <<page, db>>

\* Up to the first await of the action, which leaves the refs u and sends new.
runConfirm(u, new) ==
    /\ "confirm" \in AppConfirmDialogOffers(ui)
    /\ Len(calls) + Len(new) <= MaxCalls
    /\ ui' = [u EXCEPT !.dialog = "leaving", !.confirmAction = None]
    /\ calls' = calls \o new
    /\ aux' = [Used EXCEPT !.runs = IF ui.confirmAction = None THEN @ ELSE @ + 1]
    /\ UNCHANGED <<page, db>>

dialogGone ==
    /\ ui.dialog = "leaving"
    /\ ui' = [ui EXCEPT !.dialog = "closed"]
    /\ UNCHANGED <<page, calls, db, aux>>
=============================================================================
