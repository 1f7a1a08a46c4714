----------------------------- MODULE DeviceFlow -----------------------------
(***************************************************************************)
(* The device authorization grant: DeviceAuthController (issuing and       *)
(* approving a device code), DeviceCodeService (its rows) and the          *)
(* device_code branch of TokenEndpointController::token (polling and       *)
(* redemption).  Every database statement of a request is a step.          *)
(*                                                                         *)
(* A code row has immutable columns info[c]; the others are one function   *)
(* per column.  The code writes the statuses pending, approved and         *)
(* consumed: it answers access_denied for status denied, but no path of    *)
(* the repository writes that status, and no sweep deletes device codes.   *)
(***************************************************************************)
EXTENDS Naturals

CONSTANTS Codes, Clients, Users, Workers, None,
          Lifetime,       \* DEVICE_CODE_LIFETIME_SECONDS
          Interval,       \* POLLING_INTERVAL_SECONDS
          Backoff,        \* what slow_down adds to the interval
          MaxInterval,    \* bound on the interval
          MaxTime,        \* bound on the clock
          DbFaults        \* may a statement fail?

ASSUME DeviceAssumption ==
  /\ Lifetime \in Nat /\ Interval \in Nat /\ Backoff \in Nat
  /\ MaxInterval \in Nat /\ MaxTime \in Nat /\ DbFaults \in BOOLEAN
  /\ None \notin Codes /\ None \notin Users

VARIABLES
  now,
  info,        \* client_id and expires_at, None until the row is inserted
  status, user, interval, polled,      \* the other columns
  pc,          \* where each request is
  job,         \* what its callbacks captured
  approvals,   \* history: approving UPDATEs per code
  approvers,   \* history: users they named
  redeemed,    \* history: number of token pairs issued for a code
  pairs        \* history: their client, user and time of issuance

columns == <<info, status, user, interval, polled>>
request == <<pc, job>>
history == <<approvals, approvers, redeemed, pairs>>
vars    == <<now, columns, request, history>>

Info == [client : Clients, exp : Nat]
PC == {"idle", "approving", "recording", "slowing", "consuming", "saving"}

ASSUME NoneNotInfo == None \notin Info

Present(c) == info[c] # None

\* What a request carries from the lookup of a row to its update: the code, the
\* client of the request, the user it read or was given, the clock and the
\* interval it computed.
Job == [code : Codes, client : Clients \cup {None}, user : Users \cup {None}, at : Nat, interval : Nat]

\* A token pair: its client, the user it is issued to, and when.
Pair == [client : Clients, user : Users \cup {None}, at : Nat]

Init ==
  /\ now = 1                 \* last_polled_at = 0 means never polled
  /\ info = [c \in Codes |-> None]
  /\ status = [c \in Codes |-> "pending"]
  /\ user = [c \in Codes |-> None]
  /\ interval = [c \in Codes |-> Interval]
  /\ polled = [c \in Codes |-> 0]
  /\ pc = [w \in Workers |-> "idle"]
  /\ job = [w \in Workers |-> None]
  /\ approvals = [c \in Codes |-> 0]
  /\ approvers = [c \in Codes |-> {}]
  /\ redeemed = [c \in Codes |-> 0]
  /\ pairs = [c \in Codes |-> {}]

-----------------------------------------------------------------------------
Goto(w, l, j) ==
  /\ pc' = [pc EXCEPT ![w] = l]
  /\ job' = [job EXCEPT ![w] = j]

Reply(w) == Goto(w, "idle", None)

\* deviceAuthorizationInner + createDeviceCode: a fresh pending row.  A failed
\* insert answers server_error and leaves nothing.
DeviceAuthorization(c, client) ==
  /\ ~Present(c)
  /\ info' = [info EXCEPT ![c] = [client |-> client, exp |-> now + Lifetime]]
  /\ UNCHANGED <<now, status, user, interval, polled, request, history>>

\* approveDevice: findByUserCode, then the pending and expiry checks.
ApproveDevice(w, c, u) ==
  /\ pc[w] = "idle"
  /\ Present(c)
  /\ status[c] = "pending"
  /\ now < info[c].exp
  /\ Goto(w, "approving", [code |-> c, client |-> None, user |-> u, at |-> 0, interval |-> 0])
  /\ UNCHANGED <<now, columns, history>>

\* markApproved: the row is updated by its key, with no condition on status.
MarkApproved(w) ==
  /\ pc[w] = "approving"
  /\ LET c == job[w].code IN
     \/ /\ status' = [status EXCEPT ![c] = "approved"]
        /\ user' = [user EXCEPT ![c] = job[w].user]
        /\ approvals' = [approvals EXCEPT ![c] = @ + 1]
        /\ approvers' = [approvers EXCEPT ![c] = @ \cup {job[w].user}]
     \/ DbFaults /\ UNCHANGED <<status, user, approvals, approvers>>
  /\ Reply(w)
  /\ UNCHANGED <<now, info, interval, polled, redeemed, pairs>>

\* The lookup of the device_code grant and the answer to a pending code: the
\* interval and the time of the poll are computed from the row just read.
PollPending(w, c, client) ==
  /\ pc[w] = "idle"
  /\ Present(c)
  /\ info[c].client = client
  /\ now < info[c].exp
  /\ status[c] = "pending"
  /\ IF polled[c] > 0 /\ now - polled[c] < interval[c]
       THEN /\ interval[c] + Backoff <= MaxInterval
            /\ Goto(w, "slowing", [code |-> c, client |-> client, user |-> None, at |-> now,
                                   interval |-> interval[c] + Backoff])
       ELSE Goto(w, "recording", [code |-> c, client |-> client, user |-> None, at |-> now,
                                  interval |-> 0])
  /\ UNCHANGED <<now, columns, history>>

\* Mutant: the poll writes back the whole row it had read.
RecordPollWholeRow(w) ==
  /\ pc[w] = "recording"
  /\ polled' = [polled EXCEPT ![job[w].code] = job[w].at]
  /\ status' = [status EXCEPT ![job[w].code] = "pending"]
  /\ Reply(w)
  /\ UNCHANGED <<now, info, user, interval, history>>

\* authorization_pending: UPDATE ... SET last_polled_at.
RecordPoll(w) ==
  /\ pc[w] = "recording"
  /\ \/ polled' = [polled EXCEPT ![job[w].code] = job[w].at]
     \/ DbFaults /\ UNCHANGED polled
  /\ Reply(w)
  /\ UNCHANGED <<now, info, status, user, interval, history>>

\* slow_down: UPDATE ... SET interval_seconds, last_polled_at.
SlowDown(w) ==
  /\ pc[w] = "slowing"
  /\ \/ /\ polled' = [polled EXCEPT ![job[w].code] = job[w].at]
        /\ interval' = [interval EXCEPT ![job[w].code] = job[w].interval]
     \/ DbFaults /\ UNCHANGED <<polled, interval>>
  /\ Reply(w)
  /\ UNCHANGED <<now, info, status, user, history>>

\* Mutant: the row's client_id is not compared with the request's.
PollApprovedAnyClient(w, c, client) ==
  /\ pc[w] = "idle"
  /\ Present(c)
  /\ now < info[c].exp
  /\ status[c] = "approved"
  /\ Goto(w, "consuming", [code |-> c, client |-> client, user |-> user[c], at |-> now,
                           interval |-> 0])
  /\ UNCHANGED <<now, columns, history>>

\* Mutant: user_id and client_id are swapped.
PollApprovedSwapped(w, c, client) ==
  /\ pc[w] = "idle"
  /\ Present(c)
  /\ info[c].client = client
  /\ now < info[c].exp
  /\ status[c] = "approved"
  /\ Goto(w, "consuming", [code |-> c, client |-> user[c], user |-> client, at |-> now,
                           interval |-> 0])
  /\ UNCHANGED <<now, columns, history>>

\* The lookup finds an approved row: client_id, user_id and the clock are kept
\* for the issuance.
PollApproved(w, c, client) ==
  /\ pc[w] = "idle"
  /\ Present(c)
  /\ info[c].client = client
  /\ now < info[c].exp
  /\ status[c] = "approved"
  /\ Goto(w, "consuming", [code |-> c, client |-> client, user |-> user[c], at |-> now,
                           interval |-> 0])
  /\ UNCHANGED <<now, columns, history>>

\* Mutant: the status read by the lookup is trusted, the UPDATE has no condition.
ConsumeDeviceCodeAlways(w) ==
  /\ pc[w] = "consuming"
  /\ status' = [status EXCEPT ![job[w].code] = "consumed"]
  /\ Goto(w, "saving", job[w])
  /\ UNCHANGED <<now, info, user, interval, polled, history>>

\* Mutant: the loser of the race is not answered.
ConsumeDeviceCodeSilent(w) ==
  /\ pc[w] = "consuming"
  /\ status[job[w].code] = "approved"
  /\ status' = [status EXCEPT ![job[w].code] = "consumed"]
  /\ Goto(w, "saving", job[w])
  /\ UNCHANGED <<now, info, user, interval, polled, history>>

\* UPDATE ... SET status = 'consumed' WHERE status = 'approved' RETURNING: the
\* loser and a failed statement answer with an error.
ConsumeDeviceCode(w) ==
  /\ pc[w] = "consuming"
  /\ LET c == job[w].code IN
     \/ /\ status[c] = "approved"
        /\ status' = [status EXCEPT ![c] = "consumed"]
        /\ \/ Goto(w, "saving", job[w])
           \/ DbFaults /\ Reply(w)
     \/ /\ status[c] # "approved" \/ DbFaults
        /\ Reply(w)
        /\ UNCHANGED status
  /\ UNCHANGED <<now, info, user, interval, polled, history>>

\* saveTokenPair with a new family; on failure the code stays consumed.
SaveTokenPair(w) ==
  /\ pc[w] = "saving"
  /\ LET c == job[w].code IN
     \/ /\ redeemed' = [redeemed EXCEPT ![c] = @ + 1]
        /\ pairs' = [pairs EXCEPT ![c] =
             @ \cup {[client |-> job[w].client, user |-> job[w].user, at |-> job[w].at]}]
     \/ DbFaults /\ UNCHANGED <<redeemed, pairs>>
  /\ Reply(w)
  /\ UNCHANGED <<now, columns, approvals, approvers>>

\* The process dies: requests in flight are lost.
Crash ==
  /\ DbFaults
  /\ pc' = [w \in Workers |-> "idle"]
  /\ job' = [w \in Workers |-> None]
  /\ UNCHANGED <<now, columns, history>>

Tick ==
  /\ now < MaxTime
  /\ now' = now + 1
  /\ UNCHANGED <<columns, request, history>>

Arrive(w) ==
  \/ \E c \in Codes, u \in Users : ApproveDevice(w, c, u)
  \/ \E c \in Codes, client \in Clients : PollPending(w, c, client)
  \/ \E c \in Codes, client \in Clients : PollApproved(w, c, client)

Answer(w) ==
  \/ MarkApproved(w) \/ RecordPoll(w) \/ SlowDown(w)
  \/ ConsumeDeviceCode(w) \/ SaveTokenPair(w)

Next ==
  \/ \E c \in Codes, client \in Clients : DeviceAuthorization(c, client)
  \/ \E w \in Workers : Arrive(w) \/ Answer(w)
  \/ Crash
  \/ Tick

Spec == Init /\ [][Next]_vars

\* Every database call of a request calls back, with a result or an error.
FairSpec == Spec /\ \A w \in Workers : WF_vars(Answer(w))

-----------------------------------------------------------------------------
\* Properties.

TypeOK ==
  /\ now \in Nat
  /\ info \in [Codes -> Info \cup {None}]
  /\ status \in [Codes -> {"pending", "approved", "consumed"}]
  /\ user \in [Codes -> Users \cup {None}]
  /\ interval \in [Codes -> Nat] /\ polled \in [Codes -> Nat]
  /\ pc \in [Workers -> PC]
  /\ job \in [Workers -> Job \cup {None}]
  /\ approvals \in [Codes -> Nat] /\ redeemed \in [Codes -> Nat]
  /\ approvers \in [Codes -> SUBSET Users]
  /\ pairs \in [Codes -> SUBSET Pair]

\* Each issued pair uses up an approval of its own: polls that race for an
\* approved code, retries and failed statements never issue a pair more than
\* the approving UPDATEs there were (the consume CAS of the token endpoint).
RedemptionPerApproval == \A c \in Codes : redeemed[c] <= approvals[c]

\* A pair is issued to the client that asked for the code, to a user who
\* approved it, and before the code expired, although user_id and the clock
\* were read before the consume CAS.
IssuedToApprover ==
  \A c \in Codes : \A p \in pairs[c] :
    /\ p.client = info[c].client
    /\ p.user \in approvers[c]
    /\ p.at < info[c].exp

\* Once approved, a code is never pending again: a poll that read the row while
\* it was pending writes it after the approval, and must not undo it.
ApprovalSticks ==
  [][\A c \in Codes : status[c] # "pending" => status'[c] # "pending"]_vars

\* Every device request is answered, error paths included.
Answered == \A w \in Workers : pc[w] # "idle" ~> pc[w] = "idle"

\* TokenEndpointController.cc:1722: because "two concurrent redemptions of the
\* same approved device_code could both issue tokens (race). We now atomically
\* transition approved -> consumed and gate issuance on the affected row": one
\* device code yields at most one pair.
SingleRedemption == \A c \in Codes : redeemed[c] <= 1
=============================================================================
