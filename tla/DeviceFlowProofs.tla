-------------------------- MODULE DeviceFlowProofs --------------------------
(***************************************************************************)
(* The safety of the device grant for every value of the constants of      *)
(* DeviceFlow.  RedemptionPerApproval is a count: the pairs issued for a   *)
(* code, the requests that have consumed it and not yet saved their pair,  *)
(* and the approval still unused, together use up no more approvals than   *)
(* there were (CountInv).                                                  *)
(***************************************************************************)
EXTENDS DeviceFlow, FiniteSets, FiniteSetTheorems, TLAPS

\* What a request carries from its lookup to its update.
JobInv ==
  \A w \in Workers : pc[w] # "idle" =>
    /\ job[w] \in Job
    /\ Present(job[w].code)
    /\ pc[w] = "approving" => job[w].user \in Users
    /\ pc[w] \in {"consuming", "saving"} =>
         /\ job[w].client = info[job[w].code].client
         /\ job[w].user \in approvers[job[w].code]
         /\ job[w].at < info[job[w].code].exp

\* An approved row names an approver; a pair is issued for a row that exists.
RowInv ==
  \A c \in Codes :
    /\ status[c] = "approved" => user[c] \in approvers[c]
    /\ pairs[c] # {} => Present(c)

\* The requests that have consumed code c and not yet saved their pair.
Savers(c) == {w \in Workers : pc[w] = "saving" /\ job[w].code = c}

\* The approval of c that nobody has consumed.
Unused(c) == IF status[c] = "approved" THEN 1 ELSE 0

CountInv ==
  \A c \in Codes :
    /\ IsFiniteSet(Savers(c))
    /\ redeemed[c] + Cardinality(Savers(c)) + Unused(c) <= approvals[c]

\* The inductive invariant.
DeviceInv == TypeOK /\ JobInv /\ RowInv /\ IssuedToApprover /\ CountInv

-----------------------------------------------------------------------------
\* Initially nothing is approved, issued or in flight.
LEMMA InitDevice == Init => DeviceInv
<1> SUFFICES ASSUME Init PROVE DeviceInv
  OBVIOUS
<1>1. TypeOK
  BY DeviceAssumption, Zenon DEF Init, TypeOK, PC
<1>2. JobInv /\ RowInv /\ IssuedToApprover
  BY Zenon DEF Init, JobInv, RowInv, IssuedToApprover
<1>3. \A c \in Codes : Savers(c) = {}
  BY Zenon DEF Init, Savers
<1>4. ASSUME NEW c \in Codes
      PROVE  /\ IsFiniteSet(Savers(c))
             /\ redeemed[c] + Cardinality(Savers(c)) + Unused(c) <= approvals[c]
  <2>1. Savers(c) = {}
    BY <1>3, Zenon
  <2>2. IsFiniteSet(Savers(c)) /\ Cardinality(Savers(c)) = 0
    BY <2>1, FS_EmptySet, Zenon
  <2>3. redeemed[c] = 0 /\ approvals[c] = 0 /\ Unused(c) = 0
    BY Zenon DEF Init, Unused
  <2> QED
    BY <2>2, <2>3
<1>5. CountInv
  BY <1>4, Zenon DEF CountInv
<1> QED
  BY <1>1, <1>2, <1>5, Zenon DEF DeviceInv

\* A step that changes neither the savers of a code nor its pairs, and uses up
\* no approval that it does not add, keeps the count.
LEMMA CountKept ==
  ASSUME TypeOK, CountInv, UNCHANGED redeemed,
         \A c \in Codes : /\ Savers(c)' = Savers(c)
                          /\ approvals'[c] \in Nat
                          /\ \/ approvals'[c] = approvals[c] /\ (status'[c] = "approved" => status[c] = "approved")
                             \/ approvals'[c] = approvals[c] + 1
  PROVE  CountInv'
<1> SUFFICES ASSUME NEW c \in Codes
             PROVE  /\ IsFiniteSet(Savers(c)')
                    /\ redeemed'[c] + Cardinality(Savers(c)') + Unused(c)' <= approvals'[c]
  BY Zenon DEF CountInv
<1>1. IsFiniteSet(Savers(c)) /\ redeemed[c] + Cardinality(Savers(c)) + Unused(c) <= approvals[c]
  BY Zenon DEF CountInv
<1>2. Cardinality(Savers(c)) \in Nat /\ redeemed[c] \in Nat /\ approvals[c] \in Nat
  BY <1>1, FS_CardinalityType, Zenon DEF TypeOK
<1>3. Savers(c)' = Savers(c) /\ redeemed'[c] = redeemed[c]
  OBVIOUS
<1> QED
  BY <1>1, <1>2, <1>3 DEF Unused

\* A row is issued.
LEMMA IssueDevice ==
  ASSUME DeviceInv, NEW c \in Codes, NEW client \in Clients, DeviceAuthorization(c, client)
  PROVE  DeviceInv'
<1> USE DEF DeviceInv
<1>1. [client |-> client, exp |-> now + Lifetime] \in Info
  BY DeviceAssumption DEF TypeOK, Info
<1>2. TypeOK'
  BY <1>1, Zenon DEF DeviceAuthorization, TypeOK, request, history
<1>3. \A d \in Codes : Present(d) => info'[d] = info[d] /\ Present(d)'
  BY <1>1, Zenon DEF DeviceAuthorization, TypeOK, Present
<1>4. JobInv'
  BY <1>3 DEF DeviceAuthorization, JobInv, Job, request, history
<1>5. RowInv' /\ IssuedToApprover'
  BY <1>3 DEF DeviceAuthorization, RowInv, IssuedToApprover, history
<1>6. CountInv'
  BY CountKept, Zenon DEF DeviceAuthorization, TypeOK, Savers, request, history
<1> QED
  BY <1>2, <1>4, <1>5, <1>6, Zenon

\* A request looks up a row, and carries what the row says.
LEMMA LookupDevice ==
  ASSUME DeviceInv, NEW w \in Workers, NEW c \in Codes,
         \/ \E u \in Users : ApproveDevice(w, c, u)
         \/ \E client \in Clients : PollPending(w, c, client) \/ PollApproved(w, c, client)
  PROVE  DeviceInv'
<1> USE DEF DeviceInv
<1> DEFINE Carries(l, j) ==
             /\ Goto(w, l, j) /\ pc[w] = "idle" /\ l \notin {"idle", "saving"} /\ j.code = c /\ Present(c)
             /\ l = "approving" => j.user \in Users
             /\ l = "consuming" => /\ j.client = info[c].client /\ j.user \in approvers[c]
                                   /\ j.at < info[c].exp
<1>1. PICK l \in PC, j \in Job : Carries(l, j)
  <2>1. ASSUME NEW u \in Users, ApproveDevice(w, c, u)
        PROVE  \E l \in PC, j \in Job : Carries(l, j)
    <3>1. [code |-> c, client |-> None, user |-> u, at |-> 0, interval |-> 0] \in Job
      BY Zenon DEF Job
    <3> QED
      BY <2>1, <3>1, Zenon DEF ApproveDevice, PC
  <2>2. ASSUME NEW client \in Clients, PollPending(w, c, client)
        PROVE  \E l \in PC, j \in Job : Carries(l, j)
    <3>1. /\ [code |-> c, client |-> client, user |-> None, at |-> now,
              interval |-> interval[c] + Backoff] \in Job
          /\ [code |-> c, client |-> client, user |-> None, at |-> now, interval |-> 0] \in Job
      BY DeviceAssumption DEF TypeOK, Job
    <3> QED
      BY <2>2, <3>1, Zenon DEF PollPending, PC
  <2>3. ASSUME NEW client \in Clients, PollApproved(w, c, client)
        PROVE  \E l \in PC, j \in Job : Carries(l, j)
    <3>1. [code |-> c, client |-> client, user |-> user[c], at |-> now, interval |-> 0] \in Job
      BY Zenon DEF TypeOK, Job
    <3>2. user[c] \in approvers[c]
      BY <2>3, Zenon DEF PollApproved, RowInv
    <3> QED
      BY <2>3, <3>1, <3>2, Zenon DEF PollApproved, PC
  <2> QED
    BY <2>1, <2>2, <2>3, Zenon
<1>2. UNCHANGED <<now, info, status, user, interval, polled, approvals, approvers, redeemed, pairs>>
  BY Zenon DEF ApproveDevice, PollPending, PollApproved, columns, history
<1>3. TypeOK'
  BY <1>1, <1>2, Zenon DEF TypeOK, Goto
<1>4. JobInv'
  BY <1>1, <1>2 DEF TypeOK, JobInv, Goto, Present
<1>5. RowInv' /\ IssuedToApprover'
  BY <1>2, Zenon DEF RowInv, IssuedToApprover, Present
<1>6. \A d \in Codes : Savers(d)' = Savers(d)
  BY <1>1, Zenon DEF TypeOK, Savers, Goto
<1>7. CountInv'
  BY <1>2, <1>6, CountKept, Zenon DEF TypeOK
<1> QED
  BY <1>3, <1>4, <1>5, <1>7, Zenon

\* A request that answers is a saver no longer.
LEMMA SaversAfterReply ==
  ASSUME TypeOK, NEW w \in Workers, Reply(w), NEW d \in Codes
  PROVE  Savers(d)' = Savers(d) \ {w}
  BY Zenon DEF TypeOK, Reply, Goto, Savers

\* The answers that issue nothing.
LEMMA RowStepDevice ==
  ASSUME DeviceInv, NEW w \in Workers, MarkApproved(w) \/ RecordPoll(w) \/ SlowDown(w)
  PROVE  DeviceInv'
<1> USE DEF DeviceInv
<1>1. /\ job[w] \in Job /\ job[w].code \in Codes /\ pc[w] \notin {"idle", "saving"}
      /\ pc[w] = "approving" => job[w].user \in Users
      /\ job[w].at \in Nat /\ job[w].interval \in Nat
  BY Zenon DEF MarkApproved, RecordPoll, SlowDown, JobInv, Job
<1>2. Reply(w) /\ UNCHANGED <<now, info, redeemed, pairs>>
  BY Zenon DEF MarkApproved, RecordPoll, SlowDown, history
<1>3. /\ \A c \in Codes : /\ approvers[c] \subseteq approvers'[c]
                          /\ status'[c] = "approved" => user'[c] \in approvers'[c]
                          /\ \/ approvals'[c] = approvals[c] /\ (status'[c] = "approved" => status[c] = "approved")
                             \/ approvals'[c] = approvals[c] + 1
      /\ status' \in [Codes -> {"pending", "approved", "consumed"}]
      /\ user' \in [Codes -> Users \cup {None}]
      /\ approvals' \in [Codes -> Nat] /\ approvers' \in [Codes -> SUBSET Users]
      /\ interval' \in [Codes -> Nat] /\ polled' \in [Codes -> Nat]
  <2>1. CASE MarkApproved(w)
    BY <1>1, <2>1 DEF MarkApproved, TypeOK, RowInv
  <2>2. CASE RecordPoll(w) \/ SlowDown(w)
    BY <1>1, <2>2, Zenon DEF RecordPoll, SlowDown, TypeOK, RowInv, history
  <2> QED
    BY <2>1, <2>2, Zenon
<1>4. TypeOK'
  BY <1>2, <1>3, Zenon DEF TypeOK, Reply, Goto, PC
<1>5. JobInv'
  BY <1>2, <1>3 DEF TypeOK, JobInv, Job, Reply, Goto, Present
<1>6. RowInv' /\ IssuedToApprover'
  BY <1>2, <1>3, Zenon DEF RowInv, IssuedToApprover, Present
<1>7. \A d \in Codes : Savers(d)' = Savers(d)
  BY <1>1, <1>2, SaversAfterReply DEF Savers
<1>8. CountInv'
  BY <1>2, <1>3, <1>7, CountKept, Zenon
<1> QED
  BY <1>4, <1>5, <1>6, <1>8, Zenon

\* The winner of the consuming UPDATE takes the approval with it; others answer.
LEMMA ConsumeDevice ==
  ASSUME DeviceInv, NEW w \in Workers, ConsumeDeviceCode(w)
  PROVE  DeviceInv'
<1> USE DEF DeviceInv
<1>1. /\ pc[w] = "consuming" /\ job[w] \in Job /\ job[w].code \in Codes
      /\ UNCHANGED <<now, info, user, interval, polled, approvals, approvers, redeemed, pairs>>
  BY Zenon DEF ConsumeDeviceCode, JobInv, Job, history
<1>2. /\ status' \in [Codes -> {"pending", "approved", "consumed"}]
      /\ \A c \in Codes : status'[c] = "approved" => status[c] = "approved"
  BY <1>1, Zenon DEF ConsumeDeviceCode, TypeOK
<1>3. RowInv' /\ IssuedToApprover'
  BY <1>1, <1>2, Zenon DEF RowInv, IssuedToApprover, Present
<1>4. CASE Reply(w)
  <2>1. TypeOK'
    BY <1>1, <1>2, <1>4, Zenon DEF TypeOK, Reply, Goto, PC
  <2>2. JobInv'
    BY <1>1, <1>4, Zenon DEF TypeOK, JobInv, Reply, Goto, Present
  <2>3. \A d \in Codes : Savers(d)' = Savers(d)
    BY <1>1, <1>4, SaversAfterReply DEF Savers
  <2>4. CountInv'
    BY <1>1, <1>2, <2>3, CountKept, Zenon DEF TypeOK
  <2> QED
    BY <1>3, <2>1, <2>2, <2>4, Zenon
<1>5. CASE /\ status[job[w].code] = "approved"
           /\ status' = [status EXCEPT ![job[w].code] = "consumed"]
           /\ Goto(w, "saving", job[w])
  <2>1. TypeOK'
    BY <1>1, <1>2, <1>5, Zenon DEF TypeOK, Goto, PC
  <2>2. JobInv'
    BY <1>1, <1>5 DEF TypeOK, JobInv, Goto, Present
  <2>3. ASSUME NEW d \in Codes
        PROVE  /\ IsFiniteSet(Savers(d)')
               /\ redeemed'[d] + Cardinality(Savers(d)') + Unused(d)' <= approvals'[d]
    <3>1. /\ IsFiniteSet(Savers(d)) /\ redeemed[d] + Cardinality(Savers(d)) + Unused(d) <= approvals[d]
          /\ redeemed[d] \in Nat /\ approvals[d] \in Nat
      BY Zenon DEF CountInv, TypeOK
    <3>2. Cardinality(Savers(d)) \in Nat /\ redeemed'[d] = redeemed[d] /\ approvals'[d] = approvals[d]
      BY <1>1, <3>1, FS_CardinalityType, Zenon
    <3>3. CASE d = job[w].code
      <4>1. Savers(d)' = Savers(d) \cup {w} /\ w \notin Savers(d)
        BY <1>1, <1>5, <3>3, Zenon DEF TypeOK, Savers, Goto
      <4>2. IsFiniteSet(Savers(d)') /\ Cardinality(Savers(d)') = Cardinality(Savers(d)) + 1
        BY <3>1, <4>1, FS_AddElement, Zenon
      <4>3. Unused(d) = 1 /\ Unused(d)' = 0
        BY <1>5, <3>3, Zenon DEF TypeOK, Unused
      <4> QED
        BY <3>1, <3>2, <4>2, <4>3
    <3>4. CASE d # job[w].code
      <4>1. Savers(d)' = Savers(d)
        BY <1>1, <1>5, <3>4, Zenon DEF TypeOK, Savers, Goto
      <4>2. Unused(d)' = Unused(d)
        BY <1>1, <1>5, <3>4, Zenon DEF TypeOK, Unused
      <4> QED
        BY <3>1, <3>2, <4>1, <4>2, Zenon
    <3> QED
      BY <3>3, <3>4, Zenon
  <2>4. CountInv'
    BY <2>3, Zenon DEF CountInv
  <2> QED
    BY <1>3, <2>1, <2>2, <2>4, Zenon
<1> QED
  BY <1>4, <1>5, Zenon DEF ConsumeDeviceCode

\* A pair that is saved goes to the client and user its request carries; the
\* request is a saver no longer.
LEMMA SaveDevice ==
  ASSUME DeviceInv, NEW w \in Workers, SaveTokenPair(w)
  PROVE  DeviceInv'
<1> USE DEF DeviceInv
<1> DEFINE k == job[w].code
           p == [client |-> job[w].client, user |-> job[w].user, at |-> job[w].at]
<1>1. /\ pc[w] = "saving" /\ k \in Codes /\ Present(k) /\ w \in Savers(k)
      /\ Reply(w) /\ UNCHANGED <<now, info, status, user, interval, polled, approvals, approvers>>
  BY Zenon DEF SaveTokenPair, JobInv, Job, Savers, columns
<1>2. /\ p.client = info[k].client /\ p.user \in approvers[k] /\ p.at < info[k].exp
      /\ p \in Pair
  <2>1. job[w] \in Job /\ job[w].client = info[k].client /\ info[k] \in Info
    BY <1>1, Zenon DEF JobInv, TypeOK, Present
  <2>2. p \in Pair
    BY <2>1, Zenon DEF Job, Info, Pair
  <2> QED
    BY <1>1, <2>2, Zenon DEF JobInv
<1>3. \/ /\ redeemed' = [redeemed EXCEPT ![k] = @ + 1]
         /\ pairs' = [pairs EXCEPT ![k] = @ \cup {p}]
      \/ UNCHANGED <<redeemed, pairs>>
  BY Zenon DEF SaveTokenPair
<1> HIDE DEF p, k
<1>4. TypeOK'
  BY <1>1, <1>2, <1>3 DEF TypeOK, Reply, Goto, PC
<1>5. JobInv'
  BY <1>1, Zenon DEF TypeOK, JobInv, Reply, Goto, Present
<1>6. \A c \in Codes : \A q \in pairs'[c] : q \in pairs[c] \/ (q = p /\ c = k)
  BY <1>1, <1>3 DEF TypeOK
<1>7. RowInv' /\ IssuedToApprover'
  BY <1>1, <1>2, <1>6, Zenon DEF RowInv, IssuedToApprover, Present
<1>8. ASSUME NEW d \in Codes
      PROVE  /\ IsFiniteSet(Savers(d)')
             /\ redeemed'[d] + Cardinality(Savers(d)') + Unused(d)' <= approvals'[d]
  <2>1. /\ IsFiniteSet(Savers(d)) /\ redeemed[d] + Cardinality(Savers(d)) + Unused(d) <= approvals[d]
        /\ redeemed[d] \in Nat /\ approvals[d] \in Nat
    BY Zenon DEF CountInv, TypeOK
  <2>2. /\ Cardinality(Savers(d)) \in Nat /\ Unused(d)' = Unused(d) /\ approvals'[d] = approvals[d]
        /\ Unused(d) \in Nat
    BY <1>1, <2>1, FS_CardinalityType, Zenon DEF Unused
  <2>3. Savers(d)' = Savers(d) \ {w}
    BY <1>1, SaversAfterReply, Zenon
  <2>4. /\ IsFiniteSet(Savers(d)')
        /\ Cardinality(Savers(d)') = IF w \in Savers(d) THEN Cardinality(Savers(d)) - 1
                                                       ELSE Cardinality(Savers(d))
    <3>1. /\ IsFiniteSet(Savers(d) \ {w})
          /\ Cardinality(Savers(d) \ {w}) = IF w \in Savers(d) THEN Cardinality(Savers(d)) - 1
                                                                ELSE Cardinality(Savers(d))
      BY <2>1, FS_RemoveElement, Zenon
    <3> QED
      BY <2>3, <3>1, Zenon
  <2>5. redeemed'[d] = redeemed[d] \/ (d = k /\ redeemed'[d] = redeemed[d] + 1)
    BY <1>1, <1>3 DEF TypeOK
  <2> QED
    BY <1>1, <2>1, <2>2, <2>4, <2>5
<1>9. CountInv'
  BY <1>8, Zenon DEF CountInv
<1> QED
  BY <1>4, <1>5, <1>7, <1>9, Zenon

\* A crash, the clock and stuttering.
LEMMA CrashDevice ==
  ASSUME DeviceInv, Crash \/ Tick \/ UNCHANGED vars
  PROVE  DeviceInv'
<1> USE DEF DeviceInv
<1>1. CASE Crash
  <2>1. TypeOK' /\ JobInv' /\ RowInv' /\ IssuedToApprover'
    BY <1>1, Zenon DEF Crash, TypeOK, JobInv, RowInv, IssuedToApprover, Present, PC, columns, history
  <2>2. ASSUME NEW d \in Codes
        PROVE  /\ IsFiniteSet(Savers(d)')
               /\ redeemed'[d] + Cardinality(Savers(d)') + Unused(d)' <= approvals'[d]
    <3>1. Savers(d)' = {}
      BY <1>1, Zenon DEF Crash, Savers
    <3>2. IsFiniteSet(Savers(d)') /\ Cardinality(Savers(d)') = 0
      BY <3>1, FS_EmptySet, Zenon
    <3>3. /\ redeemed'[d] = redeemed[d] /\ approvals'[d] = approvals[d] /\ Unused(d)' = Unused(d)
          /\ redeemed[d] \in Nat /\ approvals[d] \in Nat /\ Unused(d) \in Nat
      BY <1>1, Zenon DEF Crash, TypeOK, Unused, columns, history
    <3>4. redeemed[d] + Cardinality(Savers(d)) + Unused(d) <= approvals[d] /\ Cardinality(Savers(d)) \in Nat
      BY FS_CardinalityType, Zenon DEF CountInv
    <3> QED
      BY <3>2, <3>3, <3>4
  <2>3. CountInv'
    BY <2>2, Zenon DEF CountInv
  <2> QED
    BY <2>1, <2>3, Zenon
<1>2. CASE Tick \/ UNCHANGED vars
  <2>1. UNCHANGED <<info, status, user, interval, polled, pc, job, approvals, approvers, redeemed, pairs>>
    BY <1>2, Zenon DEF Tick, vars, columns, request, history
  <2>2. TypeOK' /\ JobInv' /\ RowInv' /\ IssuedToApprover'
    BY <1>2, <2>1 DEF Tick, vars, TypeOK, JobInv, RowInv, IssuedToApprover, Present
  <2>3. \A d \in Codes : Savers(d)' = Savers(d)
    BY <2>1, Zenon DEF Savers
  <2>4. CountInv'
    BY <2>1, <2>3, CountKept, Zenon DEF TypeOK
  <2> QED
    BY <2>2, <2>4, Zenon
<1> QED
  BY <1>1, <1>2, Zenon

-----------------------------------------------------------------------------
\* DeviceInv holds in every reachable state.
THEOREM DeviceInvariance == Spec => []DeviceInv
<1>1. DeviceInv /\ [Next]_vars => DeviceInv'
  <2> SUFFICES ASSUME DeviceInv, [Next]_vars PROVE DeviceInv'
    OBVIOUS
  <2>1. CASE Crash \/ Tick \/ UNCHANGED vars
    BY <2>1, CrashDevice, Zenon
  <2>2. ASSUME NEW w \in Workers, Answer(w) PROVE DeviceInv'
    BY <2>2, RowStepDevice, ConsumeDevice, SaveDevice, Zenon DEF Answer
  <2> QED
    BY <2>1, <2>2, IssueDevice, LookupDevice, Zenon DEF Next, Arrive
<1> QED
  BY <1>1, InitDevice, PTL DEF Spec

\* Polls that race for an approved device code, retries and failed statements
\* never issue a pair more than the approving UPDATEs there were, for any number
\* of requests (the consume CAS of the token endpoint).
THEOREM RedemptionHolds == Spec => []RedemptionPerApproval
<1>1. DeviceInv => RedemptionPerApproval
  <2> SUFFICES ASSUME DeviceInv, NEW c \in Codes PROVE redeemed[c] <= approvals[c]
    BY Zenon DEF RedemptionPerApproval
  <2>1. /\ IsFiniteSet(Savers(c)) /\ redeemed[c] + Cardinality(Savers(c)) + Unused(c) <= approvals[c]
        /\ redeemed[c] \in Nat /\ approvals[c] \in Nat /\ Unused(c) \in Nat
    BY Zenon DEF DeviceInv, CountInv, TypeOK, Unused
  <2>2. Cardinality(Savers(c)) \in Nat
    BY <2>1, FS_CardinalityType, Zenon
  <2> QED
    BY <2>1, <2>2
<1> QED
  BY <1>1, DeviceInvariance, PTL

\* The columns of a device code and the registers of the polls that work on it
\* keep their shapes, whichever statement comes between the read and the write
\* of a poll.
THEOREM DeviceTypes == Spec => []TypeOK
  BY DeviceInvariance, PTL DEF DeviceInv

\* A pair is issued to the client that asked for the device code, to a user who
\* approved it, and before the code expired, although user_id and the clock were
\* read before the consuming UPDATE.
THEOREM IssuedToApproverHolds == Spec => []IssuedToApprover
  BY DeviceInvariance, PTL DEF DeviceInv

\* No late update of a poll turns an approved or consumed device code back into
\* a pending one.
THEOREM ApprovalSticksHolds == Spec => ApprovalSticks
<1>1. TypeOK /\ JobInv /\ [Next]_vars
        => [\A c \in Codes : status[c] # "pending" => status'[c] # "pending"]_vars
  <2> SUFFICES ASSUME TypeOK, JobInv, Next, NEW c \in Codes, status[c] # "pending"
               PROVE  status'[c] # "pending"
    OBVIOUS
  <2>1. ASSUME NEW w \in Workers, MarkApproved(w) \/ ConsumeDeviceCode(w) PROVE status'[c] # "pending"
    BY <2>1, Zenon DEF MarkApproved, ConsumeDeviceCode, TypeOK
  <2>2. CASE UNCHANGED status
    BY <2>2, Zenon
  <2> QED
    BY <2>1, <2>2, Zenon DEF Next, Arrive, Answer, DeviceAuthorization, ApproveDevice, PollPending,
       PollApproved, RecordPoll, SlowDown, SaveTokenPair, Crash, Tick, columns
<1> QED
  BY <1>1, DeviceInvariance, PTL DEF Spec, DeviceInv, ApprovalSticks
=============================================================================
