------------------------- MODULE OrgOwnershipProofs -------------------------
(***************************************************************************)
(* OrgOwnership's invariants and action properties hold for every number   *)
(* of users, organizations and concurrent requests, every mix of requests  *)
(* and every cap. The inductive invariant says of each request which       *)
(* operation its step serves and what it still knows of the tables.        *)
(***************************************************************************)
EXTENDS OrgOwnership, FiniteSetTheorems, TLAPS

\* The steps at which a request works on an organization it has found.
OrgKnown == {"role", "target", "owners", "delete", "cap", "insertInvite", "uninvite", "join",
             "user", "upsert", "withdraw", "pending", "seat", "promote", "insertSeat",
             "cascade", "void", "detach"} \cup InSwap

\* The steps at which a request works on a user it has found.
TargetKnown == {"user", "upsert", "seat", "promote", "insertSeat"} \cup InSwap

\* The steps of the guard after it has read the organizations the user owns.
Guarding == {"ownedPending", "walk", "pending", "user", "seat", "promote", "insertSeat",
             "softDelete"} \cup InSwap

\* The operations that come to a step.
Serves(s, op) ==
  /\ s = "caller" => op \in UserOps
  /\ s = "org" => op \in (UserOps \ {"create", "join", "deleteUser"}) \cup (AdminOps \ {"adminCreate"})
  /\ s = "role" => op \in {"nominate", "withdraw", "invite", "uninvite", "remove"}
  /\ s \in {"target", "owners", "delete"} => op \in {"remove", "evict"}
  /\ s = "quota" => op = "create"
  /\ s = "create" => op \in {"create", "adminCreate"}
  /\ s \in {"cap", "insertInvite"} => op = "invite"
  /\ s = "uninvite" => op = "uninvite"
  /\ s \in {"invitation", "join", "stamp"} => op = "join"
  /\ s = "user" => op \in {"nominate", "transfer", "deleteUser"}
  /\ s = "upsert" => op = "nominate"
  /\ s = "withdraw" => op = "withdraw"
  /\ s \in {"pending", "mark"} => op \in SwapOps
  /\ s \in {"seat", "promote", "insertSeat", "demote", "demoting"} => op \in {"transfer"} \cup SwapOps
  /\ s \in {"cascade", "void", "detach"} => op = "deleteOrg"
  /\ s \in {"owned", "ownedPending", "walk", "softDelete"} => op = "deleteUser"

\* The registers that a request j under way at w has filled by its step.
Registers(w, j) ==
  j.at # "idle" =>
    /\ j.op \in mix.does[w] /\ Serves(j.at, j.op)
    /\ j.op \in UserOps => j.by \in Users
    /\ j.op \in Targeted => j.target \in Users
    /\ j.op # "deleteUser" => j.org \in Orgs
    /\ j.at \in OrgKnown => j.org \in Orgs /\ org[j.org] # "absent"
    /\ j.at \in TargetKnown => j.target \in Users
    /\ j.at = "join" => j.mine \in {"member", "admin"}
    /\ \A o \in j.todo : org[o] # "absent"

Owned(u) == {o \in Orgs : role[o][u] = "owner"}
NoSeatMoves == \A w \in Workers : mix.does[w] \cap ({"transfer"} \cup SwapOps) = {}

\* What j has counted under its advisory lock is still so when it inserts.
Counted(j) ==
  /\ j.at = "insertInvite" => Cardinality(Pending(j.org)) < MaxPending
  /\ NoSeatMoves /\ j.at = "create" /\ j.op = "create" => Cardinality(Owned(j.by)) < MaxOrgs

\* What j removes or demotes is not the last owner, unless the organization is gone.
SpareOwner(j) ==
  SeatsApart =>
    /\ j.at = "delete"
       => org[j.org] = "deleted" \/ Owners(j.org) = {} \/ \E u \in Owners(j.org) : u # j.target
    /\ j.op = "transfer" /\ j.at \in {"demote", "demoting"}
       => /\ org[j.org] = "deleted" \/ Owners(j.org) = {} \/ j.target \in Owners(j.org)
          /\ j.target \notin j.locks
    /\ j.at = "demoting" => j.target \notin j.seen

\* The guard j has yet to visit every seat that its user holds and that has a
\* nominee, and the nomination it works on was not overwritten.
GuardKnows(j) ==
  ~mix.faults /\ GuardApart /\ j.op = "deleteUser" /\ j.at \in Guarding =>
    /\ \A o \in Orgs : role[o][j.by] = "owner" /\ nom[o] \in live => o \in j.todo
    /\ j.at \in {"user", "seat", "promote", "insertSeat"} \cup InSwap => nom[j.org] \in {j.target, None}
    /\ j.at = "softDelete" => j.todo = {}

RequestOK(w, j) == Registers(w, j) /\ Counted(j) /\ SpareOwner(j) /\ GuardKnows(j)

\* Nothing refers to an organization that was never created.
Fresh ==
  \A o \in Orgs : org[o] = "absent" =>
    /\ nom[o] = None
    /\ \A u \in Users : role[o][u] = "none" /\ invite[o][u] = "none"

\* At most one request holds each advisory lock.
Exclusive ==
  \A w, x \in Workers : w # x =>
    /\ At(w, "insertInvite") /\ At(x, "insertInvite") => job[w].org # job[x].org
    /\ At(w, "create") /\ At(x, "create") /\ job[w].op = "create" => job[w].by # job[x].by

OrgInv ==
  /\ TypeOK /\ CapsHold /\ Fresh /\ Exclusive
  /\ \A w \in Workers : RequestOK(w, job[w])

-----------------------------------------------------------------------------
\* A request that has ended asks for nothing.
LEMMA IdleOK ==
  ASSUME NEW w
  PROVE  Idle \in Job /\ Idle.locks = {} /\ Idle.at = "idle" /\ RequestOK(w, Idle)
<1>1. Idle \in Job
  BY Zenon DEF Idle, Job, Steps, Seats
<1>2. RequestOK(w, Idle)
  BY Zenon DEF Idle, RequestOK, Registers, Counted, SpareOwner, GuardKnows, Guarding, InSwap
<1> QED
  BY <1>1, <1>2, Zenon DEF Idle

\* Of the other requests, a step changes at most the flag that says whether the
\* row they found is still there.
SameButRow(j, k) ==
  /\ j.at = k.at /\ j.op = k.op /\ j.by = k.by /\ j.org = k.org /\ j.target = k.target
  /\ j.mine = k.mine /\ j.todo = k.todo /\ j.seen = k.seen /\ j.locks = k.locks

OthersWait(w) == \A x \in Workers : x # w => SameButRow(job'[x], job[x])

\* Initially nothing is pending and every request is idle.
LEMMA InitOrg == Init => OrgInv
<1> SUFFICES ASSUME Init PROVE OrgInv
  BY Zenon
<1>1. /\ mix \in Mixes /\ mix.max \in Nat /\ MaxPending \in Nat
      /\ \A w \in Workers : job[w] = Idle
      /\ \A o \in Orgs, u \in Users : invite[o][u] = "none"
  BY OrgAssumption, Zenon DEF Init, Mix
<1>2. TypeOK
  <2>1. job \in [Workers -> Job] /\ \A w \in Workers : job[w].locks = {}
    BY <1>1, IdleOK, Zenon DEF Init
  <2> QED
    BY <1>1, <2>1 DEF Init, TypeOK
<1>3. CapsHold
  <2>1. Cardinality({}) = 0
    BY FS_EmptySet, Zenon
  <2>2. \A o \in Orgs : Cardinality(Pending(o)) <= MaxPending
    <3> SUFFICES ASSUME NEW o \in Orgs PROVE Cardinality(Pending(o)) <= MaxPending
      BY Zenon
    <3>1. Pending(o) = {}
      BY <1>1, Zenon DEF Pending
    <3> QED
      BY <1>1, <2>1, <3>1
  <2>3. \A u \in Users : Cardinality({o \in Orgs : role[o][u] = "owner"}) <= MaxOrgs
    BY Zenon DEF Init
  <2> QED
    BY <2>2, <2>3, Zenon DEF CapsHold
<1>4. Fresh
  <2>1. /\ \A o \in Orgs : nom[o] = None
        /\ \A o \in Orgs : org[o] = "absent" => role[o] = [u \in Users |-> "none"]
    BY Zenon DEF Init
  <2> QED
    BY <1>1, <2>1 DEF Fresh
<1>5. Exclusive
  BY <1>1 DEF Exclusive, At, Idle
<1>6. \A w \in Workers : RequestOK(w, job[w])
  BY <1>1, IdleOK, Zenon
<1> QED
  BY <1>2, <1>3, <1>4, <1>5, <1>6, Zenon DEF OrgInv

\* The other requests keep what they have found: no organization becomes absent
\* again.
LEMMA OthersRegisters ==
  ASSUME TypeOK, NEW w \in Workers, OthersWait(w), mix' = mix,
         NEW x \in Workers, x # w, Registers(x, job[x]),
         \A o \in Orgs : org[o] # "absent" => org'[o] # "absent"
  PROVE  Registers(x, job[x])'
<1>1. SameButRow(job'[x], job[x]) /\ job[x].todo \subseteq Orgs
  BY Zenon DEF OthersWait, TypeOK, Job
<1> QED
  BY <1>1, Zenon DEF Registers, SameButRow

\* A step that changes no table leaves the other requests with what they know.
LEMMA OthersQuiet ==
  ASSUME OrgInv, NEW w \in Workers, OthersWait(w), UNCHANGED <<tables, mix>>,
         NEW x \in Workers, x # w
  PROVE  RequestOK(x, job[x])'
<1>1. RequestOK(x, job[x]) /\ TypeOK
  BY Zenon DEF OrgInv
<1>2. SameButRow(job'[x], job[x])
  BY Zenon DEF OthersWait
<1>3. /\ UNCHANGED <<org, role, nom, invite, live, mix>>
      /\ \A o : Owners(o)' = Owners(o) /\ Pending(o)' = Pending(o) /\ Owned(o)' = Owned(o)
  BY Zenon DEF tables, Owners, Pending, Owned
<1>4. Registers(x, job[x])'
  BY <1>1, <1>3, OthersRegisters, Zenon DEF RequestOK
<1>5. Counted(job[x])'
  BY <1>1, <1>2, <1>3, Zenon DEF RequestOK, Counted, NoSeatMoves, SameButRow
<1>6. SpareOwner(job[x])'
  BY <1>1, <1>2, <1>3, Zenon DEF RequestOK, SpareOwner, SeatsApart, SameButRow
<1>7. GuardKnows(job[x])'
  BY <1>1, <1>2, <1>3, Zenon DEF RequestOK, GuardKnows, GuardApart, SameButRow
<1> QED
  BY <1>4, <1>5, <1>6, <1>7, Zenon DEF RequestOK

\* A step by which the request of w becomes j, and that changes no table,
\* preserves the invariant when j is in order and shares no advisory lock.
LEMMA RequestKeeps ==
  ASSUME OrgInv, NEW w \in Workers, NEW j \in Job, job' = [job EXCEPT ![w] = j],
         UNCHANGED <<tables, mix>>, calls' \in 0..mix.max,
         j.locks # {} => j.at \in Writing, Exclusive', RequestOK(w, j)
  PROVE  OrgInv'
<1>1. /\ UNCHANGED <<org, role, nom, invite, live, mix>>
      /\ job'[w] = j /\ \A x \in Workers : x # w => job'[x] = job[x]
      /\ job' \in [Workers -> Job]
      /\ TypeOK
  BY Zenon DEF OrgInv, TypeOK, tables
<1>2. OthersWait(w)
  BY <1>1, Zenon DEF OthersWait, SameButRow
<1>3. TypeOK'
  <2>1. \A x \in Workers : job'[x].locks # {} => job'[x].at \in Writing
    BY <1>1, Zenon DEF TypeOK
  <2> QED
    BY <1>1, <2>1, Zenon DEF TypeOK
<1>4. CapsHold' /\ Fresh'
  <2>1. CapsHold /\ Fresh
    BY Zenon DEF OrgInv
  <2> QED
    BY <1>1, <2>1, Zenon DEF CapsHold, Fresh, Pending
<1>5. RequestOK(w, job[w])'
  <2>1. Registers(w, j)' /\ SpareOwner(j)' /\ GuardKnows(j)'
    BY <1>1, Zenon DEF RequestOK, Registers, SpareOwner, GuardKnows, SeatsApart, GuardApart, Owners
  <2>2. Counted(j)'
    BY <1>1, Zenon DEF RequestOK, Counted, Pending, Owned, NoSeatMoves
  <2> QED
    BY <1>1, <2>1, <2>2, Zenon DEF RequestOK
<1>6. \A x \in Workers : RequestOK(x, job[x])'
  BY <1>2, <1>5, OthersQuiet, Zenon
<1> QED
  BY <1>3, <1>4, <1>6, Zenon DEF OrgInv

\* The same for a request that takes no advisory lock.
LEMMA MoveKeeps ==
  ASSUME OrgInv, NEW w \in Workers, NEW j \in Job, job' = [job EXCEPT ![w] = j],
         UNCHANGED <<tables, mix>>, calls' \in 0..mix.max,
         j.locks # {} => j.at \in Writing, j.at \notin {"insertInvite", "create"},
         Registers(w, j), SpareOwner(j), GuardKnows(j)
  PROVE  OrgInv'
<1>1. job'[w] = j /\ \A x \in Workers : x # w => job'[x] = job[x]
  BY Zenon DEF OrgInv, TypeOK
<1>2. Exclusive'
  BY <1>1 DEF OrgInv, Exclusive, At
<1>3. RequestOK(w, j)
  BY Zenon DEF RequestOK, Counted
<1> QED
  BY <1>2, <1>3, RequestKeeps, Zenon

\* Ending a request without touching a table preserves the invariant.
LEMMA DoneKeeps ==
  ASSUME OrgInv, NEW w \in Workers, Done(w), UNCHANGED <<tables, calls, mix>>
  PROVE  OrgInv'
<1>1. calls' \in 0..mix.max
  BY Zenon DEF OrgInv, TypeOK
<1> QED
  BY <1>1, IdleOK, MoveKeeps, Zenon DEF Done, RequestOK

\* A request at a step that demotes and removes nobody, and that is no guard, only
\* has to have its registers filled.
LEMMA PlainKeeps ==
  ASSUME OrgInv, NEW w \in Workers, NEW j \in Job, job' = [job EXCEPT ![w] = j],
         UNCHANGED <<tables, mix>>, calls' \in 0..mix.max, j.locks = {},
         j.at \notin {"insertInvite", "create", "delete", "demote", "demoting"},
         j.op # "deleteUser" \/ j.at \notin Guarding,
         Registers(w, j)
  PROVE  OrgInv'
<1>1. SpareOwner(j) /\ GuardKnows(j)
  BY Zenon DEF SpareOwner, GuardKnows
<1> QED
  BY <1>1, MoveKeeps, Zenon

-----------------------------------------------------------------------------
\* The lookups that every request begins with.
LEMMA CallStep ==
  ASSUME OrgInv, NEW w \in Workers, Call(w)
  PROVE  OrgInv'
<1>1. /\ TypeOK /\ mix \in Mix /\ mix.on \subseteq Orgs
      /\ mix.does[w] \subseteq UserOps \cup AdminOps /\ mix.max \in Nat
  BY OrgAssumption, Zenon DEF OrgInv, TypeOK, Mix
<1>2. calls' \in 0..mix.max
  BY <1>1 DEF Call, TypeOK
<1>3. PICK op \in mix.does[w] :
        \E u \in IF op \in AdminOps THEN {None} ELSE Users :
        \E o \in IF op = "deleteUser" THEN {None} ELSE mix.on :
        \E t \in IF op \in Targeted THEN Users ELSE {None} :
          job' = [job EXCEPT ![w] = [Idle EXCEPT !.op = op, !.by = u, !.org = o, !.target = t,
                    !.at = CASE op \in UserOps      -> "caller"
                             [] op = "adminCreate"  -> "create"
                             [] OTHER               -> "org"]]
  BY Zenon DEF Call
<1>4. PICK u \in IF op \in AdminOps THEN {None} ELSE Users,
           o \in IF op = "deleteUser" THEN {None} ELSE mix.on,
           t \in IF op \in Targeted THEN Users ELSE {None} :
          job' = [job EXCEPT ![w] = [Idle EXCEPT !.op = op, !.by = u, !.org = o, !.target = t,
                    !.at = CASE op \in UserOps      -> "caller"
                             [] op = "adminCreate"  -> "create"
                             [] OTHER               -> "org"]]
  BY <1>3, Zenon
<1>5. PICK s, j : /\ s = CASE op \in UserOps -> "caller" [] op = "adminCreate" -> "create" [] OTHER -> "org"
                  /\ j = [Idle EXCEPT !.op = op, !.by = u, !.org = o, !.target = t, !.at = s]
  BY Zenon
<1>6. /\ j \in Job /\ job' = [job EXCEPT ![w] = j] /\ UNCHANGED <<tables, mix>>
      /\ j.at \in {"caller", "create", "org"} /\ j.op = op /\ j.by = u /\ j.org = o /\ j.target = t
      /\ j.locks = {} /\ j.todo = {}
      /\ j.at = "caller" <=> op \in UserOps
      /\ j.at = "create" <=> op = "adminCreate"
  <2>1. /\ s \in {"caller", "create", "org"}
        /\ s = "caller" <=> op \in UserOps
        /\ s = "create" <=> op = "adminCreate"
    BY <1>5, Zenon DEF UserOps
  <2>2. job' = [job EXCEPT ![w] = j] /\ UNCHANGED <<tables, mix>>
    BY <1>4, <1>5, Zenon DEF Call
  <2>3. /\ u \in Users \cup {None} /\ o \in Orgs \cup {None} /\ t \in Users \cup {None}
        /\ op \in UserOps \cup AdminOps
    BY <1>1, Zenon
  <2>4. j = [Idle EXCEPT !.op = op, !.by = u, !.org = o, !.target = t, !.at = s]
    BY <1>5, Zenon
  <2> QED
    BY <2>1, <2>2, <2>3, <2>4, Zenon DEF Idle, Job, Steps, Seats
<1>7. Registers(w, j)
  BY <1>1, <1>3, <1>6, Zenon DEF Registers, Serves, OrgKnown, TargetKnown, InSwap, UserOps,
     AdminOps, Targeted, SwapOps
<1>8. CASE j.at # "create"
  BY <1>2, <1>6, <1>7, <1>8, PlainKeeps, Zenon DEF Guarding, InSwap
<1>9. CASE j.at = "create"
  <2>1. RequestOK(w, j)
    BY <1>6, <1>7, <1>9, Zenon DEF RequestOK, Counted, SpareOwner, GuardKnows
  <2>2. u = None /\ \A x \in Workers : At(x, "create") /\ job[x].op = "create" => job[x].by \in Users
    BY <1>6, <1>9, Zenon DEF OrgInv, RequestOK, Registers, At, UserOps, AdminOps
  <2>3. Exclusive'
    BY <1>1, <1>6, <1>9, <2>2, OrgAssumption DEF OrgInv, TypeOK, Exclusive, At
  <2> QED
    BY <1>2, <1>6, <2>1, <2>3, RequestKeeps, Zenon
<1> QED
  BY <1>8, <1>9, Zenon

\* Moving to the next step changes nothing else of a request.
LEMMA Moved ==
  ASSUME NEW k \in Job, NEW s \in Steps
  PROVE  LET j == [k EXCEPT !.at = s]
         IN  /\ j \in Job /\ j.at = s /\ j.op = k.op /\ j.by = k.by /\ j.org = k.org
             /\ j.target = k.target /\ j.mine = k.mine /\ j.todo = k.todo /\ j.seen = k.seen
             /\ j.locks = k.locks
  BY Zenon DEF Job

\* A request that goes on to a step which neither demotes nor removes, and is no
\* guard, keeps its registers.
LEMMA GoToKeeps ==
  ASSUME OrgInv, NEW w \in Workers, NEW s \in Steps, GoTo(w, s), UNCHANGED <<tables, calls, mix>>,
         job[w].at \notin {"idle"} \cup Writing,
         s \notin {"idle", "join", "insertInvite", "create", "delete", "demote", "demoting"},
         job[w].op # "deleteUser" \/ s \notin Guarding,
         Serves(s, job[w].op),
         s \in OrgKnown => job[w].org \in Orgs /\ org[job[w].org] # "absent",
         s \in TargetKnown => job[w].target \in Users
  PROVE  OrgInv'
<1>1. /\ TypeOK /\ job[w] \in Job /\ job[w].locks = {} /\ calls' \in 0..mix.max
      /\ Registers(w, job[w])
  BY Zenon DEF OrgInv, TypeOK, RequestOK
<1>2. PICK j : j = [job[w] EXCEPT !.at = s]
  BY Zenon
<1>3. /\ j \in Job /\ j.at = s /\ j.op = job[w].op /\ j.by = job[w].by /\ j.org = job[w].org
      /\ j.target = job[w].target /\ j.todo = job[w].todo /\ j.locks = {}
  BY <1>1, <1>2, Moved
<1>4. job' = [job EXCEPT ![w] = j]
  BY <1>2, Zenon DEF GoTo
<1>5. Registers(w, j)
  BY <1>1, <1>3, Zenon DEF Registers
<1> QED
  BY <1>1, <1>3, <1>4, <1>5, PlainKeeps, Zenon

\* What the invariant says of a request under way.
LEMMA Request ==
  ASSUME OrgInv, NEW w \in Workers
  PROVE  TypeOK /\ job[w] \in Job /\ RequestOK(w, job[w]) /\ Registers(w, job[w])
  BY Zenon DEF OrgInv, TypeOK, RequestOK

\* The lookup of the caller.
LEMMA ResolveCallerStep ==
  ASSUME OrgInv, NEW w \in Workers, ResolveCaller(w)
  PROVE  OrgInv'
<1>1. CASE job[w].by \notin live
  BY <1>1, DoneKeeps, Zenon DEF ResolveCaller
<1>2. CASE job[w].by \in live
  <2>1. PICK s : s = CASE job[w].op = "create"     -> "quota"
                       [] job[w].op = "join"       -> "invitation"
                       [] job[w].op = "deleteUser" -> "owned"
                       [] OTHER                    -> "org"
    BY Zenon
  <2>2. GoTo(w, s) /\ UNCHANGED <<tables, calls, mix>> /\ job[w].at = "caller"
    BY <1>2, <2>1, Zenon DEF ResolveCaller, At
  <2>3. job[w].op \in UserOps
    BY <2>2, Request, Zenon DEF Registers, Serves
  <2>4. /\ s \in {"quota", "invitation", "owned", "org"}
        /\ Serves(s, job[w].op)
    BY <2>1, <2>3, Zenon DEF Serves, UserOps
  <2> QED
    BY <2>2, <2>4, GoToKeeps, Zenon DEF Steps, OrgKnown, TargetKnown, Guarding, Writing, InSwap
<1> QED
  BY <1>1, <1>2, Zenon

\* The lookup of the organization.
LEMMA FindOrgBySlugStep ==
  ASSUME OrgInv, NEW w \in Workers, FindOrgBySlug(w)
  PROVE  OrgInv'
<1>1. CASE org[job[w].org] # "live"
  BY <1>1, DoneKeeps, Zenon DEF FindOrgBySlug
<1>2. CASE org[job[w].org] = "live"
  <2>1. PICK s : s = CASE job[w].op = "accept"    -> "pending"
                       [] job[w].op = "transfer"  -> "user"
                       [] job[w].op = "evict"     -> "target"
                       [] job[w].op = "deleteOrg" -> "cascade"
                       [] OTHER                   -> "role"
    BY Zenon
  <2>2. GoTo(w, s) /\ UNCHANGED <<tables, calls, mix>> /\ job[w].at = "org"
    BY <1>2, <2>1, Zenon DEF FindOrgBySlug, At
  <2>3. /\ job[w].op \in (UserOps \ {"create", "join", "deleteUser"}) \cup (AdminOps \ {"adminCreate"})
        /\ job[w].op # "deleteUser" => job[w].org \in Orgs
        /\ job[w].op \in Targeted => job[w].target \in Users
    BY <2>2, Request, Zenon DEF Registers, Serves
  <2>4. /\ s \in {"pending", "user", "target", "cascade", "role"}
        /\ Serves(s, job[w].op)
        /\ job[w].op # "deleteUser"
        /\ s = "user" => job[w].op \in Targeted
    BY <2>1, <2>3, Zenon DEF Serves, UserOps, AdminOps, SwapOps, Targeted
  <2> QED
    BY <1>2, <2>2, <2>3, <2>4, GoToKeeps, Zenon DEF Steps, OrgKnown, TargetKnown, Guarding, Writing, InSwap
<1> QED
  BY <1>1, <1>2, Zenon

\* The caller's role.
LEMMA GetMembershipStep ==
  ASSUME OrgInv, NEW w \in Workers, GetMembership(w)
  PROVE  OrgInv'
<1>1. CASE ~Allowed(job[w], role[job[w].org][job[w].by])
  BY <1>1, DoneKeeps, Zenon DEF GetMembership
<1>2. CASE Allowed(job[w], role[job[w].org][job[w].by])
  <2>1. /\ TypeOK /\ job[w] \in Job /\ job[w].at = "role" /\ Registers(w, job[w])
    BY Request, Zenon DEF GetMembership, At
  <2>2. PICK m : m = IF job[w].op = "remove" THEN role[job[w].org][job[w].by] ELSE job[w].mine
    BY Zenon
  <2>3. PICK s : s = CASE job[w].op = "nominate" -> "user"
                       [] job[w].op = "withdraw" -> "withdraw"
                       [] job[w].op = "invite"   -> "cap"
                       [] job[w].op = "uninvite" -> "uninvite"
                       [] job[w].op = "remove"   -> "target"
    BY Zenon
  <2>4. PICK j : j = [job[w] EXCEPT !.mine = m, !.at = s]
    BY Zenon
  <2>5. job' = [job EXCEPT ![w] = j] /\ UNCHANGED <<tables, calls, mix>>
    BY <1>2, <2>2, <2>3, <2>4, Zenon DEF GetMembership
  <2>6. /\ job[w].op \in {"nominate", "withdraw", "invite", "uninvite", "remove"}
        /\ job[w].op \in mix.does[w]
        /\ job[w].by \in Users /\ job[w].org \in Orgs /\ org[job[w].org] # "absent"
        /\ job[w].op \in Targeted => job[w].target \in Users
        /\ \A o \in job[w].todo : org[o] # "absent"
    BY <2>1, Zenon DEF Registers, Serves, UserOps, OrgKnown
  <2>7. m \in Seats
    BY <2>1, <2>2, <2>6 DEF TypeOK, Job
  <2>8. /\ s \in {"user", "withdraw", "cap", "uninvite", "target"}
        /\ Serves(s, job[w].op)
        /\ s = "user" => job[w].op \in Targeted
    BY <2>3, <2>6, Zenon DEF Serves, Targeted
  <2>9. /\ j \in Job /\ j.at = s /\ j.op = job[w].op /\ j.by = job[w].by /\ j.org = job[w].org
        /\ j.target = job[w].target /\ j.todo = job[w].todo /\ j.locks = job[w].locks
    BY <2>1, <2>4, <2>7, <2>8, Zenon DEF Job, Steps
  <2>10. Registers(w, j)
    BY <2>6, <2>8, <2>9, Zenon DEF Registers, OrgKnown, TargetKnown, InSwap
  <2>11. j.locks = {} /\ calls' \in 0..mix.max
    BY <2>1, <2>5, <2>9, Zenon DEF TypeOK, Writing, InSwap
  <2> QED
    BY <2>5, <2>6, <2>8, <2>9, <2>10, <2>11, PlainKeeps, Zenon
<1> QED
  BY <1>1, <1>2, Zenon

-----------------------------------------------------------------------------
\* A removal whose target is not the last owner goes on to the DELETE.
LEMMA ToDelete ==
  ASSUME OrgInv, NEW w \in Workers, GoTo(w, "delete"), UNCHANGED <<tables, calls, mix>>,
         job[w].at \in {"target", "owners"},
         Owners(job[w].org) = {} \/ \E u \in Owners(job[w].org) : u # job[w].target
  PROVE  OrgInv'
<1>1. /\ TypeOK /\ job[w] \in Job /\ job[w].locks = {} /\ calls' \in 0..mix.max
      /\ Registers(w, job[w])
  BY Request, Zenon DEF TypeOK, Writing, InSwap
<1>2. PICK j : j = [job[w] EXCEPT !.at = "delete"]
  BY Zenon
<1>3. /\ j \in Job /\ j.at = "delete" /\ j.op = job[w].op /\ j.by = job[w].by /\ j.org = job[w].org
      /\ j.target = job[w].target /\ j.todo = job[w].todo /\ j.locks = {}
  BY <1>1, <1>2, Moved DEF Steps
<1>4. job' = [job EXCEPT ![w] = j]
  BY <1>2, Zenon DEF GoTo
<1>5. Registers(w, j)
  BY <1>1, <1>3, Zenon DEF Registers, Serves, OrgKnown, TargetKnown, InSwap
<1>6. SpareOwner(j) /\ GuardKnows(j)
  BY <1>3, Zenon DEF SpareOwner, GuardKnows, Guarding, InSwap
<1> QED
  BY <1>1, <1>3, <1>4, <1>5, <1>6, MoveKeeps, Zenon

\* The role of the member to remove.
LEMMA GetTargetStep ==
  ASSUME OrgInv, NEW w \in Workers, GetTarget(w)
  PROVE  OrgInv'
<1>1. /\ job[w].at = "target" /\ UNCHANGED <<tables, calls, mix>> /\ Registers(w, job[w])
  BY Request, Zenon DEF GetTarget, At
<1>2. CASE Done(w)
  BY <1>1, <1>2, DoneKeeps, Zenon
<1>3. CASE GoTo(w, "delete") /\ role[job[w].org][job[w].target] # "owner"
  BY <1>1, <1>3, ToDelete, Zenon DEF Owners
<1>4. CASE GoTo(w, "owners")
  <2>1. /\ job[w].op \in {"remove", "evict"} /\ job[w].org \in Orgs /\ org[job[w].org] # "absent"
    BY <1>1, Zenon DEF Registers, Serves, OrgKnown
  <2>2. Serves("owners", job[w].op)
    BY <2>1, Zenon DEF Serves
  <2> QED
    BY <1>1, <1>4, <2>1, <2>2, GoToKeeps, Zenon DEF Steps, OrgKnown, TargetKnown, Writing, InSwap
<1> QED
  BY <1>2, <1>3, <1>4, Zenon DEF GetTarget

\* More than one owner leaves one beside the target.
LEMMA CountOwnersStep ==
  ASSUME OrgInv, NEW w \in Workers, CountOwners(w)
  PROVE  OrgInv'
<1>1. job[w].at = "owners" /\ UNCHANGED <<tables, calls, mix>>
  BY Zenon DEF CountOwners, At
<1>2. CASE Done(w)
  BY <1>1, <1>2, DoneKeeps, Zenon
<1>3. CASE GoTo(w, "delete") /\ ~(Cardinality(Owners(job[w].org)) <= 1)
  <2>1. PICK o, t : o = job[w].org /\ t = job[w].target
    BY Zenon
  <2>2. IsFiniteSet({t}) /\ Cardinality({t}) = 1
    BY FS_Singleton, Zenon
  <2>3. ~(Owners(o) \subseteq {t})
    <3>1. ASSUME Owners(o) \subseteq {t} PROVE FALSE
      <4>1. Cardinality(Owners(o)) <= Cardinality({t})
        BY <2>2, <3>1, FS_Subset, Zenon
      <4> QED
        BY <1>3, <2>1, <2>2, <4>1, Zenon
    <3> QED
      BY <3>1, Zenon
  <2> QED
    BY <1>1, <1>3, <2>1, <2>3, ToDelete, Zenon
<1> QED
  BY <1>2, <1>3, Zenon DEF CountOwners

-----------------------------------------------------------------------------
\* The advisory lock of the user keeps the count of owned organizations.
LEMMA QuotaStep ==
  ASSUME OrgInv, NEW w \in Workers, Quota(w)
  PROVE  OrgInv'
<1>1. CASE Done(w)
  BY <1>1, DoneKeeps, Zenon DEF Quota
<1>2. CASE GoTo(w, "create") /\ ~(Cardinality(Owned(job[w].by)) >= MaxOrgs)
  <2>1. /\ TypeOK /\ job[w] \in Job /\ job[w].at = "quota" /\ Registers(w, job[w])
        /\ UNCHANGED <<tables, calls, mix>>
        /\ \A x \in Workers : ~(At(x, "create") /\ job[x].by = job[w].by)
    BY Request, Zenon DEF Quota, At, Blockers
  <2>2. PICK j : j = [job[w] EXCEPT !.at = "create"]
    BY Zenon
  <2>3. /\ j \in Job /\ j.at = "create" /\ j.op = job[w].op /\ j.by = job[w].by /\ j.org = job[w].org
        /\ j.target = job[w].target /\ j.todo = job[w].todo /\ j.locks = job[w].locks
    BY <2>1, <2>2, Moved DEF Steps
  <2>4. job' = [job EXCEPT ![w] = j] /\ j.locks = {} /\ calls' \in 0..mix.max
    BY <1>2, <2>1, <2>2, <2>3, Zenon DEF GoTo, TypeOK, Writing, InSwap
  <2>5. Registers(w, j) /\ job[w].op = "create"
    BY <2>1, <2>3, Zenon DEF Registers, Serves, OrgKnown, TargetKnown, InSwap
  <2>6. Cardinality(Owned(job[w].by)) < MaxOrgs
    <3>1. Owned(job[w].by) \subseteq Orgs
      BY Zenon DEF Owned
    <3>2. Cardinality(Owned(job[w].by)) \in Nat
      BY <3>1, OrgAssumption, FS_Subset, FS_CardinalityType, Zenon
    <3> QED
      BY <1>2, <3>2, OrgAssumption
  <2>7. RequestOK(w, j)
    BY <2>3, <2>5, <2>6, Zenon DEF RequestOK, Counted, SpareOwner, GuardKnows, Guarding, InSwap
  <2>8. Exclusive'
    <3>1. job'[w] = j /\ \A x \in Workers : x # w => job'[x] = job[x]
      BY <2>1, <2>4, Zenon DEF TypeOK
    <3> QED
      BY <2>1, <2>3, <3>1 DEF OrgInv, Exclusive, At
  <2> QED
    BY <2>1, <2>3, <2>4, <2>7, <2>8, RequestKeeps, Zenon
<1> QED
  BY <1>1, <1>2, Zenon DEF Quota, Owned

\* The advisory lock of the organization keeps the count of pending invitations.
LEMMA CountPendingStep ==
  ASSUME OrgInv, NEW w \in Workers, CountPending(w)
  PROVE  OrgInv'
<1>1. CASE Done(w)
  BY <1>1, DoneKeeps, Zenon DEF CountPending
<1>2. CASE GoTo(w, "insertInvite") /\ ~(Cardinality(Pending(job[w].org)) >= MaxPending)
  <2>1. /\ TypeOK /\ job[w] \in Job /\ job[w].at = "cap" /\ Registers(w, job[w])
        /\ UNCHANGED <<tables, calls, mix>>
        /\ \A x \in Workers : ~(At(x, "insertInvite") /\ job[x].org = job[w].org)
    BY Request, Zenon DEF CountPending, At, Blockers
  <2>2. PICK j : j = [job[w] EXCEPT !.at = "insertInvite"]
    BY Zenon
  <2>3. /\ j \in Job /\ j.at = "insertInvite" /\ j.op = job[w].op /\ j.by = job[w].by
        /\ j.org = job[w].org /\ j.target = job[w].target /\ j.todo = job[w].todo
        /\ j.locks = job[w].locks
    BY <2>1, <2>2, Moved DEF Steps
  <2>4. job' = [job EXCEPT ![w] = j] /\ j.locks = {} /\ calls' \in 0..mix.max
    BY <1>2, <2>1, <2>2, <2>3, Zenon DEF GoTo, TypeOK, Writing, InSwap
  <2>5. Registers(w, j)
    BY <2>1, <2>3, Zenon DEF Registers, Serves, OrgKnown, TargetKnown, InSwap
  <2>6. Cardinality(Pending(job[w].org)) < MaxPending
    <3>1. Pending(job[w].org) \subseteq Users
      BY Zenon DEF Pending
    <3>2. Cardinality(Pending(job[w].org)) \in Nat
      BY <3>1, OrgAssumption, FS_Subset, FS_CardinalityType, Zenon
    <3> QED
      BY <1>2, <3>2, OrgAssumption
  <2>7. RequestOK(w, j)
    BY <2>3, <2>5, <2>6, Zenon DEF RequestOK, Counted, SpareOwner, GuardKnows, Guarding, InSwap
  <2>8. Exclusive'
    <3>1. job'[w] = j /\ \A x \in Workers : x # w => job'[x] = job[x]
      BY <2>1, <2>4, Zenon DEF TypeOK
    <3> QED
      BY <2>1, <2>3, <3>1 DEF OrgInv, Exclusive, At
  <2> QED
    BY <2>1, <2>3, <2>4, <2>7, <2>8, RequestKeeps, Zenon
<1> QED
  BY <1>1, <1>2, Zenon DEF CountPending

\* An invitation that is found offers no owner's seat.
LEMMA FindInvitationStep ==
  ASSUME OrgInv, NEW w \in Workers, FindInvitation(w)
  PROVE  OrgInv'
<1>1. CASE Done(w)
  BY <1>1, DoneKeeps, Zenon DEF FindInvitation
<1>2. PICK r : r = invite[job[w].org][job[w].by]
  BY Zenon
<1>3. CASE /\ r # "none"
           /\ job' = [job EXCEPT ![w].mine = r, ![w].row = TRUE, ![w].at = "join"]
  <2>1. /\ TypeOK /\ job[w] \in Job /\ job[w].at = "invitation" /\ Registers(w, job[w])
        /\ UNCHANGED <<tables, calls, mix>> /\ Fresh
    BY Request, Zenon DEF FindInvitation, At, OrgInv
  <2>2. /\ job[w].op = "join" /\ job[w].by \in Users /\ job[w].org \in Orgs
    BY <2>1, Zenon DEF Registers, Serves, UserOps
  <2>3. r \in {"member", "admin"} /\ org[job[w].org] # "absent"
    BY <1>2, <1>3, <2>1, <2>2 DEF TypeOK, Fresh
  <2>4. PICK j : j = [job[w] EXCEPT !.mine = r, !.row = TRUE, !.at = "join"]
    BY Zenon
  <2>5. /\ j \in Job /\ j.at = "join" /\ j.op = job[w].op /\ j.by = job[w].by /\ j.org = job[w].org
        /\ j.target = job[w].target /\ j.todo = job[w].todo /\ j.locks = job[w].locks /\ j.mine = r
    BY <2>1, <2>3, <2>4, Zenon DEF Job, Steps, Seats
  <2>6. job' = [job EXCEPT ![w] = j]
    BY <1>3, <2>4, Zenon
  <2>7. j.locks = {} /\ calls' \in 0..mix.max
    BY <2>1, <2>5, Zenon DEF TypeOK, Writing, InSwap
  <2>8. Registers(w, j)
    BY <2>1, <2>2, <2>3, <2>5, Zenon DEF Registers, Serves, TargetKnown, InSwap, Targeted
  <2> QED
    BY <2>1, <2>2, <2>5, <2>6, <2>7, <2>8, PlainKeeps, Zenon
<1> QED
  BY <1>1, <1>2, <1>3, Zenon DEF FindInvitation

-----------------------------------------------------------------------------
\* The guard leaves out an organization that has no live nominee any more.
LEMMA GuardSkips ==
  ASSUME OrgInv, NEW w \in Workers, UNCHANGED <<tables, calls, mix>>,
         job' = [job EXCEPT ![w].todo = @ \ {job[w].org}, ![w].at = "walk"],
         job[w].op = "deleteUser", job[w].at \in {"pending", "user"},
         ~mix.faults /\ GuardApart => nom[job[w].org] \notin live
  PROVE  OrgInv'
<1>1. /\ TypeOK /\ job[w] \in Job /\ Registers(w, job[w]) /\ GuardKnows(job[w])
  BY Request, Zenon DEF RequestOK
<1>2. PICK j : j = [job[w] EXCEPT !.todo = job[w].todo \ {job[w].org}, !.at = "walk"]
  BY Zenon
<1>3. /\ j \in Job /\ j.at = "walk" /\ j.op = job[w].op /\ j.by = job[w].by
      /\ j.todo = job[w].todo \ {job[w].org} /\ j.locks = job[w].locks
  BY <1>1, <1>2, Zenon DEF Job, Steps
<1>4. job' = [job EXCEPT ![w] = j]
  BY <1>2, Zenon
<1>5. j.locks = {} /\ calls' \in 0..mix.max
  BY <1>1, <1>3, Zenon DEF TypeOK, Writing, InSwap
<1>6. Registers(w, j)
  BY <1>1, <1>3, Zenon DEF Registers, Serves, OrgKnown, TargetKnown, InSwap, Targeted
<1>7. SpareOwner(j) /\ GuardKnows(j)
  BY <1>1, <1>3, Zenon DEF SpareOwner, GuardKnows, Guarding, InSwap
<1> QED
  BY <1>3, <1>4, <1>5, <1>6, <1>7, MoveKeeps, Zenon

\* A request that goes on within the seat swap keeps its registers and, for the
\* guard, what it knows of the nominations.
LEMMA SeatMoves ==
  ASSUME OrgInv, NEW w \in Workers, NEW j \in Job, job' = [job EXCEPT ![w] = j],
         UNCHANGED <<tables, calls, mix>>,
         job[w].at \in {"user", "seat", "promote", "insertSeat", "demote", "demoting"},
         j.at \in {"seat", "promote", "insertSeat"} \cup InSwap,
         j.op = job[w].op, j.by = job[w].by, j.org = job[w].org, j.target = job[w].target,
         j.todo = job[w].todo, j.locks # {} => j.at \in Writing,
         Serves(j.at, j.op), SpareOwner(j)
  PROVE  OrgInv'
<1>1. /\ Registers(w, job[w]) /\ GuardKnows(job[w]) /\ calls' \in 0..mix.max
  BY Request, Zenon DEF RequestOK, TypeOK
<1>2. Registers(w, j)
  BY <1>1, Zenon DEF Registers, OrgKnown, TargetKnown, InSwap
<1>3. GuardKnows(j)
  BY <1>1, Zenon DEF GuardKnows, Guarding, InSwap
<1> QED
  BY <1>1, <1>2, <1>3, MoveKeeps, Zenon DEF InSwap

\* Whether the nominee, or the target of a transfer, is live.
LEMMA IsLiveUserStep ==
  ASSUME OrgInv, NEW w \in Workers, IsLiveUser(w)
  PROVE  OrgInv'
<1>1. /\ job[w].at = "user" /\ UNCHANGED <<tables, calls, mix>> /\ TypeOK /\ job[w] \in Job
      /\ Registers(w, job[w]) /\ GuardKnows(job[w])
  BY Request, Zenon DEF IsLiveUser, At, RequestOK
<1>2. /\ job[w].op \in {"nominate", "transfer", "deleteUser"} /\ job[w].org \in Orgs
      /\ org[job[w].org] # "absent" /\ job[w].target \in Users
  BY <1>1, Zenon DEF Registers, Serves, OrgKnown, TargetKnown
<1>3. CASE Done(w)
  BY <1>1, <1>3, DoneKeeps, Zenon
<1>4. CASE GoTo(w, "upsert") /\ job[w].op = "nominate"
  <2>1. Serves("upsert", job[w].op)
    BY <1>4, Zenon DEF Serves
  <2> QED
    BY <1>1, <1>2, <1>4, <2>1, GoToKeeps, Zenon DEF Steps, OrgKnown, TargetKnown, Writing, InSwap
<1>5. CASE GoTo(w, "seat") /\ job[w].op # "nominate"
  <2>1. PICK j : j = [job[w] EXCEPT !.at = "seat"]
    BY Zenon
  <2>2. /\ j \in Job /\ j.at = "seat" /\ j.op = job[w].op /\ j.by = job[w].by /\ j.org = job[w].org
        /\ j.target = job[w].target /\ j.todo = job[w].todo /\ j.locks = job[w].locks
    BY <1>1, <2>1, Moved DEF Steps
  <2>3. job' = [job EXCEPT ![w] = j] /\ j.locks = {}
    BY <1>1, <1>5, <2>1, <2>2, Zenon DEF GoTo, TypeOK, Writing, InSwap
  <2>4. Serves("seat", j.op) /\ SpareOwner(j)
    BY <1>2, <1>5, <2>2, Zenon DEF Serves, SwapOps, SpareOwner
  <2> QED
    BY <1>1, <2>2, <2>3, <2>4, SeatMoves, Zenon
<1>6. CASE /\ job[w].op = "deleteUser" /\ job[w].target \notin live
           /\ job' = [job EXCEPT ![w].todo = @ \ {job[w].org}, ![w].at = "walk"]
  <2>1. ~mix.faults /\ GuardApart => nom[job[w].org] \notin live
    BY <1>1, <1>6, OrgAssumption, Zenon DEF GuardKnows, Guarding, TypeOK
  <2> QED
    BY <1>1, <1>6, <2>1, GuardSkips, Zenon
<1> QED
  BY <1>3, <1>4, <1>5, <1>6, Zenon DEF IsLiveUser

\* The pending nomination: of the caller, or any for the guard.
LEMMA FindPendingStep ==
  ASSUME OrgInv, NEW w \in Workers, FindPending(w)
  PROVE  OrgInv'
<1>1. /\ job[w].at = "pending" /\ UNCHANGED <<tables, calls, mix>> /\ TypeOK /\ job[w] \in Job
      /\ Registers(w, job[w]) /\ GuardKnows(job[w])
  BY Request, Zenon DEF FindPending, At, RequestOK
<1>2. job[w].op \in SwapOps /\ job[w].by \in Users /\ job[w].org \in Orgs /\ org[job[w].org] # "absent"
  BY <1>1, Zenon DEF Registers, Serves, OrgKnown, SwapOps, UserOps
<1>3. PICK n : n = nom[job[w].org]
  BY Zenon
<1>4. CASE Done(w)
  BY <1>1, <1>4, DoneKeeps, Zenon
<1>5. ASSUME NEW s \in {"seat", "user"}, s = "seat" <=> job[w].op = "accept", n \in Users,
             job' = [job EXCEPT ![w].target = n, ![w].at = s]
      PROVE  OrgInv'
  <2>1. PICK j : j = [job[w] EXCEPT !.target = n, !.at = s]
    BY Zenon
  <2>2. /\ j \in Job /\ j.at = s /\ j.op = job[w].op /\ j.by = job[w].by /\ j.org = job[w].org
        /\ j.target = n /\ j.todo = job[w].todo /\ j.locks = job[w].locks
    BY <1>1, <1>5, <2>1, Zenon DEF Job, Steps
  <2>3. job' = [job EXCEPT ![w] = j]
    BY <1>5, <2>1, Zenon
  <2>4. j.locks = {} /\ calls' \in 0..mix.max
    BY <1>1, <2>2, Zenon DEF TypeOK, Writing, InSwap
  <2>5. Registers(w, j)
    BY <1>1, <1>2, <1>5, <2>2, Zenon DEF Registers, Serves, SwapOps, OrgKnown, TargetKnown
  <2>6. SpareOwner(j) /\ GuardKnows(j)
    BY <1>1, <1>3, <1>5, <2>2, Zenon DEF SpareOwner, GuardKnows, Guarding
  <2> QED
    BY <1>1, <1>5, <2>2, <2>3, <2>4, <2>5, <2>6, MoveKeeps, Zenon
<1>6. CASE /\ job[w].op = "accept" /\ n = job[w].by
           /\ job' = [job EXCEPT ![w].target = n, ![w].at = "seat"]
  BY <1>2, <1>5, <1>6, Zenon
<1>7. CASE /\ job[w].op = "deleteUser" /\ n # None
           /\ job' = [job EXCEPT ![w].target = n, ![w].at = "user"]
  <2>1. n \in Users
    BY <1>1, <1>2, <1>3, <1>7, Zenon DEF TypeOK
  <2> QED
    BY <1>5, <1>7, <2>1, Zenon
<1>8. CASE /\ job[w].op = "deleteUser" /\ n = None
           /\ job' = [job EXCEPT ![w].todo = @ \ {job[w].org}, ![w].at = "walk"]
  <2>1. nom[job[w].org] \notin live
    BY <1>1, <1>3, <1>8, OrgAssumption, Zenon DEF TypeOK
  <2> QED
    BY <1>1, <1>8, <2>1, GuardSkips, Zenon
<1> QED
  BY <1>3, <1>4, <1>6, <1>7, <1>8, Zenon DEF FindPending

\* The member row of the next owner.
LEMMA FindSeatStep ==
  ASSUME OrgInv, NEW w \in Workers, FindSeat(w)
  PROVE  OrgInv'
<1>1. /\ job[w].at = "seat" /\ UNCHANGED <<tables, calls, mix>> /\ TypeOK /\ job[w] \in Job
      /\ Registers(w, job[w])
  BY Request, Zenon DEF FindSeat, At
<1>2. PICK j : j = IF role[job[w].org][job[w].target] # "none"
                   THEN [job[w] EXCEPT !.row = TRUE, !.at = "promote"]
                   ELSE [job[w] EXCEPT !.at = "insertSeat"]
  BY Zenon
<1>3. /\ j \in Job /\ j.at \in {"promote", "insertSeat"} /\ j.op = job[w].op /\ j.by = job[w].by
      /\ j.org = job[w].org /\ j.target = job[w].target /\ j.todo = job[w].todo
      /\ j.locks = job[w].locks
  <2>1. CASE role[job[w].org][job[w].target] # "none"
    BY <1>1, <1>2, <2>1, ZenonT(30) DEF Job, Steps
  <2>2. CASE role[job[w].org][job[w].target] = "none"
    BY <1>1, <1>2, <2>2 DEF Job, Steps
  <2> QED
    BY <2>1, <2>2, Zenon
<1>4. job' = [job EXCEPT ![w] = j]
  BY <1>2, Zenon DEF FindSeat, GoTo
<1>5. j.locks = {} /\ Serves(j.at, j.op) /\ SpareOwner(j)
  BY <1>1, <1>3, Zenon DEF TypeOK, Writing, InSwap, Registers, Serves, SpareOwner
<1> QED
  BY <1>1, <1>3, <1>4, <1>5, SeatMoves, Zenon

\* Within its transaction the swap writes no table yet.
LEMMA TakeSeatSwap ==
  ASSUME OrgInv, NEW w \in Workers, job[w].at \in {"promote", "insertSeat"},
         TakeSeat(w), InTransaction(w), UNCHANGED <<org, nom, invite, live, calls, mix>>
  PROVE  OrgInv'
<1>1. /\ UNCHANGED <<tables, calls, mix>> /\ TypeOK /\ job[w] \in Job /\ Registers(w, job[w])
  BY Request, Zenon DEF TakeSeat, tables
<1>2. job[w].target \in Users /\ job[w].op \in SwapOps
  BY <1>1, Zenon DEF Registers, Serves, TargetKnown, InTransaction
<1>3. PICK j : j = [job[w] EXCEPT !.locks = {job[w].target}, !.row = FALSE, !.at = "demote"]
  BY Zenon
<1>4. /\ j \in Job /\ j.at = "demote" /\ j.op = job[w].op /\ j.by = job[w].by
      /\ j.org = job[w].org /\ j.target = job[w].target /\ j.todo = job[w].todo
  BY <1>1, <1>2, <1>3, Zenon DEF Job, Steps, InSwap
<1>5. job' = [job EXCEPT ![w] = j]
  BY <1>3, Zenon DEF TakeSeat
<1>6. Serves(j.at, j.op) /\ SpareOwner(j)
  BY <1>2, <1>4, Zenon DEF Serves, SwapOps, SpareOwner
<1> QED
  BY <1>1, <1>4, <1>5, <1>6, SeatMoves, Zenon DEF Writing, InSwap

\* The snapshot of the demotion leaves out the new owner.
LEMMA DemoteSnapshotStep ==
  ASSUME OrgInv, NEW w \in Workers, DemoteSnapshot(w)
  PROVE  OrgInv'
<1>1. /\ job[w].at = "demote" /\ UNCHANGED <<tables, calls, mix>> /\ TypeOK /\ job[w] \in Job
      /\ Registers(w, job[w]) /\ SpareOwner(job[w])
  BY Request, Zenon DEF DemoteSnapshot, At, RequestOK
<1>2. PICK j : j = [job[w] EXCEPT !.seen = Owners(job[w].org) \ {job[w].target}, !.at = "demoting"]
  BY Zenon
<1>3. /\ j \in Job /\ j.at = "demoting" /\ j.op = job[w].op /\ j.by = job[w].by
      /\ j.org = job[w].org /\ j.target = job[w].target /\ j.todo = job[w].todo
      /\ j.seen = Owners(job[w].org) \ {job[w].target} /\ j.locks = job[w].locks
  BY <1>1, <1>2, Zenon DEF Job, Steps, InSwap, Owners
<1>4. job' = [job EXCEPT ![w] = j]
  BY <1>2, Zenon DEF DemoteSnapshot
<1>5. Serves(j.at, j.op) /\ SpareOwner(j)
  BY <1>1, <1>3, Zenon DEF Registers, Serves, SpareOwner
<1> QED
  BY <1>1, <1>3, <1>4, <1>5, SeatMoves, Zenon DEF Writing, InSwap

\* A row more that the demotion has locked is none of the new owner.
LEMMA DemoteRowStep ==
  ASSUME OrgInv, NEW w \in Workers, DemoteRow(w)
  PROVE  OrgInv'
<1>1. /\ job[w].at = "demoting" /\ UNCHANGED <<tables, calls, mix>> /\ TypeOK /\ job[w] \in Job
      /\ Registers(w, job[w]) /\ SpareOwner(job[w])
  BY Request, Zenon DEF DemoteRow, LockRow, At, RequestOK
<1>2. PICK u \in job[w].seen :
        job' = [job EXCEPT ![w].seen = @ \ {u}, ![w].locks = @ \cup ({u} \cap Owners(job[w].org))]
  BY Zenon DEF DemoteRow, LockRow
<1>3. PICK j : j = [job[w] EXCEPT !.seen = job[w].seen \ {u},
                                  !.locks = job[w].locks \cup ({u} \cap Owners(job[w].org))]
  BY Zenon
<1>4. /\ j \in Job /\ j.at = job[w].at /\ j.op = job[w].op /\ j.by = job[w].by
      /\ j.org = job[w].org /\ j.target = job[w].target /\ j.todo = job[w].todo
      /\ j.seen = job[w].seen \ {u} /\ j.locks \subseteq job[w].locks \cup {u}
  BY <1>1, <1>3, Zenon DEF Job, Owners
<1>5. job' = [job EXCEPT ![w] = j]
  BY <1>2, <1>3, Zenon
<1>6. Serves(j.at, j.op)
  BY <1>1, <1>4, Zenon DEF Registers
<1>7. SpareOwner(j)
  BY <1>1, <1>2, <1>4, Zenon DEF SpareOwner
<1> QED
  BY <1>1, <1>4, <1>5, <1>6, <1>7, SeatMoves, Zenon DEF Writing, InSwap

\* Within its transaction the demotion writes no table yet.
LEMMA DemoteSwap ==
  ASSUME OrgInv, NEW w \in Workers, Demote(w), InTransaction(w)
  PROVE  OrgInv'
<1>1. /\ job[w].at = "demoting" /\ UNCHANGED <<tables, calls, mix>> /\ TypeOK /\ job[w] \in Job
      /\ Registers(w, job[w])
  BY Request, Zenon DEF Demote, At, tables
<1>2. job[w].op \in SwapOps
  BY <1>1, Zenon DEF Registers, Serves, InTransaction
<1>3. PICK j : j = [job[w] EXCEPT !.at = "mark"]
  BY Zenon
<1>4. /\ j \in Job /\ j.at = "mark" /\ j.op = job[w].op /\ j.by = job[w].by
      /\ j.org = job[w].org /\ j.target = job[w].target /\ j.todo = job[w].todo
  BY <1>1, <1>3, Zenon DEF Job, Steps, InSwap
<1>5. job' = [job EXCEPT ![w] = j]
  BY <1>3, Zenon DEF Demote, GoTo
<1>6. Serves(j.at, j.op) /\ SpareOwner(j)
  BY <1>2, <1>4, Zenon DEF Serves, SwapOps, SpareOwner
<1> QED
  BY <1>1, <1>4, <1>5, <1>6, SeatMoves, Zenon DEF Writing, InSwap

-----------------------------------------------------------------------------
\* The organizations the user owns, all of which the guard has yet to visit.
LEMMA FindOwnedStep ==
  ASSUME OrgInv, NEW w \in Workers, FindOwned(w)
  PROVE  OrgInv'
<1>1. /\ job[w].at = "owned" /\ UNCHANGED <<tables, calls, mix>> /\ TypeOK /\ job[w] \in Job
      /\ Registers(w, job[w]) /\ Fresh
  BY Request, Zenon DEF FindOwned, At, OrgInv
<1>2. PICK s, j : /\ s = IF Owned(job[w].by) = {} THEN "walk" ELSE "ownedPending"
                  /\ j = [job[w] EXCEPT !.todo = Owned(job[w].by), !.at = s]
  BY Zenon
<1>3. /\ j \in Job /\ j.at \in {"walk", "ownedPending"} /\ j.op = job[w].op /\ j.by = job[w].by
      /\ j.target = job[w].target /\ j.todo = Owned(job[w].by) /\ j.locks = job[w].locks
  <2>1. s \in {"walk", "ownedPending"} /\ Owned(job[w].by) \subseteq Orgs
    BY <1>2, Zenon DEF Owned
  <2>2. j = [job[w] EXCEPT !.todo = Owned(job[w].by), !.at = s]
    BY <1>2, Zenon
  <2> QED
    BY <1>1, <2>1, <2>2, ZenonT(30) DEF Job, Steps
<1>4. job' = [job EXCEPT ![w] = j]
  BY <1>2, Zenon DEF FindOwned, Owned
<1>5. j.locks = {} /\ calls' \in 0..mix.max
  BY <1>1, <1>3, Zenon DEF TypeOK, Writing, InSwap
<1>6. job[w].op = "deleteUser" /\ job[w].by \in Users
  BY <1>1, Zenon DEF Registers, Serves, UserOps
<1>7. Registers(w, j)
  BY <1>1, <1>3, <1>6, Zenon DEF Registers, Serves, OrgKnown, TargetKnown, InSwap, Targeted, Fresh, Owned
<1>8. SpareOwner(j) /\ GuardKnows(j)
  BY <1>3, Zenon DEF SpareOwner, GuardKnows, InSwap, Owned
<1> QED
  BY <1>1, <1>3, <1>4, <1>5, <1>7, <1>8, MoveKeeps, Zenon

\* Of those, the ones with a pending nomination.
LEMMA FindOwnedPendingStep ==
  ASSUME OrgInv, NEW w \in Workers, FindOwnedPending(w)
  PROVE  OrgInv'
<1>1. /\ job[w].at = "ownedPending" /\ UNCHANGED <<tables, calls, mix>> /\ TypeOK /\ job[w] \in Job
      /\ Registers(w, job[w]) /\ GuardKnows(job[w])
  BY Request, Zenon DEF FindOwnedPending, At, RequestOK
<1>2. PICK j : j = [job[w] EXCEPT !.todo = {o \in job[w].todo : nom[o] # None}, !.at = "walk"]
  BY Zenon
<1>3. /\ j \in Job /\ j.at = "walk" /\ j.op = job[w].op /\ j.by = job[w].by
      /\ j.target = job[w].target /\ j.todo = {o \in job[w].todo : nom[o] # None}
      /\ j.locks = job[w].locks
  BY <1>1, <1>2, Zenon DEF Job, Steps
<1>4. job' = [job EXCEPT ![w] = j]
  BY <1>2, Zenon DEF FindOwnedPending
<1>5. j.locks = {} /\ calls' \in 0..mix.max
  BY <1>1, <1>3, Zenon DEF TypeOK, Writing, InSwap
<1>6. Registers(w, j)
  BY <1>1, <1>3, Zenon DEF Registers, Serves, OrgKnown, TargetKnown, InSwap, Targeted
<1>7. SpareOwner(j)
  BY <1>3, Zenon DEF SpareOwner
<1>8. GuardKnows(j)
  BY <1>1, <1>3, OrgAssumption, Zenon DEF GuardKnows, Guarding, Writing, InSwap, TypeOK
<1> QED
  BY <1>1, <1>3, <1>4, <1>5, <1>6, <1>7, <1>8, MoveKeeps, Zenon

\* The next organization, or the deletion once there is none.
LEMMA ProcessNextOrgStep ==
  ASSUME OrgInv, NEW w \in Workers, ProcessNextOrg(w)
  PROVE  OrgInv'
<1>1. /\ job[w].at = "walk" /\ UNCHANGED <<tables, calls, mix>> /\ TypeOK /\ job[w] \in Job
      /\ Registers(w, job[w]) /\ GuardKnows(job[w])
  BY Request, Zenon DEF ProcessNextOrg, At, RequestOK
<1>2. ASSUME NEW j \in Job, job' = [job EXCEPT ![w] = j], j.at \in {"pending", "softDelete"},
             j.op = job[w].op, j.by = job[w].by, j.target = job[w].target, j.todo = job[w].todo,
             j.locks = job[w].locks, j.at = "softDelete" => job[w].todo = {},
             j.at = "pending" => j.org \in job[w].todo
      PROVE  OrgInv'
  <2>1. j.locks = {} /\ calls' \in 0..mix.max /\ job[w].todo \subseteq Orgs
    BY <1>1, <1>2, Zenon DEF TypeOK, Writing, InSwap, Job
  <2>2. Registers(w, j)
    BY <1>1, <1>2, <2>1, Zenon DEF Registers, Serves, SwapOps, OrgKnown, TargetKnown, InSwap, Targeted
  <2>3. SpareOwner(j) /\ GuardKnows(j)
    BY <1>1, <1>2, Zenon DEF SpareOwner, GuardKnows, Guarding, InSwap
  <2> QED
    BY <1>1, <1>2, <2>1, <2>2, <2>3, MoveKeeps, Zenon
<1>3. CASE job[w].todo = {}
  <2>1. PICK j : j = [job[w] EXCEPT !.at = "softDelete"]
    BY Zenon
  <2>2. job' = [job EXCEPT ![w] = j]
    BY <1>3, <2>1, Zenon DEF ProcessNextOrg, GoTo
  <2>3. /\ j \in Job /\ j.at = "softDelete" /\ j.op = job[w].op /\ j.by = job[w].by
        /\ j.target = job[w].target /\ j.todo = job[w].todo /\ j.locks = job[w].locks
    BY <1>1, <2>1, Moved DEF Steps
  <2> QED
    BY <1>2, <1>3, <2>2, <2>3, Zenon
<1>4. CASE job[w].todo # {}
  <2>1. PICK o \in job[w].todo : job' = [job EXCEPT ![w].org = o, ![w].at = "pending"]
    BY <1>4, Zenon DEF ProcessNextOrg
  <2>2. PICK j : j = [job[w] EXCEPT !.org = o, !.at = "pending"]
    BY Zenon
  <2>3. job' = [job EXCEPT ![w] = j]
    BY <2>1, <2>2, Zenon
  <2>4. /\ j \in Job /\ j.at = "pending" /\ j.op = job[w].op /\ j.by = job[w].by /\ j.org = o
        /\ j.target = job[w].target /\ j.todo = job[w].todo /\ j.locks = job[w].locks
    BY <1>1, <2>2, Zenon DEF Job, Steps
  <2> QED
    BY <1>2, <2>1, <2>3, <2>4, Zenon
<1> QED
  BY <1>3, <1>4, Zenon

\* The deletion of an organization locks rows and writes no table before its commit.
LEMMA DeletionStep ==
  ASSUME OrgInv, NEW w \in Workers, SoftDeleteOrg(w) \/ VoidNomination(w) \/ DetachRow(w)
  PROVE  OrgInv'
<1>1. /\ UNCHANGED <<tables, calls, mix>> /\ TypeOK /\ job[w] \in Job /\ Registers(w, job[w])
      /\ job[w].at \in {"cascade", "void", "detach"} /\ calls' \in 0..mix.max
  BY Request, Zenon DEF SoftDeleteOrg, VoidNomination, DetachRow, LockRow, At, TypeOK
<1>2. /\ job[w].op = "deleteOrg" /\ job[w].op \in mix.does[w] /\ job[w].org \in Orgs
      /\ org[job[w].org] # "absent" /\ \A o \in job[w].todo : org[o] # "absent"
  BY <1>1, Zenon DEF Registers, Serves, OrgKnown
<1>3. ASSUME NEW s \in {"void", "detach"}, NEW S \in SUBSET Users, NEW L \in SUBSET Users,
             NEW j, j = [job[w] EXCEPT !.at = s, !.seen = S, !.locks = L],
             job' = [job EXCEPT ![w] = j], L # {} => s = "detach"
      PROVE  OrgInv'
  <2>1. /\ j \in Job /\ j.at = s /\ j.op = job[w].op /\ j.by = job[w].by /\ j.org = job[w].org
        /\ j.target = job[w].target /\ j.todo = job[w].todo /\ j.locks = L
    BY <1>1, <1>3 DEF Job, Steps
  <2>2. Registers(w, j)
    BY <1>2, <1>3, <2>1, Zenon DEF Registers, Serves, TargetKnown, InSwap, UserOps, Targeted
  <2>3. SpareOwner(j) /\ GuardKnows(j)
    BY <1>2, <1>3, <2>1, Zenon DEF SpareOwner, GuardKnows
  <2> QED
    BY <1>1, <1>3, <2>1, <2>2, <2>3, MoveKeeps, Zenon DEF Writing
<1>4. /\ job[w].seen \subseteq Users /\ job[w].locks \subseteq Users
      /\ job[w].at # "detach" => job[w].locks = {}
  BY <1>1, Zenon DEF TypeOK, Job, Writing, InSwap
<1>5. CASE SoftDeleteOrg(w)
  <2>1. job' = [job EXCEPT ![w] = [job[w] EXCEPT !.at = "void", !.seen = job[w].seen, !.locks = job[w].locks]]
    BY <1>1, <1>5 DEF SoftDeleteOrg, GoTo, TypeOK, Job
  <2> QED
    BY <1>3, <1>4, <1>5, <2>1, Zenon DEF SoftDeleteOrg, At
<1>6. CASE VoidNomination(w)
  <2>1. PICK S \in SUBSET Users : S = {u \in Users : role[job[w].org][u] # "none"}
    BY Zenon
  <2>2. job' = [job EXCEPT ![w] = [job[w] EXCEPT !.at = "detach", !.seen = S, !.locks = job[w].locks]]
    BY <1>1, <1>6, <2>1 DEF VoidNomination, TypeOK, Job
  <2> QED
    BY <1>3, <1>4, <2>1, <2>2, Zenon
<1>7. CASE DetachRow(w)
  <2>1. PICK u \in job[w].seen :
          job' = [job EXCEPT ![w].seen = @ \ {u},
                    ![w].locks = @ \cup ({u} \cap {v \in Users : role[job[w].org][v] # "none"})]
    BY <1>7, Zenon DEF DetachRow, LockRow
  <2>2. PICK S \in SUBSET Users, L \in SUBSET Users :
          S = job[w].seen \ {u} /\ L = job[w].locks \cup ({u} \cap {v \in Users : role[job[w].org][v] # "none"})
    BY <1>4, Zenon
  <2>3. job' = [job EXCEPT ![w] = [job[w] EXCEPT !.at = "detach", !.seen = S, !.locks = L]]
    BY <1>1, <1>7, <2>1, <2>2 DEF DetachRow, At, TypeOK, Job
  <2> QED
    BY <1>3, <2>2, <2>3, Zenon
<1> QED
  BY <1>5, <1>6, <1>7, Zenon

\* A failed statement ends the request, or makes the guard skip the organization.
LEMMA FailStep ==
  ASSUME OrgInv, NEW w \in Workers, Fail(w)
  PROVE  OrgInv'
<1>1. CASE Done(w)
  BY <1>1, DoneKeeps, Zenon DEF Fail
<1>2. CASE /\ job[w].op = "deleteUser" /\ job[w].at \in {"pending", "user"}
           /\ job' = [job EXCEPT ![w].todo = @ \ {job[w].org}, ![w].at = "walk"]
  BY <1>2, GuardSkips, Zenon DEF Fail
<1> QED
  BY <1>1, <1>2, Zenon DEF Fail

\* After a crash no request is left.
LEMMA CrashStep ==
  ASSUME OrgInv, Crash
  PROVE  OrgInv'
<1>1. /\ UNCHANGED <<org, role, nom, invite, live, calls, mix>>
      /\ job' = [w \in Workers |-> Idle]
      /\ TypeOK /\ CapsHold /\ Fresh
  BY Zenon DEF Crash, tables, OrgInv
<1>2. TypeOK'
  BY <1>1, IdleOK, Zenon DEF TypeOK
<1>3. CapsHold' /\ Fresh'
  BY <1>1, Zenon DEF CapsHold, Fresh, Pending
<1>4. \A w \in Workers : job'[w] = Idle
  BY <1>1, Zenon
<1>5. Exclusive'
  BY <1>4, IdleOK, Zenon DEF Exclusive, At
<1>6. ASSUME NEW w \in Workers PROVE RequestOK(w, job[w])'
  <2>1. job'[w].at = "idle"
    BY <1>4, IdleOK, Zenon
  <2> QED
    BY <2>1, Zenon DEF RequestOK, Registers, Counted, SpareOwner, GuardKnows, Guarding, InSwap
<1> QED
  BY <1>2, <1>3, <1>5, <1>6, Zenon DEF OrgInv

-----------------------------------------------------------------------------
\* A step that writes tables: what has to be shown of it.
LEMMA WriteKeeps ==
  ASSUME OrgInv, NEW w \in Workers, OthersWait(w), job' \in [Workers -> Job],
         UNCHANGED <<calls, mix>>,
         org' \in [Orgs -> {"absent", "live", "deleted"}],
         role' \in [Orgs -> [Users -> Seats]],
         nom' \in [Orgs -> Users \cup {None}],
         invite' \in [Orgs -> [Users -> {"none", "member", "admin"}]],
         live' \subseteq Users,
         \A o \in Orgs : org[o] # "absent" => org'[o] # "absent",
         CapsHold', Fresh',
         job'[w].locks # {} => job'[w].at \in Writing,
         job'[w].at \notin {"insertInvite", "create"},
         RequestOK(w, job[w])',
         \A x \in Workers : x # w => Counted(job[x])' /\ SpareOwner(job[x])' /\ GuardKnows(job[x])'
  PROVE  OrgInv'
<1>1. \A x \in Workers : x # w => SameButRow(job'[x], job[x])
  BY Zenon DEF OthersWait
<1>2. TypeOK'
  <2>1. \A x \in Workers : job'[x].locks # {} => job'[x].at \in Writing
    BY <1>1, Zenon DEF OrgInv, TypeOK, SameButRow
  <2>2. mix' \in Mixes /\ calls' \in 0..mix'.max
    BY Zenon DEF OrgInv, TypeOK
  <2> QED
    BY <2>1, <2>2, Zenon DEF TypeOK
<1>3. Exclusive'
  <2>1. Exclusive
    BY Zenon DEF OrgInv
  <2> QED
    BY <1>1, <2>1 DEF Exclusive, At, SameButRow
<1>4. ASSUME NEW x \in Workers, x # w PROVE RequestOK(x, job[x])'
  <2>1. Registers(x, job[x])'
    BY <1>4, Request, OthersRegisters, Zenon
  <2> QED
    BY <1>4, <2>1, Zenon DEF RequestOK
<1> QED
  BY <1>2, <1>3, <1>4, Zenon DEF OrgInv

\* What the other requests have counted has not grown.
LEMMA OthersCounted ==
  ASSUME OrgInv, NEW w \in Workers, OthersWait(w), mix' = mix, NEW x \in Workers, x # w,
         job[x].at = "insertInvite" => Pending(job[x].org)' \subseteq Pending(job[x].org),
         NoSeatMoves /\ job[x].at = "create" /\ job[x].op = "create"
           => Owned(job[x].by)' \subseteq Owned(job[x].by)
  PROVE  Counted(job[x])'
<1>1. SameButRow(job'[x], job[x]) /\ Counted(job[x])
  BY Request, Zenon DEF OthersWait, RequestOK
<1>2. ASSUME NEW S, NEW T, S \subseteq T, IsFiniteSet(T), NEW n \in Nat, Cardinality(T) < n
      PROVE  Cardinality(S) < n
  <2>1. Cardinality(S) \in Nat /\ Cardinality(T) \in Nat /\ Cardinality(S) <= Cardinality(T)
    BY <1>2, FS_Subset, FS_CardinalityType, Zenon
  <2> QED
    BY <1>2, <2>1
<1>3. IsFiniteSet(Pending(job[x].org)) /\ IsFiniteSet(Owned(job[x].by))
  <2>1. Pending(job[x].org) \subseteq Users /\ Owned(job[x].by) \subseteq Orgs
    BY Zenon DEF Pending, Owned
  <2> QED
    BY <2>1, OrgAssumption, FS_Subset, Zenon
<1>4. /\ Pending(job[x].org)' = {u \in Users : invite'[job'[x].org][u] # "none"}
      /\ Owned(job[x].by)' = {o \in Orgs : role'[o][job'[x].by] = "owner"}
  BY Zenon DEF Pending, Owned
<1>5. job[x].at = "insertInvite" => Cardinality(Pending(job[x].org))' < MaxPending
  BY <1>1, <1>2, <1>3, OrgAssumption, Zenon DEF Counted
<1>6. NoSeatMoves /\ job[x].at = "create" /\ job[x].op = "create"
        => Cardinality(Owned(job[x].by))' < MaxOrgs
  BY <1>1, <1>2, <1>3, OrgAssumption, Zenon DEF Counted
<1> QED
  BY <1>1, <1>5, <1>6, Zenon DEF Counted, SameButRow, NoSeatMoves

\* Where removals and transfers are kept apart, the owners they have found stay.
LEMMA OthersSpare ==
  ASSUME OrgInv, NEW w \in Workers, OthersWait(w), mix' = mix, NEW x \in Workers, x # w,
         \A o \in Orgs : org[o] = "deleted" => org'[o] = "deleted",
         SeatsApart /\ mix.does[x] \cap LooseSeatOps # {} /\ job[x].at \in OrgKnown
           => \/ Owners(job[x].org)' = Owners(job[x].org) \/ Owners(job[x].org)' = {}
              \/ org'[job[x].org] = "deleted"
  PROVE  SpareOwner(job[x])'
<1>1. SameButRow(job'[x], job[x]) /\ SpareOwner(job[x]) /\ Registers(x, job[x])
  BY Request, Zenon DEF OthersWait, RequestOK
<1>2. /\ job[x].at = "delete" => mix.does[x] \cap LooseSeatOps # {}
      /\ job[x].op = "transfer" /\ job[x].at \in {"demote", "demoting"} => mix.does[x] \cap LooseSeatOps # {}
      /\ job[x].at \in {"delete", "demote", "demoting"} => job[x].at \in OrgKnown /\ job[x].org \in Orgs
  BY <1>1, Zenon DEF Registers, Serves, LooseSeatOps, OrgKnown, InSwap
<1>3. SeatsApart' <=> SeatsApart
  BY Zenon DEF SeatsApart
<1> QED
  BY <1>1, <1>2, <1>3, Zenon DEF SpareOwner, SameButRow

\* No step adds a seat with a live nominee to those the guard has to visit, where
\* nominations and transfers are kept apart.
LEMMA OthersGuard ==
  ASSUME OrgInv, NEW w \in Workers, OthersWait(w), mix' = mix, NEW x \in Workers, x # w,
         GuardApart /\ job[x].op = "deleteUser" /\ job[x].at \in Guarding
           => \A o \in Orgs :
                /\ role'[o][job[x].by] = "owner" /\ nom'[o] \in live'
                   => role[o][job[x].by] = "owner" /\ nom[o] \in live
                /\ nom'[o] \in {nom[o], None}
  PROVE  GuardKnows(job[x])'
<1>1. SameButRow(job'[x], job[x]) /\ GuardKnows(job[x]) /\ Registers(x, job[x])
  BY Request, Zenon DEF OthersWait, RequestOK
<1>2. job[x].at \in {"user", "seat", "promote", "insertSeat"} \cup InSwap => job[x].org \in Orgs
  BY <1>1, Zenon DEF Registers, OrgKnown, InSwap
<1>3. GuardApart' <=> GuardApart
  BY Zenon DEF GuardApart
<1> QED
  BY <1>1, <1>2, <1>3, Zenon DEF GuardKnows, SameButRow

\* The request of w ends, whatever rows the others lose.
Ends(w) == job' \in [Workers -> Job] /\ job'[w] = Idle /\ OthersWait(w)

LEMMA DoneEnds ==
  ASSUME OrgInv, NEW w \in Workers, Done(w)
  PROVE  Ends(w)
  BY IdleOK, Zenon DEF OrgInv, TypeOK, Done, Ends, OthersWait, SameButRow

LEMMA LoseRowEnds ==
  ASSUME OrgInv, NEW w \in Workers, NEW o, NEW H,
         job' = LoseRow([job EXCEPT ![w] = Idle], o, H)
  PROVE  Ends(w)
<1>1. PICK f : f = [job EXCEPT ![w] = Idle]
  BY Zenon
<1>2. /\ f \in [Workers -> Job] /\ f[w] = Idle /\ ~Idle.row
      /\ \A x \in Workers : x # w => f[x] = job[x]
  BY <1>1, IdleOK, Zenon DEF OrgInv, TypeOK, Idle
<1>3. job' = [x \in Workers |-> IF x \in H /\ f[x].row /\ f[x].org = o
                                THEN [f[x] EXCEPT !.row = FALSE] ELSE f[x]]
  <2>1. job' = LoseRow(f, o, H)
    BY <1>1, Zenon
  <2> QED
    BY <2>1, Zenon DEF LoseRow
<1>4. ASSUME NEW k \in Job
      PROVE  [k EXCEPT !.row = FALSE] \in Job /\ SameButRow([k EXCEPT !.row = FALSE], k) /\ SameButRow(k, k)
  BY Zenon DEF Job, SameButRow
<1>5. job' \in [Workers -> Job] /\ job'[w] = Idle
  BY <1>2, <1>3, <1>4, Zenon
<1>6. OthersWait(w)
  BY <1>2, <1>3, <1>4, Zenon DEF OthersWait
<1> QED
  BY <1>5, <1>6, Zenon DEF Ends

\* A write that ends its request.
LEMMA EndKeeps ==
  ASSUME OrgInv, NEW w \in Workers, Ends(w), UNCHANGED <<calls, mix>>,
         org' \in [Orgs -> {"absent", "live", "deleted"}],
         role' \in [Orgs -> [Users -> Seats]],
         nom' \in [Orgs -> Users \cup {None}],
         invite' \in [Orgs -> [Users -> {"none", "member", "admin"}]],
         live' \subseteq Users,
         \A o \in Orgs : org[o] # "absent" => org'[o] # "absent",
         CapsHold', Fresh',
         \A x \in Workers : x # w => Counted(job[x])' /\ SpareOwner(job[x])' /\ GuardKnows(job[x])'
  PROVE  OrgInv'
<1>1. job'[w].at = "idle" /\ job'[w].locks = {} /\ OthersWait(w) /\ job' \in [Workers -> Job]
  BY IdleOK, Zenon DEF Ends
<1>2. RequestOK(w, job[w])'
  BY <1>1, Zenon DEF RequestOK, Registers, Counted, SpareOwner, GuardKnows, Guarding, InSwap
<1> QED
  BY <1>1, <1>2, WriteKeeps, Zenon

\* What a step that seats, nominates and invites nobody may write.
Shrinks ==
  /\ live' \subseteq live
  /\ \A o \in Orgs :
       /\ org'[o] = org[o] \/ org'[o] = "deleted"
       /\ nom'[o] \in {nom[o], None}
       /\ org[o] = "absent" => role'[o] = role[o]
       /\ \A u \in Users : /\ role'[o][u] = role[o][u] \/ role'[o][u] # "owner"
                           /\ invite'[o][u] \in {invite[o][u], "none"}

\* Such a step keeps the caps and what the other requests have counted and found.
LEMMA ShrinkFacts ==
  ASSUME OrgInv, NEW w \in Workers, OthersWait(w), UNCHANGED <<calls, mix>>, Shrinks
  PROVE  /\ CapsHold' /\ Fresh'
         /\ \A x \in Workers : x # w => Counted(job[x])' /\ GuardKnows(job[x])'
         /\ \A o \in Orgs : org[o] # "absent" => org'[o] # "absent"
<1>1. TypeOK /\ CapsHold /\ Fresh
  BY Zenon DEF OrgInv
<1>2. \A o \in Orgs : Pending(o)' \subseteq Pending(o)
  BY Zenon DEF Shrinks, Pending
<1>3. \A u \in Users : Owned(u)' \subseteq Owned(u)
  BY Zenon DEF Shrinks, Owned
<1>4. CapsHold'
  <2>1. ASSUME NEW S, NEW T, S \subseteq T, IsFiniteSet(T), NEW n \in Nat, Cardinality(T) <= n
        PROVE  Cardinality(S) <= n
    <3>1. Cardinality(S) \in Nat /\ Cardinality(T) \in Nat /\ Cardinality(S) <= Cardinality(T)
      BY <2>1, FS_Subset, FS_CardinalityType, Zenon
    <3> QED
      BY <2>1, <3>1
  <2>2. ASSUME NEW o \in Orgs PROVE Cardinality(Pending(o))' <= MaxPending
    <3>1. IsFiniteSet(Pending(o)) /\ Cardinality(Pending(o)) <= MaxPending
      <4>1. Pending(o) \subseteq Users
        BY Zenon DEF Pending
      <4> QED
        BY <1>1, <4>1, OrgAssumption, FS_Subset, Zenon DEF CapsHold
    <3> QED
      BY <1>2, <2>1, <3>1, OrgAssumption, Zenon
  <2>3. ASSUME NEW u \in Users, NoSeatMoves PROVE Cardinality(Owned(u))' <= MaxOrgs
    <3>1. IsFiniteSet(Owned(u))
      <4>1. Owned(u) \subseteq Orgs
        BY Zenon DEF Owned
      <4> QED
        BY <4>1, OrgAssumption, FS_Subset, Zenon
    <3>2. Cardinality(Owned(u)) <= MaxOrgs
      BY <1>1, <2>3, Zenon DEF CapsHold, NoSeatMoves, Owned
    <3> QED
      BY <1>3, <2>1, <3>1, <3>2, OrgAssumption, Zenon
  <2> QED
    BY <2>2, <2>3, Zenon DEF CapsHold, NoSeatMoves, Owned
<1>5. Fresh'
  BY <1>1, OrgAssumption DEF Shrinks, Fresh, TypeOK
<1>6. ASSUME NEW x \in Workers, x # w PROVE Counted(job[x])' /\ GuardKnows(job[x])'
  <2>1. /\ job[x].at = "insertInvite" => job[x].org \in Orgs
        /\ job[x].op = "create" /\ job[x].at = "create" => job[x].by \in Users
        /\ job[x].op = "deleteUser" /\ job[x].at \in Guarding => job[x].by \in Users
        /\ SameButRow(job'[x], job[x])
    BY <1>1, <1>6, Request, Zenon DEF Registers, Serves, OrgKnown, UserOps, Guarding, InSwap, OthersWait
  <2>2. Counted(job[x])'
    BY <1>1, <1>2, <1>3, <1>6, <2>1, OthersCounted, Zenon DEF SameButRow
  <2>3. None \notin live
    BY <1>1, OrgAssumption, Zenon DEF TypeOK
  <2>4. GuardKnows(job[x])'
    BY <1>1, <1>6, <2>1, <2>3, OthersGuard DEF Shrinks
  <2> QED
    BY <2>2, <2>4, Zenon
<1>7. \A o \in Orgs : org[o] # "absent" => org'[o] # "absent"
  BY Zenon DEF Shrinks
<1> QED
  BY <1>4, <1>5, <1>6, <1>7, Zenon

\* Such a step preserves the invariant when it ends its request and no other
\* request loses an owner it counts on.
LEMMA ShrinkKeeps ==
  ASSUME OrgInv, NEW w \in Workers, Ends(w), UNCHANGED <<calls, mix>>,
         org' \in [Orgs -> {"absent", "live", "deleted"}],
         role' \in [Orgs -> [Users -> Seats]],
         nom' \in [Orgs -> Users \cup {None}],
         invite' \in [Orgs -> [Users -> {"none", "member", "admin"}]],
         Shrinks, \A x \in Workers : x # w => SpareOwner(job[x])'
  PROVE  OrgInv'
<1>1. OthersWait(w) /\ live' \subseteq Users
  BY Zenon DEF Ends, Shrinks, OrgInv, TypeOK
<1> QED
  BY <1>1, ShrinkFacts, EndKeeps, Zenon

-----------------------------------------------------------------------------
\* A removal meets no other request that counts on an owner.
LEMMA DeleteMembershipStep ==
  ASSUME OrgInv, NEW w \in Workers, DeleteMembership(w)
  PROVE  OrgInv'
<1>1. PICK o, t : o = job[w].org /\ t = job[w].target
  BY Zenon
<1>2. /\ job[w].at = "delete" /\ TypeOK /\ Registers(w, job[w]) /\ Fresh
      /\ UNCHANGED <<org, nom, invite, live, calls, mix>>
      /\ role' = [role EXCEPT ![o][t] = "none"]
  BY <1>1, Request, Zenon DEF DeleteMembership, At, OrgInv
<1>3. Ends(w)
  BY <1>1, LoseRowEnds, Zenon DEF DeleteMembership
<1>4. /\ o \in Orgs /\ t \in Users /\ org[o] # "absent"
      /\ mix.does[w] \cap LooseSeatOps # {}
  BY <1>1, <1>2, Zenon DEF Registers, Serves, OrgKnown, Targeted, LooseSeatOps
<1>5. role' \in [Orgs -> [Users -> Seats]] /\ Shrinks
  BY <1>2, <1>4, Zenon DEF TypeOK, Seats, Shrinks
<1>6. ASSUME NEW x \in Workers, x # w PROVE SpareOwner(job[x])'
  <2>1. ~(SeatsApart /\ mix.does[x] \cap LooseSeatOps # {})
    BY <1>4, <1>6, Zenon DEF SeatsApart
  <2> QED
    BY <1>2, <1>3, <1>6, <2>1, OthersSpare, Zenon DEF Ends
<1> QED
  BY <1>2, <1>3, <1>5, <1>6, ShrinkKeeps, Zenon DEF TypeOK

\* No owner changes where the member rows stay the same or only members join.
LEMMA SameOwnersSpare ==
  ASSUME OrgInv, NEW w \in Workers, OthersWait(w), mix' = mix,
         \A o \in Orgs : org[o] = "deleted" => org'[o] = "deleted",
         \A o \in Orgs : org[o] # "absent" => \/ Owners(o)' = Owners(o) \/ Owners(o)' = {}
                                             \/ org'[o] = "deleted"
  PROVE  \A x \in Workers : x # w => SpareOwner(job[x])'
<1> SUFFICES ASSUME NEW x \in Workers, x # w PROVE SpareOwner(job[x])'
  BY Zenon
<1>1. /\ SameButRow(job'[x], job[x])
      /\ job[x].at \in OrgKnown => job[x].org \in Orgs /\ org[job[x].org] # "absent"
  BY Request, Zenon DEF OthersWait, Registers, OrgKnown, InSwap
<1>2. job[x].at \in OrgKnown
        => \/ Owners(job[x].org)' = Owners(job[x].org) \/ Owners(job[x].org)' = {}
           \/ org'[job[x].org] = "deleted"
  BY <1>1, Zenon DEF SameButRow
<1> QED
  BY <1>1, <1>2, OthersSpare, Zenon

\* Revoking and accepting an invitation.
LEMMA RevokeInvitationStep ==
  ASSUME OrgInv, NEW w \in Workers, RevokeInvitation(w)
  PROVE  OrgInv'
<1>1. PICK o, u : o = job[w].org /\ u = job[w].target
  BY Zenon
<1>2. /\ TypeOK /\ UNCHANGED <<org, role, nom, live, calls, mix>>
      /\ invite' = [invite EXCEPT ![o][u] = "none"]
  BY <1>1, Request, Zenon DEF RevokeInvitation
<1>3. Ends(w)
  BY <1>1, LoseRowEnds, Zenon DEF RevokeInvitation
<1>4. invite' \in [Orgs -> [Users -> {"none", "member", "admin"}]] /\ Shrinks
  BY <1>2, Zenon DEF TypeOK, Shrinks
<1>5. \A p : Owners(p)' = Owners(p)
  BY <1>2, Zenon DEF Owners
<1> QED
  BY <1>2, <1>3, <1>4, <1>5, SameOwnersSpare, ShrinkKeeps, Zenon DEF TypeOK, Ends

LEMMA StampAcceptedStep ==
  ASSUME OrgInv, NEW w \in Workers, StampAccepted(w)
  PROVE  OrgInv'
<1>1. /\ TypeOK /\ UNCHANGED <<org, role, nom, live, calls, mix>>
      /\ invite' = IF job[w].row THEN [invite EXCEPT ![job[w].org][job[w].by] = "none"] ELSE invite
  BY Request, Zenon DEF StampAccepted
<1>2. Ends(w)
  BY DoneEnds, Zenon DEF StampAccepted
<1>3. invite' \in [Orgs -> [Users -> {"none", "member", "admin"}]] /\ Shrinks
  <2>1. CASE job[w].row
    BY <1>1, <2>1, ZenonT(30) DEF TypeOK, Shrinks
  <2>2. CASE ~job[w].row
    BY <1>1, <2>2, Zenon DEF TypeOK, Shrinks
  <2> QED
    BY <2>1, <2>2, Zenon
<1>4. \A p : Owners(p)' = Owners(p)
  BY <1>1, Zenon DEF Owners
<1> QED
  BY <1>1, <1>2, <1>3, <1>4, SameOwnersSpare, ShrinkKeeps, Zenon DEF TypeOK, Ends

\* Withdrawing a nomination, soft-deleting a user, and deleting an organization
\* with all that belongs to it.
LEMMA WithdrawPendingStep ==
  ASSUME OrgInv, NEW w \in Workers, WithdrawPending(w)
  PROVE  OrgInv'
<1>1. /\ TypeOK /\ UNCHANGED <<org, role, invite, live, calls, mix>>
      /\ nom' = [nom EXCEPT ![job[w].org] = None]
  BY Request, Zenon DEF WithdrawPending
<1>2. Ends(w)
  BY DoneEnds, Zenon DEF WithdrawPending
<1>3. nom' \in [Orgs -> Users \cup {None}] /\ Shrinks
  BY <1>1, Zenon DEF TypeOK, Shrinks
<1>4. \A p : Owners(p)' = Owners(p)
  BY <1>1, Zenon DEF Owners
<1> QED
  BY <1>1, <1>2, <1>3, <1>4, SameOwnersSpare, ShrinkKeeps, Zenon DEF TypeOK, Ends

LEMMA SoftDeleteStep ==
  ASSUME OrgInv, NEW w \in Workers, SoftDelete(w)
  PROVE  OrgInv'
<1>1. /\ TypeOK /\ UNCHANGED <<org, role, nom, invite, calls, mix>>
      /\ live' = live \ {job[w].by}
  BY Request, Zenon DEF SoftDelete
<1>2. Ends(w)
  BY DoneEnds, Zenon DEF SoftDelete
<1>3. Shrinks
  BY <1>1, Zenon DEF TypeOK, Shrinks
<1>4. \A p : Owners(p)' = Owners(p)
  BY <1>1, Zenon DEF Owners
<1> QED
  BY <1>1, <1>2, <1>3, <1>4, SameOwnersSpare, ShrinkKeeps, Zenon DEF TypeOK, Ends

LEMMA DeleteOrgStep ==
  ASSUME OrgInv, NEW w \in Workers, DeleteOrg(w)
  PROVE  OrgInv'
<1>1. PICK o : o = job[w].org
  BY Zenon
<1>2. /\ TypeOK /\ UNCHANGED <<live, calls, mix>> /\ job[w].at = "detach" /\ Registers(w, job[w])
      /\ org' = [org EXCEPT ![o] = "deleted"]
      /\ invite' = [invite EXCEPT ![o] = [u \in Users |-> "none"]]
      /\ nom' = [nom EXCEPT ![o] = None]
      /\ role' = [role EXCEPT ![o] = [u \in Users |-> IF u \in job[w].locks THEN "none" ELSE @[u]]]
  BY <1>1, Request, Zenon DEF DeleteOrg, At, Become
<1>3. Ends(w)
  BY <1>1, LoseRowEnds, Zenon DEF DeleteOrg
<1>4. o \in Orgs /\ org[o] # "absent"
  BY <1>1, <1>2, Zenon DEF Registers, OrgKnown
<1>5. /\ org' \in [Orgs -> {"absent", "live", "deleted"}]
      /\ role' \in [Orgs -> [Users -> Seats]]
      /\ nom' \in [Orgs -> Users \cup {None}]
      /\ invite' \in [Orgs -> [Users -> {"none", "member", "admin"}]]
  BY <1>2, Zenon DEF TypeOK, Seats
<1>6. Shrinks
  BY <1>2, <1>4, Zenon DEF TypeOK, Shrinks
<1>7. /\ \A p \in Orgs : Owners(p)' = Owners(p) \/ org'[p] = "deleted"
      /\ \A p \in Orgs : org[p] = "deleted" => org'[p] = "deleted"
  BY <1>2, Zenon DEF Owners, TypeOK
<1> QED
  BY <1>2, <1>3, <1>5, <1>6, <1>7, SameOwnersSpare, ShrinkKeeps, Zenon DEF Ends

-----------------------------------------------------------------------------
\* An invited user joins, never as the owner.
LEMMA JoinStep ==
  ASSUME OrgInv, NEW w \in Workers, Join(w)
  PROVE  OrgInv'
<1>1. CASE Done(w) /\ UNCHANGED role
  BY <1>1, DoneKeeps, Zenon DEF Join, tables
<1>2. PICK o, u : o = job[w].org /\ u = job[w].by
  BY Zenon
<1>3. CASE /\ role[o][u] = "none" /\ GoTo(w, "stamp")
           /\ role' = [role EXCEPT ![o][u] = job[w].mine]
  <2>1. /\ TypeOK /\ job[w] \in Job /\ job[w].at = "join" /\ Registers(w, job[w])
        /\ UNCHANGED <<org, nom, invite, live, calls, mix>>
    BY Request, Zenon DEF Join, At
  <2>2. o \in Orgs /\ u \in Users /\ org[o] # "absent" /\ job[w].mine \in {"member", "admin"}
    BY <1>2, <2>1, Zenon DEF Registers, Serves, OrgKnown, UserOps
  <2>3. PICK j : j = [job[w] EXCEPT !.at = "stamp"]
    BY Zenon
  <2>4. /\ j \in Job /\ j.at = "stamp" /\ j.op = job[w].op /\ j.by = job[w].by /\ j.org = job[w].org
        /\ j.target = job[w].target /\ j.todo = job[w].todo /\ j.locks = job[w].locks
    BY <2>1, <2>3, Moved DEF Steps
  <2>5. job' = [job EXCEPT ![w] = j]
    BY <1>3, <2>3, Zenon DEF GoTo
  <2>6. /\ OthersWait(w) /\ job' \in [Workers -> Job] /\ job'[w] = j /\ j.locks = {}
    BY <2>1, <2>4, <2>5, Zenon DEF TypeOK, OthersWait, SameButRow, Writing, InSwap
  <2>7. role' \in [Orgs -> [Users -> Seats]] /\ Shrinks
    BY <1>3, <2>1, <2>2, Zenon DEF TypeOK, Seats, Shrinks
  <2>8. \A p \in Orgs : Owners(p)' = Owners(p)
    BY <1>3, <2>1, <2>2, Zenon DEF TypeOK, Owners
  <2>9. Registers(w, job[w])'
    BY <2>1, <2>4, <2>6, Zenon DEF Registers, Serves, OrgKnown, TargetKnown, InSwap
  <2>10. RequestOK(w, job[w])'
    BY <2>4, <2>6, <2>9, Zenon DEF RequestOK, Counted, SpareOwner, GuardKnows, Guarding, InSwap
  <2> QED
    BY <2>1, <2>4, <2>6, <2>7, <2>8, <2>10, SameOwnersSpare, ShrinkFacts, WriteKeeps, Zenon DEF TypeOK
<1> QED
  BY <1>1, <1>2, <1>3, Zenon DEF Join

\* The demotion of a transfer meets no other request that counts on an owner.
LEMMA DemoteTransfer ==
  ASSUME OrgInv, NEW w \in Workers, Demote(w), ~InTransaction(w)
  PROVE  OrgInv'
<1>1. PICK o : o = job[w].org
  BY Zenon
<1>2. PICK down : down = job[w].locks
  BY Zenon
<1>3. /\ job[w].at = "demoting" /\ TypeOK /\ Registers(w, job[w])
      /\ UNCHANGED <<org, nom, invite, live, calls, mix>>
      /\ role' = [role EXCEPT ![o] = [u \in Users |-> IF u \in down THEN "admin" ELSE @[u]]]
  BY <1>1, <1>2, Request, Zenon DEF Demote, Become, At
<1>4. Ends(w)
  BY DoneEnds, Zenon DEF Demote
<1>5. o \in Orgs /\ org[o] # "absent" /\ mix.does[w] \cap LooseSeatOps # {}
  BY <1>1, <1>3, Zenon DEF Registers, OrgKnown, InSwap, LooseSeatOps, InTransaction
<1>6. role' \in [Orgs -> [Users -> Seats]] /\ Shrinks
  BY <1>3, <1>5, Zenon DEF TypeOK, Seats, Shrinks
<1>7. ASSUME NEW x \in Workers, x # w PROVE SpareOwner(job[x])'
  <2>1. ~(SeatsApart /\ mix.does[x] \cap LooseSeatOps # {})
    BY <1>5, <1>7, Zenon DEF SeatsApart
  <2> QED
    BY <1>3, <1>4, <1>7, <2>1, OthersSpare, Zenon DEF Ends
<1> QED
  BY <1>3, <1>4, <1>6, <1>7, ShrinkKeeps, Zenon DEF TypeOK

-----------------------------------------------------------------------------
\* A nomination meets no guard.
LEMMA UpsertNominationStep ==
  ASSUME OrgInv, NEW w \in Workers, UpsertNomination(w)
  PROVE  OrgInv'
<1>1. /\ job[w].at = "upsert" /\ TypeOK /\ Registers(w, job[w]) /\ Fresh /\ CapsHold
      /\ UNCHANGED <<org, role, invite, live, calls, mix>>
      /\ nom' = [nom EXCEPT ![job[w].org] = job[w].target]
  BY Request, Zenon DEF UpsertNomination, At, OrgInv
<1>2. Ends(w)
  BY DoneEnds, Zenon DEF UpsertNomination
<1>3. /\ job[w].org \in Orgs /\ org[job[w].org] # "absent" /\ job[w].target \in Users
      /\ "nominate" \in mix.does[w]
  BY <1>1, Zenon DEF Registers, Serves, OrgKnown, TargetKnown
<1>4. nom' \in [Orgs -> Users \cup {None}] /\ Fresh'
  BY <1>1, <1>3, Zenon DEF TypeOK, Fresh
<1>5. /\ \A p : Pending(p)' = Pending(p) /\ Owned(p)' = Owned(p) /\ Owners(p)' = Owners(p)
      /\ CapsHold'
  BY <1>1, Zenon DEF Pending, Owned, Owners, CapsHold
<1>6. ASSUME NEW x \in Workers, x # w
      PROVE  Counted(job[x])' /\ SpareOwner(job[x])' /\ GuardKnows(job[x])'
  <2>1. OthersWait(w) /\ SameButRow(job'[x], job[x]) /\ Registers(x, job[x])
    BY <1>2, <1>6, Request, Zenon DEF Ends, OthersWait
  <2>2. Counted(job[x])'
    BY <1>1, <1>5, <1>6, <2>1, OthersCounted, Zenon DEF SameButRow
  <2>3. SpareOwner(job[x])'
    BY <1>1, <1>5, <1>6, <2>1, SameOwnersSpare, Zenon
  <2>4. ~(GuardApart /\ job[x].op = "deleteUser" /\ job[x].at \in Guarding)
    BY <1>3, <1>6, <2>1, Zenon DEF GuardApart, Registers, Guarding, InSwap
  <2>5. GuardKnows(job[x])'
    BY <1>1, <1>6, <2>1, <2>4, OthersGuard, Zenon
  <2> QED
    BY <2>2, <2>3, <2>5, Zenon
<1> QED
  BY <1>1, <1>2, <1>4, <1>5, <1>6, EndKeeps, Zenon DEF TypeOK

\* Under the lock of the organization an invitation more is still within the cap.
LEMMA InsertInvitationStep ==
  ASSUME OrgInv, NEW w \in Workers, InsertInvitation(w)
  PROVE  OrgInv'
<1>1. PICK o, u : o = job[w].org /\ u = job[w].target
  BY Zenon
<1>2. CASE UNCHANGED invite
  BY <1>2, DoneKeeps, Zenon DEF InsertInvitation, tables
<1>3. CASE \E r \in {"member", "admin"} : invite' = [invite EXCEPT ![o][u] = r]
  <2>1. /\ job[w].at = "insertInvite" /\ TypeOK /\ Registers(w, job[w]) /\ Counted(job[w])
        /\ Fresh /\ CapsHold /\ Exclusive
        /\ UNCHANGED <<org, role, nom, live, calls, mix>>
    BY Request, Zenon DEF InsertInvitation, At, OrgInv, RequestOK
  <2>2. Ends(w) /\ OthersWait(w)
    BY DoneEnds, Zenon DEF InsertInvitation, Ends
  <2>3. /\ o \in Orgs /\ u \in Users /\ org[o] # "absent" /\ Cardinality(Pending(o)) < MaxPending
    BY <1>1, <2>1, Zenon DEF Registers, Serves, OrgKnown, Targeted, Counted
  <2>4. invite' \in [Orgs -> [Users -> {"none", "member", "admin"}]] /\ Fresh'
    BY <1>3, <2>1, <2>3 DEF TypeOK, Fresh
  <2>5. /\ Pending(o)' = Pending(o) \cup {u}
        /\ \A p \in Orgs : p # o => Pending(p)' = Pending(p)
    BY <1>3, <2>1, <2>3 DEF Pending, TypeOK
  <2>6. Cardinality(Pending(o))' <= MaxPending
    <3>1. IsFiniteSet(Pending(o))
      <4>1. Pending(o) \subseteq Users
        BY Zenon DEF Pending
      <4> QED
        BY <4>1, OrgAssumption, FS_Subset, Zenon
    <3>2. /\ Cardinality(Pending(o) \cup {u}) \in {Cardinality(Pending(o)), Cardinality(Pending(o)) + 1}
          /\ Cardinality(Pending(o)) \in Nat
      BY <3>1, FS_AddElement, FS_CardinalityType, Zenon
    <3> QED
      BY <2>3, <2>5, <3>2, OrgAssumption
  <2>7. \A p : Owned(p)' = Owned(p) /\ Owners(p)' = Owners(p)
    BY <2>1, Zenon DEF Owned, Owners
  <2>8. CapsHold'
    BY <2>1, <2>5, <2>6, Zenon DEF CapsHold
  <2>9. ASSUME NEW x \in Workers, x # w
        PROVE  Counted(job[x])' /\ SpareOwner(job[x])' /\ GuardKnows(job[x])'
    <3>1. SameButRow(job'[x], job[x]) /\ Registers(x, job[x])
      BY <2>2, <2>9, Request, Zenon DEF OthersWait
    <3>2. job[x].at = "insertInvite" => job[x].org \in Orgs /\ job[x].org # o
      BY <1>1, <2>1, <2>9, <3>1, Zenon DEF Exclusive, At, Registers, OrgKnown
    <3>3. Counted(job[x])'
      BY <2>1, <2>2, <2>5, <2>7, <2>9, <3>1, <3>2, OthersCounted, Zenon DEF SameButRow
    <3>4. SpareOwner(job[x])'
      BY <2>1, <2>2, <2>7, <2>9, SameOwnersSpare, Zenon
    <3>5. GuardKnows(job[x])'
      BY <2>1, <2>2, <2>9, OthersGuard, Zenon
    <3> QED
      BY <3>3, <3>4, <3>5, Zenon
  <2> QED
    BY <2>1, <2>2, <2>4, <2>8, <2>9, EndKeeps, Zenon DEF TypeOK
<1> QED
  BY <1>1, <1>2, <1>3, Zenon DEF InsertInvitation

\* Under the lock of the user an organization more is still within the cap, and a
\* new organization has no nominee.
LEMMA InsertOrgRowStep ==
  ASSUME OrgInv, NEW w \in Workers, InsertOrgRow(w)
  PROVE  OrgInv'
<1>1. PICK o, b : o = job[w].org /\ b = job[w].by
  BY Zenon
<1>2. CASE org[o] # "absent"
  BY <1>1, <1>2, DoneKeeps, Zenon DEF InsertOrgRow, tables
<1>3. CASE org[o] = "absent"
  <2>1. /\ job[w].at = "create" /\ TypeOK /\ Registers(w, job[w]) /\ Counted(job[w])
        /\ Fresh /\ CapsHold /\ Exclusive
        /\ org' = [org EXCEPT ![o] = "live"]
        /\ role' = IF job[w].op = "adminCreate" THEN role ELSE [role EXCEPT ![o][b] = "owner"]
        /\ UNCHANGED <<nom, invite, live, calls, mix>>
    BY <1>1, <1>3, Request, Zenon DEF InsertOrgRow, At, OrgInv, RequestOK
  <2>2. Ends(w) /\ OthersWait(w)
    BY DoneEnds, Zenon DEF InsertOrgRow, Ends
  <2>3. /\ o \in Orgs /\ job[w].op \in {"create", "adminCreate"}
        /\ job[w].op = "create" => b \in Users /\ (NoSeatMoves => Cardinality(Owned(b)) < MaxOrgs)
    BY <1>1, <2>1, Zenon DEF Registers, Serves, UserOps, Counted
  <2>4. /\ org' \in [Orgs -> {"absent", "live", "deleted"}]
        /\ role' \in [Orgs -> [Users -> Seats]]
        /\ \A p \in Orgs : org[p] # "absent" => org'[p] # "absent"
    BY <2>1, <2>3, Zenon DEF TypeOK, Seats
  <2>5. Fresh'
    BY <2>1, <2>3, ZenonT(30) DEF TypeOK, Fresh
  <2>6. /\ \A p \in Orgs : p # o => Owners(p)' = Owners(p)
        /\ \A p : Pending(p)' = Pending(p)
    BY <2>1, <2>3, Zenon DEF TypeOK, Owners, Pending
  <2>7. \A u \in Users : \/ Owned(u)' = Owned(u)
                         \/ job[w].op = "create" /\ u = b /\ Owned(u)' = Owned(u) \cup {o}
    <3>1. CASE job[w].op = "adminCreate"
      BY <2>1, <3>1, Zenon DEF Owned
    <3>2. CASE job[w].op = "create"
      <4>1. \A p \in Orgs, u \in Users : role'[p][u] = IF p = o /\ u = b THEN "owner" ELSE role[p][u]
        BY <2>1, <2>3, <3>2, Zenon DEF TypeOK
      <4> QED
        BY <2>3, <3>2, <4>1, Zenon DEF Owned
    <3> QED
      BY <2>3, <3>1, <3>2, Zenon
  <2>8. ASSUME NoSeatMoves, NEW u \in Users PROVE Cardinality(Owned(u))' <= MaxOrgs
    <3>1. Cardinality(Owned(u)) <= MaxOrgs
      BY <2>1, <2>8, Zenon DEF CapsHold, NoSeatMoves, Owned
    <3>2. CASE job[w].op = "create" /\ u = b /\ Owned(u)' = Owned(u) \cup {o}
      <4>1. IsFiniteSet(Owned(u))
        <5>1. Owned(u) \subseteq Orgs
          BY Zenon DEF Owned
        <5> QED
          BY <5>1, OrgAssumption, FS_Subset, Zenon
      <4>2. /\ Cardinality(Owned(u) \cup {o}) \in {Cardinality(Owned(u)), Cardinality(Owned(u)) + 1}
            /\ Cardinality(Owned(u)) \in Nat
        BY <4>1, FS_AddElement, FS_CardinalityType, Zenon
      <4> QED
        BY <2>3, <2>8, <3>2, <4>2, OrgAssumption
    <3> QED
      BY <2>7, <3>1, <3>2, Zenon
  <2>9. CapsHold'
    BY <2>1, <2>6, <2>8, Zenon DEF CapsHold, NoSeatMoves, Owned
  <2>10. ASSUME NEW x \in Workers, x # w
         PROVE  Counted(job[x])' /\ SpareOwner(job[x])' /\ GuardKnows(job[x])'
    <3>1. SameButRow(job'[x], job[x]) /\ Registers(x, job[x])
      BY <2>2, <2>10, Request, Zenon DEF OthersWait
    <3>2. job[x].at = "create" /\ job[x].op = "create"
            => job[x].by \in Users /\ (job[w].op = "create" => job[x].by # b)
      BY <1>1, <2>1, <2>10, <3>1, Zenon DEF Exclusive, At, Registers, UserOps
    <3>3. Counted(job[x])'
      BY <2>1, <2>2, <2>6, <2>7, <2>10, <3>1, <3>2, OthersCounted, Zenon DEF SameButRow
    <3>4. SpareOwner(job[x])'
      <4>1. \A p \in Orgs : org[p] = "deleted" => org'[p] = "deleted"
        BY <1>3, <2>1, Zenon DEF TypeOK
      <4> QED
        BY <1>3, <2>1, <2>2, <2>6, <2>10, <4>1, SameOwnersSpare, Zenon
    <3>5. /\ nom[o] \notin live
          /\ \A p \in Orgs : p # o => role'[p] = role[p]
      BY <1>3, <2>1, <2>3, OrgAssumption, Zenon DEF Fresh, TypeOK
    <3>6. GuardKnows(job[x])'
      BY <2>1, <2>2, <2>10, <3>5, OthersGuard, Zenon
    <3> QED
      BY <3>3, <3>4, <3>6, Zenon
  <2> QED
    BY <2>1, <2>2, <2>4, <2>5, <2>9, <2>10, EndKeeps, Zenon DEF TypeOK
<1> QED
  BY <1>2, <1>3, Zenon

\* The promotion of a transfer meets no guard and no request that counts on an
\* owner.
LEMMA TakeSeatTransfer ==
  ASSUME OrgInv, NEW w \in Workers, job[w].at \in {"promote", "insertSeat"},
         TakeSeat(w), ~InTransaction(w), UNCHANGED <<org, nom, invite, live, calls, mix>>
  PROVE  OrgInv'
<1>1. PICK o, t : o = job[w].org /\ t = job[w].target
  BY Zenon
<1>2. PICK j : j = [job[w] EXCEPT !.row = FALSE, !.at = "demote"]
  BY Zenon
<1>3. /\ TypeOK /\ job[w] \in Job /\ Registers(w, job[w]) /\ Fresh /\ CapsHold
      /\ job' = [job EXCEPT ![w] = j]
      /\ role' = [role EXCEPT ![o][t] = "owner"]
  BY <1>1, <1>2, Request, Zenon DEF TakeSeat, OrgInv
<1>4. /\ j \in Job /\ j.at = "demote" /\ j.op = job[w].op /\ j.by = job[w].by /\ j.org = job[w].org
      /\ j.target = job[w].target /\ j.todo = job[w].todo /\ j.locks = job[w].locks
  BY <1>2, <1>3, Zenon DEF Job, Steps, InSwap
<1>5. OthersWait(w) /\ job' \in [Workers -> Job] /\ job'[w] = j /\ j.locks = {}
  BY <1>3, <1>4, Zenon DEF TypeOK, OthersWait, SameButRow, Writing, InSwap
<1>6. /\ o \in Orgs /\ t \in Users /\ org[o] # "absent"
      /\ job[w].op = "transfer" /\ "transfer" \in mix.does[w]
  BY <1>1, <1>3, Zenon DEF Registers, OrgKnown, TargetKnown, InTransaction
<1>7. /\ role' \in [Orgs -> [Users -> Seats]] /\ Fresh' /\ t \in Owners(o)'
      /\ \A p : Pending(p)' = Pending(p)
  BY <1>3, <1>6 DEF TypeOK, Seats, Fresh, Owners, Pending
<1>8. ~NoSeatMoves
  BY <1>6, Zenon DEF NoSeatMoves
<1>9. CapsHold'
  BY <1>3, <1>7, <1>8, Zenon DEF CapsHold, NoSeatMoves
<1>10. RequestOK(w, job[w])'
  <2>1. Registers(w, job[w])'
    BY <1>1, <1>3, <1>4, <1>5, <1>6, Zenon DEF Registers, Serves, TargetKnown, InSwap
  <2>2. SpareOwner(job[w])'
    BY <1>1, <1>4, <1>5, <1>7, Zenon DEF SpareOwner
  <2> QED
    BY <1>4, <1>5, <1>6, <2>1, <2>2, Zenon DEF RequestOK, Counted, GuardKnows
<1>11. ASSUME NEW x \in Workers, x # w
       PROVE  Counted(job[x])' /\ SpareOwner(job[x])' /\ GuardKnows(job[x])'
  <2>1. SameButRow(job'[x], job[x]) /\ Registers(x, job[x])
    BY <1>5, <1>11, Request, Zenon DEF OthersWait
  <2>2. Counted(job[x])'
    BY <1>5, <1>7, <1>8, <1>11, <2>1, OthersCounted, Zenon DEF SameButRow
  <2>3. ~(SeatsApart /\ mix.does[x] \cap LooseSeatOps # {})
    BY <1>6, <1>11, Zenon DEF SeatsApart, LooseSeatOps
  <2>4. SpareOwner(job[x])'
    BY <1>5, <1>11, <2>3, OthersSpare, Zenon
  <2>5. ~(GuardApart /\ job[x].op = "deleteUser" /\ job[x].at \in Guarding)
    BY <1>6, <1>11, <2>1, Zenon DEF GuardApart, Registers, Guarding, InSwap
  <2>6. GuardKnows(job[x])'
    BY <1>5, <1>11, <2>5, OthersGuard, Zenon
  <2> QED
    BY <2>2, <2>4, <2>6, Zenon
<1> QED
  BY <1>3, <1>4, <1>5, <1>7, <1>9, <1>10, <1>11, WriteKeeps, Zenon DEF TypeOK

\* The commit of a swap uses up the nomination: no guard has to come back to the
\* organization, and no removal or transfer counts on its owners.
LEMMA MarkAcceptedStep ==
  ASSUME OrgInv, NEW w \in Workers, MarkAccepted(w)
  PROVE  OrgInv'
<1>1. PICK o, t : o = job[w].org /\ t = job[w].target
  BY Zenon
<1>2. CASE nom[o] # t
  BY <1>1, <1>2, DoneKeeps, Zenon DEF MarkAccepted, tables
<1>3. CASE nom[o] = t
  <2>1. /\ job[w].at = "mark" /\ TypeOK /\ job[w] \in Job /\ Registers(w, job[w])
        /\ GuardKnows(job[w]) /\ Fresh /\ CapsHold
        /\ nom' = [nom EXCEPT ![o] = None] /\ role' = Swapped(w) /\ AfterSwap(w)
        /\ UNCHANGED <<org, invite, live, calls, mix>>
    BY <1>1, <1>3, Request, Zenon DEF MarkAccepted, At, OrgInv, RequestOK
  <2>2. /\ o \in Orgs /\ t \in Users /\ org[o] # "absent"
        /\ job[w].op \in SwapOps /\ job[w].op \in mix.does[w]
    BY <1>1, <2>1, Zenon DEF Registers, Serves, OrgKnown, TargetKnown, InSwap
  <2>3. /\ role' \in [Orgs -> [Users -> Seats]]
        /\ \A p \in Orgs : p # o => role'[p] = role[p]
    BY <1>1, <2>1, <2>2, Zenon DEF TypeOK, Seats, Swapped
  <2>4. nom' \in [Orgs -> Users \cup {None}] /\ Fresh'
    BY <2>1, <2>2, <2>3 DEF TypeOK, Fresh
  <2>5. /\ ~NoSeatMoves
        /\ \A p : Pending(p)' = Pending(p)
    BY <2>1, <2>2, Zenon DEF NoSeatMoves, Pending
  <2>6. CapsHold'
    BY <2>1, <2>5, Zenon DEF CapsHold, NoSeatMoves
  <2>7. ASSUME NEW x \in Workers, x # w, OthersWait(w)
        PROVE  Counted(job[x])' /\ SpareOwner(job[x])' /\ GuardKnows(job[x])'
    <3>1. SameButRow(job'[x], job[x])
      BY <2>7, Zenon DEF OthersWait
    <3>2. Counted(job[x])'
      BY <2>1, <2>5, <2>7, <3>1, OthersCounted, Zenon DEF SameButRow
    <3>3. ~(SeatsApart /\ mix.does[x] \cap LooseSeatOps # {})
      BY <2>2, <2>7, Zenon DEF SeatsApart
    <3>4. SpareOwner(job[x])'
      BY <2>1, <2>7, <3>3, OthersSpare, Zenon
    <3>5. None \notin live
      BY <2>1, OrgAssumption, Zenon DEF TypeOK
    <3>6. \A p \in Orgs : nom'[p] \in {nom[p], None} /\ (nom'[p] \in live => p # o)
      BY <2>1, <2>2, <3>5, Zenon DEF TypeOK
    <3>7. GuardKnows(job[x])'
      BY <2>1, <2>3, <2>7, <3>5, <3>6, OthersGuard
    <3> QED
      BY <3>2, <3>4, <3>7, Zenon
  <2>8. CASE job[w].op = "accept"
    <3>1. Ends(w) /\ OthersWait(w)
      BY <2>1, <2>8, DoneEnds, Zenon DEF AfterSwap, Ends
    <3> QED
      BY <2>1, <2>3, <2>4, <2>6, <2>7, <3>1, EndKeeps, Zenon DEF TypeOK
  <2>9. CASE job[w].op = "deleteUser"
    <3>1. PICK j : j = [job[w] EXCEPT !.todo = job[w].todo \ {o}, !.locks = {}, !.at = "walk"]
      BY Zenon
    <3>2. job' = [job EXCEPT ![w] = j]
      BY <1>1, <2>1, <2>9, <3>1, Zenon DEF AfterSwap
    <3>3. /\ j \in Job /\ j.at = "walk" /\ j.op = job[w].op /\ j.by = job[w].by
          /\ j.target = job[w].target /\ j.todo = job[w].todo \ {o} /\ j.locks = {}
      BY <2>1, <3>1, Zenon DEF Job, Steps
    <3>4. OthersWait(w) /\ job' \in [Workers -> Job] /\ job'[w] = j
      BY <2>1, <3>2, <3>3, Zenon DEF TypeOK, OthersWait, SameButRow
    <3>5. Registers(w, job[w])'
      BY <2>1, <2>9, <3>3, <3>4, Zenon DEF Registers, Serves, OrgKnown, TargetKnown, InSwap, Targeted, UserOps
    <3>6. \A p \in Orgs : nom'[p] \in live => p # o /\ nom'[p] = nom[p]
      BY <2>1, <2>2, OrgAssumption, Zenon DEF TypeOK
    <3>7. GuardKnows(job[w])'
      BY <2>1, <2>3, <3>3, <3>4, <3>6, SMTT(20) DEF GuardKnows, GuardApart, Guarding, InSwap
    <3>8. RequestOK(w, job[w])'
      BY <3>3, <3>4, <3>5, <3>7, Zenon DEF RequestOK, Counted, SpareOwner
    <3> QED
      BY <2>1, <2>3, <2>4, <2>6, <2>7, <3>3, <3>4, <3>8, WriteKeeps, Zenon DEF TypeOK
  <2> QED
    BY <2>2, <2>8, <2>9, Zenon DEF SwapOps
<1> QED
  BY <1>2, <1>3, Zenon

\* The promotion of the next owner, in either kind of seat change.
LEMMA PromoteStep ==
  ASSUME OrgInv, NEW w \in Workers, Promote(w) \/ InsertSeat(w)
  PROVE  OrgInv'
<1>1. job[w].at \in {"promote", "insertSeat"} /\ UNCHANGED <<org, nom, invite, live, calls, mix>>
  BY Zenon DEF Promote, InsertSeat, At
<1>2. CASE TakeSeat(w)
  BY <1>1, <1>2, TakeSeatSwap, TakeSeatTransfer, Zenon
<1>3. CASE Done(w) /\ UNCHANGED role
  BY <1>1, <1>3, DoneKeeps, Zenon DEF tables
<1> QED
  BY <1>2, <1>3, Zenon DEF Promote, InsertSeat

-----------------------------------------------------------------------------
\* Every step of every request preserves the invariant, so it holds in every
\* reachable state, whatever requests come together.
THEOREM OrgInvariance == Spec => []OrgInv
<1>1. ASSUME OrgInv, [Next]_vars PROVE OrgInv'
  <2>1. ASSUME NEW w \in Workers, Call(w) PROVE OrgInv'
    BY <1>1, <2>1, CallStep, Zenon
  <2>2. ASSUME NEW w \in Workers, Step(w) PROVE OrgInv'
    <3>1. CASE \/ ResolveCaller(w) \/ FindOrgBySlug(w) \/ GetMembership(w)
               \/ GetTarget(w) \/ CountOwners(w) \/ DeleteMembership(w)
      BY <1>1, <3>1, ResolveCallerStep, FindOrgBySlugStep, GetMembershipStep, GetTargetStep,
         CountOwnersStep, DeleteMembershipStep, Zenon
    <3>2. CASE \/ Quota(w) \/ InsertOrgRow(w)
               \/ CountPending(w) \/ InsertInvitation(w) \/ RevokeInvitation(w)
               \/ FindInvitation(w) \/ Join(w) \/ StampAccepted(w)
      BY <1>1, <3>2, QuotaStep, InsertOrgRowStep, CountPendingStep, InsertInvitationStep,
         RevokeInvitationStep, FindInvitationStep, JoinStep, StampAcceptedStep, Zenon
    <3>3. CASE IsLiveUser(w) \/ UpsertNomination(w) \/ WithdrawPending(w) \/ FindPending(w)
      BY <1>1, <3>3, IsLiveUserStep, UpsertNominationStep, WithdrawPendingStep, FindPendingStep, Zenon
    <3>4. CASE \/ FindSeat(w) \/ Promote(w) \/ InsertSeat(w) \/ DemoteSnapshot(w) \/ DemoteRow(w)
               \/ Demote(w) \/ MarkAccepted(w)
      BY <1>1, <3>4, FindSeatStep, PromoteStep, DemoteSnapshotStep, DemoteRowStep, DemoteSwap,
         DemoteTransfer, MarkAcceptedStep, Zenon
    <3>5. CASE \/ FindOwned(w) \/ FindOwnedPending(w) \/ ProcessNextOrg(w) \/ SoftDelete(w)
               \/ SoftDeleteOrg(w) \/ VoidNomination(w) \/ DetachRow(w) \/ DeleteOrg(w)
      BY <1>1, <3>5, FindOwnedStep, FindOwnedPendingStep, ProcessNextOrgStep, SoftDeleteStep,
         DeletionStep, DeleteOrgStep, Zenon
    <3> QED
      BY <2>2, <3>1, <3>2, <3>3, <3>4, <3>5, Zenon DEF Step
  <2>3. ASSUME NEW w \in Workers, Fail(w) \/ Deadlock(w) PROVE OrgInv'
    BY <1>1, <2>3, FailStep, DoneKeeps, Zenon DEF Deadlock
  <2>4. CASE Crash
    BY <1>1, <2>4, CrashStep, Zenon
  <2>5. CASE UNCHANGED vars
    <3>1. UNCHANGED <<org, role, nom, invite, live, job, calls, mix>>
      BY <2>5, Zenon DEF vars, tables
    <3>2. TypeOK'
      BY <1>1, <3>1, Zenon DEF OrgInv, TypeOK
    <3>3. CapsHold'
      BY <1>1, <3>1, Zenon DEF OrgInv, CapsHold, Pending
    <3>4. Fresh' /\ Exclusive'
      BY <1>1, <3>1, Zenon DEF OrgInv, Fresh, Exclusive, At
    <3>5. ASSUME NEW w \in Workers PROVE RequestOK(w, job[w])'
      <4>1. RequestOK(w, job[w])
        BY <1>1, Zenon DEF OrgInv
      <4>2. Registers(w, job[w])' /\ Counted(job[w])'
        BY <3>1, <4>1, Zenon DEF RequestOK, Registers, Counted, Pending, Owned, NoSeatMoves
      <4>3. SpareOwner(job[w])' /\ GuardKnows(job[w])'
        BY <3>1, <4>1, Zenon DEF RequestOK, SpareOwner, SeatsApart, Owners, GuardKnows, GuardApart
      <4> QED
        BY <4>2, <4>3, Zenon DEF RequestOK
    <3> QED
      BY <3>2, <3>3, <3>4, <3>5, Zenon DEF OrgInv
  <2> QED
    BY <1>1, <2>1, <2>2, <2>3, <2>4, <2>5, Zenon DEF Next
<1> QED
  BY <1>1, InitOrg, PTL DEF Spec

\* Rows and registers keep their shapes, and row locks are held only by a seat
\* swap or a deletion between its first write and its commit, however requests end.
THEOREM OrgTypes == Spec => []TypeOK
<1>1. OrgInv => TypeOK
  BY Zenon DEF OrgInv
<1> QED
  BY <1>1, OrgInvariance, PTL

\* However many requests count at once, the caps on pending invitations and on
\* created organizations hold.
THEOREM CapsHoldAlways == Spec => []CapsHold
<1>1. OrgInv => CapsHold
  BY Zenon DEF OrgInv
<1> QED
  BY <1>1, OrgInvariance, PTL

\* The steps that write no member row.
LEMMA RoleWriters ==
  ASSUME Next
  PROVE  \/ UNCHANGED role
         \/ \E w \in Workers : \/ DeleteMembership(w) \/ InsertOrgRow(w) \/ Join(w) \/ Promote(w)
                               \/ InsertSeat(w) \/ Demote(w) \/ MarkAccepted(w) \/ DeleteOrg(w)
<1>1. CASE Crash
  BY <1>1, Zenon DEF Crash, tables
<1>2. ASSUME NEW w \in Workers, Call(w) \/ Fail(w) \/ Deadlock(w) PROVE UNCHANGED role
  BY <1>2, Zenon DEF Call, Fail, Deadlock, tables
<1>3. ASSUME NEW w \in Workers, Step(w)
      PROVE  \/ UNCHANGED role
             \/ DeleteMembership(w) \/ InsertOrgRow(w) \/ Join(w) \/ Promote(w)
             \/ InsertSeat(w) \/ Demote(w) \/ MarkAccepted(w) \/ DeleteOrg(w)
  BY <1>3, Zenon DEF Step, tables, ResolveCaller, FindOrgBySlug, GetMembership, GetTarget,
     CountOwners, Quota, CountPending, InsertInvitation, RevokeInvitation, FindInvitation,
     StampAccepted, IsLiveUser, UpsertNomination, WithdrawPending, FindPending, FindSeat,
     DemoteSnapshot, DemoteRow, LockRow, FindOwned, FindOwnedPending, ProcessNextOrg, SoftDelete,
     SoftDeleteOrg, VoidNomination, DetachRow
<1> QED
  BY <1>1, <1>2, <1>3, Zenon DEF Next

\* A write of one seat leaves the others alone.
LEMMA SeatWritten ==
  ASSUME TypeOK, NEW o, NEW u, NEW r, role' = [role EXCEPT ![o][u] = r],
         NEW p \in Orgs, NEW x \in Users
  PROVE  role'[p][x] = IF p = o /\ x = u THEN r ELSE role[p][x]
BY Zenon DEF TypeOK

\* Outside a transfer, an owner's seat is taken only by using up a nomination: no
\* interleaving of nominations, withdrawals, acceptances, deletions and failures
\* seats anyone else.
THEOREM SeatNeedsNominationHolds == Spec => SeatNeedsNomination
<1>1. ASSUME OrgInv, Next, NEW o \in Orgs, NEW u \in Users,
             org[o] # "absent", role[o][u] # "owner", role'[o][u] = "owner",
             \A w \in Workers : job[w].op = "transfer" => job[w].at \notin {"promote", "insertSeat"}
      PROVE  nom[o] = u /\ nom'[o] = None
  <2>1. TypeOK
    BY <1>1, Zenon DEF OrgInv
  <2>2. PICK w \in Workers : \/ DeleteMembership(w) \/ InsertOrgRow(w) \/ Join(w) \/ Promote(w)
                             \/ InsertSeat(w) \/ Demote(w) \/ MarkAccepted(w) \/ DeleteOrg(w)
    BY <1>1, RoleWriters, Zenon
  <2>3. Registers(w, job[w])
    BY <1>1, Request, Zenon
  <2>4. ASSUME DeleteMembership(w) PROVE FALSE
    <3>1. role' = [role EXCEPT ![job[w].org][job[w].target] = "none"]
      BY <2>4, Zenon DEF DeleteMembership
    <3> QED
      BY <1>1, <2>1, <3>1, SeatWritten
  <2>5. ASSUME InsertOrgRow(w) PROVE FALSE
    <3>1. role' = [role EXCEPT ![job[w].org][job[w].by] = "owner"] /\ org[job[w].org] = "absent"
      BY <1>1, <2>5, Zenon DEF InsertOrgRow
    <3> QED
      BY <1>1, <2>1, <3>1, SeatWritten
  <2>6. ASSUME Join(w) PROVE FALSE
    <3>1. role' = [role EXCEPT ![job[w].org][job[w].by] = job[w].mine] /\ job[w].at = "join"
      BY <1>1, <2>6, Zenon DEF Join, At
    <3>2. job[w].mine # "owner"
      BY <2>3, <3>1, Zenon DEF Registers
    <3> QED
      BY <1>1, <2>1, <3>1, <3>2, SeatWritten
  <2>7. ASSUME Promote(w) \/ InsertSeat(w) PROVE FALSE
    BY <1>1, <2>7, Zenon DEF Promote, InsertSeat, At, TakeSeat, InTransaction
  <2>8. ASSUME Demote(w) PROVE FALSE
    <3>1. PICK down : role' = [role EXCEPT ![job[w].org] =
                                 [v \in Users |-> IF v \in down THEN "admin" ELSE @[v]]]
      BY <1>1, <2>8, Zenon DEF Demote, Become
    <3> QED
      BY <1>1, <2>1, <3>1, Zenon DEF TypeOK
  <2>9. ASSUME DeleteOrg(w) PROVE FALSE
    <3>1. role' = [role EXCEPT ![job[w].org] =
                     [v \in Users |-> IF v \in job[w].locks THEN "none" ELSE @[v]]]
      BY <2>9, Zenon DEF DeleteOrg, Become
    <3> QED
      BY <1>1, <2>1, <3>1, Zenon DEF TypeOK
  <2>10. CASE MarkAccepted(w)
    <3>1. /\ nom[job[w].org] = job[w].target /\ nom' = [nom EXCEPT ![job[w].org] = None]
          /\ role' = Swapped(w)
      BY <1>1, <2>10, Zenon DEF MarkAccepted
    <3>2. o = job[w].org /\ u = job[w].target
      BY <1>1, <2>1, <3>1, Zenon DEF Swapped, TypeOK
    <3> QED
      BY <1>1, <2>1, <3>1, <3>2, Zenon DEF TypeOK
  <2> QED
    BY <2>2, <2>4, <2>5, <2>6, <2>7, <2>8, <2>9, <2>10, Zenon
<1>2. OrgInv /\ [Next]_vars =>
        [\A o \in Orgs, u \in Users :
           /\ org[o] # "absent" /\ role[o][u] # "owner" /\ role'[o][u] = "owner"
           /\ \A w \in Workers : job[w].op = "transfer" => job[w].at \notin {"promote", "insertSeat"}
           => nom[o] = u /\ nom'[o] = None]_vars
  BY <1>1, Zenon
<1> QED
  BY <1>2, OrgInvariance, PTL DEF Spec, SeatNeedsNomination

\* Where removals and transfers are kept apart from other changes of a seat, no
\* live organization loses its last owner, whatever fails between two statements.
THEOREM KeepsAnOwnerHolds == Spec => KeepsAnOwner
<1>1. ASSUME OrgInv, Next, SeatsApart, NEW o \in Orgs, Owners(o) # {}, org'[o] = "live"
      PROVE  Owners(o)' # {}
  <2>1. TypeOK
    BY <1>1, Zenon DEF OrgInv
  <2>2. CASE UNCHANGED role
    BY <1>1, <2>2, Zenon DEF Owners
  <2>3. ASSUME NEW w \in Workers,
               \/ DeleteMembership(w) \/ InsertOrgRow(w) \/ Join(w) \/ Promote(w)
               \/ InsertSeat(w) \/ Demote(w) \/ MarkAccepted(w) \/ DeleteOrg(w)
        PROVE  Owners(o)' # {}
    <3>1. Registers(w, job[w]) /\ SpareOwner(job[w])
      BY <1>1, Request, Zenon DEF RequestOK
    <3>2. PICK u \in Users : role[o][u] = "owner" /\ role \in [Orgs -> [Users -> Seats]]
      BY <1>1, <2>1, Zenon DEF Owners, TypeOK
    <3>3. SUFFICES \E v \in Users : role'[o][v] = "owner"
      BY Zenon DEF Owners
    <3>4. CASE DeleteMembership(w)
      <4>1. job[w].at = "delete" /\ role' = [role EXCEPT ![job[w].org][job[w].target] = "none"]
        BY <3>4, Zenon DEF DeleteMembership, At
      <4>2. o = job[w].org => \E v \in Users : role[o][v] = "owner" /\ v # job[w].target
        <5>1. org'[o] = org[o]
          BY <3>4, Zenon DEF DeleteMembership
        <5> QED
          BY <1>1, <3>1, <4>1, <5>1, Zenon DEF SpareOwner, Owners
      <4> QED
        BY <2>1, <3>2, <4>1, <4>2, SeatWritten
    <3>5. CASE InsertOrgRow(w)
      <4>1. UNCHANGED role \/ role' = [role EXCEPT ![job[w].org][job[w].by] = "owner"]
        BY <3>5, Zenon DEF InsertOrgRow
      <4>2. role'[o][u] = "owner"
        BY <3>2, <4>1
      <4> QED
        BY <3>2, <4>2, Zenon
    <3>6. CASE Join(w)
      <4>1. \/ UNCHANGED role
            \/ /\ role[job[w].org][job[w].by] = "none"
               /\ role' = [role EXCEPT ![job[w].org][job[w].by] = job[w].mine]
        BY <3>6, Zenon DEF Join
      <4>2. role'[o][u] = "owner"
        BY <3>2, <4>1
      <4> QED
        BY <3>2, <4>2, Zenon
    <3>7. CASE Promote(w) \/ InsertSeat(w)
      <4>1. UNCHANGED role \/ role' = [role EXCEPT ![job[w].org][job[w].target] = "owner"]
        BY <3>7, Zenon DEF Promote, InsertSeat, TakeSeat
      <4>2. role'[o][u] = "owner"
        BY <3>2, <4>1
      <4> QED
        BY <3>2, <4>2, Zenon
    <3>8. CASE Demote(w)
      <4>1. job[w].at = "demoting" /\ (InTransaction(w) => UNCHANGED role)
        BY <3>8, Zenon DEF Demote, At
      <4>2. CASE job[w].op = "transfer"
        <5>1. o = job[w].org => job[w].target \in Owners(o) /\ job[w].target \notin job[w].locks
          <6>1. org'[o] = org[o]
            BY <3>8, Zenon DEF Demote
          <6> QED
            BY <1>1, <3>1, <4>1, <4>2, <6>1, Zenon DEF SpareOwner
        <5>2. PICK v : v = IF o = job[w].org THEN job[w].target ELSE u
          BY Zenon
        <5>3. v \in Users /\ role[o][v] = "owner" /\ (o = job[w].org => v \notin job[w].locks)
          BY <3>2, <5>1, <5>2, Zenon DEF Owners
        <5>4. role'[o][v] = "owner"
          <6>1. role' = [role EXCEPT ![job[w].org] =
                           [x \in Users |-> IF x \in job[w].locks THEN "admin" ELSE @[x]]]
            BY <3>8, <4>2, Zenon DEF Demote, InTransaction, Become
          <6> QED
            BY <3>2, <5>3, <6>1, Zenon
        <5> QED
          BY <5>3, <5>4, Zenon
      <4> QED
        BY <3>2, <4>1, <4>2, Zenon DEF InTransaction
    <3>9. CASE MarkAccepted(w)
      <4>1. job[w].at = "mark" /\ (UNCHANGED role \/ role' = Swapped(w))
        BY <3>9, Zenon DEF MarkAccepted, At
      <4>2. job[w].target \in Users
        BY <3>1, <4>1, Zenon DEF Registers, TargetKnown, InSwap
      <4> QED
        BY <2>1, <3>2, <4>1, <4>2, SMTT(20) DEF Swapped, TypeOK
    <3>10. CASE DeleteOrg(w)
      <4>1. org' = [org EXCEPT ![job[w].org] = "deleted"]
            /\ role' = [role EXCEPT ![job[w].org] =
                          [x \in Users |-> IF x \in job[w].locks THEN "none" ELSE @[x]]]
        BY <3>10, Zenon DEF DeleteOrg, Become
      <4>2. o # job[w].org
        BY <1>1, <2>1, <4>1, Zenon DEF TypeOK
      <4> QED
        BY <3>2, <4>1, <4>2, Zenon
    <3> QED
      BY <2>3, <3>4, <3>5, <3>6, <3>7, <3>8, <3>9, <3>10, Zenon
  <2> QED
    BY <1>1, <2>2, <2>3, RoleWriters, Zenon
<1>2. OrgInv /\ [Next]_vars =>
        [SeatsApart =>
           \A o \in Orgs : Owners(o) # {} /\ org'[o] = "live" => Owners(o)' # {}]_vars
  BY <1>1, Zenon
<1> QED
  BY <1>2, OrgInvariance, PTL DEF Spec, KeepsAnOwner

\* Only the last step of an account's deletion takes a user out of the live ones.
LEMMA LiveWriters ==
  ASSUME Next
  PROVE  UNCHANGED live \/ \E w \in Workers : SoftDelete(w)
<1>1. CASE Crash
  BY <1>1, Zenon DEF Crash, tables
<1>2. ASSUME NEW w \in Workers, Call(w) \/ Fail(w) \/ Deadlock(w) PROVE UNCHANGED live
  BY <1>2, Zenon DEF Call, Fail, Deadlock, tables
<1>3. ASSUME NEW w \in Workers, Step(w) PROVE UNCHANGED live \/ SoftDelete(w)
  BY <1>3, Zenon DEF Step, tables, ResolveCaller, FindOrgBySlug, GetMembership, GetTarget,
     CountOwners, DeleteMembership, Quota, InsertOrgRow, CountPending, InsertInvitation,
     RevokeInvitation, FindInvitation, Join, StampAccepted, IsLiveUser, UpsertNomination,
     WithdrawPending, FindPending, FindSeat, Promote, InsertSeat, DemoteSnapshot, DemoteRow, LockRow,
     Demote, MarkAccepted, FindOwned, FindOwnedPending, ProcessNextOrg, SoftDeleteOrg,
     VoidNomination, DetachRow, DeleteOrg
<1> QED
  BY <1>1, <1>2, <1>3, Zenon DEF Next

\* Where no statement fails and no nomination or transfer is made beside it, the
\* deletion of an account leaves no seat behind that a live nominee waits for.
THEOREM GuardPassesSeatHolds == Spec => GuardPassesSeat
<1>1. ASSUME OrgInv, Next, ~mix.faults, GuardApart, NEW o \in Orgs, NEW u \in live \ live',
             role[o][u] = "owner", org[o] = "live"
      PROVE  nom[o] \notin live
  <2>1. PICK w \in Workers : SoftDelete(w)
    BY <1>1, LiveWriters, Zenon
  <2>2. /\ job[w].at = "softDelete" /\ u = job[w].by
        /\ Registers(w, job[w]) /\ GuardKnows(job[w])
    BY <1>1, <2>1, Request, Zenon DEF SoftDelete, At, RequestOK
  <2>3. job[w].op = "deleteUser" /\ "softDelete" \in Guarding
    BY <2>2, Zenon DEF Registers, Serves, Guarding
  <2> QED
    BY <1>1, <2>2, <2>3, Zenon DEF GuardKnows
<1>2. OrgInv /\ [Next]_vars =>
        [~mix.faults /\ GuardApart
         => \A o \in Orgs : \A u \in live \ live' :
              role[o][u] = "owner" /\ org[o] = "live" => nom[o] \notin live]_vars
  BY <1>1, Zenon
<1> QED
  BY <1>2, OrgInvariance, PTL DEF Spec, GuardPassesSeat
=============================================================================
