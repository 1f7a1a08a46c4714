---------------------------- MODULE OrgOwnership ----------------------------
(***************************************************************************)
(* Organizations, their members, invitations and the owner seat:           *)
(* OrgMemberService and OrganizationService over PostgreSQL, the seat swap *)
(* of OrgSuccessionRepository and the SuccessionGuard of the two account   *)
(* deletions.                                                              *)
(*                                                                         *)
(* A request is a worker that walks the callback chain of its handler; one *)
(* action is one statement. The seat swap and the deletion of an           *)
(* organization are READ COMMITTED transactions: what they wrote is        *)
(* visible to others only after the commit, the rows they wrote are locked *)
(* until then, and a statement on several rows finds them in a snapshot,   *)
(* locks them one by one and looks at each again when it has its lock.     *)
(***************************************************************************)
EXTENDS Integers, FiniteSets

CONSTANTS Users, Orgs, Workers, None,
          Mixes,         \* which requests come together, see Mix
          MaxOrgs,       \* max_orgs_per_user
          MaxPending     \* max_pending_invitations_per_org

UserOps == {"create", "remove", "invite", "uninvite", "join", "nominate", "withdraw",
            "accept", "deleteUser"}
AdminOps == {"adminCreate", "evict", "transfer", "deleteOrg"}
Targeted == {"remove", "evict", "invite", "uninvite", "nominate", "transfer"}

\* In one behaviour, each worker serves some of the operations, on some of the
\* organizations, which begin with at most `owners` owners each; there are max
\* requests in all, and statements may fail and the process may crash, or not.
Mix == [does : [Workers -> SUBSET (UserOps \cup AdminOps)], on : SUBSET Orgs, max : Nat,
        owners : Nat, faults : BOOLEAN]

ASSUME OrgAssumption ==
  /\ Mixes \subseteq Mix
  /\ MaxOrgs \in Nat /\ MaxPending \in Nat
  /\ None \notin Users \cup Orgs
  /\ IsFiniteSet(Users) /\ IsFiniteSet(Orgs)

VARIABLES org,        \* organizations: absent, live or soft-deleted
          role,       \* organization_members: the role of each user in each organization
          nom,        \* nominee of the pending nomination of each organization
          invite,     \* role offered by the pending invitation of each user
          live,       \* users that are not soft-deleted
          job,        \* the request of each worker
          calls,      \* requests made so far
          mix         \* the mix of this behaviour, which never changes

tables == <<org, role, nom, invite, live>>
vars == <<tables, job, calls, mix>>

Seats == {"none", "member", "admin", "owner"}
InSwap == {"demote", "demoting", "mark"}
Writing == InSwap \cup {"detach"}
Steps == {"idle", "caller", "org", "role", "target", "owners", "delete", "quota", "create",
          "cap", "insertInvite", "uninvite", "invitation", "join", "stamp", "user", "upsert",
          "withdraw", "pending", "seat", "promote", "insertSeat", "cascade", "void", "detach",
          "owned", "ownedPending", "walk", "softDelete"} \cup InSwap

Job == [at : Steps, op : UserOps \cup AdminOps \cup {None}, by : Users \cup {None},
        org : Orgs \cup {None}, target : Users \cup {None},
        mine : Seats,             \* a role read earlier: the caller's, or the invited one
        row : BOOLEAN,            \* the row found earlier, by its id, is still there
        todo : SUBSET Orgs,       \* the organizations the guard has yet to visit
        seen : SUBSET Users,      \* the member rows a statement has yet to lock
        locks : SUBSET Users]     \* the member rows written by the open transaction

Idle == [at |-> "idle", op |-> None, by |-> None, org |-> None, target |-> None,
         mine |-> "none", row |-> FALSE, todo |-> {}, seen |-> {}, locks |-> {}]

\* An organization created by a user has that user as the owner, invitations fill
\* in the rest; one created through the admin API has no members until a transfer,
\* and a transfer that failed half way has left a second owner.
Init ==
  /\ mix \in Mixes
  /\ org \in [Orgs -> {"absent", "live"}]
  /\ role \in [Orgs -> [Users -> Seats]]
  /\ \A o \in Orgs :
       /\ o \notin mix.on => org[o] = "absent"
       /\ org[o] = "absent" => role[o] = [u \in Users |-> "none"]
       /\ \/ role[o] = [u \in Users |-> "none"]
          \/ Cardinality({u \in Users : role[o][u] = "owner"}) \in 1..mix.owners
  /\ \A u \in Users : Cardinality({o \in Orgs : role[o][u] = "owner"}) <= MaxOrgs
  /\ nom = [o \in Orgs |-> None]
  /\ invite = [o \in Orgs |-> [u \in Users |-> "none"]]
  /\ live = Users
  /\ job = [w \in Workers |-> Idle]
  /\ calls = 0

-----------------------------------------------------------------------------
At(w, s) == job[w].at = s
GoTo(w, s) == job' = [job EXCEPT ![w].at = s]
Done(w) == job' = [job EXCEPT ![w] = Idle]
Owners(o) == {u \in Users : role[o][u] = "owner"}
IsManager(r) == r \in {"owner", "admin"}

\* The member rows of o that other open transactions have locked.
LockedFor(w, o) == UNION {job[x].locks : x \in {y \in Workers \ {w} : job[y].org = o}}

\* The next statement of w waits for a member row or its unique key.
WaitsForMember(w, x) ==
  LET j == job[w]
      k == job[x]
  IN  \/ j.at \in {"delete", "promote", "insertSeat"} /\ j.target \in k.locks
      \/ j.at = "join" /\ j.by \in k.locks
      \/ /\ j.at \in {"demoting", "detach"} /\ j.seen # {}
         /\ j.seen \subseteq LockedFor(w, j.org) /\ j.seen \cap k.locks # {}

\* The deletion of x has rewritten the slug, a unique key, and voided the
\* invitations; an insert that refers to the organization waits for it, and so does
\* a write of a voided row. The deletion waits for an earlier one, which has the
\* advisory lock, and for a swap that has inserted its seat.
WaitsForOrg(w, x) ==
  LET j == job[w]
      k == job[x]
      o == j.org
  IN  \/ /\ k.at \in {"void", "detach"}
         /\ \/ j.at = "insertInvite"
            \/ j.at = "join" /\ role[o][j.by] = "none"
            \/ j.at = "insertSeat" /\ role[o][j.target] = "none"
            \/ j.at = "uninvite" /\ invite[o][j.target] # "none"
            \/ j.at = "stamp" /\ j.row
            \/ j.at = "upsert" /\ (nom[o] = None \/ k.at = "detach")
            \/ j.at = "withdraw" /\ nom[o] # None /\ k.at = "detach"
            \/ j.at = "mark" /\ nom[o] = j.target /\ k.at = "detach"
            \/ j.at = "cascade"
      \/ j.at = "cascade" /\ k.at \in InSwap /\ k.locks # {} /\ role[o][k.target] = "none"

\* The requests that the next statement of w waits for. createOrg counts and
\* inserts under the advisory lock of the user, invitations under that of the
\* organization.
Blockers(w) ==
  {x \in Workers \ {w} :
     \/ At(w, "quota") /\ At(x, "create") /\ job[x].by = job[w].by
     \/ /\ job[x].org = job[w].org
        /\ \/ At(w, "cap") /\ At(x, "insertInvite")
           \/ WaitsForMember(w, x)
           \/ WaitsForOrg(w, x)}

\* The jobs once a member row or an invitation row of o is gone: the holders,
\* who found it earlier, will find no row of that id.
LoseRow(jobs, o, holders) ==
  [x \in Workers |-> IF x \in holders /\ jobs[x].row /\ jobs[x].org = o
                     THEN [jobs[x] EXCEPT !.row = FALSE] ELSE jobs[x]]

Call(w) ==
  /\ At(w, "idle")
  /\ calls < mix.max
  /\ calls' = calls + 1
  /\ \E op \in mix.does[w] :
     \E u \in IF op \in AdminOps THEN {None} ELSE Users :
     \E o \in IF op = "deleteUser" THEN {None} ELSE mix.on :
     \E t \in IF op \in Targeted THEN Users ELSE {None} :
       job' = [job EXCEPT ![w] = [Idle EXCEPT !.op = op, !.by = u, !.org = o, !.target = t,
                 !.at = CASE op \in UserOps      -> "caller"
                          [] op = "adminCreate"  -> "create"
                          [] OTHER               -> "org"]]
  /\ UNCHANGED <<tables, mix>>

\* A request of a soft-deleted user, or about a soft-deleted or unknown
\* organization, ends at its lookup.
ResolveCaller(w) ==
  /\ At(w, "caller")
  /\ IF job[w].by \in live
     THEN GoTo(w, CASE job[w].op = "create"     -> "quota"
                    [] job[w].op = "join"       -> "invitation"
                    [] job[w].op = "deleteUser" -> "owned"
                    [] OTHER                    -> "org")
     ELSE Done(w)
  /\ UNCHANGED <<tables, calls, mix>>

FindOrgBySlug(w) ==
  /\ At(w, "org")
  /\ IF org[job[w].org] = "live"
     THEN GoTo(w, CASE job[w].op = "accept"    -> "pending"
                    [] job[w].op = "transfer"  -> "user"
                    [] job[w].op = "evict"     -> "target"
                    [] job[w].op = "deleteOrg" -> "cascade"
                    [] OTHER                   -> "role")
     ELSE Done(w)
  /\ UNCHANGED <<tables, calls, mix>>

\* What the caller's role allows.
Allowed(j, r) ==
  CASE j.op = "nominate"              -> r = "owner" /\ j.target # j.by
    [] j.op = "withdraw"              -> r = "owner"
    [] j.op \in {"invite", "uninvite"} -> IsManager(r)
    [] j.op = "remove"                -> \/ r = "owner" /\ j.target # j.by
                                         \/ r = "admin"
                                         \/ r = "member" /\ j.target = j.by

GetMembership(w) ==
  /\ At(w, "role")
  /\ LET j == job[w]
         r == role[j.org][j.by]
     IN  IF Allowed(j, r)
         THEN job' = [job EXCEPT ![w].mine = IF j.op = "remove" THEN r ELSE @,
                                 ![w].at = CASE j.op = "nominate" -> "user"
                                             [] j.op = "withdraw" -> "withdraw"
                                             [] j.op = "invite"   -> "cap"
                                             [] j.op = "uninvite" -> "uninvite"
                                             [] j.op = "remove"   -> "target"]
         ELSE Done(w)
  /\ UNCHANGED <<tables, calls, mix>>

-----------------------------------------------------------------------------
\* removeMember, of a member and of the system administrator.
GetTarget(w) ==
  /\ At(w, "target")
  /\ LET j == job[w]
         r == role[j.org][j.target]
     IN  IF \/ r = "none"
            \/ j.op = "remove" /\ r = "owner"
            \/ j.op = "remove" /\ r = "admin" /\ j.mine = "admin" /\ j.target # j.by
         THEN Done(w)
         ELSE GoTo(w, IF r = "owner" THEN "owners" ELSE "delete")
  /\ UNCHANGED <<tables, calls, mix>>

CountOwners(w) ==
  /\ At(w, "owners")
  /\ IF Cardinality(Owners(job[w].org)) <= 1 THEN Done(w) ELSE GoTo(w, "delete")
  /\ UNCHANGED <<tables, calls, mix>>

DeleteMembership(w) ==
  /\ At(w, "delete")
  /\ LET o == job[w].org
         u == job[w].target
     IN  /\ Blockers(w) = {}
         /\ role' = [role EXCEPT ![o][u] = "none"]
         /\ job' = LoseRow([job EXCEPT ![w] = Idle], o,
                           {x \in Workers : job[x].op # "join" /\ job[x].target = u})
  /\ UNCHANGED <<org, nom, invite, live, calls, mix>>

\* Mutant: the owned organizations are counted without the lock.
QuotaUnlocked(w) ==
  /\ At(w, "quota")
  /\ IF Cardinality({o \in Orgs : role[o][job[w].by] = "owner"}) >= MaxOrgs
     THEN Done(w) ELSE GoTo(w, "create")
  /\ UNCHANGED <<tables, calls, mix>>

Quota(w) ==
  /\ At(w, "quota")
  /\ Blockers(w) = {}
  /\ IF Cardinality({o \in Orgs : role[o][job[w].by] = "owner"}) >= MaxOrgs
     THEN Done(w) ELSE GoTo(w, "create")
  /\ UNCHANGED <<tables, calls, mix>>

InsertOrgRow(w) ==
  /\ At(w, "create")
  /\ LET o == job[w].org
     IN  IF org[o] = "absent"
         THEN /\ org' = [org EXCEPT ![o] = "live"]
              /\ role' = IF job[w].op = "adminCreate" THEN role
                         ELSE [role EXCEPT ![o][job[w].by] = "owner"]
         ELSE UNCHANGED <<org, role>>
  /\ Done(w)
  /\ UNCHANGED <<nom, invite, live, calls, mix>>

Pending(o) == {u \in Users : invite[o][u] # "none"}

\* Mutant: the pending invitations are counted without the lock.
CountPendingUnlocked(w) ==
  /\ At(w, "cap")
  /\ IF Cardinality(Pending(job[w].org)) >= MaxPending THEN Done(w) ELSE GoTo(w, "insertInvite")
  /\ UNCHANGED <<tables, calls, mix>>

CountPending(w) ==
  /\ At(w, "cap")
  /\ Blockers(w) = {}
  /\ IF Cardinality(Pending(job[w].org)) >= MaxPending THEN Done(w) ELSE GoTo(w, "insertInvite")
  /\ UNCHANGED <<tables, calls, mix>>

\* A second pending invitation of the same address is a unique violation.
InsertInvitation(w) ==
  /\ At(w, "insertInvite")
  /\ Blockers(w) = {}
  /\ LET o == job[w].org
         u == job[w].target
     IN  \/ /\ invite[o][u] = "none"
            /\ \E r \in {"member", "admin"} : invite' = [invite EXCEPT ![o][u] = r]
         \/ invite[o][u] # "none" /\ UNCHANGED invite
  /\ Done(w)
  /\ UNCHANGED <<org, role, nom, live, calls, mix>>

RevokeInvitation(w) ==
  /\ At(w, "uninvite")
  /\ Blockers(w) = {}
  /\ LET o == job[w].org
         u == job[w].target
     IN  /\ invite' = [invite EXCEPT ![o][u] = "none"]
         /\ job' = LoseRow([job EXCEPT ![w] = Idle], o,
                           {x \in Workers : job[x].op = "join" /\ job[x].by = u})
  /\ UNCHANGED <<org, role, nom, live, calls, mix>>

\* acceptInvitation: look the token up, insert the member, stamp the invitation.
FindInvitation(w) ==
  /\ At(w, "invitation")
  /\ LET r == invite[job[w].org][job[w].by]
     IN  \/ r # "none" /\ job' = [job EXCEPT ![w].mine = r, ![w].row = TRUE, ![w].at = "join"]
         \/ Done(w)         \* accepted already, revoked or expired
  /\ UNCHANGED <<tables, calls, mix>>

Join(w) ==
  /\ At(w, "join")
  /\ LET o == job[w].org
         u == job[w].by
     IN  /\ Blockers(w) = {}
         /\ IF role[o][u] = "none"
            THEN role' = [role EXCEPT ![o][u] = job[w].mine] /\ GoTo(w, "stamp")
            ELSE Done(w) /\ UNCHANGED role
  /\ UNCHANGED <<org, nom, invite, live, calls, mix>>

StampAccepted(w) ==
  /\ At(w, "stamp")
  /\ Blockers(w) = {}
  /\ invite' = IF job[w].row THEN [invite EXCEPT ![job[w].org][job[w].by] = "none"] ELSE invite
  /\ Done(w)
  /\ UNCHANGED <<org, role, nom, live, calls, mix>>

-----------------------------------------------------------------------------
\* Nominations.
IsLiveUser(w) ==
  /\ At(w, "user")
  /\ LET j == job[w]
     IN  IF j.target \in live
         THEN GoTo(w, IF j.op = "nominate" THEN "upsert" ELSE "seat")
         ELSE IF j.op = "deleteUser"
              THEN job' = [job EXCEPT ![w].todo = @ \ {j.org}, ![w].at = "walk"]
              ELSE Done(w)
  /\ UNCHANGED <<tables, calls, mix>>

UpsertNomination(w) ==
  /\ At(w, "upsert")
  /\ Blockers(w) = {}
  /\ nom' = [nom EXCEPT ![job[w].org] = job[w].target]
  /\ Done(w)
  /\ UNCHANGED <<org, role, invite, live, calls, mix>>

WithdrawPending(w) ==
  /\ At(w, "withdraw")
  /\ Blockers(w) = {}
  /\ nom' = [nom EXCEPT ![job[w].org] = None]
  /\ Done(w)
  /\ UNCHANGED <<org, role, invite, live, calls, mix>>

\* Mutant: the guard is not called back when there is no nomination.
FindPendingSilent(w) ==
  /\ At(w, "pending")
  /\ LET j == job[w]
         n == nom[j.org]
     IN  \/ /\ j.op = "accept"
            /\ IF n = j.by THEN job' = [job EXCEPT ![w].target = n, ![w].at = "seat"] ELSE Done(w)
         \/ /\ j.op = "deleteUser" /\ n # None
            /\ job' = [job EXCEPT ![w].target = n, ![w].at = "user"]
  /\ UNCHANGED <<tables, calls, mix>>

\* acceptSuccession looks for the caller's nomination, the guard for any.
FindPending(w) ==
  /\ At(w, "pending")
  /\ LET j == job[w]
         n == nom[j.org]
     IN  \/ /\ j.op = "accept"
            /\ IF n = j.by THEN job' = [job EXCEPT ![w].target = n, ![w].at = "seat"] ELSE Done(w)
         \/ /\ j.op = "deleteUser"
            /\ job' = IF n # None
                      THEN [job EXCEPT ![w].target = n, ![w].at = "user"]
                      ELSE [job EXCEPT ![w].todo = @ \ {j.org}, ![w].at = "walk"]
  /\ UNCHANGED <<tables, calls, mix>>

-----------------------------------------------------------------------------
\* The seat: transferOwnership statement by statement, effectSuccession in a
\* transaction.
InTransaction(w) == job[w].op # "transfer"

FindSeat(w) ==
  /\ At(w, "seat")
  /\ IF role[job[w].org][job[w].target] # "none"
     THEN job' = [job EXCEPT ![w].row = TRUE, ![w].at = "promote"]
     ELSE GoTo(w, "insertSeat")
  /\ UNCHANGED <<tables, calls, mix>>

\* The nominee's row becomes that of an owner, in the table or in the transaction.
TakeSeat(w) ==
  LET o == job[w].org
      u == job[w].target
  IN  IF InTransaction(w)
      THEN /\ job' = [job EXCEPT ![w].locks = {u}, ![w].row = FALSE, ![w].at = "demote"]
           /\ UNCHANGED role
      ELSE /\ job' = [job EXCEPT ![w].row = FALSE, ![w].at = "demote"]
           /\ role' = [role EXCEPT ![o][u] = "owner"]

Promote(w) ==
  /\ At(w, "promote")
  /\ Blockers(w) = {}
  /\ IF job[w].row THEN TakeSeat(w) ELSE Done(w) /\ UNCHANGED role
  /\ UNCHANGED <<org, nom, invite, live, calls, mix>>

\* Mutant: the guard goes on to the next organization when the swap failed.
InsertSeatSkips(w) ==
  /\ At(w, "insertSeat")
  /\ Blockers(w) = {}
  /\ IF role[job[w].org][job[w].target] = "none" THEN TakeSeat(w)
     ELSE /\ IF job[w].op = "deleteUser"
             THEN job' = [job EXCEPT ![w].todo = @ \ {job[w].org}, ![w].at = "walk"]
             ELSE Done(w)
          /\ UNCHANGED role
  /\ UNCHANGED <<org, nom, invite, live, calls, mix>>

InsertSeat(w) ==
  /\ At(w, "insertSeat")
  /\ Blockers(w) = {}
  /\ IF role[job[w].org][job[w].target] = "none" THEN TakeSeat(w) ELSE Done(w) /\ UNCHANGED role
  /\ UNCHANGED <<org, nom, invite, live, calls, mix>>

\* Mutant: the UPDATE has lost its condition on the role.
DemoteSnapshotAll(w) ==
  /\ At(w, "demote")
  /\ job' = [job EXCEPT ![w].seen = {u \in Users : role[job[w].org][u] # "none"} \ {job[w].target},
                       ![w].at = "demoting"]
  /\ UNCHANGED <<tables, calls, mix>>

DemoteSnapshot(w) ==
  /\ At(w, "demote")
  /\ job' = [job EXCEPT ![w].seen = Owners(job[w].org) \ {job[w].target}, ![w].at = "demoting"]
  /\ UNCHANGED <<tables, calls, mix>>

\* The statement of w takes the lock of one more row and looks at it again.
LockRow(w, rows) ==
  /\ \E u \in job[w].seen \ LockedFor(w, job[w].org) :
       job' = [job EXCEPT ![w].seen = @ \ {u}, ![w].locks = @ \cup ({u} \cap rows)]
  /\ UNCHANGED <<tables, calls, mix>>

\* The rows of o once those in us have become r.
Become(o, us, r) == [role EXCEPT ![o] = [u \in Users |-> IF u \in us THEN r ELSE @[u]]]

DemoteRow(w) == At(w, "demoting") /\ LockRow(w, Owners(job[w].org))

\* Mutant: the demotion runs outside the transaction.
DemoteAutocommit(w) ==
  /\ At(w, "demoting") /\ job[w].seen = {}
  /\ role' = Become(job[w].org, job[w].locks \ {job[w].target}, "admin")
  /\ IF InTransaction(w) THEN GoTo(w, "mark") ELSE Done(w)
  /\ UNCHANGED <<org, nom, invite, live, calls, mix>>

\* No row is left: the UPDATE ends, and commits unless it is in the transaction.
Demote(w) ==
  /\ At(w, "demoting") /\ job[w].seen = {}
  /\ IF InTransaction(w)
     THEN GoTo(w, "mark") /\ UNCHANGED role
     ELSE Done(w) /\ role' = Become(job[w].org, job[w].locks, "admin")
  /\ UNCHANGED <<org, nom, invite, live, calls, mix>>

\* The committed rows of the swap.
Swapped(w) ==
  [role EXCEPT ![job[w].org] =
     [u \in Users |-> CASE u = job[w].target   -> "owner"
                        [] u \in job[w].locks \ {job[w].target} -> "admin"
                        [] OTHER               -> @[u]]]

\* An accepted caller is answered, the guard goes on to the next organization.
AfterSwap(w) ==
  IF job[w].op = "accept" THEN Done(w)
  ELSE job' = [job EXCEPT ![w].todo = @ \ {job[w].org}, ![w].locks = {}, ![w].at = "walk"]

\* Mutant: the nomination is not compared with the nominee.
MarkAnyPending(w) ==
  /\ At(w, "mark")
  /\ LET o == job[w].org
     IN  IF nom[o] # None
         THEN /\ nom' = [nom EXCEPT ![o] = None]
              /\ role' = Swapped(w)
              /\ AfterSwap(w)
         ELSE Done(w) /\ UNCHANGED <<nom, role>>
  /\ UNCHANGED <<org, invite, live, calls, mix>>

\* Mutant: the request is answered without a rollback.
MarkKeepsOpen(w) ==
  /\ At(w, "mark")
  /\ LET o == job[w].org
     IN  IF nom[o] = job[w].target
         THEN /\ nom' = [nom EXCEPT ![o] = None]
              /\ role' = Swapped(w)
              /\ AfterSwap(w)
         ELSE GoTo(w, "idle") /\ UNCHANGED <<nom, role>>
  /\ UNCHANGED <<org, invite, live, calls, mix>>

\* The nomination is marked accepted and the transaction commits; when it no
\* longer names this nominee, the transaction rolls back.
MarkAccepted(w) ==
  /\ At(w, "mark")
  /\ Blockers(w) = {}
  /\ LET o == job[w].org
     IN  IF nom[o] = job[w].target
         THEN /\ nom' = [nom EXCEPT ![o] = None]
              /\ role' = Swapped(w)
              /\ AfterSwap(w)
         ELSE Done(w) /\ UNCHANGED <<nom, role>>
  /\ UNCHANGED <<org, invite, live, calls, mix>>

-----------------------------------------------------------------------------
\* deleteAccount and deleteUser: the guard passes on the seats the user holds and
\* has nominated a successor for, then the user is soft-deleted.
FindOwned(w) ==
  /\ At(w, "owned")
  /\ LET owned == {o \in Orgs : role[o][job[w].by] = "owner"}
     IN  job' = [job EXCEPT ![w].todo = owned, ![w].at = IF owned = {} THEN "walk" ELSE "ownedPending"]
  /\ UNCHANGED <<tables, calls, mix>>

FindOwnedPending(w) ==
  /\ At(w, "ownedPending")
  /\ job' = [job EXCEPT ![w].todo = {o \in @ : nom[o] # None}, ![w].at = "walk"]
  /\ UNCHANGED <<tables, calls, mix>>

ProcessNextOrg(w) ==
  /\ At(w, "walk")
  /\ IF job[w].todo = {}
     THEN GoTo(w, "softDelete")
     ELSE \E o \in job[w].todo : job' = [job EXCEPT ![w].org = o, ![w].at = "pending"]
  /\ UNCHANGED <<tables, calls, mix>>

SoftDelete(w) ==
  /\ At(w, "softDelete")
  /\ live' = live \ {job[w].by}
  /\ Done(w)
  /\ UNCHANGED <<org, role, nom, invite, calls, mix>>

\* deleteOrg in one transaction: the slug and the invitations, then the nomination,
\* then the member rows one by one, and the commit.
SoftDeleteOrg(w) ==
  /\ At(w, "cascade")
  /\ Blockers(w) = {}
  /\ GoTo(w, "void")
  /\ UNCHANGED <<tables, calls, mix>>

VoidNomination(w) ==
  /\ At(w, "void")
  /\ job' = [job EXCEPT ![w].seen = {u \in Users : role[job[w].org][u] # "none"},
                       ![w].at = "detach"]
  /\ UNCHANGED <<tables, calls, mix>>

DetachRow(w) == At(w, "detach") /\ LockRow(w, {u \in Users : role[job[w].org][u] # "none"})

DeleteOrg(w) ==
  /\ At(w, "detach") /\ job[w].seen = {}
  /\ LET o == job[w].org
     IN  /\ org' = [org EXCEPT ![o] = "deleted"]
         /\ invite' = [invite EXCEPT ![o] = [u \in Users |-> "none"]]
         /\ nom' = [nom EXCEPT ![o] = None]
         /\ role' = Become(o, job[w].locks, "none")
         /\ job' = LoseRow([job EXCEPT ![w] = Idle], o, Workers)
  /\ UNCHANGED <<live, calls, mix>>

-----------------------------------------------------------------------------
\* PostgreSQL ends one statement of a circle of waits, and with it the transaction
\* and the request.
InCircle(w) ==
  /\ Blockers(w) # {}
  /\ \E S \in SUBSET Workers : w \in S /\ \A x \in S : Blockers(x) \cap S # {}

Deadlock(w) ==
  /\ InCircle(w)
  /\ Done(w)
  /\ UNCHANGED <<tables, calls, mix>>

\* A statement fails: no connection or a timeout. findPending and isLiveUser report
\* that as "none", so the guard skips the organization; everywhere else the request
\* ends, and with it its transaction.
Fail(w) ==
  /\ mix.faults /\ ~At(w, "idle") /\ ~At(w, "walk")
  /\ IF job[w].op = "deleteUser" /\ job[w].at \in {"pending", "user"}
     THEN job' = [job EXCEPT ![w].todo = @ \ {job[w].org}, ![w].at = "walk"]
     ELSE Done(w)
  /\ UNCHANGED <<tables, calls, mix>>

Crash ==
  /\ mix.faults
  /\ \E w \in Workers : ~At(w, "idle")
  /\ job' = [w \in Workers |-> Idle]
  /\ UNCHANGED <<tables, calls, mix>>

Step(w) ==
  \/ ResolveCaller(w) \/ FindOrgBySlug(w) \/ GetMembership(w)
  \/ GetTarget(w) \/ CountOwners(w) \/ DeleteMembership(w)
  \/ Quota(w) \/ InsertOrgRow(w)
  \/ CountPending(w) \/ InsertInvitation(w) \/ RevokeInvitation(w)
  \/ FindInvitation(w) \/ Join(w) \/ StampAccepted(w)
  \/ IsLiveUser(w) \/ UpsertNomination(w) \/ WithdrawPending(w) \/ FindPending(w)
  \/ FindSeat(w) \/ Promote(w) \/ InsertSeat(w) \/ DemoteSnapshot(w) \/ DemoteRow(w)
  \/ Demote(w) \/ MarkAccepted(w)
  \/ FindOwned(w) \/ FindOwnedPending(w) \/ ProcessNextOrg(w) \/ SoftDelete(w)
  \/ SoftDeleteOrg(w) \/ VoidNomination(w) \/ DetachRow(w) \/ DeleteOrg(w)

Next == (\E w \in Workers : Call(w) \/ Step(w) \/ Deadlock(w) \/ Fail(w)) \/ Crash

Spec == Init /\ [][Next]_vars

-----------------------------------------------------------------------------
\* Rows, registers and steps have their shapes, and only a seat swap or a deletion
\* between its first write and its commit holds row locks: no error path leaves one
\* open.
TypeOK ==
  /\ org \in [Orgs -> {"absent", "live", "deleted"}]
  /\ role \in [Orgs -> [Users -> Seats]]
  /\ nom \in [Orgs -> Users \cup {None}]
  /\ invite \in [Orgs -> [Users -> {"none", "member", "admin"}]]
  /\ live \subseteq Users
  /\ job \in [Workers -> Job]
  /\ mix \in Mixes
  /\ calls \in 0..mix.max
  /\ \A w \in Workers : job[w].locks # {} => job[w].at \in Writing

\* What moves or ends an owner's seat: with statements of its own, or in the
\* transaction of the seat swap.
LooseSeatOps == {"remove", "evict", "transfer"}
SwapOps == {"accept", "deleteUser"}

\* Outside the administrator's transfer, nobody becomes owner of an existing
\* organization except by using up a pending nomination that names that user: a
\* nominee whose nomination was overwritten, withdrawn or used meanwhile leaves
\* no trace (the predicates and the rollback of effectSuccession).
SeatNeedsNomination ==
  [][\A o \in Orgs, u \in Users :
       /\ org[o] # "absent" /\ role[o][u] # "owner" /\ role'[o][u] = "owner"
       /\ \A w \in Workers : job[w].op = "transfer" => job[w].at \notin {"promote", "insertSeat"}
       => nom[o] = u /\ nom'[o] = None]_vars

\* A removal and a transfer, which read and write in separate statements, meet no
\* other request that moves a seat; swaps may meet swaps.
SeatsApart ==
  \A w, x \in Workers :
    /\ mix.does[w] \cap LooseSeatOps # {}
    /\ mix.does[x] \cap (LooseSeatOps \cup SwapOps) # {}
    => w = x

\* A live organization that has an owner keeps one at every step: the swap and
\* the transfer promote before they demote, a failure in between errs towards two
\* owners, and the last owner is not evicted.
KeepsAnOwner ==
  [][SeatsApart =>
       \A o \in Orgs : Owners(o) # {} /\ org'[o] = "live" => Owners(o)' # {}]_vars

\* The caps hold however many requests count at once: at most MaxPending
\* invitations of an organization are pending, and while no seat is passed on
\* nobody owns more than MaxOrgs organizations (the advisory locks of
\* createInvitation and createOrg).
CapsHold ==
  /\ \A o \in Orgs : Cardinality(Pending(o)) <= MaxPending
  /\ (\A w \in Workers : mix.does[w] \cap ({"transfer"} \cup SwapOps) = {})
     => \A u \in Users : Cardinality({o \in Orgs : role[o][u] = "owner"}) <= MaxOrgs

\* The two ways in which requests of one organization come to wait for each other:
\* a deletion locks the nomination and then every member, a swap its nominee, then
\* the owners, then the nomination; and two swaps demote each other's nominee where
\* a transfer that failed half way has left two owners.
LockOrderDiffers(o) ==
  \E w, x \in Workers :
    /\ job[w].org = o /\ job[x].org = o
    /\ \/ At(w, "detach") /\ job[x].at \in {"demoting", "mark"}
       \/ w # x /\ At(w, "demoting") /\ At(x, "demoting") /\ Cardinality(Owners(o)) > 1

\* As long as a request is under way, one of them can take its next step without a
\* new request arriving, or the database has a circle of waits to break: no
\* callback chain stops without an answer and no request waits for a lock that
\* nobody will release. Requests wait in a circle only where LockOrderDiffers:
\* two swaps of an organization with one owner, whatever is nominated, withdrawn,
\* invited, removed or counted beside them, lock in the same order. A request never
\* returns to an earlier step (the guard's list only shrinks), so all are answered.
NeverStuck ==
  /\ (\E w \in Workers : ~At(w, "idle"))
     => \E w \in Workers : ~At(w, "idle") /\ (InCircle(w) \/ ENABLED Step(w))
  /\ \A w \in Workers : InCircle(w) => LockOrderDiffers(job[w].org)

\* OrgMemberService.cc:855: "owner seat is irremovable". No member's removal ends
\* the membership of an owner; only the deletion of the organization and the
\* system administrator, for one owner of several, do.
OwnerIrremovable ==
  [][\A o \in Orgs, u \in Users :
       role[o][u] = "owner" /\ role'[o][u] = "none"
       => \/ org'[o] = "deleted"
          \/ \E w \in Workers : At(w, "delete") /\ job[w].op = "evict" /\ job[w].target = u]_vars

\* No nomination and no transfer is made beside the deletion of an account.
GuardApart ==
  \A w, x \in Workers :
    mix.does[w] \cap {"nominate", "transfer"} # {} /\ "deleteUser" \in mix.does[x] => w = x

\* "Any failure fails the whole guard so the caller can abort the deletion": when
\* no statement fails and no nomination or transfer is made while an account is
\* deleted, the soft delete of an owner does not land while a nomination of a live
\* user is pending: the guard has passed the seat on, found the nomination gone,
\* or given up the deletion because the swap was rolled back.
GuardPassesSeat ==
  [][~mix.faults /\ GuardApart
     => \A o \in Orgs : \A u \in live \ live' :
          role[o][u] = "owner" /\ org[o] = "live" => nom[o] \notin live]_vars
=============================================================================
