--------------------------- MODULE MCOrgOwnership ---------------------------
(* Model-checking instances of OrgOwnership. *)
EXTENDS OrgOwnership, TLC

CONSTANTS w1, w2, o1, o2

Does(a, b) == (w1 :> a) @@ (w2 :> b)

\* The seat: nominated for, swapped by both workers and withdrawn.
SeatMix == [does |-> Does({"nominate", "accept"}, {"accept", "withdraw"}), on |-> {o1}, max |-> 4,
            owners |-> 2, faults |-> TRUE]
\* The seat given up with the account, beside a swap, where statements fail.
LeaveMix == [does |-> Does({"nominate", "accept"}, {"deleteUser"}), on |-> {o1}, max |-> 3,
             owners |-> 2, faults |-> TRUE]
\* The deletion of an organization beside a swap and a second deletion.
DeleteMix == [does |-> Does({"nominate", "accept", "deleteOrg"}, {"deleteOrg", "withdraw"}),
              on |-> {o1}, max |-> 3, owners |-> 1, faults |-> TRUE]
\* One transfer at a time beside everything that neither seats nor removes anyone.
TransferMix == [does |-> Does({"transfer"}, {"nominate", "withdraw", "invite", "join"}),
                on |-> {o1}, max |-> 3, owners |-> 1, faults |-> TRUE]
\* Invitations beside each other, acceptances and the deletion of the organization.
InviteMix == [does |-> Does({"invite", "uninvite"}, {"invite", "join", "deleteOrg"}),
              on |-> {o1}, max |-> 3, owners |-> 1, faults |-> TRUE]
\* Members who come and go, one of two owners among them.
RemovalMix == [does |-> Does({"invite", "join"}, {"remove", "evict"}), on |-> {o1}, max |-> 3,
               owners |-> 2, faults |-> TRUE]
CreateMix == [does |-> Does({"create"}, {"create", "adminCreate"}), on |-> {o1, o2}, max |-> 3, owners |-> 1,
              faults |-> TRUE]

\* An account is deleted beside an acceptance or a withdrawal, or beside a join, and
\* nothing fails.
GuardMix == [does |-> Does({"nominate", "deleteUser"}, {"accept", "withdraw"}), on |-> {o1}, max |-> 4,
             owners |-> 1, faults |-> FALSE]
GuardJoinMix == [does |-> Does({"invite", "nominate", "deleteUser"}, {"join"}), on |-> {o1}, max |-> 4,
                 owners |-> 1, faults |-> FALSE]

AllMixes == {SeatMix, LeaveMix, DeleteMix, TransferMix, InviteMix, RemovalMix, CreateMix,
             GuardMix, GuardJoinMix}

RemoveMixes == {[does |-> Does({"nominate", "accept"}, {"remove"}), on |-> {o1}, max |-> 3,
                 owners |-> 1, faults |-> FALSE]}

Symmetry == Permutations(Users)
=============================================================================
