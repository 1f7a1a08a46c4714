--------------------------- MODULE SingleUseGrants ---------------------------
(***************************************************************************)
(* What the token service promises about grants.  A grant is anything a    *)
(* client may exchange for a token pair: an authorization code, or the     *)
(* refresh token of an earlier pair.  A live grant is claimed by at most   *)
(* one request; a claimed grant yields at most one pair, or is lost; no    *)
(* grant comes back.                                                       *)
(***************************************************************************)
CONSTANTS Codes, Pairs, None

VARIABLES
  state,     \* none -> live -> claimed -> redeemed, or dead
  parent     \* the grant a pair was issued for

Grants == Codes \cup Pairs

Init ==
  /\ state = [g \in Grants |-> "none"]
  /\ parent = [p \in Pairs |-> None]

\* A code is issued, or its insert is lost.
Offer(c, s) ==
  /\ state[c] = "none"
  /\ state' = [state EXCEPT ![c] = s]
  /\ UNCHANGED parent

Claim(g) ==
  /\ state[g] = "live"
  /\ state' = [state EXCEPT ![g] = "claimed"]
  /\ UNCHANGED parent

\* One fresh pair for a claimed grant.
Redeem(g, p) ==
  /\ state[g] = "claimed" /\ state[p] = "none"
  /\ state' = [state EXCEPT ![g] = "redeemed", ![p] = "pending"]
  /\ parent' = [parent EXCEPT ![p] = g]

\* A pair that no grant was exchanged for: social login, client_credentials.
Root(p) ==
  /\ state[p] = "none"
  /\ state' = [state EXCEPT ![p] = "pending"]
  /\ UNCHANGED parent

Store(p) ==
  /\ state[p] = "pending"
  /\ state' = [state EXCEPT ![p] = "live"]
  /\ UNCHANGED parent

\* Revocation, expiry, failure or crash: grants are lost, several at a time.
Drop(G) ==
  /\ \A g \in G : state[g] \in {"live", "claimed", "pending"}
  /\ state' = [g \in Grants |-> IF g \in G THEN "dead" ELSE state[g]]
  /\ UNCHANGED parent

Next ==
  \/ \E c \in Codes, s \in {"live", "dead"} : Offer(c, s)
  \/ \E g \in Grants : Claim(g)
  \/ \E g \in Grants, p \in Pairs : Redeem(g, p)
  \/ \E p \in Pairs : Root(p) \/ Store(p)
  \/ \E G \in SUBSET Grants : Drop(G)

Spec == Init /\ [][Next]_<<state, parent>>
=============================================================================
