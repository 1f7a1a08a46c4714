--------------------------- MODULE TokenRefinement ---------------------------
(***************************************************************************)
(* TokenLifecycle implements SingleUseGrants.  The state of a grant, a     *)
(* code or the refresh token of a pair, is read off its row, the requests  *)
(* in flight and the pairs generated so far.                               *)
(***************************************************************************)
EXTENDS TokenLifecycle

Known(g)    == IF g \in Codes THEN codeInfo[g] # None ELSE Minted(g)
Live(g)     == IF g \in Codes THEN codes[g] = "unused" ELSE rts[g] = "live"
Pending(g)  == \E w \in Workers : Saving(w) /\ pair[w] = g
Claimed(g)  == \E w \in Workers : Holding(w) /\ grant[w] = g
Redeemed(g) == \E p \in Pairs : Minted(p) /\ data[p].parent = g

GrantState(g) ==
  IF ~Known(g)        THEN "none"
  ELSE IF Live(g)     THEN "live"
  ELSE IF Pending(g)  THEN "pending"
  ELSE IF Claimed(g)  THEN "claimed"
  ELSE IF Redeemed(g) THEN "redeemed" ELSE "dead"

grantStates  == [g \in Grants |-> GrantState(g)]
grantParents == [p \in Pairs |-> IF Minted(p) THEN data[p].parent ELSE None]

Abstract == INSTANCE SingleUseGrants WITH state <- grantStates, parent <- grantParents

\* Every step of the token service is a step of SingleUseGrants or changes
\* nothing of it: a code or refresh token is claimed by one request, yields at
\* most one pair and never comes back.
ImplementsSingleUseGrants == Abstract!Spec
=============================================================================
