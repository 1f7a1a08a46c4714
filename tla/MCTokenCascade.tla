---------------------------- MODULE MCTokenCascade ----------------------------
(***************************************************************************)
(* TLC instances of TokenCascade.                                          *)
(***************************************************************************)
EXTENDS TokenCascade, TLC

\* Pairs are generated fresh, requests are alike, and so are the clients.
Symmetry == Permutations(Pairs) \cup Permutations(Workers) \cup Permutations(Clients)
=============================================================================
