--------------------------- MODULE MCTokenLifecycle ---------------------------
(***************************************************************************)
(* TLC instances of TokenLifecycle and of its refinement.                  *)
(***************************************************************************)
EXTENDS TokenRefinement, TLC

\* Pairs are generated fresh and requests are alike.
Symmetry == Permutations(Pairs) \cup Permutations(Workers)
=============================================================================
