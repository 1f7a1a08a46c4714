-------------------------- MODULE MCFrontendPages ---------------------------
(* The instance of FrontendPages that TLC checks. *)
EXTENDS FrontendPages

Symmetry == Permutations(Items)
=============================================================================
