---------------------------- MODULE MCTokenCache ----------------------------
(* Model-checking instances of TokenCache. *)
EXTENDS TokenCache, TLC

\* More requests when nothing fails; when everything may fail, either one request
\* more or a lifetime beyond MaxTtl.
AllSettings == {[on |-> Access,  life |-> 1, max |-> 3, faults |-> TRUE],
                [on |-> Access,  life |-> 3, max |-> 2, faults |-> TRUE],
                [on |-> Access,  life |-> 3, max |-> 4, faults |-> FALSE],
                [on |-> Refresh, life |-> 3, max |-> 4, faults |-> TRUE]}

\* Requests are interchangeable.
Symmetry == Permutations(Workers)
=============================================================================
