---------------------------- MODULE TokenCascade ----------------------------
(***************************************************************************)
(* Family revocation.  An observer of TokenLifecycle remembers the         *)
(* families whose revokeTokenFamily ran both its statements, and whether a *)
(* rotation of the family was in flight when the first one ran.  It reads  *)
(* the behaviour and never restricts it.                                   *)
(***************************************************************************)
EXTENDS TokenLifecycle

VARIABLES
  quiet,          \* requests whose cascade began with no rotation in flight
  cascaded,       \* families whose cascade completed
  cascadedQuiet   \* ... that had begun quiet

observer == <<quiet, cascaded, cascadedQuiet>>

\* A rotation of family f has won its CAS and not yet saved its pair.
InFlight(f) ==
  \E w \in Workers :
    \/ pc[w] = "rotating" /\ data[grant[w]].fam = f
    \/ pc[w] = "saving" /\ data[pair[w]].fam = f

\* Request w completes the second statement of revokeTokenFamily.
Completes(w) ==
  /\ pc[w] = "cascadeAccess" /\ pc'[w] = "idle"
  /\ ats' = Revoked(ats, FamilyRows(grant[w]))

Observe ==
  /\ quiet' = {w \in Workers : /\ pc'[w] = "cascadeAccess"
                               /\ IF pc[w] = "cascadeAccess" THEN w \in quiet
                                                             ELSE ~InFlight(grant[w])}
  /\ cascaded' = cascaded \cup {grant[w] : w \in {v \in Workers : Completes(v)}}
  /\ cascadedQuiet' = cascadedQuiet \cup {grant[w] : w \in {v \in quiet : Completes(v)}}

CascadeInit == Init /\ quiet = {} /\ cascaded = {} /\ cascadedQuiet = {}
CascadeNext == Next /\ Observe
CascadeSpec == CascadeInit /\ [][CascadeNext]_<<vars, observer>>

\* No refresh token of family f can be used and no access token is accepted.
FamilyRevoked(f) ==
  \A p \in Pairs : Minted(p) /\ data[p].fam = f => rts[p] # "live" /\ ~AccessActive(p)

\* When no rotation of the family was in flight as revokeTokenFamily began, the
\* completed cascade leaves no live token in the family, then and ever after.
QuietCascadeIsFinal ==
  \A f \in cascadedQuiet : FamilyDead(f) /\ FamilyRevoked(f)

\* token-lifecycle.md section 4: presenting a revoked refresh token "cascades
\* revocation to every token in the family".  A rotation that won its CAS
\* before the cascade saves its pair after it, and that pair is live.
CascadeRevokesFamily ==
  \A f \in cascaded : FamilyRevoked(f)

=============================================================================
