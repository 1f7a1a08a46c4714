------------------------- MODULE TokenCascadeProofs -------------------------
(***************************************************************************)
(* A family cascade that begins with no rotation of the family in flight   *)
(* is final, for every number of pairs and concurrent requests and with    *)
(* failing statements, crashes and sweeps.  The first statement leaves the *)
(* family dead, a dead family stays dead (DeadFamilyStep), the second      *)
(* statement reaches every access token that is still accepted             *)
(* (AccessReached), and no later step brings one back.                     *)
(***************************************************************************)
EXTENDS TokenCascade, TokenLifecycleProofs

\* A cascade works on the family of a generated pair.
CascadeRequestInv ==
  \A w \in Workers :
    pc[w] \in {"cascadeRefresh", "cascadeAccess"} => grant[w] \in Pairs /\ Minted(grant[w])

\* Between its two statements a quiet cascade has left its family dead.
QuietInv ==
  /\ quiet \subseteq Workers
  /\ \A w \in quiet : pc[w] = "cascadeAccess" /\ FamilyDead(grant[w])

\* After both the family is dead, and no access token of it is accepted.
FinalInv ==
  \A f \in cascadedQuiet : f \in Pairs /\ Minted(f) /\ FamilyDead(f) /\ FamilyRevoked(f)

\* The inductive invariant of the observer, on top of IInv.
CascadeInv == CascadeRequestInv /\ QuietInv /\ FinalInv

-----------------------------------------------------------------------------
\* What one step can add to the accepted access tokens: a row becomes live only
\* by being saved, and time does not run back.
AccessFromSaves ==
  /\ now <= now'
  /\ \A q \in Pairs :
       ats'[q] = "live" => ats[q] = "live" \/ \E w \in Workers : Saving(w) /\ pair[w] = q

\* The first statement of the cascade, run by w.
FirstStatement(w) ==
  /\ pc[w] = "cascadeRefresh"
  /\ rts' = Revoked(rts, FamilyRows(grant[w]))
  /\ UNCHANGED data
  /\ \A v \in Workers : v # w => pc'[v] = pc[v] /\ grant'[v] = grant[v] /\ pair'[v] = pair[v]

\* How a request comes to a cascade: with the family of a generated pair, then
\* through the first statement, which a new request never jumps.
CascadesFromFamilies ==
  \A w \in Workers :
    /\ pc'[w] = "cascadeRefresh" =>
         \/ pc[w] = "cascadeRefresh" /\ grant'[w] = grant[w]
         \/ \E p \in Pairs : Minted(p) /\ data[p].fam # None /\ grant'[w] = data[p].fam
    /\ pc'[w] = "cascadeAccess" =>
         /\ grant'[w] = grant[w]
         /\ pc[w] = "cascadeAccess" \/ FirstStatement(w)
    /\ pc[w] = "cascadeAccess" /\ pc'[w] = "idle" => UNCHANGED <<now, data>>

\* Every step satisfies these two conditions: steps that generate a pair or save one.
LEMMA IssueCascadeFacts ==
  ASSUME IInv, NEW w \in Workers,
         \/ ExchangeCodeForToken(w) \/ RefreshAccessToken(w)
         \/ SaveTokenPair(w) \/ SaveAccessToken(w)
         \/ \E c \in Codes : ConsumeAuthCode(w, c)
         \/ \E p \in Pairs, client \in Clients, user \in Users :
              SocialLogin(w, p, client, user) \/ ClientCredentials(w, p, client, user)
  PROVE  AccessFromSaves /\ CascadesFromFamilies
<1> USE DEF IInv, TypeOK, AccessFromSaves, CascadesFromFamilies, Generate, Goto, Reply, request
<1>1. CASE ExchangeCodeForToken(w)
  BY <1>1 DEF ExchangeCodeForToken
<1>2. CASE RefreshAccessToken(w)
  BY <1>2 DEF RefreshAccessToken
<1>3. CASE SaveTokenPair(w)
  BY <1>3 DEF SaveTokenPair, Saving
<1>4. CASE SaveAccessToken(w)
  BY <1>4 DEF SaveAccessToken, Saving
<1>5. CASE \E c \in Codes : ConsumeAuthCode(w, c)
  BY <1>5 DEF ConsumeAuthCode
<1>6. CASE \E p \in Pairs, client \in Clients, user \in Users :
              SocialLogin(w, p, client, user) \/ ClientCredentials(w, p, client, user)
  BY <1>6, SMTT(20) DEF SocialLogin, ClientCredentials
<1> QED
  BY <1>1, <1>2, <1>3, <1>4, <1>5, <1>6

\* Steps of a refresh, of a cascade and of a revocation.
LEMMA RevokeCascadeFacts ==
  ASSUME IInv, NEW w \in Workers,
         \/ DetectReuse(w) \/ RevokeTokenFamilyRefresh(w) \/ RevokeTokenFamilyAccess(w)
         \/ RevokeAccessToken(w) \/ FindPairedRefresh(w) \/ RevokeAccessFallback(w)
         \/ \E p \in Pairs : \/ AtomicRevokeRefreshToken(w, p)
                             \/ RevokeRequest(w, p) \/ RevokeRefreshToken(w, p)
  PROVE  AccessFromSaves /\ CascadesFromFamilies
<1> USE DEF IInv, TypeOK, AccessFromSaves, CascadesFromFamilies, Goto, Reply, Revoked, request, tables
<1>1. CASE DetectReuse(w)
  BY <1>1 DEF DetectReuse, RequestInv
<1>2. CASE RevokeTokenFamilyRefresh(w)
  BY <1>2 DEF RevokeTokenFamilyRefresh, FirstStatement
<1>3. CASE RevokeTokenFamilyAccess(w)
  BY <1>3 DEF RevokeTokenFamilyAccess
<1>4. CASE RevokeAccessToken(w)
  BY <1>4, SMTT(20) DEF RevokeAccessToken
<1>5. CASE FindPairedRefresh(w)
  BY <1>5 DEF FindPairedRefresh, RequestInv
<1>6. CASE RevokeAccessFallback(w)
  BY <1>6, SMTT(20) DEF RevokeAccessFallback
<1>7. CASE \E p \in Pairs : AtomicRevokeRefreshToken(w, p) \/ RevokeRequest(w, p) \/ RevokeRefreshToken(w, p)
  BY <1>7 DEF AtomicRevokeRefreshToken, RevokeRequest, RevokeRefreshToken
<1> QED
  BY <1>1, <1>2, <1>3, <1>4, <1>5, <1>6, <1>7, SMTT(20)

\* All steps of TokenLifecycle.
LEMMA CascadeFacts ==
  ASSUME IInv, [Next]_vars
  PROVE  AccessFromSaves /\ CascadesFromFamilies
<1> USE DEF AccessFromSaves, CascadesFromFamilies
<1>1. ASSUME NEW w \in Workers, Arrive(w) \/ Answer(w)
      PROVE  AccessFromSaves /\ CascadesFromFamilies
  BY <1>1, IssueCascadeFacts, RevokeCascadeFacts, Zenon DEF Arrive, Answer
<1>2. CASE \E c \in Codes, client \in Clients, user \in Users : GenerateAuthorizationCode(c, client, user)
  BY <1>2 DEF GenerateAuthorizationCode, request, IInv, TypeOK
<1>3. CASE PurgeExpired
  BY <1>3 DEF PurgeExpired, PurgeCodes, PurgeAccess, PurgeRefresh, request, IInv, TypeOK
<1>4. CASE Crash \/ Tick \/ UNCHANGED vars
  BY <1>4 DEF Crash, Tick, vars, tables, request, IInv, TypeOK
<1> QED
  BY <1>1, <1>2, <1>3, <1>4, Zenon DEF Next

-----------------------------------------------------------------------------
\* A generated pair stays generated.
LEMMA MintedStays ==
  ASSUME IInv, [Next]_vars, NEW p \in Pairs, Minted(p)
  PROVE  Minted(p)'
  BY StepFacts, Zenon DEF RowsFromSaves, Minted

\* The first statement leaves the family dead when no rotation of it is in flight.
LEMMA FirstStatementKills ==
  ASSUME NEW w \in Workers, NEW f \in Pairs, f = grant[w], FirstStatement(w),
         pc'[w] = "cascadeAccess", ~InFlight(f)
  PROVE  FamilyDead(f)'
<1>1. ASSUME NEW p \in Pairs, Minted(p)', data'[p].fam = f
      PROVE  rts'[p] # "live"
  BY <1>1, Zenon DEF FirstStatement, Revoked, FamilyRows, Minted
<1>2. ASSUME NEW v \in Workers
      PROVE  /\ pc'[v] = "rotating" => data'[grant'[v]].fam # f
             /\ pc'[v] = "saving" => data'[pair'[v]].fam # f
  BY Zenon DEF FirstStatement, InFlight
<1> QED
  BY <1>1, <1>2, Zenon DEF FamilyDead

\* No access token of a dead family becomes accepted again.
LEMMA RevokedStays ==
  ASSUME IInv, IInv', [Next]_vars, NEW f \in Pairs, Minted(f), FamilyDead(f), FamilyRevoked(f)
  PROVE  FamilyRevoked(f)'
<1>1. RowsFromSaves /\ AccessFromSaves
  BY StepFacts, CascadeFacts, Zenon
<1>2. FamilyDead(f)'
  BY DeadFamilyStep, Zenon
<1> SUFFICES ASSUME NEW p \in Pairs, Minted(p)', data'[p].fam = f, AccessActive(p)'
             PROVE  FALSE
  BY <1>2, Zenon DEF FamilyRevoked, FamilyDead
<1>3. ats'[p] = "live" /\ now' <= AccessExp(p)'
  BY Zenon DEF AccessActive
<1>4. CASE ats[p] = "live"
  <2>1. Minted(p) /\ data'[p] = data[p]
    BY <1>1, <1>4, Zenon DEF RowsFromSaves, IInv, RowInv
  <2>2. now <= AccessExp(p)
    <3>1. now \in Nat /\ now' \in Nat /\ AccessExp(p) \in Nat /\ AccessExp(p)' = AccessExp(p)
      BY <2>1, TtlAssumption DEF IInv, TypeOK, PairInfo, Minted, AccessExp
    <3> QED
      BY <1>1, <1>3, <3>1 DEF AccessFromSaves
  <2> QED
    BY <1>4, <2>1, <2>2, Zenon DEF FamilyRevoked, AccessActive
<1>5. ASSUME NEW w \in Workers, Saving(w), pair[w] = p
      PROVE  FALSE
  <2>1. Minted(p) /\ data'[p] = data[p] /\ data[p].refresh = (pc[w] = "saving")
    BY <1>1, <1>5 DEF RowsFromSaves, IInv, RequestInv
  <2>2. data[p].fam = f /\ f # None /\ data[p].refresh
    BY <2>1, NoneAssumption, Zenon DEF IInv, RowInv
  <2> QED
    BY <1>5, <2>1, <2>2, ZenonT(30) DEF Saving, FamilyDead
<1> QED
  BY <1>1, <1>3, <1>4, <1>5, Zenon DEF AccessFromSaves

\* The second statement leaves a dead family revoked.
LEMMA CompletionRevokes ==
  ASSUME IInv, [Next]_vars, NEW w \in Workers, NEW f \in Pairs, f = grant[w],
         Completes(w), Minted(f), FamilyDead(f)
  PROVE  FamilyRevoked(f)'
<1>1. UNCHANGED <<now, data>> /\ ats' = Revoked(ats, FamilyRows(f))
  BY CascadeFacts, Zenon DEF CascadesFromFamilies, Completes
<1>2. FamilyDead(f)' /\ f # None
  BY DeadFamilyStep, NoneAssumption, Zenon
<1> SUFFICES ASSUME NEW p \in Pairs, Minted(p)', data'[p].fam = f, AccessActive(p)'
             PROVE  FALSE
  BY <1>2, Zenon DEF FamilyRevoked, FamilyDead
<1>3. ats[p] = "live" /\ p \notin FamilyRows(f)
  BY <1>1, Zenon DEF AccessActive, Revoked
<1>4. AccessActive(p) /\ data[p].fam = f
  BY <1>1, <1>3, Zenon DEF AccessActive, AccessExp, Minted
<1> QED
  BY <1>2, <1>3, <1>4, AccessReached, Zenon DEF CascadeReachesAccess

-----------------------------------------------------------------------------
\* The observer's invariant is kept by every step.
LEMMA CascadeInvStep ==
  ASSUME IInv, IInv', CascadeInv, [CascadeNext]_<<vars, observer>>
  PROVE  CascadeInv'
<1> USE DEF CascadeInv
<1>1. [Next]_vars
  BY Zenon DEF CascadeNext
<1>2. CascadesFromFamilies
  BY <1>1, CascadeFacts, Zenon
<1>3. CascadeRequestInv'
  <2> SUFFICES ASSUME NEW w \in Workers, pc'[w] \in {"cascadeRefresh", "cascadeAccess"}
               PROVE  grant'[w] \in Pairs /\ Minted(grant[w])'
    BY Zenon DEF CascadeRequestInv
  <2>1. grant'[w] \in Pairs
    BY Zenon DEF IInv, RequestInv
  <2>2. CASE pc[w] \in {"cascadeRefresh", "cascadeAccess"} /\ grant'[w] = grant[w]
    <3>1. ASSUME NEW f \in Pairs, f = grant[w] PROVE Minted(f)'
      BY <1>1, <2>2, <3>1, MintedStays, Zenon DEF CascadeRequestInv
    <3> QED
      BY <2>1, <2>2, <3>1, Zenon DEF Minted
  <2>3. ASSUME NEW p \in Pairs, Minted(p), data[p].fam # None, grant'[w] = data[p].fam
        PROVE  Minted(grant[w])'
    <3>1. ASSUME NEW f \in Pairs, f = data[p].fam PROVE Minted(f)'
      BY <1>1, <2>3, <3>1, MintedStays, Zenon DEF IInv, RowInv
    <3> QED
      BY <2>1, <2>3, <3>1, Zenon DEF Minted
  <2> QED
    BY <1>2, <2>1, <2>2, <2>3, Zenon DEF CascadesFromFamilies, FirstStatement
<1>4. ASSUME NEW f \in cascadedQuiet
      PROVE  f \in Pairs /\ Minted(f)' /\ FamilyDead(f)' /\ FamilyRevoked(f)'
  BY <1>1, MintedStays, DeadFamilyStep, RevokedStays, Zenon DEF FinalInv
<1>5. CASE Observe
  <2>1. QuietInv'
    <3> SUFFICES ASSUME NEW w \in Workers, pc'[w] = "cascadeAccess",
                        IF pc[w] = "cascadeAccess" THEN w \in quiet ELSE ~InFlight(grant[w])
                 PROVE  FamilyDead(grant[w])'
      BY <1>5, Zenon DEF Observe, QuietInv
    <3>1. grant'[w] = grant[w] /\ grant[w] \in Pairs /\ Minted(grant[w])
      BY <1>2, Zenon DEF CascadesFromFamilies, FirstStatement, CascadeRequestInv
    <3>2. ASSUME NEW f \in Pairs, f = grant[w] PROVE FamilyDead(f)'
      BY <1>1, <1>2, <3>1, <3>2, DeadFamilyStep, FirstStatementKills, Zenon DEF CascadesFromFamilies, QuietInv
    <3> QED
      BY <3>1, <3>2, Zenon DEF FamilyDead
  <2>2. ASSUME NEW w \in quiet, Completes(w), NEW f \in Pairs, f = grant[w]
        PROVE  Minted(f)' /\ FamilyDead(f)' /\ FamilyRevoked(f)'
    <3>1. w \in Workers /\ Minted(f) /\ FamilyDead(f)
      BY <2>2, Zenon DEF QuietInv, CascadeRequestInv
    <3> QED
      BY <1>1, <2>2, <3>1, MintedStays, DeadFamilyStep, CompletionRevokes, Zenon
  <2>3. \A w \in quiet : Completes(w) => grant[w] \in Pairs
    BY Zenon DEF QuietInv, CascadeRequestInv
  <2>4. FinalInv'
    BY <1>4, <1>5, <2>2, <2>3, Zenon DEF Observe, FinalInv
  <2> QED
    BY <1>3, <2>1, <2>4, Zenon
<1>6. CASE UNCHANGED <<vars, observer>>
  <2>1. FinalInv'
    BY <1>4, <1>6, Zenon DEF FinalInv, observer
  <2>2. QuietInv'
    BY <1>6 DEF QuietInv, FamilyDead, Minted, vars, tables, request, observer
  <2> QED
    BY <1>3, <2>1, <2>2, Zenon
<1> QED
  BY <1>5, <1>6, Zenon DEF CascadeNext

\* A cascade that began with no rotation of its family in flight leaves the family
\* without a live token, then and ever after: for every number of pairs and requests,
\* whatever fails, crashes, expires or is swept.
THEOREM QuietCascadeHolds == CascadeSpec => []QuietCascadeIsFinal
<1>1. CascadeInit => IInv /\ CascadeInv
  BY InitIInv, Zenon DEF CascadeInit, CascadeInv, CascadeRequestInv, QuietInv, FinalInv, Init
<1>2. IInv /\ CascadeInv /\ [CascadeNext]_<<vars, observer>> => (IInv /\ CascadeInv)'
  BY NextPreserves, CascadeInvStep, Zenon DEF CascadeNext
<1>3. CascadeInv => QuietCascadeIsFinal
  BY Zenon DEF CascadeInv, FinalInv, QuietCascadeIsFinal
<1> QED
  BY <1>1, <1>2, <1>3, PTL DEF CascadeSpec
=============================================================================
