-------------------------- MODULE TokenStepLemmas --------------------------
(***************************************************************************)
(* The two step classes most of TokenLifecycle's steps fall into: a request *)
(* generates a pair, or rows are only revoked while one request moves on.  *)
(* The initial state satisfies the inductive invariant IInv, both classes  *)
(* preserve it, and every step of a refresh, of a family cascade and of    *)
(* the revocation endpoint is of the second.                               *)
(***************************************************************************)
EXTENDS TokenLifecycle, TLAPS

Status == {"absent", "live", "revoked"}

\* The initial state, with empty tables and no request, satisfies the invariant.
LEMMA InitIInv == Init => IInv
<1> SUFFICES ASSUME Init PROVE IInv
  OBVIOUS
<1> USE DEF Init
<1>1. TypeOK
  BY TtlAssumption, Zenon DEF TypeOK, PC
<1>2. RequestInv
  BY Zenon DEF RequestInv, Saving
<1>3. RowInv
  BY Zenon DEF RowInv, Minted
<1>4. ChainInv
  BY Zenon DEF ChainInv, Minted, Saving, Holding, SingleUse
<1>5. FamilyInv
  BY Zenon DEF FamilyInv, Minted, OneLiveRefreshPerFamily, Rotating
<1>6. StoredInv /\ ChainInherits /\ DeliveredPersisted
  BY Zenon DEF StoredInv, ChainInherits, DeliveredPersisted, Minted
<1> QED
  BY <1>1, <1>2, <1>3, <1>4, <1>5, <1>6, Zenon DEF IInv

-----------------------------------------------------------------------------
\* Where the information of a generated pair comes from: nothing (social login,
\* client_credentials), the consumed code, or the rotated refresh token.
Source(w, p, info) ==
  \/ info.parent = None /\ info.fam = None
  \/ /\ pc[w] = "consumed" /\ info.parent = grant[w]
     /\ info.client = codeInfo[grant[w]].client /\ info.user = codeInfo[grant[w]].user
     /\ info.fam = p /\ info.at <= codeInfo[grant[w]].exp
  \/ /\ pc[w] = "rotating" /\ info.parent = grant[w]
     /\ info.client = data[grant[w]].client /\ info.user = data[grant[w]].user
     /\ info.fam = data[grant[w]].fam /\ info.at <= RefreshExp(grant[w])

\* A step of w that generates a pair from such a source and changes no row.
Generates(w) ==
  \E p \in Pairs, info \in PairInfo, l \in {"saving", "savingAccess"} :
    /\ Generate(w, p, info, l)
    /\ Source(w, p, info)
    /\ info.to = info.client
    /\ info.refresh = (l = "saving")
    /\ info.fam # None => info.refresh
    /\ UNCHANGED <<now, codes, codeInfo, ats, rts, delivered>>

\* Generating a fresh pair from a grant the request holds preserves the
\* invariant: the held grant becomes the parent of exactly this pair.
LEMMA GeneratePreserves ==
  ASSUME IInv, NEW w \in Workers, Generates(w)
  PROVE  IInv'
<1> USE DEF IInv
<1>0. PICK p \in Pairs, info \in PairInfo, l \in {"saving", "savingAccess"} :
           /\ Generate(w, p, info, l)
           /\ Source(w, p, info)
           /\ info.to = info.client
           /\ info.refresh = (l = "saving")
           /\ info.fam # None => info.refresh
           /\ UNCHANGED <<now, codes, codeInfo, ats, rts, delivered>>
  BY Zenon DEF Generates
<1>1. /\ ~Minted(p)
      /\ info # None
      /\ data'[p] = info
      /\ \A q \in Pairs : q # p => data'[q] = data[q]
      /\ \A q \in Pairs : data'[q] # None <=> q = p \/ data[q] # None
      /\ pc' = [pc EXCEPT ![w] = l]
      /\ grant' = [grant EXCEPT ![w] = None]
      /\ pair' = [pair EXCEPT ![w] = p]
      /\ UNCHANGED <<now, codes, codeInfo, ats, rts, delivered>>
  BY <1>0, NoneNotRow, Zenon DEF Generate, TypeOK, Minted
<1>2. /\ pc[w] = "consumed" => grant[w] \in Codes
      /\ pc[w] = "rotating" => grant[w] \in Pairs /\ grant[w] # p
  BY <1>1, Zenon DEF RequestInv
<1>3. TypeOK'
  BY <1>0, <1>1 DEF TypeOK, PC, Generate
<1>4. RequestInv'
  BY <1>0, <1>1 DEF TypeOK, RequestInv, Saving, RowInv, Minted
<1>5. RowInv'
  BY <1>0, <1>1, <1>2 DEF RowInv, TypeOK, Minted, PairInfo, Source, RequestInv
<1>6. ChainInv'
  <2>1. ChainInv!1' /\ ChainInv!2' /\ ChainInv!3'
    BY <1>1 DEF TypeOK, ChainInv, RequestInv, Saving, Holding, Minted
  <2>2. ChainInv!4'
    BY <1>0, <1>1, <1>2, NoneAssumption DEF TypeOK, ChainInv, RequestInv, Saving, Holding, Minted, Source
  <2>3. ChainInv!5'
    BY <1>0, <1>1, <1>2, NoneAssumption DEF TypeOK, ChainInv, RequestInv, Minted, Source
  <2>4. SingleUse'
    BY <1>0, <1>1, <1>2, NoneAssumption DEF ChainInv, Holding, SingleUse, Minted, Source
  <2> QED
    BY <2>1, <2>2, <2>3, <2>4, Zenon DEF ChainInv
<1>7. FamilyInv'
  <2>1. OneLiveRefreshPerFamily'
    BY <1>1 DEF FamilyInv, OneLiveRefreshPerFamily, RowInv, Minted
  <2>2. \A v \in Workers : v # w => /\ Rotating(v)' <=> Rotating(v)
                                    /\ Rotating(v) => /\ HeadOf(v)' = HeadOf(v)
                                                      /\ HeadOf(v) \in Pairs
                                                      /\ HeadOf(v) # p
                                                      /\ Minted(HeadOf(v))
    BY <1>1 DEF TypeOK, Rotating, HeadOf, RequestInv, Saving, Minted
  <2>3. Rotating(w)' => HeadOf(w)' = p
    BY <1>1, Zenon DEF TypeOK, Rotating, HeadOf
  <2>4. info.fam = None \/ info.fam = p \/ (Rotating(w) /\ HeadOf(w) = grant[w] /\ info.fam = data[grant[w]].fam)
    BY <1>0, Zenon DEF Source, Rotating, HeadOf
  <2>5. \A q \in Pairs : Minted(q) => data[q].fam # p
    BY <1>1, NoneAssumption, Zenon DEF RowInv
  <2>6. ASSUME NEW v \in Workers, NEW q \in Pairs,
               Rotating(v)', Minted(q)', rts'[q] = "live", data'[q].fam # None
        PROVE  data'[HeadOf(v)'].fam # data'[q].fam
    <3>1. q # p /\ Minted(q) /\ rts[q] = "live" /\ data'[q] = data[q]
      BY <1>1, <2>6, Zenon DEF RowInv, Minted
    <3>2. CASE v # w
      BY <1>1, <2>2, <2>6, <3>1, <3>2 DEF FamilyInv
    <3>3. CASE v = w
      BY <1>1, <2>3, <2>4, <2>5, <2>6, <3>1, <3>3 DEF FamilyInv
    <3> QED
      BY <3>2, <3>3, Zenon
  <2>7. ASSUME NEW u \in Workers, NEW v \in Workers, u # v,
               Rotating(u)', Rotating(v)', data'[HeadOf(u)'].fam # None
        PROVE  data'[HeadOf(u)'].fam # data'[HeadOf(v)'].fam
    <3>1. CASE u # w /\ v # w
      BY <1>1, <2>2, <2>7, <3>1 DEF FamilyInv
    <3>2. CASE u = w
      BY <1>1, <2>2, <2>3, <2>4, <2>5, <2>7, <3>2 DEF FamilyInv
    <3>3. CASE v = w
      BY <1>1, <2>2, <2>3, <2>4, <2>5, <2>7, <3>3 DEF FamilyInv
    <3> QED
      BY <3>1, <3>2, <3>3, Zenon
  <2> QED
    BY <2>1, <2>6, <2>7, Zenon DEF FamilyInv
<1>8. StoredInv'
  BY <1>1, Zenon DEF StoredInv, RowInv, RefreshExp, Minted
<1>9. ChainInherits'
  BY <1>0, <1>1, <1>2, NoneAssumption DEF TypeOK, PairInfo, Grants, ChainInv, ChainInherits, RefreshExp, Minted, Source
<1>10. DeliveredPersisted'
  BY <1>1 DEF TypeOK, DeliveredPersisted, RowInv, AccessExp, RefreshExp, Minted
<1> QED
  BY <1>3, <1>4, <1>5, <1>6, <1>7, <1>8, <1>9, <1>10, Zenon

-----------------------------------------------------------------------------
\* A step that only revokes: rows may change from live to revoked, nothing is
\* inserted or deleted, and every request but w stays where it is.
OnlyRevokes(w) ==
  /\ UNCHANGED <<now, codes, codeInfo, data, delivered>>
  /\ ats' \in [Pairs -> Status] /\ rts' \in [Pairs -> Status]
  /\ \A p \in Pairs : /\ ats'[p] = ats[p] \/ (ats[p] # "absent" /\ ats'[p] = "revoked")
                      /\ rts'[p] = rts[p] \/ (rts[p] # "absent" /\ rts'[p] = "revoked")
  /\ pc' \in [Workers -> PC]
  /\ grant' \in [Workers -> Grants \cup {None}]
  /\ pair' \in [Workers -> Pairs \cup {None}]
  /\ \A v \in Workers : v # w => pc'[v] = pc[v] /\ grant'[v] = grant[v] /\ pair'[v] = pair[v]

\* The step after which w holds nothing, or works on a pair or family that it
\* may not exchange.
HoldsNothing(w) ==
  \/ pc'[w] = "idle"
  \/ /\ pc'[w] \in {"lost", "revokeAccess", "findPaired", "fallback"}
     /\ grant'[w] \in Pairs /\ Minted(grant'[w])
  \/ pc'[w] \in {"cascadeRefresh", "cascadeAccess"} /\ grant'[w] \in Pairs

\* The step by which w wins the compare-and-swap on a live refresh token.
WinsToken(w) ==
  /\ pc'[w] = "rotating" /\ ~Saving(w)
  /\ grant'[w] \in Pairs /\ Minted(grant'[w])
  /\ rts[grant'[w]] = "live" /\ rts'[grant'[w]] = "revoked"

Revokes(w) == OnlyRevokes(w) /\ (HoldsNothing(w) \/ WinsToken(w))

-----------------------------------------------------------------------------
\* Revoking rows preserves the invariant, whether w drops what it held or
\* takes the refresh token that it has just revoked.
LEMMA RevokingPreserves ==
  ASSUME IInv, NEW w \in Workers, Revokes(w)
  PROVE  IInv'
<1> USE DEF IInv, Revokes
<1>1. TypeOK'
  BY Zenon DEF TypeOK, OnlyRevokes, Status
<1>2. RequestInv'
  <2> SUFFICES ASSUME NEW v \in Workers
               PROVE  RequestInv!(v)'
    BY Zenon DEF RequestInv
  <2>1. CASE v # w
    BY <2>1 DEF OnlyRevokes, RequestInv, TypeOK, Saving, Minted
  <2>2. CASE v = w
    BY <2>2, Zenon DEF OnlyRevokes, HoldsNothing, WinsToken, Saving, Minted
  <2> QED
    BY <2>1, <2>2, Zenon
<1>3. RowInv'
  BY DEF OnlyRevokes, RowInv, Minted
<1>4. ChainInv'
  <2>1. \A v \in Workers : /\ Saving(v)' <=> v # w /\ Saving(v)
                           /\ v # w => (Holding(v)' <=> Holding(v))
    BY Zenon DEF OnlyRevokes, HoldsNothing, WinsToken, Saving, Holding
  <2>2. Holding(w)' => /\ grant'[w] \in Pairs /\ Minted(grant'[w])
                       /\ rts[grant'[w]] = "live" /\ pc'[w] = "rotating"
    BY Zenon DEF HoldsNothing, WinsToken, Holding
  <2>3. \A v \in Workers : Holding(v) => grant[v] \in Codes \/ rts[grant[v]] # "live"
    BY Zenon DEF RequestInv, Holding
  <2>4. \A u, v \in Workers : u # v /\ Holding(u)' /\ Holding(v)' => grant'[u] # grant'[v]
    BY <2>1, <2>2, <2>3, NoneAssumption DEF OnlyRevokes, ChainInv
  <2>5. \A u, v \in Workers : u # v /\ Saving(u)' /\ Saving(v)' => pair'[u] # pair'[v]
    BY <2>1 DEF OnlyRevokes, ChainInv
  <2>6. \A u, v \in Workers : Saving(u)' /\ pc'[v] = "rotating" => pair'[u] # grant'[v]
    BY <2>1, <2>2 DEF OnlyRevokes, ChainInv, RequestInv, Holding
  <2>7. \A v \in Workers, p \in Pairs : Minted(p) =>
          /\ Holding(v)' => data[p].parent # grant'[v]
          /\ Saving(v)' => data[p].parent # pair'[v]
    BY <2>1, <2>2 DEF OnlyRevokes, ChainInv
  <2>8. \A p \in Pairs : Minted(p) =>
          /\ data[p].parent \in Codes => /\ codeInfo[data[p].parent] # None
                                         /\ codes[data[p].parent] # "unused"
          /\ data[p].parent \in Pairs => /\ Minted(data[p].parent)
                                         /\ rts'[data[p].parent] # "live"
    BY DEF OnlyRevokes, ChainInv
  <2>9. SingleUse'
    BY Zenon DEF OnlyRevokes, ChainInv, SingleUse, Minted
  <2> QED
    BY <2>4, <2>5, <2>6, <2>7, <2>8, <2>9 DEF OnlyRevokes, ChainInv, Minted
<1>5. FamilyInv'
  <2>1. OneLiveRefreshPerFamily'
    BY DEF FamilyInv, OneLiveRefreshPerFamily, OnlyRevokes, Minted
  <2>2. \A v \in Workers : v # w => (Rotating(v)' <=> Rotating(v)) /\ HeadOf(v)' = HeadOf(v)
    BY Zenon DEF OnlyRevokes, Rotating, HeadOf
  <2>3. Rotating(w)' => /\ HeadOf(w)' \in Pairs /\ Minted(HeadOf(w)')
                        /\ rts[HeadOf(w)'] = "live" /\ rts'[HeadOf(w)'] = "revoked"
    BY Zenon DEF HoldsNothing, WinsToken, Rotating, HeadOf
  <2> QED
    BY <2>1, <2>2, <2>3 DEF FamilyInv, OneLiveRefreshPerFamily, OnlyRevokes, Minted
<1>6. StoredInv'
  BY Zenon DEF OnlyRevokes, StoredInv, RefreshExp, TypeOK, Status
<1>7. ChainInherits'
  BY Zenon DEF OnlyRevokes, ChainInherits, Minted
<1>8. DeliveredPersisted'
  BY Zenon DEF OnlyRevokes, DeliveredPersisted, AccessExp, RefreshExp, TypeOK
<1> QED
  BY <1>1, <1>2, <1>3, <1>4, <1>5, <1>6, <1>7, <1>8, Zenon

\* A reply that changes no table revokes nothing.
LEMMA ReplyRevokes ==
  ASSUME IInv, NEW w \in Workers, Reply(w), UNCHANGED <<now, tables>>
  PROVE  Revokes(w)
  BY Zenon DEF IInv, TypeOK, PC, Reply, tables, Revokes, OnlyRevokes, HoldsNothing, Status

\* Winning or losing the compare-and-swap on a refresh token revokes at most that token.
LEMMA AtomicRevokeRevokes ==
  ASSUME IInv, NEW w \in Workers, NEW p \in Pairs, AtomicRevokeRefreshToken(w, p)
  PROVE  Revokes(w)
<1>1. Minted(p) /\ ~Saving(w)
  BY Zenon DEF IInv, RowInv, AtomicRevokeRefreshToken, Saving
<1>2. OnlyRevokes(w)
  BY DEF IInv, TypeOK, PC, Grants, Status, AtomicRevokeRefreshToken, Revoked, Goto, OnlyRevokes
<1>3. HoldsNothing(w) \/ WinsToken(w)
  BY <1>1, Zenon DEF IInv, TypeOK, AtomicRevokeRefreshToken, Revoked, Goto, HoldsNothing, WinsToken
<1> QED
  BY <1>2, <1>3, Zenon DEF Revokes

\* Reuse detection and the two statements of the family cascade only revoke.
LEMMA CascadeRevokes ==
  ASSUME IInv, NEW w \in Workers,
         DetectReuse(w) \/ RevokeTokenFamilyRefresh(w) \/ RevokeTokenFamilyAccess(w)
  PROVE  Revokes(w)
<1> USE DEF IInv, TypeOK, PC, Grants, Status, Revoked, Goto, Reply, Revokes, OnlyRevokes, HoldsNothing
<1>1. CASE DetectReuse(w)
  <2>1. grant[w] \in Pairs /\ data[grant[w]] \in PairInfo
    BY <1>1, ZenonT(30) DEF DetectReuse, RequestInv, Minted
  <2> QED
    BY <1>1, <2>1 DEF DetectReuse, PairInfo, tables
<1>2. CASE RevokeTokenFamilyRefresh(w)
  BY <1>2 DEF RevokeTokenFamilyRefresh, RequestInv
<1>3. CASE RevokeTokenFamilyAccess(w)
  BY <1>3 DEF RevokeTokenFamilyAccess
<1> QED
  BY <1>1, <1>2, <1>3, Zenon

\* The steps of /oauth2/revoke and /oauth2/logout only revoke.
LEMMA RevocationRevokes ==
  ASSUME IInv, NEW w \in Workers,
         \/ \E p \in Pairs : RevokeRequest(w, p) \/ RevokeRefreshToken(w, p)
         \/ RevokeAccessToken(w) \/ FindPairedRefresh(w) \/ RevokeAccessFallback(w)
  PROVE  Revokes(w)
<1> USE DEF IInv, TypeOK, PC, Grants, Status, Revoked, Goto, Reply, Revokes, OnlyRevokes, HoldsNothing
<1>1. CASE \E p \in Pairs : RevokeRequest(w, p)
  BY <1>1, SMTT(20) DEF RevokeRequest, AccessActive, tables
<1>2. CASE \E p \in Pairs : RevokeRefreshToken(w, p)
  BY <1>2, SMTT(20) DEF RevokeRefreshToken, request
<1>3. CASE RevokeAccessToken(w)
  BY <1>3, SMTT(20) DEF RevokeAccessToken, RequestInv
<1>4. CASE FindPairedRefresh(w)
  <2>1. grant[w] \in Pairs /\ data[grant[w]] \in PairInfo
    BY <1>4, Zenon DEF FindPairedRefresh, RequestInv, Minted
  <2> QED
    BY <1>4, <2>1 DEF FindPairedRefresh, PairInfo
<1>5. CASE RevokeAccessFallback(w)
  BY <1>5 DEF RevokeAccessFallback
<1> QED
  BY <1>1, <1>2, <1>3, <1>4, <1>5, Zenon
=============================================================================
