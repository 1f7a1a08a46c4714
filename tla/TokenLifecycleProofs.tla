------------------------ MODULE TokenLifecycleProofs ------------------------
(***************************************************************************)
(* TokenLifecycle's invariants hold for every number of codes, pairs,      *)
(* clients, users and concurrent requests, every lifetime and every clock  *)
(* bound. The remaining steps preserve the inductive invariant, so it holds *)
(* in every reachable state, and the theorems follow from it.              *)
(***************************************************************************)
EXTENDS TokenStepLemmas

\* Exchanging a consumed code generates a pair or replies.
LEMMA ExchangeGenerates ==
  ASSUME IInv, NEW w \in Workers, ExchangeCodeForToken(w)
  PROVE  Generates(w) \/ Revokes(w)
<1> DEFINE c == grant[w]
           Pair(p, client) == [parent |-> c, to |-> client, client |-> codeInfo[c].client,
                               user |-> codeInfo[c].user, fam |-> p, at |-> now,
                               refresh |-> TRUE]
<1>1. /\ pc[w] = "consumed" /\ c \in Codes /\ codeInfo[c] \in CodeInfo /\ now \in Nat
      /\ UNCHANGED <<now, codes, codeInfo, ats, rts, delivered>>
  BY DEF ExchangeCodeForToken, IInv, RequestInv, TypeOK
<1>2. ASSUME NEW p \in Pairs, NEW client \in Clients,
             client = codeInfo[c].client, now <= codeInfo[c].exp,
             Generate(w, p, Pair(p, client), "saving")
      PROVE  Generates(w) \/ Revokes(w)
  <2>1. Pair(p, client) \in PairInfo
    BY <1>1, Zenon DEF CodeInfo, PairInfo, Grants
  <2>2. Source(w, p, Pair(p, client))
    BY <1>1, <1>2, Zenon DEF Source
  <2> QED
    BY Zenon, <1>1, <1>2, <2>1, <2>2 DEF Generates
<1>3. CASE Reply(w) /\ UNCHANGED data
  BY <1>1, <1>3, ReplyRevokes, Zenon DEF tables
<1> QED
  BY Zenon, <1>2, <1>3 DEF ExchangeCodeForToken

\* Rotating a refresh token that was won generates a pair or replies.
LEMMA RefreshGenerates ==
  ASSUME IInv, NEW w \in Workers, RefreshAccessToken(w)
  PROVE  Generates(w) \/ Revokes(w)
<1> DEFINE g == grant[w]
           Pair(client) == [parent |-> g, to |-> client, client |-> data[g].client,
                            user |-> data[g].user, fam |-> data[g].fam, at |-> now,
                            refresh |-> TRUE]
<1>1. /\ pc[w] = "rotating" /\ g \in Pairs /\ data[g] \in PairInfo /\ now \in Nat
      /\ UNCHANGED <<now, codes, codeInfo, ats, rts, delivered>>
  BY Zenon DEF RefreshAccessToken, IInv, RequestInv, TypeOK, Minted
<1>2. ASSUME NEW p \in Pairs, NEW client \in Clients,
             client = data[g].client, now <= RefreshExp(g),
             Generate(w, p, Pair(client), "saving")
      PROVE  Generates(w) \/ Revokes(w)
  <2>1. Pair(client) \in PairInfo
    BY <1>1, Zenon DEF PairInfo, Grants
  <2>2. Source(w, p, Pair(client))
    BY <1>1, <1>2, Zenon DEF Source
  <2> QED
    BY Zenon, <1>1, <1>2, <2>1, <2>2 DEF Generates
<1>3. CASE Reply(w) /\ UNCHANGED data
  BY <1>1, <1>3, ReplyRevokes, Zenon DEF tables
<1> QED
  BY Zenon, <1>2, <1>3 DEF RefreshAccessToken

\* Issuing without a code (social login, client_credentials) generates a pair.
LEMMA DirectGenerates ==
  ASSUME IInv, NEW w \in Workers, NEW p \in Pairs, NEW client \in Clients, NEW user \in Users,
         SocialLogin(w, p, client, user) \/ ClientCredentials(w, p, client, user)
  PROVE  Generates(w)
<1> DEFINE Pair(r) == [parent |-> None, to |-> client, client |-> client, user |-> user,
                       fam |-> None, at |-> now, refresh |-> r]
<1>1. now \in Nat /\ UNCHANGED <<now, codes, codeInfo, ats, rts, delivered>>
  BY Zenon DEF SocialLogin, ClientCredentials, IInv, TypeOK
<1>2. \A r \in BOOLEAN : Pair(r) \in PairInfo /\ Source(w, p, Pair(r))
  BY <1>1, Zenon DEF PairInfo, Source
<1>3. CASE SocialLogin(w, p, client, user)
  <2>1. Generate(w, p, Pair(TRUE), "saving")
    BY <1>3, Zenon DEF SocialLogin
  <2> QED
    BY Zenon, <1>1, <1>2, <2>1 DEF Generates
<1>4. CASE ClientCredentials(w, p, client, user)
  <2>1. Generate(w, p, Pair(FALSE), "savingAccess")
    BY <1>4, Zenon DEF ClientCredentials
  <2> QED
    BY Zenon, <1>1, <1>2, <2>1 DEF Generates
<1> QED
  BY <1>3, <1>4, Zenon

\* Issuing a code preserves the invariant: no pair can name it as parent yet.
LEMMA IssueCodePreserves ==
  ASSUME IInv, NEW c \in Codes, NEW client \in Clients, NEW user \in Users,
         GenerateAuthorizationCode(c, client, user)
  PROVE  IInv'
<1> USE DEF IInv, GenerateAuthorizationCode, request
<1>1. /\ codeInfo'[c] # None
      /\ \A d \in Codes : d # c => codeInfo'[d] = codeInfo[d] /\ codes'[d] = codes[d]
      /\ codes[c] = "absent"
      /\ now + CodeTtl \in Nat
  BY NoneNotRow, TtlAssumption DEF TypeOK, RowInv, CodeInfo
<1>2. TypeOK'
  BY <1>1, Zenon DEF TypeOK, CodeInfo
<1>3. RequestInv'
  BY <1>1 DEF RequestInv, Saving, Minted
<1>4. RowInv'
  BY <1>1 DEF RowInv, Minted
<1>5. ChainInv'
  BY <1>1 DEF ChainInv, SingleUse, Saving, Holding, Minted
<1>6. FamilyInv'
  BY DEF FamilyInv, OneLiveRefreshPerFamily, Rotating, HeadOf, Minted
<1>7. ChainInherits'
  BY <1>1 DEF ChainInherits, ChainInv, Minted
<1>8. StoredInv' /\ DeliveredPersisted'
  BY Zenon DEF StoredInv, DeliveredPersisted, AccessExp, RefreshExp
<1> QED
  BY <1>2, <1>3, <1>4, <1>5, <1>6, <1>7, <1>8, Zenon

\* Winning the compare-and-swap on a code preserves the invariant: an unused
\* code is held by nobody and was exchanged for nothing.
LEMMA ConsumePreserves ==
  ASSUME IInv, NEW w \in Workers, NEW c \in Codes, ConsumeAuthCode(w, c)
  PROVE  IInv'
<1> USE DEF IInv
<1>1. /\ pc[w] = "idle" /\ codes[c] = "unused" /\ codeInfo[c] # None
      /\ codes' = [codes EXCEPT ![c] = "used"]
      /\ UNCHANGED <<now, codeInfo, ats, rts, data, delivered, pair>>
      /\ \/ pc' = [pc EXCEPT ![w] = "consumed"] /\ grant' = [grant EXCEPT ![w] = c]
         \/ UNCHANGED <<pc, grant>>
  BY Zenon DEF ConsumeAuthCode, RowInv, Goto, request
<1>2. TypeOK'
  BY <1>1 DEF TypeOK, PC, Grants
<1>3. RequestInv'
  BY <1>1 DEF TypeOK, RequestInv, Saving, Minted
<1>4. RowInv'
  BY <1>1, Zenon DEF TypeOK, RowInv, Minted
<1>5. ChainInv'
  BY <1>1, NoneAssumption DEF TypeOK, RequestInv, ChainInv, SingleUse, Saving, Holding, Minted
<1>6. FamilyInv'
  BY <1>1 DEF TypeOK, FamilyInv, OneLiveRefreshPerFamily, Rotating, HeadOf, Minted
<1>7. StoredInv' /\ ChainInherits' /\ DeliveredPersisted'
  BY <1>1, Zenon DEF StoredInv, ChainInherits, DeliveredPersisted, AccessExp, RefreshExp, Minted
<1> QED
  BY <1>2, <1>3, <1>4, <1>5, <1>6, <1>7, Zenon

-----------------------------------------------------------------------------
\* Rows are inserted and deleted.

\* Saving a pair preserves the invariant: it was the one head of its family.
LEMMA SavePairPreserves ==
  ASSUME IInv, NEW w \in Workers, SaveTokenPair(w)
  PROVE  IInv'
<1> USE DEF IInv
<1> DEFINE p == pair[w]
<1>1. /\ pc[w] = "saving" /\ p \in Pairs /\ Minted(p) /\ data[p].refresh
      /\ ats[p] = "absent" /\ rts[p] = "absent" /\ p \notin delivered
      /\ UNCHANGED <<now, codes, codeInfo, data>>
      /\ pc' = [pc EXCEPT ![w] = "idle"]
      /\ grant' = [grant EXCEPT ![w] = None]
      /\ pair' = [pair EXCEPT ![w] = None]
  BY Zenon DEF SaveTokenPair, RequestInv, Saving, Reply
<1>2. \/ /\ ats' = [ats EXCEPT ![p] = "live"] /\ rts' = [rts EXCEPT ![p] = "live"]
         /\ delivered' = delivered \cup {p} \/ delivered' = delivered
      \/ UNCHANGED <<ats, rts, delivered>>
  BY Zenon DEF SaveTokenPair
<1>3. \A v \in Workers : /\ v # w => pc'[v] = pc[v] /\ grant'[v] = grant[v] /\ pair'[v] = pair[v]
                         /\ v # w /\ Saving(v) => pair[v] # p
                         /\ pc[v] = "rotating" => grant[v] # p
  BY <1>1, Zenon DEF TypeOK, ChainInv, Saving
<1>4. TypeOK'
  BY <1>1, <1>2 DEF TypeOK, PC
<1>5. RequestInv'
  BY <1>1, <1>2, <1>3 DEF TypeOK, RequestInv, Saving, Minted
<1>6. RowInv'
  BY <1>1, <1>2 DEF TypeOK, RowInv, Minted
<1>7. ChainInv'
  <2>1. \A v \in Workers : /\ Saving(v)' => v # w /\ Saving(v)
                           /\ Holding(v)' => v # w /\ Holding(v)
                           /\ pc'[v] = "rotating" => v # w /\ pc[v] = "rotating"
    BY <1>1, Zenon DEF TypeOK, Saving, Holding
  <2>2. \A q \in Pairs : Minted(q) => data[q].parent # p
    BY <1>1, Zenon DEF ChainInv, Saving
  <2> QED
    BY <1>1, <1>2, <1>3, <2>1, <2>2 DEF TypeOK, ChainInv, SingleUse, Minted
<1>8. FamilyInv'
  <2>1. Rotating(w) /\ HeadOf(w) = p
    BY <1>1, Zenon DEF Rotating, HeadOf
  <2>2. \A v \in Workers : Rotating(v)' => v # w /\ Rotating(v) /\ HeadOf(v)' = HeadOf(v)
    BY <1>1, <1>3 DEF TypeOK, Rotating, HeadOf
  <2>3. \A q \in Pairs : rts'[q] = "live" => q = p \/ rts[q] = "live"
    BY <1>1, <1>2 DEF TypeOK
  <2>4. OneLiveRefreshPerFamily'
    BY <1>1, <2>1, <2>3 DEF FamilyInv, OneLiveRefreshPerFamily, Minted
  <2> QED
    BY <1>1, <2>1, <2>2, <2>3, <2>4 DEF FamilyInv, Minted
<1>9. StoredInv' /\ ChainInherits' /\ DeliveredPersisted'
  BY <1>1, <1>2 DEF TypeOK, StoredInv, ChainInherits, DeliveredPersisted, AccessExp, RefreshExp, Minted
<1> QED
  BY <1>4, <1>5, <1>6, <1>7, <1>8, <1>9, Zenon

-----------------------------------------------------------------------------

\* Saving a client_credentials access token preserves the invariant.
LEMMA SaveAccessPreserves ==
  ASSUME IInv, NEW w \in Workers, SaveAccessToken(w)
  PROVE  IInv'
<1> USE DEF IInv
<1> DEFINE p == pair[w]
<1>1. /\ pc[w] = "savingAccess" /\ p \in Pairs /\ Minted(p) /\ ~data[p].refresh
      /\ UNCHANGED <<now, codes, codeInfo, data, rts>>
      /\ ats' = [ats EXCEPT ![p] = "live"] \/ UNCHANGED ats
      /\ delivered' = delivered \cup {p}
      /\ pc' = [pc EXCEPT ![w] = "idle"]
      /\ grant' = [grant EXCEPT ![w] = None]
      /\ pair' = [pair EXCEPT ![w] = None]
  BY Zenon DEF SaveAccessToken, RequestInv, Saving, Reply
<1>2. \A v \in Workers : /\ v # w => pc'[v] = pc[v] /\ grant'[v] = grant[v] /\ pair'[v] = pair[v]
                         /\ v # w /\ Saving(v) => pair[v] # p
  BY <1>1, Zenon DEF TypeOK, ChainInv, Saving
<1>3. TypeOK'
  BY <1>1 DEF TypeOK, PC
<1>4. RequestInv'
  BY <1>1, <1>2 DEF TypeOK, RequestInv, Saving, Minted
<1>5. RowInv'
  BY <1>1, Zenon DEF TypeOK, RowInv, Minted
<1>6. ChainInv'
  BY <1>1 DEF TypeOK, ChainInv, SingleUse, Saving, Holding, Minted
<1>7. FamilyInv'
  BY <1>1 DEF TypeOK, FamilyInv, OneLiveRefreshPerFamily, Rotating, HeadOf, Minted
<1>8. StoredInv' /\ ChainInherits' /\ DeliveredPersisted'
  BY <1>1 DEF TypeOK, StoredInv, ChainInherits, DeliveredPersisted, AccessExp, RefreshExp, Minted
<1> QED
  BY <1>3, <1>4, <1>5, <1>6, <1>7, <1>8, Zenon

\* Each DELETE of the sweep preserves the invariant: it removes expired rows only.
LEMMA PurgePreserves ==
  ASSUME IInv, PurgeExpired
  PROVE  IInv'
<1> USE DEF IInv
<1> PICK t \in 0..now : PurgeCodes(t) \/ PurgeAccess(t) \/ PurgeRefresh(t)
  BY Zenon DEF PurgeExpired
<1>1. /\ UNCHANGED <<now, codeInfo, data, delivered, pc, grant, pair>>
      /\ \A c \in Codes : codes'[c] = codes[c] \/ codes'[c] = "absent"
      /\ \A p \in Pairs : /\ ats'[p] = ats[p] \/ (ats'[p] = "absent" /\ ats[p] # "absent" /\ AccessExp(p) < t)
                          /\ rts'[p] = rts[p] \/ (rts'[p] = "absent" /\ rts[p] # "absent" /\ RefreshExp(p) < t)
  BY Zenon DEF PurgeCodes, PurgeAccess, PurgeRefresh, request
<1>2. TypeOK'
  BY DEF TypeOK, PurgeCodes, PurgeAccess, PurgeRefresh, request
<1>3. \A p \in Pairs : Minted(p) => AccessExp(p) \in Nat /\ RefreshExp(p) \in Nat
  BY TtlAssumption DEF TypeOK, Minted, PairInfo, AccessExp, RefreshExp
<1>4. \A p \in Pairs : Minted(p) => (AccessExp(p) < t => AccessExp(p) < now)
                                 /\ (RefreshExp(p) < t => RefreshExp(p) < now)
  BY <1>3 DEF TypeOK
<1>5. RequestInv'
  BY <1>1 DEF TypeOK, RequestInv, Saving, Minted
<1>6. RowInv'
  BY <1>1, Zenon DEF RowInv, Minted
<1>7. ChainInv'
  BY <1>1 DEF ChainInv, SingleUse, Saving, Holding, Minted
<1>8. FamilyInv'
  BY <1>1 DEF FamilyInv, OneLiveRefreshPerFamily, Rotating, HeadOf, Minted
<1>9. StoredInv' /\ DeliveredPersisted'
  BY <1>1, <1>4, Zenon DEF TypeOK, RowInv, StoredInv, DeliveredPersisted, AccessExp, RefreshExp
<1>10. ChainInherits'
  BY <1>1, Zenon DEF ChainInherits, Minted
<1> QED
  BY <1>2, <1>5, <1>6, <1>7, <1>8, <1>9, <1>10, Zenon

\* A crash forgets the requests and keeps the tables; a tick only ages rows; a
\* stuttering step changes nothing.
LEMMA CrashTickPreserves ==
  ASSUME IInv, Crash \/ Tick \/ UNCHANGED vars
  PROVE  IInv'
<1> USE DEF IInv, vars, tables, request
<1>1. TypeOK'
  BY DEF TypeOK, PC, Crash, Tick
<1>2. RequestInv'
  BY DEF RequestInv, Saving, Minted, Crash, Tick
<1>3. RowInv'
  BY Zenon DEF RowInv, Minted, Crash, Tick
<1>4. ChainInv'
  BY DEF ChainInv, SingleUse, Saving, Holding, Minted, Crash, Tick
<1>5. FamilyInv'
  BY DEF FamilyInv, OneLiveRefreshPerFamily, Rotating, HeadOf, Minted, Crash, Tick
<1>6. ChainInherits'
  BY DEF ChainInherits, Minted, Crash, Tick
<1>7. \A p \in Pairs : Minted(p) => AccessExp(p) \in Nat /\ RefreshExp(p) \in Nat
  BY TtlAssumption DEF TypeOK, Minted, PairInfo, AccessExp, RefreshExp
<1>8. StoredInv' /\ DeliveredPersisted'
  BY <1>7 DEF TypeOK, RowInv, StoredInv, DeliveredPersisted, AccessExp, RefreshExp, Crash, Tick
<1> QED
  BY <1>1, <1>2, <1>3, <1>4, <1>5, <1>6, <1>8, Zenon

-----------------------------------------------------------------------------
\* Every step of a request generates, revokes, consumes a code or saves.
LEMMA RequestSteps ==
  ASSUME IInv, NEW w \in Workers, Arrive(w) \/ Answer(w)
  PROVE  \/ Generates(w) \/ Revokes(w)
         \/ \E c \in Codes : ConsumeAuthCode(w, c)
         \/ SaveTokenPair(w) \/ SaveAccessToken(w)
<1>1. CASE Arrive(w)
  BY <1>1, AtomicRevokeRevokes, RevocationRevokes, DirectGenerates, Zenon DEF Arrive
<1>2. CASE Answer(w)
  BY <1>2, ExchangeGenerates, RefreshGenerates, CascadeRevokes, RevocationRevokes, Zenon DEF Answer
<1> QED
  BY <1>1, <1>2, Zenon

\* Every step, stuttering included, preserves the invariant.
LEMMA NextPreserves == IInv /\ [Next]_vars => IInv'
<1> SUFFICES ASSUME IInv, [Next]_vars PROVE IInv'
  OBVIOUS
<1>1. ASSUME NEW w \in Workers, Arrive(w) \/ Answer(w) PROVE IInv'
  BY <1>1, RequestSteps, GeneratePreserves, RevokingPreserves, ConsumePreserves,
     SavePairPreserves, SaveAccessPreserves, Zenon
<1> QED
  BY <1>1, IssueCodePreserves, PurgePreserves, CrashTickPreserves, Zenon DEF Next

\* The inductive invariant holds in every reachable state.
THEOREM Invariance == Spec => []IInv
  BY InitIInv, NextPreserves, PTL DEF Spec

\* Every column, request register and program counter keeps its type, for any
\* number of codes, pairs and concurrent requests.
THEOREM TypeCorrect == Spec => []TypeOK
<1>1. IInv => TypeOK
  BY Zenon DEF IInv
<1> QED
  BY <1>1, Invariance, PTL

\* No code is exchanged and no refresh token rotated twice, however many
\* requests race on the compare-and-swaps of the two repositories.
THEOREM SingleUseHolds == Spec => []SingleUse
<1>1. IInv => SingleUse
  BY Zenon DEF IInv, ChainInv
<1> QED
  BY <1>1, Invariance, PTL

\* No token family forks: it never has two live refresh tokens.
THEOREM NoForkHolds == Spec => []OneLiveRefreshPerFamily
<1>1. IInv => OneLiveRefreshPerFamily
  BY Zenon DEF IInv, FamilyInv
<1> QED
  BY <1>1, Invariance, PTL

\* Client, user, family and lifetime carry over along every chain of exchanges.
THEOREM ChainInheritsHolds == Spec => []ChainInherits
<1>1. IInv => ChainInherits
  BY Zenon DEF IInv
<1> QED
  BY <1>1, Invariance, PTL

\* Whatever saveTokenPair let out of the server is in the tables until it expires.
THEOREM DeliveredPersistedHolds == Spec => []DeliveredPersisted
<1>1. IInv => DeliveredPersisted
  BY Zenon DEF IInv
<1> QED
  BY <1>1, Invariance, PTL

\* The row of an accepted access token's refresh token is still there: it is stored
\* with it and swept no earlier.
LEMMA AccessReached == IInv => CascadeReachesAccess
<1> SUFFICES ASSUME IInv, NEW p \in Pairs, AccessActive(p), data[p].fam # None
             PROVE  p \in FamilyRows(data[p].fam)
  BY Zenon DEF CascadeReachesAccess
<1>1. /\ Minted(p) /\ data[p] \in PairInfo /\ data[p].refresh /\ now \in Nat
      /\ ats[p] = "live" /\ now <= AccessExp(p)
  BY Zenon DEF AccessActive, IInv, TypeOK, RowInv, Minted
<1>2. ~(RefreshExp(p) < now)
  BY <1>1, TtlAssumption, TtlOrder DEF PairInfo, AccessExp, RefreshExp
<1>3. rts[p] # "absent"
  BY <1>1, <1>2, Zenon DEF IInv, StoredInv
<1> QED
  BY <1>1, <1>3, Zenon DEF FamilyRows

\* The cascade's sub-select misses no access token that is still accepted,
\* provided an access token does not outlive its refresh token (TtlOrder).
THEOREM CascadeReachesAccessHolds == Spec => []CascadeReachesAccess
  BY AccessReached, Invariance, PTL

-----------------------------------------------------------------------------
\* What one step can add to the refresh tokens of a family: a row becomes live
\* only by being saved, a token is won only while it is live, and a pair that
\* starts being saved has no family, opens its own, or continues the family of
\* the token it replaces.
RowsFromSaves ==
  \A q \in Pairs :
    /\ Minted(q) => data'[q] = data[q]
    /\ rts'[q] = "live" => rts[q] = "live" \/ \E w \in Workers : pc[w] = "saving" /\ pair[w] = q

HeadsFromHeads ==
  \A w \in Workers :
    /\ pc'[w] = "rotating" => \/ pc[w] = "rotating" /\ grant'[w] = grant[w]
                              \/ grant'[w] \in Pairs /\ rts[grant'[w]] = "live"
    /\ pc'[w] = "saving" =>
         \/ pc[w] = "saving" /\ pair'[w] = pair[w]
         \/ data'[pair'[w]].fam = None
         \/ data'[pair'[w]].fam \in Pairs /\ ~Minted(data'[pair'[w]].fam)
         \/ pc[w] = "rotating" /\ data'[pair'[w]].fam = data[grant[w]].fam

\* Every step satisfies these two conditions.
LEMMA StepFacts ==
  ASSUME IInv, [Next]_vars
  PROVE  RowsFromSaves /\ HeadsFromHeads
<1> USE DEF IInv, TypeOK, RowsFromSaves, HeadsFromHeads
<1>1. ASSUME NEW w \in Workers, Generates(w)
      PROVE  RowsFromSaves /\ HeadsFromHeads
  <2> PICK p \in Pairs, info \in PairInfo, l \in {"saving", "savingAccess"} :
             Generate(w, p, info, l) /\ Source(w, p, info) /\ UNCHANGED rts
    BY <1>1, Zenon DEF Generates
  <2>1. /\ ~Minted(p) /\ data'[p] = info /\ \A q \in Pairs : q # p => data'[q] = data[q]
        /\ pc'[w] = l /\ pair'[w] = p
        /\ \A v \in Workers : v # w => pc'[v] = pc[v] /\ grant'[v] = grant[v] /\ pair'[v] = pair[v]
    BY Zenon DEF Generate
  <2> QED
    BY <2>1 DEF Source
<1>2. ASSUME NEW w \in Workers, Revokes(w)
      PROVE  RowsFromSaves /\ HeadsFromHeads
  BY <1>2, Zenon DEF Revokes, OnlyRevokes, HoldsNothing, WinsToken
<1>3. ASSUME NEW w \in Workers, NEW c \in Codes, ConsumeAuthCode(w, c)
      PROVE  RowsFromSaves /\ HeadsFromHeads
  BY <1>3 DEF ConsumeAuthCode, Goto, request
<1>4. ASSUME NEW w \in Workers, SaveTokenPair(w) \/ SaveAccessToken(w)
      PROVE  RowsFromSaves /\ HeadsFromHeads
  BY <1>4 DEF SaveTokenPair, SaveAccessToken, Reply
<1>5. CASE \E c \in Codes, client \in Clients, user \in Users : GenerateAuthorizationCode(c, client, user)
  BY <1>5, Zenon DEF GenerateAuthorizationCode, request
<1>6. CASE PurgeExpired
  BY <1>6 DEF PurgeExpired, PurgeCodes, PurgeAccess, PurgeRefresh, request
<1>7. CASE Crash \/ Tick \/ UNCHANGED vars
  BY <1>7, Zenon DEF Crash, Tick, vars, tables, request
<1> QED
  BY Zenon, <1>1, <1>2, <1>3, <1>4, <1>5, <1>6, <1>7, RequestSteps DEF Next

\* A family with no live refresh token and no rotation in flight stays so: the
\* compare-and-swap never accepts a revoked token.
LEMMA DeadFamilyStep ==
  ASSUME IInv, [Next]_vars, NEW f \in Pairs, Minted(f), FamilyDead(f)
  PROVE  FamilyDead(f)'
<1>1. RowsFromSaves /\ HeadsFromHeads
  BY StepFacts, Zenon
<1>2. ASSUME NEW q \in Pairs, Minted(q)', data'[q].fam = f
      PROVE  rts'[q] # "live"
  <2> SUFFICES ASSUME rts'[q] = "live" PROVE FALSE
    OBVIOUS
  <2>1. CASE rts[q] = "live"
    <3>1. Minted(q) /\ data'[q] = data[q]
      BY <1>1, <2>1, Zenon DEF RowsFromSaves, IInv, RowInv
    <3> QED
      BY <1>2, <2>1, <3>1, Zenon DEF FamilyDead
  <2>2. ASSUME NEW w \in Workers, pc[w] = "saving", pair[w] = q PROVE FALSE
    <3>1. Minted(q) /\ data'[q] = data[q]
      BY <1>1, <2>2, Zenon DEF RowsFromSaves, IInv, RequestInv, Saving
    <3> QED
      BY <1>2, <2>2, <3>1, Zenon DEF FamilyDead
  <2> QED
    BY <1>1, <2>1, <2>2, Zenon DEF RowsFromSaves
<1>3. ASSUME NEW w \in Workers, pc'[w] = "rotating"
      PROVE  data'[grant'[w]].fam # f
  BY <1>1, <1>3 DEF RowsFromSaves, HeadsFromHeads, FamilyDead, IInv, RequestInv, RowInv
<1>4. ASSUME NEW w \in Workers, pc'[w] = "saving"
      PROVE  data'[pair'[w]].fam # f
  <2>1. CASE pc[w] = "saving" /\ pair'[w] = pair[w]
    <3>1. pair[w] \in Pairs /\ Minted(pair[w])
      BY <2>1, Zenon DEF IInv, RequestInv, Saving
    <3>2. data'[pair[w]] = data[pair[w]]
      BY <1>1, <3>1, Zenon DEF RowsFromSaves
    <3> QED
      BY <2>1, <3>2, Zenon DEF FamilyDead
  <2>2. CASE pc[w] = "rotating" /\ data'[pair'[w]].fam = data[grant[w]].fam
    BY <2>2, Zenon DEF FamilyDead
  <2>3. f # None
    BY NoneAssumption, Zenon
  <2> QED
    BY <1>1, <1>4, <2>1, <2>2, <2>3, Zenon DEF HeadsFromHeads
<1> QED
  BY <1>2, <1>3, <1>4, Zenon DEF FamilyDead

\* A dead family never comes back, however many requests present its tokens.
THEOREM DeadFamilyHolds == Spec => DeadFamilyStaysDead
<1>1. IInv /\ [Next]_vars
        => [\A f \in Pairs : Minted(f) /\ data[f].fam = f /\ FamilyDead(f) => FamilyDead(f)']_vars
  BY DeadFamilyStep, Zenon
<1> QED
  BY <1>1, Invariance, PTL DEF Spec, DeadFamilyStaysDead
=============================================================================
