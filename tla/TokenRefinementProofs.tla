------------------------ MODULE TokenRefinementProofs ------------------------
(***************************************************************************)
(* TokenLifecycle implements SingleUseGrants for every value of its        *)
(* constants.  In a state that satisfies IInv a grant is live, pending,    *)
(* claimed or redeemed, and no two of them (Disjoint); so a step is known  *)
(* by which of these conditions it changes, and for which grants.          *)
(***************************************************************************)
EXTENDS TokenRefinement, TokenLifecycleProofs

\* What the inductive invariant says of a grant: the conditions exclude each
\* other, and none of them holds of a grant that has not been generated.
Apart(g) ==
  /\ Live(g)     => Known(g)
  /\ Pending(g)  => Known(g) /\ ~Live(g) /\ g \notin Codes
  /\ Claimed(g)  => Known(g) /\ ~Live(g) /\ ~Pending(g)
  /\ Redeemed(g) => Known(g) /\ ~Live(g) /\ ~Pending(g) /\ ~Claimed(g)

AllApart == \A g \in Grants : Apart(g)

\* The conditions exclude each other in every reachable state.
LEMMA Disjoint == IInv => AllApart
<1> SUFFICES ASSUME IInv, NEW g \in Grants PROVE Apart(g)
  BY Zenon DEF AllApart
<1> USE DEF IInv, TypeOK, Grants
<1>1. Live(g) => Known(g)
  BY Zenon DEF Live, Known, RowInv
<1>2. Pending(g) => Known(g) /\ ~Live(g) /\ g \notin Codes
  BY NoneAssumption DEF Pending, Live, Known, RequestInv
<1>3. Claimed(g) => Known(g) /\ ~Live(g) /\ ~Pending(g)
  <2> SUFFICES ASSUME NEW w \in Workers, Holding(w), grant[w] = g
               PROVE  Known(g) /\ ~Live(g) /\ ~Pending(g)
    BY Zenon DEF Claimed
  <2>1. CASE pc[w] = "consumed"
    BY <1>2, <2>1 DEF RequestInv, Known, Live
  <2>2. CASE pc[w] = "rotating"
    BY <2>2, NoneAssumption DEF RequestInv, ChainInv, Known, Live, Pending
  <2> QED
    BY <2>1, <2>2, Zenon DEF Holding
<1>4. Redeemed(g) => Known(g) /\ ~Live(g) /\ ~Pending(g) /\ ~Claimed(g)
  <2> SUFFICES ASSUME NEW p \in Pairs, Minted(p), data[p].parent = g
               PROVE  Known(g) /\ ~Live(g) /\ ~Pending(g) /\ ~Claimed(g)
    BY Zenon DEF Redeemed
  <2>1. ~Pending(g) /\ ~Claimed(g)
    BY Zenon DEF ChainInv, Pending, Claimed
  <2>2. Known(g) /\ ~Live(g)
    BY NoneAssumption, Zenon DEF ChainInv, Known, Live
  <2> QED
    BY <2>1, <2>2, Zenon
<1> QED
  BY <1>1, <1>2, <1>3, <1>4, Zenon DEF Apart

\* The mapped variables, before and after a step.
LEMMA Mapped ==
  /\ \A g \in Grants : grantStates[g] = GrantState(g) /\ grantStates'[g] = GrantState(g)'
  /\ grantStates = [g \in Grants |-> GrantState(g)]
  /\ grantStates' = [g \in Grants |-> GrantState(g)']
  BY Zenon DEF grantStates

\* The conditions on grant g are what they were.
Untouched(g) ==
  /\ Known(g)' = Known(g) /\ Live(g)' = Live(g) /\ Pending(g)' = Pending(g)
  /\ Claimed(g)' = Claimed(g) /\ Redeemed(g)' = Redeemed(g)

\* An untouched grant is in the same state.
LEMMA UntouchedState ==
  ASSUME NEW g, Untouched(g)
  PROVE  GrantState(g)' = GrantState(g)
  BY Zenon DEF Untouched, GrantState

-----------------------------------------------------------------------------
\* The step classes.

\* Grants are lost: nothing is generated, and no condition comes to hold.
Loses ==
  /\ UNCHANGED <<codeInfo, data>>
  /\ \A g \in Grants : /\ Live(g)' => Live(g)
                       /\ Pending(g)' => Pending(g)
                       /\ Claimed(g)' => Claimed(g)

\* Losing grants, or none, is dropping them.
LEMMA LosesDrops ==
  ASSUME AllApart, Loses
  PROVE  \E G \in SUBSET Grants : Abstract!Drop(G)
<1> DEFINE G == {g \in Grants : GrantState(g)' # GrantState(g)}
<1>1. ASSUME NEW g \in Grants
      PROVE  Known(g)' = Known(g) /\ Redeemed(g)' = Redeemed(g)
  BY Zenon DEF Loses, Known, Redeemed, Minted
<1>2. ASSUME NEW g \in G
      PROVE  GrantState(g) \in {"live", "claimed", "pending"} /\ GrantState(g)' = "dead"
  <2>1. Apart(g)
    BY Zenon DEF AllApart
  <2>2. /\ Live(g)' => Live(g)
        /\ Pending(g)' => Pending(g)
        /\ Claimed(g)' => Claimed(g)
    BY Zenon DEF Loses
  <2> QED
    BY <1>1, <2>1, <2>2, Zenon DEF GrantState, Apart
<1>3. grantStates' = [g \in Grants |-> IF g \in G THEN "dead" ELSE grantStates[g]]
  BY <1>2, Mapped, Zenon
<1>4. \A g \in G : grantStates[g] \in {"live", "claimed", "pending"}
  BY <1>2, Mapped, Zenon
<1>5. UNCHANGED grantParents
  BY Zenon DEF Loses, grantParents, Minted
<1>6. Abstract!Drop(G)
  BY <1>3, <1>4, <1>5, Zenon DEF Abstract!Drop, Abstract!Grants, Grants
<1> QED
  BY <1>6, Zenon

\* A live grant becomes claimed, and nothing else changes.
LEMMA ClaimClaims ==
  ASSUME AllApart, AllApart', NEW a \in Grants, UNCHANGED <<codeInfo, data>>,
         Live(a), Claimed(a)', \A g \in Grants : g # a => Untouched(g)
  PROVE  Abstract!Claim(a)
<1>1. GrantState(a) = "live" /\ GrantState(a)' = "claimed"
  BY Zenon DEF AllApart, Apart, GrantState
<1>2. grantStates' = [grantStates EXCEPT ![a] = "claimed"]
  BY <1>1, Mapped, UntouchedState, Zenon
<1>3. UNCHANGED grantParents
  BY Zenon DEF grantParents, Minted
<1> QED
  BY <1>1, <1>2, <1>3, Mapped, Zenon DEF Abstract!Claim

\* A code becomes known, live or lost at once, and nothing else changes.
LEMMA OfferOffers ==
  ASSUME AllApart, AllApart', NEW a \in Codes, UNCHANGED data, ~Known(a), Known(a)',
         Pending(a)' = Pending(a), Claimed(a)' = Claimed(a), Redeemed(a)' = Redeemed(a),
         \A g \in Grants : g # a => Untouched(g)
  PROVE  \E s \in {"live", "dead"} : Abstract!Offer(a, s)
<1>1. a \in Grants /\ GrantState(a) = "none" /\ GrantState(a)' \in {"live", "dead"}
  BY Zenon DEF AllApart, Apart, GrantState, Grants
<1>2. grantStates' = [grantStates EXCEPT ![a] = GrantState(a)']
  BY <1>1, Mapped, UntouchedState, Zenon
<1>3. UNCHANGED grantParents
  BY Zenon DEF grantParents, Minted
<1>4. Abstract!Offer(a, GrantState(a)')
  BY <1>1, <1>2, <1>3, Mapped, Zenon DEF Abstract!Offer
<1> QED
  BY <1>1, <1>4, Zenon

\* A pending pair is stored, and nothing else changes.
LEMMA StoreStores ==
  ASSUME AllApart, AllApart', NEW a \in Pairs, UNCHANGED <<codeInfo, data>>,
         Pending(a), Live(a)', \A g \in Grants : g # a => Untouched(g)
  PROVE  Abstract!Store(a)
<1>1. a \in Grants /\ GrantState(a) = "pending" /\ GrantState(a)' = "live"
  BY Zenon DEF AllApart, Apart, GrantState, Grants
<1>2. grantStates' = [grantStates EXCEPT ![a] = "live"]
  BY <1>1, Mapped, UntouchedState, Zenon
<1>3. UNCHANGED grantParents
  BY Zenon DEF grantParents, Minted
<1> QED
  BY <1>1, <1>2, <1>3, Mapped, Zenon DEF Abstract!Store

\* A pair is generated for no grant, and nothing else changes.
LEMMA RootRoots ==
  ASSUME AllApart, AllApart', NEW a \in Pairs, ~Known(a), Pending(a)',
         UNCHANGED grantParents, \A g \in Grants : g # a => Untouched(g)
  PROVE  Abstract!Root(a)
<1>1. a \in Grants /\ GrantState(a) = "none" /\ GrantState(a)' = "pending"
  BY Zenon DEF AllApart, Apart, GrantState, Grants
<1>2. grantStates' = [grantStates EXCEPT ![a] = "pending"]
  BY <1>1, Mapped, UntouchedState, Zenon
<1> QED
  BY <1>1, <1>2, Mapped, Zenon DEF Abstract!Root

\* A pair is generated for a claimed grant, and nothing else changes.
LEMMA RedeemRedeems ==
  ASSUME AllApart, AllApart', NEW g \in Grants, NEW a \in Pairs, g # a,
         Claimed(g), Redeemed(g)', ~Known(a), Pending(a)',
         grantParents' = [grantParents EXCEPT ![a] = g],
         \A h \in Grants : h # g /\ h # a => Untouched(h)
  PROVE  Abstract!Redeem(g, a)
<1>1. /\ a \in Grants /\ GrantState(a) = "none" /\ GrantState(a)' = "pending"
      /\ GrantState(g) = "claimed" /\ GrantState(g)' = "redeemed"
  BY Zenon DEF AllApart, Apart, GrantState, Grants
<1>2. grantStates' = [grantStates EXCEPT ![g] = "redeemed", ![a] = "pending"]
  BY <1>1, Mapped, UntouchedState, Zenon
<1> QED
  BY <1>1, <1>2, Mapped, Zenon DEF Abstract!Redeem

-----------------------------------------------------------------------------
\* The steps of TokenLifecycle by class.

\* Requests stay where they are or end up holding nothing, and no row comes back.
LetsGo ==
  /\ UNCHANGED <<codeInfo, data>>
  /\ \A c \in Codes : codes'[c] = "unused" => codes[c] = "unused"
  /\ \A p \in Pairs : rts'[p] = "live" => rts[p] = "live"
  /\ \A v \in Workers : \/ pc'[v] = pc[v] /\ grant'[v] = grant[v] /\ pair'[v] = pair[v]
                        \/ ~Saving(v)' /\ ~Holding(v)'

\* Such a step can only lose grants.
LEMMA LetsGoLoses ==
  ASSUME LetsGo
  PROVE  Loses
<1> SUFFICES ASSUME NEW g \in Grants
             PROVE  /\ Live(g)' => Live(g)
                    /\ Pending(g)' => Pending(g)
                    /\ Claimed(g)' => Claimed(g)
  BY Zenon DEF LetsGo, Loses
<1>1. Live(g)' => Live(g)
  BY Zenon DEF LetsGo, Live, Grants
<1>2. Pending(g)' => Pending(g)
  BY Zenon DEF LetsGo, Pending, Saving
<1>3. Claimed(g)' => Claimed(g)
  BY Zenon DEF LetsGo, Claimed, Holding
<1> QED
  BY <1>1, <1>2, <1>3, Zenon

\* A request that answers the client after changing no row holds nothing any more.
LEMMA ReplyLetsGo ==
  ASSUME TypeOK, NEW w \in Workers, Reply(w), UNCHANGED <<codes, codeInfo, rts, data>>
  PROVE  LetsGo
  BY Zenon DEF TypeOK, Reply, LetsGo, Saving, Holding

\* The steps of reuse detection, of a cascade and of a revocation.
LEMMA RevocationLetsGo ==
  ASSUME TypeOK, NEW w \in Workers,
         \/ DetectReuse(w) \/ RevokeTokenFamilyRefresh(w) \/ RevokeTokenFamilyAccess(w)
         \/ RevokeAccessToken(w) \/ FindPairedRefresh(w) \/ RevokeAccessFallback(w)
         \/ \E p \in Pairs : RevokeRequest(w, p) \/ RevokeRefreshToken(w, p)
  PROVE  LetsGo
<1> USE DEF TypeOK, LetsGo, Goto, Reply, Revoked, Saving, Holding, request, tables
<1>1. CASE DetectReuse(w)
  BY <1>1 DEF DetectReuse
<1>2. CASE RevokeTokenFamilyRefresh(w)
  BY <1>2 DEF RevokeTokenFamilyRefresh
<1>3. CASE RevokeTokenFamilyAccess(w)
  BY <1>3, Zenon DEF RevokeTokenFamilyAccess
<1>4. CASE RevokeAccessToken(w)
  BY <1>4 DEF RevokeAccessToken
<1>5. CASE FindPairedRefresh(w)
  BY <1>5 DEF FindPairedRefresh
<1>6. CASE RevokeAccessFallback(w)
  BY <1>6, Zenon DEF RevokeAccessFallback
<1>7. CASE \E p \in Pairs : RevokeRequest(w, p) \/ RevokeRefreshToken(w, p)
  BY <1>7 DEF RevokeRequest, RevokeRefreshToken
<1> QED
  BY <1>1, <1>2, <1>3, <1>4, <1>5, <1>6, <1>7, Zenon

\* The sweep, a crash, the clock and stuttering.
LEMMA EnvironmentLetsGo ==
  ASSUME TypeOK, PurgeExpired \/ Crash \/ Tick \/ UNCHANGED vars
  PROVE  LetsGo
<1> USE DEF TypeOK, LetsGo, Saving, Holding, request, tables
<1>1. CASE PurgeExpired
  BY <1>1 DEF PurgeExpired, PurgeCodes, PurgeAccess, PurgeRefresh
<1>2. CASE Crash \/ Tick \/ UNCHANGED vars
  BY <1>2, Zenon DEF Crash, Tick, vars
<1> QED
  BY <1>1, <1>2, Zenon

\* A code that is consumed is claimed or, when the request fails at once, lost.
LEMMA ConsumeMaps ==
  ASSUME IInv, AllApart, AllApart', NEW w \in Workers, NEW c \in Codes, ConsumeAuthCode(w, c)
  PROVE  Abstract!Next
<1> USE DEF IInv, TypeOK
<1>1. CASE UNCHANGED request
  <2>1. LetsGo
    BY <1>1, Zenon DEF ConsumeAuthCode, LetsGo, request
  <2> QED
    BY <2>1, LetsGoLoses, LosesDrops, Zenon DEF Abstract!Next, Abstract!Grants, Grants
<1>2. CASE Goto(w, "consumed", c)
  <2>1. /\ pc[w] = "idle" /\ pc'[w] = "consumed" /\ grant'[w] = c /\ UNCHANGED <<codeInfo, data, rts>>
        /\ codes[c] = "unused" /\ \A d \in Codes : d # c => codes'[d] = codes[d]
        /\ \A v \in Workers : pair'[v] = pair[v] /\ (v # w => pc'[v] = pc[v] /\ grant'[v] = grant[v])
    BY <1>2, Zenon DEF ConsumeAuthCode, Goto
  <2>2. c \in Grants /\ Live(c) /\ Claimed(c)'
    BY <2>1, Zenon DEF Grants, Live, Claimed, Holding
  <2>3. ASSUME NEW g \in Grants, g # c PROVE Untouched(g)
    <3>1. Known(g)' = Known(g) /\ Live(g)' = Live(g) /\ Redeemed(g)' = Redeemed(g)
      BY <2>1, <2>3, Zenon DEF Known, Live, Redeemed, Minted
    <3>2. Pending(g)' = Pending(g)
      BY <2>1 DEF Pending, Saving
    <3>3. Claimed(g)' = Claimed(g)
      BY <2>1, <2>3 DEF Claimed, Holding
    <3> QED
      BY <3>1, <3>2, <3>3, Zenon DEF Untouched
  <2>4. Abstract!Claim(c)
    BY <2>1, <2>2, <2>3, ClaimClaims, Zenon
  <2> QED
    BY <2>2, <2>4, Zenon DEF Abstract!Next, Abstract!Grants, Grants
<1> QED
  BY <1>1, <1>2, Zenon DEF ConsumeAuthCode

\* A refresh token whose CAS succeeds is claimed; one whose CAS is lost, or
\* succeeds behind an error, is not held by anyone.
LEMMA RotateMaps ==
  ASSUME IInv, AllApart, AllApart', NEW w \in Workers, NEW p \in Pairs,
         AtomicRevokeRefreshToken(w, p)
  PROVE  Abstract!Next
<1> USE DEF IInv, TypeOK
<1>1. CASE Goto(w, "lost", p)
  <2>1. LetsGo
    BY <1>1 DEF AtomicRevokeRefreshToken, LetsGo, Goto, Revoked, Saving, Holding
  <2> QED
    BY <2>1, LetsGoLoses, LosesDrops, Zenon DEF Abstract!Next, Abstract!Grants, Grants
<1>2. CASE rts[p] = "live" /\ rts' = Revoked(rts, {p}) /\ Goto(w, "rotating", p)
  <2>1. /\ pc[w] = "idle" /\ pc'[w] = "rotating" /\ grant'[w] = p /\ UNCHANGED <<codeInfo, data, codes>>
        /\ rts[p] = "live" /\ \A q \in Pairs : q # p => rts'[q] = rts[q]
        /\ \A v \in Workers : pair'[v] = pair[v] /\ (v # w => pc'[v] = pc[v] /\ grant'[v] = grant[v])
    BY <1>2 DEF AtomicRevokeRefreshToken, Goto, Revoked
  <2>2. p \in Grants /\ Live(p) /\ Claimed(p)'
    BY <2>1, NoneAssumption, Zenon DEF Grants, Live, Claimed, Holding
  <2>3. ASSUME NEW g \in Grants, g # p PROVE Untouched(g)
    <3>1. Known(g)' = Known(g) /\ Live(g)' = Live(g) /\ Redeemed(g)' = Redeemed(g)
      BY <2>1, <2>3, Zenon DEF Known, Live, Redeemed, Minted, Grants
    <3>2. Pending(g)' = Pending(g)
      BY <2>1 DEF Pending, Saving
    <3>3. Claimed(g)' = Claimed(g)
      BY <2>1, <2>3 DEF Claimed, Holding
    <3> QED
      BY <3>1, <3>2, <3>3, Zenon DEF Untouched
  <2>4. Abstract!Claim(p)
    BY <2>1, <2>2, <2>3, ClaimClaims, Zenon
  <2> QED
    BY <2>2, <2>4, Zenon DEF Abstract!Next, Abstract!Grants, Grants
<1> QED
  BY <1>1, <1>2, Zenon DEF AtomicRevokeRefreshToken

\* Generating a pair makes it pending, takes the request's hold off its grant and
\* touches no grant but these and the one the pair is recorded to be for.
LEMMA GenerateTouches ==
  ASSUME IInv, NEW w \in Workers, NEW p \in Pairs, NEW l \in {"saving", "savingAccess"},
         NEW info \in PairInfo, Generate(w, p, info, l), ~Saving(w),
         UNCHANGED <<codes, codeInfo, rts>>
  PROVE  /\ ~Known(p) /\ Pending(p)'
         /\ grantParents' = [grantParents EXCEPT ![p] = info.parent]
         /\ info.parent \in Grants => Redeemed(info.parent)'
         /\ \A h \in Grants : /\ h # p /\ h # info.parent
                              /\ Holding(w) => h # grant[w]
                              => Untouched(h)
<1> USE DEF IInv, TypeOK
<1>1. /\ ~Minted(p) /\ data'[p] = info /\ info # None /\ \A q \in Pairs : q # p => data'[q] = data[q]
      /\ pc'[w] = l /\ pair'[w] = p
      /\ \A v \in Workers : v # w => pc'[v] = pc[v] /\ grant'[v] = grant[v] /\ pair'[v] = pair[v]
  BY NoneNotRow, Zenon DEF Generate
<1>2. ~Known(p) /\ Pending(p)'
  BY <1>1, NoneAssumption, Zenon DEF Known, Pending, Saving
<1>3. grantParents' = [grantParents EXCEPT ![p] = info.parent]
  BY <1>1, Zenon DEF grantParents, Minted
<1>4. info.parent \in Grants => Redeemed(info.parent)'
  BY <1>1, Zenon DEF Redeemed, Minted
<1>5. ASSUME NEW h \in Grants, h # p, h # info.parent, Holding(w) => h # grant[w]
      PROVE  Untouched(h)
  <2>1. Known(h)' = Known(h) /\ Live(h)' = Live(h)
    BY <1>1, <1>5, Zenon DEF Known, Live, Minted, Grants
  <2>2. Redeemed(h)' = Redeemed(h)
    BY <1>1, <1>5 DEF Redeemed, Minted
  <2>3. Pending(h)' = Pending(h)
    BY <1>1, <1>5 DEF Pending, Saving
  <2>4. Claimed(h)' = Claimed(h)
    BY <1>1, <1>5 DEF Claimed, Holding
  <2> QED
    BY <2>1, <2>2, <2>3, <2>4, Zenon DEF Untouched
<1> QED
  BY <1>2, <1>3, <1>4, <1>5, Zenon

\* A request that holds a grant and generates a pair for it redeems the grant.
LEMMA GenerateRedeems ==
  ASSUME IInv, AllApart, AllApart', NEW w \in Workers, NEW p \in Pairs,
         NEW info \in PairInfo, Generate(w, p, info, "saving"), Holding(w), info.parent = grant[w],
         UNCHANGED <<codes, codeInfo, rts>>
  PROVE  Abstract!Next
<1> DEFINE g == grant[w]
<1>1. g \in Grants /\ Claimed(g) /\ ~Saving(w)
  BY Zenon DEF IInv, RequestInv, Holding, Saving, Claimed, Grants
<1>2. /\ ~Known(p) /\ Pending(p)'
      /\ grantParents' = [grantParents EXCEPT ![p] = g]
      /\ Redeemed(info.parent)'
      /\ \A h \in Grants : h # p /\ h # g => Untouched(h)
  BY <1>1, GenerateTouches
<1>3. g # p
  BY <1>1, <1>2, Zenon DEF AllApart, Apart
<1>4. PICK a \in Grants : a = g
  BY <1>1, Zenon
<1>5. Redeemed(a)'
  BY <1>2, <1>4, Zenon
<1>6. Abstract!Redeem(a, p)
  BY <1>1, <1>2, <1>3, <1>4, <1>5, RedeemRedeems, Zenon
<1> QED
  BY <1>6, Zenon DEF Abstract!Next, Abstract!Grants, Grants

\* An exchange redeems the code it holds, or fails and loses it.
LEMMA ExchangeMaps ==
  ASSUME IInv, AllApart, AllApart', NEW w \in Workers, ExchangeCodeForToken(w)
  PROVE  Abstract!Next
<1>1. TypeOK /\ pc[w] = "consumed" /\ UNCHANGED <<codes, codeInfo, rts>>
  BY Zenon DEF IInv, ExchangeCodeForToken
<1>2. CASE Reply(w) /\ UNCHANGED data
  BY <1>1, <1>2, ReplyLetsGo, LetsGoLoses, LosesDrops, Zenon DEF Abstract!Next, Abstract!Grants, Grants
<1>3. CASE ~(Reply(w) /\ UNCHANGED data)
  <2>1. grant[w] \in Codes /\ codeInfo[grant[w]] \in CodeInfo /\ now \in Nat
    BY <1>1, Zenon DEF IInv, RequestInv, TypeOK
  <2>2. PICK p \in Pairs, client \in Clients :
          Generate(w, p, [parent |-> grant[w], to |-> client, client |-> codeInfo[grant[w]].client,
                          user |-> codeInfo[grant[w]].user, fam |-> p, at |-> now,
                          refresh |-> TRUE], "saving")
    BY <1>3, Zenon DEF ExchangeCodeForToken
  <2>3. [parent |-> grant[w], to |-> client, client |-> codeInfo[grant[w]].client,
         user |-> codeInfo[grant[w]].user, fam |-> p, at |-> now, refresh |-> TRUE] \in PairInfo
    BY <2>1, Zenon DEF CodeInfo, PairInfo, Grants
  <2> QED
    BY <1>1, <2>2, <2>3, GenerateRedeems, Zenon DEF Holding
<1> QED
  BY <1>2, <1>3, Zenon

\* A rotation redeems the refresh token it holds, or fails and loses it.
LEMMA RefreshMaps ==
  ASSUME IInv, AllApart, AllApart', NEW w \in Workers, RefreshAccessToken(w)
  PROVE  Abstract!Next
<1>1. TypeOK /\ pc[w] = "rotating" /\ UNCHANGED <<codes, codeInfo, rts>>
  BY Zenon DEF IInv, RefreshAccessToken
<1>2. CASE Reply(w) /\ UNCHANGED data
  BY <1>1, <1>2, ReplyLetsGo, LetsGoLoses, LosesDrops, Zenon DEF Abstract!Next, Abstract!Grants, Grants
<1>3. CASE ~(Reply(w) /\ UNCHANGED data)
  <2>1. grant[w] \in Pairs /\ data[grant[w]] \in PairInfo /\ now \in Nat
    BY <1>1, Zenon DEF IInv, RequestInv, TypeOK, Minted
  <2>2. PICK p \in Pairs, client \in Clients :
          Generate(w, p, [parent |-> grant[w], to |-> client, client |-> data[grant[w]].client,
                          user |-> data[grant[w]].user, fam |-> data[grant[w]].fam, at |-> now,
                          refresh |-> TRUE], "saving")
    BY <1>3, Zenon DEF RefreshAccessToken
  <2>3. [parent |-> grant[w], to |-> client, client |-> data[grant[w]].client,
         user |-> data[grant[w]].user, fam |-> data[grant[w]].fam, at |-> now,
         refresh |-> TRUE] \in PairInfo
    BY <2>1, Zenon DEF PairInfo, Grants
  <2> QED
    BY <1>1, <2>2, <2>3, GenerateRedeems, Zenon DEF Holding
<1> QED
  BY <1>2, <1>3, Zenon

\* A pair generated by a request that holds nothing is for no grant.
LEMMA RootMaps ==
  ASSUME IInv, AllApart, AllApart', NEW w \in Workers, NEW p \in Pairs,
         NEW client \in Clients, NEW user \in Users,
         SocialLogin(w, p, client, user) \/ ClientCredentials(w, p, client, user)
  PROVE  Abstract!Next
<1>1. PICK l \in {"saving", "savingAccess"}, info \in PairInfo :
        Generate(w, p, info, l) /\ info.parent = None
  <2> DEFINE info(b) == [parent |-> None, to |-> client, client |-> client, user |-> user,
                         fam |-> None, at |-> now, refresh |-> b]
  <2>1. \A b \in BOOLEAN : info(b) \in PairInfo /\ info(b).parent = None
    BY Zenon DEF IInv, TypeOK, PairInfo
  <2>2. Generate(w, p, info(TRUE), "saving") \/ Generate(w, p, info(FALSE), "savingAccess")
    BY Zenon DEF SocialLogin, ClientCredentials
  <2> HIDE DEF info
  <2> QED
    BY <2>1, <2>2, Zenon
<1>2. ~Saving(w) /\ ~Holding(w) /\ ~Minted(p) /\ UNCHANGED <<codes, codeInfo, rts>>
  BY <1>1, Zenon DEF SocialLogin, ClientCredentials, Saving, Holding, Generate
<1>3. /\ ~Known(p) /\ Pending(p)'
      /\ grantParents' = [grantParents EXCEPT ![p] = None]
      /\ \A h \in Grants : h # p /\ h # None => Untouched(h)
  BY <1>1, <1>2, GenerateTouches
<1>4. UNCHANGED grantParents
  BY <1>2, <1>3, Zenon DEF grantParents
<1>5. Abstract!Root(p)
  BY <1>3, <1>4, NoneAssumption, RootRoots, Zenon DEF Grants
<1> QED
  BY <1>5, Zenon DEF Abstract!Next

\* A pair that is saved becomes live; one that is not saved is lost.
LEMMA SaveMaps ==
  ASSUME IInv, AllApart, AllApart', NEW w \in Workers, SaveTokenPair(w) \/ SaveAccessToken(w)
  PROVE  Abstract!Next
<1> USE DEF IInv, TypeOK
<1>1. Saving(w) /\ pair[w] \in Pairs /\ Reply(w) /\ UNCHANGED <<codes, codeInfo, data>>
  BY Zenon DEF SaveTokenPair, SaveAccessToken, RequestInv, Saving
<1>2. CASE UNCHANGED rts
  BY <1>1, <1>2, ReplyLetsGo, LetsGoLoses, LosesDrops, Zenon DEF Abstract!Next, Abstract!Grants, Grants
<1>3. CASE rts' = [rts EXCEPT ![pair[w]] = "live"]
  <2>1. PICK p \in Pairs : p = pair[w]
    BY <1>1, Zenon
  <2>2. /\ ~Holding(w) /\ ~Holding(w)' /\ ~Saving(w)'
        /\ \A v \in Workers : v # w => pc'[v] = pc[v] /\ grant'[v] = grant[v] /\ pair'[v] = pair[v]
    BY <1>1, Zenon DEF Reply, Saving, Holding
  <2>3. Pending(p) /\ Live(p)'
    BY <1>1, <1>3, <2>1, NoneAssumption, Zenon DEF Pending, Live
  <2>4. ASSUME NEW g \in Grants, g # p PROVE Untouched(g)
    <3>1. Known(g)' = Known(g) /\ Live(g)' = Live(g) /\ Redeemed(g)' = Redeemed(g)
      BY <1>1, <1>3, <2>1, <2>4, Zenon DEF Known, Live, Redeemed, Minted, Grants
    <3>2. Pending(g)' = Pending(g)
      BY <2>1, <2>2, <2>4 DEF Pending, Saving
    <3>3. Claimed(g)' = Claimed(g)
      BY <2>2, Zenon DEF Claimed, Holding
    <3> QED
      BY <3>1, <3>2, <3>3 DEF Untouched
  <2>5. Abstract!Store(p)
    BY <1>1, <2>3, <2>4, StoreStores, Zenon
  <2> QED
    BY <2>5, Zenon DEF Abstract!Next
<1> QED
  BY <1>2, <1>3, Zenon DEF SaveTokenPair, SaveAccessToken

\* A code handed out is live, or lost when its insert failed.
LEMMA OfferMaps ==
  ASSUME IInv, AllApart, AllApart', NEW c \in Codes, NEW client \in Clients, NEW user \in Users,
         GenerateAuthorizationCode(c, client, user)
  PROVE  Abstract!Next
<1> USE DEF IInv, TypeOK
<1>1. /\ codeInfo[c] = None /\ codeInfo'[c] \in CodeInfo
      /\ \A d \in Codes : d # c => codeInfo'[d] = codeInfo[d] /\ codes'[d] = codes[d]
      /\ UNCHANGED <<rts, data, pc, grant, pair>>
  BY TtlAssumption DEF GenerateAuthorizationCode, CodeInfo, request
<1>2. ~Known(c) /\ Known(c)'
  BY <1>1, NoneNotRow, Zenon DEF Known
<1>3. ASSUME NEW g
      PROVE  /\ Pending(g)' = Pending(g) /\ Claimed(g)' = Claimed(g)
             /\ Redeemed(g)' = Redeemed(g)
  BY <1>1, Zenon DEF Pending, Claimed, Redeemed, Minted, Saving, Holding
<1>4. ASSUME NEW g \in Grants, g # c PROVE Untouched(g)
  <2>1. Known(g)' = Known(g) /\ Live(g)' = Live(g)
    BY <1>1, <1>4 DEF Known, Live, Minted, Grants
  <2> QED
    BY <1>3, <2>1, Zenon DEF Untouched
<1>5. \E s \in {"live", "dead"} : Abstract!Offer(c, s)
  BY <1>1, <1>2, <1>3, <1>4, OfferOffers
<1> QED
  BY <1>5 DEF Abstract!Next

-----------------------------------------------------------------------------
\* Every step of a reachable state is a step of SingleUseGrants, or changes
\* nothing of it.
LEMMA StepMaps ==
  ASSUME IInv, AllApart, AllApart', [Next]_vars
  PROVE  Abstract!Next
<1>1. ASSUME LetsGo PROVE Abstract!Next
  BY <1>1, LetsGoLoses, LosesDrops, Zenon DEF Abstract!Next, Abstract!Grants, Grants
<1>2. CASE PurgeExpired \/ Crash \/ Tick \/ UNCHANGED vars
  BY <1>1, <1>2, EnvironmentLetsGo, Zenon DEF IInv
<1>3. ASSUME NEW w \in Workers, Arrive(w) PROVE Abstract!Next
  <2>1. CASE \E p \in Pairs : RevokeRequest(w, p) \/ RevokeRefreshToken(w, p)
    BY <1>1, <2>1, RevocationLetsGo, Zenon DEF IInv
  <2> QED
    BY <1>3, <2>1, ConsumeMaps, RotateMaps, RootMaps, Zenon DEF Arrive
<1>4. ASSUME NEW w \in Workers, Answer(w) PROVE Abstract!Next
  <2>1. CASE \/ DetectReuse(w) \/ RevokeTokenFamilyRefresh(w) \/ RevokeTokenFamilyAccess(w)
             \/ RevokeAccessToken(w) \/ FindPairedRefresh(w) \/ RevokeAccessFallback(w)
    BY <1>1, <2>1, RevocationLetsGo, Zenon DEF IInv
  <2> QED
    BY <1>4, <2>1, ExchangeMaps, RefreshMaps, SaveMaps, Zenon DEF Answer
<1> QED
  BY <1>2, <1>3, <1>4, OfferMaps, Zenon DEF Next

\* Nothing has been generated in the initial state.
LEMMA InitMaps == Init => Abstract!Init
<1> SUFFICES ASSUME Init PROVE Abstract!Init
  OBVIOUS
<1>1. \A g \in Grants : ~Known(g)
  BY Zenon DEF Init, Known, Minted, Grants
<1>2. \A p \in Pairs : ~Minted(p)
  BY Zenon DEF Init, Minted
<1> QED
  BY <1>1, <1>2, Zenon DEF Abstract!Init, Abstract!Grants, Grants, grantStates, grantParents, GrantState

\* The token service implements SingleUseGrants, for any number of codes, token
\* pairs, clients, users and concurrent requests, with failing statements,
\* crashes and the sweep: a code (consumeAuthCode) or refresh token
\* (atomicRevokeRefreshToken) is claimed by one request, yields at most one pair
\* and never comes back.
THEOREM RefinementHolds == Spec => ImplementsSingleUseGrants
<1>1. IInv /\ AllApart /\ AllApart' /\ [Next]_vars
        => [Abstract!Next]_<<grantStates, grantParents>>
  BY StepMaps, Zenon
<1> QED
  BY <1>1, InitMaps, Disjoint, Invariance, PTL DEF Spec, Abstract!Spec, ImplementsSingleUseGrants
=============================================================================
