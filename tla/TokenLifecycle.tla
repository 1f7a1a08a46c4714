--------------------------- MODULE TokenLifecycle ---------------------------
(***************************************************************************)
(* The life of authorization codes, access tokens and refresh tokens in    *)
(* the PostgreSQL tier: libs/oauth2 TokenService (code exchange, refresh   *)
(* rotation, reuse detection, revocation) over libs/storage-postgres       *)
(* PostgresGrantRepository and PostgresTokenRepository, driven by          *)
(* concurrent HTTP requests and swept by OAuth2CleanupService.             *)
(*                                                                         *)
(* Requests are Workers.  Every callback of the code that waits for a      *)
(* database statement is one action, so any interleaving of statements of  *)
(* concurrent requests is a behaviour.                                     *)
(*                                                                         *)
(* The access token and the refresh token that one issuance generates are  *)
(* named by one Pair p; the columns of their two rows that no statement    *)
(* ever updates are data[p], and ats[p] and rts[p] say whether the rows    *)
(* are present and revoked.  A token family is named by the pair that      *)
(* opened it.  Scope, org_id, nonce and id_token claims travel with the    *)
(* user column and are not told apart.                                     *)
(***************************************************************************)
EXTENDS Naturals, FiniteSets

CONSTANTS Codes,       \* authorization codes
          Pairs,       \* access/refresh token pairs
          Clients, Users,
          Workers,     \* requests in flight
          None,        \* empty column, no parent
          CodeTtl, AccessTtl, RefreshTtl,
          MaxTime,     \* bound on the clock
          DbFaults     \* may a statement fail and the process crash?

ASSUME TtlAssumption ==
  /\ CodeTtl \in Nat /\ AccessTtl \in Nat /\ RefreshTtl \in Nat /\ MaxTime \in Nat
  /\ DbFaults \in BOOLEAN

\* The documented lifetimes: an access token does not outlive its refresh token.
ASSUME TtlOrder == AccessTtl <= RefreshTtl

ASSUME NoneAssumption ==
  /\ None \notin Codes /\ None \notin Pairs
  /\ Codes \cap Pairs = {}

VARIABLES
  now,         \* wall clock, in units of the smallest lifetime
  codes,       \* oauth2_codes: row absent, unused or used
  codeInfo,    \* the immutable columns of a code row
  ats, rts,    \* oauth2_access_tokens, oauth2_refresh_tokens
  data,        \* the immutable columns of a pair, None until generated
  delivered,   \* pairs that reached a client in a token response
  pc,          \* where each request is
  grant,       \* the code, token or family the request works on
  pair         \* the pair the request has generated and is saving

tables  == <<codes, codeInfo, ats, rts, data, delivered>>
request == <<pc, grant, pair>>
vars    == <<now, tables, request>>

Grants == Codes \cup Pairs

PC == {"idle", "consumed", "rotating", "lost", "saving", "savingAccess",
       "cascadeRefresh", "cascadeAccess", "revokeAccess", "findPaired", "fallback"}

CodeInfo == [client : Clients, user : Users, exp : Nat]

PairInfo == [parent  : Grants \cup {None},   \* the code or refresh token it was minted for
             to      : Clients,              \* the client of the request
             client  : Clients, user : Users,
             fam     : Pairs \cup {None},    \* family_id
             at      : Nat,                  \* issuance time
             refresh : BOOLEAN]              \* FALSE for client_credentials

ASSUME NoneNotRow == None \notin CodeInfo /\ None \notin PairInfo

Minted(p) == data[p] # None
AccessExp(p)  == data[p].at + AccessTtl
RefreshExp(p) == data[p].at + RefreshTtl

\* introspectToken: the row exists, is not revoked and does not satisfy expires_at < now.
AccessActive(p)  == Minted(p) /\ ats[p] = "live" /\ now <= AccessExp(p)
RefreshActive(p) == Minted(p) /\ rts[p] = "live" /\ now <= RefreshExp(p)

\* Mutant: the sub-select also asks for revoked = false.
FamilyRowsLive(f) == {p \in Pairs : Minted(p) /\ rts[p] = "live" /\ data[p].fam = f}

\* The refresh-token rows of family f.
FamilyRows(f) == {p \in Pairs : Minted(p) /\ rts[p] # "absent" /\ data[p].fam = f}

Init ==
  /\ now = 0
  /\ codes = [c \in Codes |-> "absent"]
  /\ codeInfo = [c \in Codes |-> None]
  /\ ats = [p \in Pairs |-> "absent"]
  /\ rts = [p \in Pairs |-> "absent"]
  /\ data = [p \in Pairs |-> None]
  /\ delivered = {}
  /\ pc = [w \in Workers |-> "idle"]
  /\ grant = [w \in Workers |-> None]
  /\ pair = [w \in Workers |-> None]

-----------------------------------------------------------------------------
\* Steps of a request.

\* The request leaves its callback chain and answers the client.
Reply(w) ==
  /\ pc' = [pc EXCEPT ![w] = "idle"]
  /\ grant' = [grant EXCEPT ![w] = None]
  /\ pair' = [pair EXCEPT ![w] = None]

Goto(w, l, g) ==
  /\ pc' = [pc EXCEPT ![w] = l]
  /\ grant' = [grant EXCEPT ![w] = g]
  /\ UNCHANGED pair

\* Generate the two token values and hand them to the repository.
Generate(w, p, info, l) ==
  /\ ~Minted(p)
  /\ data' = [data EXCEPT ![p] = info]
  /\ pc' = [pc EXCEPT ![w] = l]
  /\ grant' = [grant EXCEPT ![w] = None]
  /\ pair' = [pair EXCEPT ![w] = p]

\* Mutant: the status of a code is written to a token row.
RevokedAsUsed(table, S) ==
  [p \in Pairs |-> IF p \in S /\ table[p] # "absent" THEN "used" ELSE table[p]]

\* UPDATE ... SET revoked = true on the rows of a set of tokens.
Revoked(table, S) ==
  [p \in Pairs |-> IF p \in S /\ table[p] # "absent" THEN "revoked" ELSE table[p]]

-----------------------------------------------------------------------------
\* Authorization code: issuance and exchange.

\* generateAuthorizationCode + saveAuthCode.  The void callback hands the code
\* out even when the insert failed.
GenerateAuthorizationCode(c, client, user) ==
  /\ codeInfo[c] = None
  /\ codeInfo' = [codeInfo EXCEPT ![c] = [client |-> client, user |-> user, exp |-> now + CodeTtl]]
  /\ \/ codes' = [codes EXCEPT ![c] = "unused"]
     \/ DbFaults /\ UNCHANGED codes
  /\ UNCHANGED <<now, ats, rts, data, delivered, request>>

\* Mutant: the UPDATE lacks its used = false condition.
ConsumeAuthCodeAgain(w, c) ==
  /\ pc[w] = "idle"
  /\ codes[c] # "absent"
  /\ codes' = [codes EXCEPT ![c] = "used"]
  /\ Goto(w, "consumed", c) \/ UNCHANGED request
  /\ UNCHANGED <<now, codeInfo, ats, rts, data, delivered>>

\* consumeAuthCode: the CAS marks the code used, and only then is redirect_uri
\* compared: a mismatch, like a failed statement that was applied, burns the code.
ConsumeAuthCode(w, c) ==
  /\ pc[w] = "idle"
  /\ codes[c] = "unused"
  /\ codes' = [codes EXCEPT ![c] = "used"]
  /\ Goto(w, "consumed", c) \/ UNCHANGED request
  /\ UNCHANGED <<now, codeInfo, ats, rts, data, delivered>>

\* The rest of exchangeCodeForToken: client match, PKCE, expiry, generation.
\* Each failure answers with an error and leaves the code used.
ExchangeCodeForToken(w) ==
  /\ pc[w] = "consumed"
  /\ LET c == grant[w] IN
     \/ \E p \in Pairs, client \in Clients :
          /\ client = codeInfo[c].client
          /\ now <= codeInfo[c].exp
          /\ Generate(w, p, [parent |-> c, to |-> client, client |-> codeInfo[c].client,
                             user |-> codeInfo[c].user, fam |-> p, at |-> now,
                             refresh |-> TRUE], "saving")
     \/ Reply(w) /\ UNCHANGED data
  /\ UNCHANGED <<now, codes, codeInfo, ats, rts, delivered>>

\* Mutant: the tokens are handed out whatever the commit callback says.
SaveTokenPairUnconfirmed(w) ==
  /\ pc[w] = "saving"
  /\ \/ /\ ats' = [ats EXCEPT ![pair[w]] = "live"]
        /\ rts' = [rts EXCEPT ![pair[w]] = "live"]
     \/ DbFaults /\ UNCHANGED <<ats, rts>>
  /\ delivered' = delivered \cup {pair[w]}
  /\ Reply(w)
  /\ UNCHANGED <<now, codes, codeInfo, data>>

\* saveTokenPair: one transaction inserts both rows; the tokens are handed out
\* only if the commit callback reports success.
SaveTokenPair(w) ==
  /\ pc[w] = "saving"
  /\ LET p == pair[w] IN
     \/ /\ ats' = [ats EXCEPT ![p] = "live"]
        /\ rts' = [rts EXCEPT ![p] = "live"]
        /\ \/ delivered' = delivered \cup {p}
           \/ DbFaults /\ UNCHANGED delivered    \* committed, but the callback saw an error
     \/ DbFaults /\ UNCHANGED <<ats, rts, delivered>>
  /\ Reply(w)
  /\ UNCHANGED <<now, codes, codeInfo, data>>

-----------------------------------------------------------------------------
\* Refresh-token rotation and reuse detection.

\* Mutant: the UPDATE lacks its revoked = false condition.
AtomicRevokeAgain(w, p) ==
  /\ pc[w] = "idle"
  /\ p \in delivered
  /\ \/ /\ rts[p] # "absent"
        /\ rts' = Revoked(rts, {p})
        /\ Goto(w, "rotating", p)
     \/ /\ rts[p] = "absent"
        /\ Goto(w, "lost", p)
        /\ UNCHANGED rts
  /\ UNCHANGED <<now, codes, codeInfo, ats, data, delivered>>

\* Mutant: a SELECT in place of the UPDATE, the old token is not revoked first.
AtomicRevokeReadOnly(w, p) ==
  /\ pc[w] = "idle"
  /\ p \in delivered
  /\ Goto(w, IF rts[p] = "live" THEN "rotating" ELSE "lost", p)
  /\ UNCHANGED <<now, tables>>

\* atomicRevokeRefreshToken: UPDATE ... WHERE revoked = false RETURNING.
\* An error callback reports nullopt like a miss, applied or not.
AtomicRevokeRefreshToken(w, p) ==
  /\ pc[w] = "idle"
  /\ p \in delivered
  /\ \/ /\ rts[p] = "live"
        /\ rts' = Revoked(rts, {p})
        /\ Goto(w, "rotating", p) \/ (DbFaults /\ Goto(w, "lost", p))
     \/ /\ rts[p] # "live" \/ DbFaults
        /\ Goto(w, "lost", p)
        /\ UNCHANGED rts
  /\ UNCHANGED <<now, codes, codeInfo, ats, data, delivered>>

\* Mutant: the client of the request is not compared with the token's.
RefreshAccessTokenAnyClient(w) ==
  /\ pc[w] = "rotating"
  /\ LET old == data[grant[w]] IN
     \/ \E p \in Pairs, client \in Clients :
          /\ now <= RefreshExp(grant[w])
          /\ Generate(w, p, [parent |-> grant[w], to |-> client, client |-> old.client,
                             user |-> old.user, fam |-> old.fam, at |-> now,
                             refresh |-> TRUE], "saving")
     \/ Reply(w) /\ UNCHANGED data
  /\ UNCHANGED <<now, codes, codeInfo, ats, rts, delivered>>

\* The rest of refreshAccessToken after the CAS: client match, expiry, subject
\* normalisation, generation.  A failure leaves the presented token revoked.
RefreshAccessToken(w) ==
  /\ pc[w] = "rotating"
  /\ LET old == data[grant[w]] IN
     \/ \E p \in Pairs, client \in Clients :
          /\ client = old.client
          /\ now <= RefreshExp(grant[w])
          /\ Generate(w, p, [parent |-> grant[w], to |-> client, client |-> old.client,
                             user |-> old.user, fam |-> old.fam, at |-> now,
                             refresh |-> TRUE], "saving")
     \/ Reply(w) /\ UNCHANGED data
  /\ UNCHANGED <<now, codes, codeInfo, ats, rts, delivered>>

\* Mutant: only the reuse branch calls back.
DetectReuseSilent(w) ==
  /\ pc[w] = "lost"
  /\ rts[grant[w]] = "revoked" /\ data[grant[w]].fam # None
  /\ Goto(w, "cascadeRefresh", data[grant[w]].fam)
  /\ UNCHANGED <<now, tables>>

\* getRefreshToken after a lost CAS: a revoked row that has a family is reuse.
DetectReuse(w) ==
  /\ pc[w] = "lost"
  /\ LET p == grant[w]
         reuse == rts[p] = "revoked" /\ data[p].fam # None
     IN \/ reuse /\ Goto(w, "cascadeRefresh", data[p].fam)
        \/ (~reuse \/ DbFaults) /\ Reply(w)
  /\ UNCHANGED <<now, tables>>

\* revokeTokenFamily, first statement: the family's refresh tokens.
RevokeTokenFamilyRefresh(w) ==
  /\ pc[w] = "cascadeRefresh"
  /\ \/ /\ rts' = Revoked(rts, FamilyRows(grant[w]))
        /\ Goto(w, "cascadeAccess", grant[w]) \/ (DbFaults /\ Reply(w))
     \/ DbFaults /\ Reply(w) /\ UNCHANGED rts
  /\ UNCHANGED <<now, codes, codeInfo, ats, data, delivered>>

\* revokeTokenFamily, second statement: access tokens reached by a sub-select
\* on the refresh-token rows of the family.
RevokeTokenFamilyAccess(w) ==
  /\ pc[w] = "cascadeAccess"
  /\ Reply(w)
  /\ \/ ats' = Revoked(ats, FamilyRows(grant[w]))
     \/ DbFaults /\ UNCHANGED ats
  /\ UNCHANGED <<now, codes, codeInfo, rts, data, delivered>>

-----------------------------------------------------------------------------
\* Revocation of a presented token: /oauth2/revoke and /oauth2/logout.

\* Both gates let a live access token through (the endpoint introspects it, the
\* logout filter validates it), and revokeAccessToken then finds its row.
RevokeRequest(w, p) ==
  /\ pc[w] = "idle"
  /\ p \in delivered
  /\ AccessActive(p)
  /\ Goto(w, "revokeAccess", p)
  /\ UNCHANGED <<now, tables>>

\* revokeAccessToken: the audited UPDATE of the access-token row; when it fails
\* the code falls back to an UPDATE without the audit columns.
RevokeAccessToken(w) ==
  /\ pc[w] = "revokeAccess"
  /\ \/ ats' = Revoked(ats, {grant[w]}) /\ Goto(w, "findPaired", grant[w])
     \/ DbFaults /\ UNCHANGED ats /\ Goto(w, "fallback", grant[w])
  /\ UNCHANGED <<now, codes, codeInfo, rts, data, delivered>>

\* The paired refresh token is looked up by its access_token column; its whole
\* family is revoked, or only the pair when the row has no family.
FindPairedRefresh(w) ==
  /\ pc[w] = "findPaired"
  /\ LET p == grant[w] IN
     \/ /\ rts[p] # "absent" /\ data[p].fam # None
        /\ Goto(w, "cascadeRefresh", data[p].fam)
        /\ UNCHANGED rts
     \/ /\ rts[p] # "absent" /\ data[p].fam = None
        /\ rts' = Revoked(rts, {p})
        /\ Reply(w)
     \/ /\ rts[p] = "absent" \/ DbFaults
        /\ Reply(w)
        /\ UNCHANGED rts
  /\ UNCHANGED <<now, codes, codeInfo, ats, data, delivered>>

\* The fallback revokes the pair and never the family.
RevokeAccessFallback(w) ==
  /\ pc[w] = "fallback"
  /\ Reply(w)
  /\ \/ ats' = Revoked(ats, {grant[w]}) /\ rts' = Revoked(rts, {grant[w]})
     \/ ats' = Revoked(ats, {grant[w]}) /\ UNCHANGED rts
     \/ UNCHANGED <<ats, rts>>
  /\ UNCHANGED <<now, codes, codeInfo, data, delivered>>

\* /oauth2/revoke with a refresh token: introspected through the refresh
\* fallback, then revokeRefreshToken updates that one row.
RevokeRefreshToken(w, p) ==
  /\ pc[w] = "idle"
  /\ p \in delivered
  /\ RefreshActive(p)
  /\ rts' = Revoked(rts, {p})
  /\ UNCHANGED <<now, codes, codeInfo, ats, data, delivered, request>>

-----------------------------------------------------------------------------
\* Issuance without an authorization code.

\* SocialTokenIssuer: a pair for the configured first-party client, no family_id.
SocialLogin(w, p, client, user) ==
  /\ pc[w] = "idle"
  /\ Generate(w, p, [parent |-> None, to |-> client, client |-> client, user |-> user,
                     fam |-> None, at |-> now, refresh |-> TRUE], "saving")
  /\ UNCHANGED <<now, codes, codeInfo, ats, rts, delivered>>

\* client_credentials: an access token whose subject is the client; the user
\* column is immaterial.
ClientCredentials(w, p, client, user) ==
  /\ pc[w] = "idle"
  /\ Generate(w, p, [parent |-> None, to |-> client, client |-> client, user |-> user,
                     fam |-> None, at |-> now, refresh |-> FALSE], "savingAccess")
  /\ UNCHANGED <<now, codes, codeInfo, ats, rts, delivered>>

\* saveAccessToken: the void callback cannot report a failed insert, the token
\* is handed out either way.
SaveAccessToken(w) ==
  /\ pc[w] = "savingAccess"
  /\ \/ ats' = [ats EXCEPT ![pair[w]] = "live"]
     \/ DbFaults /\ UNCHANGED ats
  /\ delivered' = delivered \cup {pair[w]}
  /\ Reply(w)
  /\ UNCHANGED <<now, codes, codeInfo, rts, data>>

-----------------------------------------------------------------------------
\* OAuth2CleanupService: three DELETE ... WHERE expires_at < t, each at its own
\* moment, with a t read from the clock when the sweep began.

PurgeCodes(t) ==
  /\ codes' = [c \in Codes |->
                 IF codes[c] # "absent" /\ codeInfo[c].exp < t THEN "absent" ELSE codes[c]]
  /\ UNCHANGED <<now, codeInfo, ats, rts, data, delivered, request>>

PurgeAccess(t) ==
  /\ ats' = [p \in Pairs |->
               IF ats[p] # "absent" /\ AccessExp(p) < t THEN "absent" ELSE ats[p]]
  /\ UNCHANGED <<now, codes, codeInfo, rts, data, delivered, request>>

\* Mutant: the sweep also deletes revoked refresh tokens.
PurgeRefreshRevoked(t) ==
  /\ rts' = [p \in Pairs |->
               IF rts[p] # "absent" /\ (RefreshExp(p) < t \/ rts[p] = "revoked") THEN "absent" ELSE rts[p]]
  /\ UNCHANGED <<now, codes, codeInfo, ats, data, delivered, request>>

PurgeRefresh(t) ==
  /\ rts' = [p \in Pairs |->
               IF rts[p] # "absent" /\ RefreshExp(p) < t THEN "absent" ELSE rts[p]]
  /\ UNCHANGED <<now, codes, codeInfo, ats, data, delivered, request>>

PurgeExpired == \E t \in 0..now : PurgeCodes(t) \/ PurgeAccess(t) \/ PurgeRefresh(t)

\* The process dies: requests in flight are lost, the tables stay.
Crash ==
  /\ DbFaults
  /\ pc' = [w \in Workers |-> "idle"]
  /\ grant' = [w \in Workers |-> None]
  /\ pair' = [w \in Workers |-> None]
  /\ UNCHANGED <<now, tables>>

Tick ==
  /\ now < MaxTime
  /\ now' = now + 1
  /\ UNCHANGED <<tables, request>>

\* A request is answered by these steps alone, whatever else arrives.
Answer(w) ==
  \/ ExchangeCodeForToken(w) \/ SaveTokenPair(w) \/ SaveAccessToken(w)
  \/ RefreshAccessToken(w) \/ DetectReuse(w)
  \/ RevokeTokenFamilyRefresh(w) \/ RevokeTokenFamilyAccess(w)
  \/ RevokeAccessToken(w) \/ FindPairedRefresh(w) \/ RevokeAccessFallback(w)

Arrive(w) ==
  \/ \E c \in Codes : ConsumeAuthCode(w, c)
  \/ \E p \in Pairs : AtomicRevokeRefreshToken(w, p)
  \/ \E p \in Pairs : RevokeRequest(w, p)
  \/ \E p \in Pairs : RevokeRefreshToken(w, p)
  \/ \E p \in Pairs, client \in Clients, user \in Users : SocialLogin(w, p, client, user)
  \/ \E p \in Pairs, client \in Clients, user \in Users : ClientCredentials(w, p, client, user)

Next ==
  \/ \E c \in Codes, client \in Clients, user \in Users :
       GenerateAuthorizationCode(c, client, user)
  \/ \E w \in Workers : Arrive(w) \/ Answer(w)
  \/ PurgeExpired
  \/ Crash
  \/ Tick

Spec == Init /\ [][Next]_vars

\* Every database call of a request calls back, with a result or an error.
FairSpec == Spec /\ \A w \in Workers : WF_vars(Answer(w))

-----------------------------------------------------------------------------
\* Properties.

TypeOK ==
  /\ now \in Nat
  /\ codes \in [Codes -> {"absent", "unused", "used"}]
  /\ codeInfo \in [Codes -> CodeInfo \cup {None}]
  /\ ats \in [Pairs -> {"absent", "live", "revoked"}]
  /\ rts \in [Pairs -> {"absent", "live", "revoked"}]
  /\ data \in [Pairs -> PairInfo \cup {None}]
  /\ delivered \in SUBSET Pairs
  /\ pc \in [Workers -> PC]
  /\ grant \in [Workers -> Grants \cup {None}]
  /\ pair \in [Workers -> Pairs \cup {None}]

\* A code is exchanged, and a refresh token rotated, at most once: no two pairs
\* are ever generated for the same code or for the same refresh token, whatever
\* requests race (the CAS of consumeAuthCode and atomicRevokeRefreshToken).
SingleUse ==
  \A p, q \in Pairs :
    Minted(p) /\ Minted(q) /\ p # q /\ data[p].parent = data[q].parent
      => data[p].parent = None

\* A token family never has two live refresh tokens: rotation replaces, it does
\* not fork (refreshAccessToken revokes the old row before it saves the new).
OneLiveRefreshPerFamily ==
  \A p, q \in Pairs :
    /\ Minted(p) /\ Minted(q) /\ p # q
    /\ rts[p] = "live" /\ rts[q] = "live"
    => data[p].fam = None \/ data[p].fam # data[q].fam

\* A pair belongs to the client and user its code was issued to, is handed to
\* that client, stays in the family of the token it replaces, and is generated
\* within the lifetime of what it was exchanged for.
ChainInherits ==
  \A p \in Pairs : Minted(p) =>
    LET d == data[p] IN
    /\ d.to = d.client
    /\ d.parent \in Codes => LET c == codeInfo[d.parent] IN
         d.client = c.client /\ d.user = c.user /\ d.fam = p /\ d.at <= c.exp
    /\ d.parent \in Pairs => LET o == data[d.parent] IN
         /\ d.client = o.client /\ d.user = o.user /\ d.fam = o.fam
         /\ d.at <= o.at + RefreshTtl

\* A token pair that reached a client was stored: until it expires both rows
\* are in the tables (saveTokenPair reports true only after COMMIT).
DeliveredPersisted ==
  \A p \in delivered : data[p].refresh =>
    /\ ats[p] = "absent" => AccessExp(p) < now
    /\ rts[p] = "absent" => RefreshExp(p) < now

\* Every access token still accepted by introspection can be reached by the
\* sub-select of revokeTokenFamily: its refresh-token row is there, although
\* the sweeps delete from the two tables independently.
CascadeReachesAccess ==
  \A p \in Pairs :
    AccessActive(p) /\ data[p].fam # None => p \in FamilyRows(data[p].fam)

\* In family f nothing can still produce or use a refresh token.
FamilyDead(f) ==
  /\ \A p \in Pairs : Minted(p) /\ data[p].fam = f => rts[p] # "live"
  /\ \A w \in Workers :
       /\ pc[w] = "rotating" => data[grant[w]].fam # f
       /\ pc[w] = "saving" => data[pair[w]].fam # f

\* A family with no live refresh token and no rotation in flight never issues
\* again: a revoked refresh token is never accepted, so nothing brings the
\* family back.
DeadFamilyStaysDead ==
  [][\A f \in Pairs : Minted(f) /\ data[f].fam = f /\ FamilyDead(f) => FamilyDead(f)']_vars

\* Every request is answered: no path of the callback chains, error paths
\* included, ends without a reply.
Answered == \A w \in Workers : pc[w] # "idle" ~> pc[w] = "idle"

-----------------------------------------------------------------------------
\* The inductive invariant behind the properties.

Saving(w)  == pc[w] \in {"saving", "savingAccess"}
Holding(w) == pc[w] \in {"consumed", "rotating"}

\* What a request carries at each step of its callback chain.
RequestInv ==
  \A w \in Workers :
    /\ pc[w] = "consumed" => /\ grant[w] \in Codes
                             /\ codeInfo[grant[w]] # None
                             /\ codes[grant[w]] # "unused"
    /\ pc[w] = "rotating" => /\ grant[w] \in Pairs
                             /\ Minted(grant[w])
                             /\ rts[grant[w]] # "live"
    /\ pc[w] \in {"lost", "revokeAccess", "findPaired", "fallback"} =>
         grant[w] \in Pairs /\ Minted(grant[w])
    /\ pc[w] \in {"cascadeRefresh", "cascadeAccess"} => grant[w] \in Pairs
    /\ Saving(w) => /\ pair[w] \in Pairs
                    /\ Minted(pair[w])
                    /\ ats[pair[w]] = "absent" /\ rts[pair[w]] = "absent"
                    /\ pair[w] \notin delivered
                    /\ data[pair[w]].refresh = (pc[w] = "saving")

\* Rows exist only for what was generated; a family is named by a generated pair.
RowInv ==
  /\ \A c \in Codes : codes[c] # "absent" => codeInfo[c] # None
  /\ \A p \in Pairs :
       /\ ats[p] # "absent" \/ rts[p] # "absent" \/ p \in delivered => Minted(p)
       /\ Minted(p) /\ data[p].fam # None => Minted(data[p].fam) /\ data[p].refresh

\* A grant that is held or was exchanged is no longer live, is held by one
\* request and was exchanged for one pair, and a pair being saved is new.
ChainInv ==
  /\ \A v, w \in Workers : v # w /\ Holding(v) /\ Holding(w) => grant[v] # grant[w]
  /\ \A v, w \in Workers : v # w /\ Saving(v) /\ Saving(w) => pair[v] # pair[w]
  /\ \A v, w \in Workers : Saving(v) /\ pc[w] = "rotating" => pair[v] # grant[w]
  /\ \A w \in Workers, p \in Pairs : Minted(p) =>
       /\ Holding(w) => data[p].parent # grant[w]
       /\ Saving(w) => data[p].parent # pair[w]
  /\ \A p \in Pairs : Minted(p) =>
       /\ data[p].parent \in Codes => /\ codeInfo[data[p].parent] # None
                                      /\ codes[data[p].parent] # "unused"
       /\ data[p].parent \in Pairs => /\ Minted(data[p].parent)
                                      /\ rts[data[p].parent] # "live"
  /\ SingleUse

\* Among the live refresh tokens of a family and the requests that rotate it
\* there is at most one.
HeadOf(w) == IF pc[w] = "rotating" THEN grant[w] ELSE pair[w]
Rotating(w) == pc[w] = "rotating" \/ pc[w] = "saving"

FamilyInv ==
  /\ OneLiveRefreshPerFamily
  /\ \A w \in Workers, p \in Pairs :
       Rotating(w) /\ Minted(p) /\ rts[p] = "live" /\ data[p].fam # None
         => data[HeadOf(w)].fam # data[p].fam
  /\ \A v, w \in Workers :
       v # w /\ Rotating(v) /\ Rotating(w) /\ data[HeadOf(v)].fam # None
         => data[HeadOf(v)].fam # data[HeadOf(w)].fam

\* Only the sweep removes the refresh-token row of a pair that was stored.
StoredInv ==
  \A p \in Pairs :
    ats[p] # "absent" /\ rts[p] = "absent" /\ data[p].refresh => RefreshExp(p) < now

\* The invariant whose preservation by every step gives SingleUse,
\* OneLiveRefreshPerFamily, ChainInherits, DeliveredPersisted and
\* CascadeReachesAccess: besides them it says what each request in flight holds.
IInv ==
  /\ TypeOK /\ RequestInv /\ RowInv /\ ChainInv /\ FamilyInv
  /\ StoredInv /\ ChainInherits /\ DeliveredPersisted
=============================================================================
