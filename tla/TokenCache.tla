----------------------------- MODULE TokenCache -----------------------------
(***************************************************************************)
(* RedisCachedTokenRepository: the cache before the token tables, with     *)
(* its negative marker and the delayed double delete.                      *)
(*                                                                         *)
(* A read asks Redis first (one EVAL: the revoked marker, then the value). *)
(* A hit is answered at once and changes nothing; a miss goes to           *)
(* PostgreSQL and sends a fill. Every other Redis command is               *)
(* fire-and-forget over a pool of connections, so commands in flight are a *)
(* set, executed in any order. Times are countdowns: a tick is a second of *)
(* the clock; a row that was read or a command that was sent reaches       *)
(* Redis within Lag ticks.                                                 *)
(***************************************************************************)
EXTENDS Integers

CONSTANTS Access,       \* access tokens (hashed, as stored)
          Refresh,      \* refresh tokens
          Workers,      \* requests in progress
          None,
          MaxTtl,       \* cache.access_token_max_ttl
          NegTtl,       \* lifetime of the revoked marker
          Delay,        \* delay of the second DEL
          Lag,          \* longest way of a row or a command to Redis
          Settings      \* what happens together in a behaviour, see Setting

Tokens == Access \cup Refresh

\* The tokens that are issued and their lifetime, the number of requests, and
\* whether statements and Redis commands may fail and the process may crash.
Setting == [on : SUBSET Tokens, life : Nat, max : Nat, faults : BOOLEAN]

ASSUME CacheAssumption ==
  /\ MaxTtl \in Nat \ {0} /\ NegTtl \in Nat \ {0}
  /\ Delay \in Nat /\ Lag \in Nat
  /\ Settings \subseteq Setting
  /\ Access \cap Refresh = {}

\* The second DEL comes later than any fill whose row was read before the write:
\* the delay is chosen above the latency of the lookups that get refilled.
ASSUME DelayAssumption == Delay > Lag

VARIABLES row,        \* revocation state of the stored tokens
          left,       \* expires_at - now of the tokens issued so far
          stale,      \* ticks since the row was revoked
          cache,      \* Redis: for every key and token, its value and TTL
          wire,       \* Redis commands in flight
          timers,     \* second DELs scheduled on the event loop
          job,        \* what each request waits for
          calls,      \* requests made so far
          acked,      \* tokens whose revocation has been answered
          setting     \* the setting of this behaviour, which never changes

store == <<row, left, stale>>
vars == <<store, cache, wire, timers, job, calls, acked, setting>>

Keys == {"access", "introspect", "revoked"}

Entry == [val : {"live", "revoked"}, ttl : Nat \ {0}]
Command == [op : {"SET", "DEL", "EXISTS"}, key : Keys, tok : Tokens,
            val : {"live", "revoked"}, ttl : Nat, age : 0..Lag, retry : BOOLEAN]
Timer == [key : Keys, tok : Tokens, wait : 0..Delay]
Job == [at : {"idle", "readAccess", "readIntrospect", "invalidate", "warm"},
        tok : Tokens \cup {None}, fill : BOOLEAN, age : 0..Lag]

\* None is no time, no token and no entry.
ASSUME NoneAssumption == None \notin Int /\ None \notin Tokens /\ None \notin Entry

Idle == [at |-> "idle", tok |-> None, fill |-> FALSE, age |-> 0]

Smaller(m, n) == IF m < n THEN m ELSE n

Set(key, t, val, ttl, age) ==
  [op |-> "SET", key |-> key, tok |-> t, val |-> val, ttl |-> ttl, age |-> age, retry |-> FALSE]
Del(key, t, retry) ==
  [op |-> "DEL", key |-> key, tok |-> t, val |-> "revoked", ttl |-> 0, age |-> 0, retry |-> retry]
Exists(t) ==
  [op |-> "EXISTS", key |-> "access", tok |-> t, val |-> "live", ttl |-> 0, age |-> 0, retry |-> FALSE]

Init ==
  /\ row = [t \in Tokens |-> "absent"]
  /\ left = [t \in Tokens |-> None]
  /\ stale = [t \in Tokens |-> 0]
  /\ cache = [k \in Keys |-> [t \in Tokens |-> None]]
  /\ wire = {}
  /\ timers = {}
  /\ job = [w \in Workers |-> Idle]
  /\ calls = 0
  /\ acked = {}
  /\ setting \in Settings

-----------------------------------------------------------------------------
\* What the EVAL finds: a marker hides the value.
RevokedThenGet(key, t) ==
  CASE cache["revoked"][t] # None -> "revoked"
    [] cache["revoked"][t] = None /\ cache[key][t] # None -> "value"
    [] OTHER -> "miss"

Call(w, at, t, fill) ==
  /\ job[w].at = "idle"
  /\ calls < setting.max
  /\ calls' = calls + 1
  /\ job' = [job EXCEPT ![w] = [at |-> at, tok |-> t, fill |-> fill, age |-> 0]]
Done(w) == job' = [job EXCEPT ![w] = Idle]

\* getAccessToken and introspectToken: a miss goes on to PostgreSQL and fills
\* the cache afterwards, a Redis error goes on without a fill.
GetAccessToken(w, t) ==
  /\ \/ RevokedThenGet("access", t) = "miss" /\ Call(w, "readAccess", t, TRUE)
     \/ setting.faults /\ Call(w, "readAccess", t, FALSE)
  /\ UNCHANGED <<store, cache, wire, timers, acked, setting>>

IntrospectToken(w, t) ==
  /\ \/ RevokedThenGet("introspect", t) = "miss" /\ Call(w, "readIntrospect", t, TRUE)
     \/ setting.faults /\ Call(w, "readIntrospect", t, FALSE)
  /\ UNCHANGED <<store, cache, wire, timers, acked, setting>>

\* Mutant: a row with no lifetime left is cached too.
ReadAccessExpired(w) ==
  /\ job[w].at = "readAccess"
  /\ \/ LET t == job[w].tok
        IN  wire' = IF t \in Access /\ row[t] # "absent" /\ job[w].fill
                    THEN wire \cup {Set("access", t, row[t], Smaller(left[t], MaxTtl), 0)}
                    ELSE wire
     \/ setting.faults /\ wire' = wire
  /\ Done(w)
  /\ UNCHANGED <<store, cache, timers, calls, acked, setting>>

\* Mutant: the lifetime of the entry is not capped.
ReadAccessFullTtl(w) ==
  /\ job[w].at = "readAccess"
  /\ \/ LET t == job[w].tok
        IN  wire' = IF t \in Access /\ row[t] # "absent" /\ left[t] > 0 /\ job[w].fill
                    THEN wire \cup {Set("access", t, row[t], left[t], 0)}
                    ELSE wire
     \/ setting.faults /\ wire' = wire
  /\ Done(w)
  /\ UNCHANGED <<store, cache, timers, calls, acked, setting>>

\* The row of an access token that has lifetime left is cached as it was read,
\* for that lifetime but not longer than MaxTtl; a failed SELECT is no row.
ReadAccess(w) ==
  /\ job[w].at = "readAccess"
  /\ \/ LET t == job[w].tok
        IN  wire' = IF t \in Access /\ row[t] # "absent" /\ left[t] > 0 /\ job[w].fill
                    THEN wire \cup {Set("access", t, row[t], Smaller(left[t], MaxTtl), 0)}
                    ELSE wire
     \/ setting.faults /\ wire' = wire
  /\ Done(w)
  /\ UNCHANGED <<store, cache, timers, calls, acked, setting>>

\* Mutant: the answer is cached without asking Redis for the kind of token.
ReadIntrospectBlind(w) ==
  /\ job[w].at = "readIntrospect"
  /\ \/ LET t == job[w].tok
        IN  wire' = IF row[t] = "live" /\ left[t] > 0 /\ job[w].fill
                    THEN wire \cup {Set("introspect", t, "live", Smaller(left[t], MaxTtl), 0)}
                    ELSE wire
     \/ setting.faults /\ wire' = wire
  /\ Done(w)
  /\ UNCHANGED <<store, cache, timers, calls, acked, setting>>

\* PostgreSQL looks in both tables. An active answer is cached only when Redis
\* then knows the token as an access token; a failed SELECT is inactive.
ReadIntrospect(w) ==
  /\ job[w].at = "readIntrospect"
  /\ \/ LET t == job[w].tok
        IN  wire' = IF row[t] = "live" /\ left[t] >= 0 /\ job[w].fill
                    THEN wire \cup {Exists(t)} ELSE wire
     \/ setting.faults /\ wire' = wire
  /\ Done(w)
  /\ UNCHANGED <<store, cache, timers, calls, acked, setting>>

-----------------------------------------------------------------------------
\* The writes. A new access token is saved alone, which warms the cache, or in a
\* pair, which does not; the repository calls back whether or not the insert
\* succeeded.
SaveAccessToken(w, t) ==
  /\ t \in Access /\ left[t] = None
  /\ left' = [left EXCEPT ![t] = setting.life]
  /\ \/ row' = [row EXCEPT ![t] = "live"]
     \/ setting.faults /\ UNCHANGED row
  /\ Call(w, "warm", t, TRUE)
  /\ UNCHANGED <<stale, cache, wire, timers, acked, setting>>

WarmAccess(w) ==
  /\ job[w].at = "warm"
  /\ LET t == job[w].tok
     IN  wire' = IF left[t] > 0
                 THEN wire \cup {Set("access", t, "live", Smaller(left[t], MaxTtl), job[w].age)}
                 ELSE wire
  /\ Done(w)
  /\ UNCHANGED <<store, cache, timers, calls, acked, setting>>

SaveTokenPair(t) ==
  /\ left[t] = None
  /\ left' = [left EXCEPT ![t] = setting.life]
  /\ row' = [row EXCEPT ![t] = "live"]
  /\ UNCHANGED <<stale, cache, wire, timers, job, calls, acked, setting>>

Revoke(t) ==
  /\ row' = [row EXCEPT ![t] = "revoked"]
  /\ stale' = [stale EXCEPT ![t] = 0]

\* revokeAccessToken revokes the row, then marks the token and deletes its
\* entries, now and once more after Delay. Its caller is answered at once.
RevokeAccessToken(w, t) ==
  /\ t \in Access /\ left[t] # None
  /\ \/ row[t] = "live" /\ Revoke(t)
     \/ (setting.faults \/ row[t] # "live") /\ UNCHANGED <<row, stale>>
  /\ Call(w, "invalidate", t, FALSE)
  /\ UNCHANGED <<left, cache, wire, timers, acked, setting>>

\* Mutant: the second DEL is not scheduled.
InvalidateOnce(w) ==
  /\ job[w].at = "invalidate"
  /\ LET t == job[w].tok
     IN  /\ wire' = wire \cup {Set("revoked", t, "revoked", NegTtl, 0),
                               Del("access", t, FALSE), Del("introspect", t, FALSE)}
         /\ acked' = acked \cup {t}
  /\ Done(w)
  /\ UNCHANGED <<store, cache, timers, calls, setting>>

Invalidate(w) ==
  /\ job[w].at = "invalidate"
  /\ LET t == job[w].tok
     IN  /\ wire' = wire \cup {Set("revoked", t, "revoked", NegTtl, 0),
                               Del("access", t, FALSE), Del("introspect", t, FALSE)}
         /\ timers' = timers \cup {[key |-> k, tok |-> t, wait |-> Delay]
                                     : k \in {"access", "introspect"}}
         /\ acked' = acked \cup {t}
  /\ Done(w)
  /\ UNCHANGED <<store, cache, calls, setting>>

\* revokeTokenFamily, revokeRefreshToken and the bulk revocations reach the rows
\* only.
RevokePassThrough(t) ==
  /\ row[t] = "live"
  /\ Revoke(t)
  /\ UNCHANGED <<left, cache, wire, timers, job, calls, acked, setting>>

PurgeExpired ==
  /\ row' = [t \in Tokens |-> IF left[t] # None /\ left[t] < 0 THEN "absent" ELSE row[t]]
  /\ row' # row
  /\ UNCHANGED <<left, stale, cache, wire, timers, job, calls, acked, setting>>

-----------------------------------------------------------------------------
\* Mutant: the introspection is cached for MaxTtl whatever its exp.
ExecuteFixedTtl(c) ==
  /\ wire' = (wire \ {c}) \cup
               IF c.op = "EXISTS" /\ cache["access"][c.tok] # None /\ left[c.tok] > 0
               THEN {Set("introspect", c.tok, "live", MaxTtl, c.age)}
               ELSE {}
  /\ cache' = CASE c.op = "SET" -> [cache EXCEPT ![c.key][c.tok] = [val |-> c.val, ttl |-> c.ttl]]
                [] c.op = "DEL" -> [cache EXCEPT ![c.key][c.tok] = None]
                [] OTHER        -> cache
  /\ UNCHANGED <<store, timers, job, calls, acked, setting>>

\* Redis executes a command; the answer to EXISTS may send a fill.
Execute(c) ==
  /\ wire' = (wire \ {c}) \cup
               IF c.op = "EXISTS" /\ cache["access"][c.tok] # None /\ left[c.tok] > 0
               THEN {Set("introspect", c.tok, "live", Smaller(left[c.tok], MaxTtl), c.age)}
               ELSE {}
  /\ cache' = CASE c.op = "SET" -> [cache EXCEPT ![c.key][c.tok] = [val |-> c.val, ttl |-> c.ttl]]
                [] c.op = "DEL" -> [cache EXCEPT ![c.key][c.tok] = None]
                [] OTHER        -> cache
  /\ UNCHANGED <<store, timers, job, calls, acked, setting>>

\* A command fails; a DEL is tried once more.
Fail(c) ==
  /\ setting.faults
  /\ wire' = (wire \ {c}) \cup IF c.op = "DEL" /\ ~c.retry THEN {Del(c.key, c.tok, TRUE)} ELSE {}
  /\ UNCHANGED <<store, cache, timers, job, calls, acked, setting>>

SecondDelete(d) ==
  /\ d.wait = 0
  /\ timers' = timers \ {d}
  /\ wire' = wire \cup {Del(d.key, d.tok, FALSE)}
  /\ UNCHANGED <<store, cache, job, calls, acked, setting>>

\* The process dies with its requests, timers and unsent commands.
Crash ==
  /\ setting.faults
  /\ job # [w \in Workers |-> Idle] \/ timers # {} \/ wire # {}
  /\ job' = [w \in Workers |-> Idle]
  /\ timers' = {}
  /\ wire' = {}
  /\ UNCHANGED <<store, cache, calls, acked, setting>>

\* A second passes, and Redis drops the keys that end with it. Countdowns stop
\* where nothing tells their values apart any more.
Larger(m, n) == IF m > n THEN m ELSE n

Tick ==
  /\ \A c \in wire : c.age < Lag
  /\ \A w \in Workers : job[w].at = "warm" => job[w].age < Lag
  /\ \A d \in timers : d.wait > 0
  /\ left' = [t \in Tokens |-> IF left[t] = None THEN None ELSE Larger(left[t] - 1, -(Lag + 1))]
  /\ stale' = [t \in Tokens |-> IF row[t] = "revoked" THEN Smaller(stale[t] + 1, Lag + MaxTtl) ELSE 0]
  /\ cache' = [k \in Keys |-> [t \in Tokens |->
                 IF cache[k][t] = None \/ cache[k][t].ttl = 1 THEN None
                 ELSE [cache[k][t] EXCEPT !.ttl = @ - 1]]]
  /\ wire' = {[c EXCEPT !.age = @ + 1] : c \in wire}
  /\ timers' = {[d EXCEPT !.wait = @ - 1] : d \in timers}
  /\ job' = [w \in Workers |-> IF job[w].at = "warm" THEN [job[w] EXCEPT !.age = @ + 1] ELSE job[w]]
  /\ UNCHANGED <<row, calls, acked, setting>>

Request(w) ==
  \/ \E t \in setting.on : \/ GetAccessToken(w, t) \/ IntrospectToken(w, t)
                       \/ SaveAccessToken(w, t) \/ RevokeAccessToken(w, t)
  \/ ReadAccess(w) \/ ReadIntrospect(w) \/ WarmAccess(w) \/ Invalidate(w)

Next ==
  \/ \E w \in Workers : Request(w)
  \/ \E t \in setting.on : SaveTokenPair(t) \/ RevokePassThrough(t)
  \/ \E c \in wire : Execute(c) \/ Fail(c)
  \/ \E d \in timers : SecondDelete(d)
  \/ PurgeExpired \/ Crash \/ Tick

Spec == Init /\ [][Next]_vars

-----------------------------------------------------------------------------
\* The rows, the Redis entries (whose EX is positive: Redis rejects EX 0), the
\* commands, the timers and the requests have the shapes the code gives them.
TypeOK ==
  /\ row \in [Tokens -> {"absent", "live", "revoked"}]
  /\ left \in [Tokens -> (-(Lag + 1))..setting.life \cup {None}]
  /\ stale \in [Tokens -> 0..(Lag + MaxTtl)]
  /\ cache \in [Keys -> [Tokens -> Entry \cup {None}]]
  /\ wire \subseteq Command
  /\ timers \subseteq Timer
  /\ job \in [Workers -> Job]
  /\ calls \in 0..setting.max
  /\ acked \subseteq Access
  /\ setting \in Settings

\* What the next read would be told by the cache alone: validateAccessToken also
\* looks at the cached row's flag and expiry, introspection takes the entry as
\* it is.
Validates(t) ==
  /\ RevokedThenGet("access", t) = "value"
  /\ cache["access"][t].val = "live"
  /\ left[t] >= 0

Introspects(t) == RevokedThenGet("introspect", t) = "value"

\* A token revoked by any path, the family cascade that does not invalidate
\* included, is accepted from the cache for at most MaxTtl after the last fill
\* that could have read it live, crashes and failing commands notwithstanding.
StaleBound ==
  \A t \in Tokens :
    row[t] = "revoked" /\ (Validates(t) \/ Introspects(t)) => stale[t] < Lag + MaxTtl

\* A cached introspection, which is answered without looking at exp again, does
\* not outlive the token by more than the way of its fill.
ExpiryBound == \A t \in Tokens : Introspects(t) => left[t] > -Lag

\* revokeRefreshToken invalidates nothing, so no refresh token may ever be
\* answered from the cache: the EXISTS check keeps them out.
RefreshRevocationImmediate == \A t \in Refresh : row[t] # "live" => ~Introspects(t) /\ ~Validates(t)

\* When nothing fails: once both second DELs of an answered revocation are done,
\* the cache holds no live entry of the token, whatever fills raced with it, and
\* the revoked marker is no longer needed.
RefillRaceClosed ==
  ~setting.faults => \A t \in acked :
    (\A d \in timers : d.tok # t) /\ (\A c \in wire : c.op = "DEL" => c.tok # t)
    => /\ cache["introspect"][t] = None
       /\ cache["access"][t] # None => cache["access"][t].val = "revoked"
=============================================================================
