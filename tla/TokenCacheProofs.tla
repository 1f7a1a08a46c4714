-------------------------- MODULE TokenCacheProofs --------------------------
(***************************************************************************)
(* What the cache before the token tables promises, for every number of    *)
(* tokens and requests and every choice of the times.                      *)
(*                                                                         *)
(* The inductive invariant follows a value from the row it was read from   *)
(* to the entry: a live value is either young enough that the row was live *)
(* within the last Lag ticks, or it is in Redis and counts down.           *)
(***************************************************************************)
EXTENDS TokenCache, TLAPS

Cached == {"access", "introspect"}

\* A command that carries a live value was sent for a token with an expiry, and
\* since then the row has been revoked for no longer than the command is old. A
\* fill has a TTL of at most MaxTtl, and that of an introspection ends with the
\* token, the way of the command aside.
CommandOK(c) ==
  /\ c.op = "EXISTS" => c.val = "live"
  /\ c.op = "SET" => c.ttl > 0
  /\ c.op = "SET" /\ c.key \in Cached => c.tok \in Access /\ c.ttl <= MaxTtl
  /\ c.op = "SET" /\ c.key = "introspect" => c.val = "live" /\ left[c.tok] >= c.ttl - c.age
  /\ c.val = "live" =>
       left[c.tok] # None /\ (row[c.tok] = "revoked" => stale[c.tok] <= c.age)

\* A request has a token; one that writes has an access token that was issued,
\* and a warm-up is as old as its insert.
JobOK(j) ==
  /\ j.at # "idle" => j.tok \in Tokens
  /\ j.at \in {"warm", "invalidate"} => j.tok \in Access /\ left[j.tok] # None
  /\ j.at = "warm" /\ row[j.tok] = "revoked" => stale[j.tok] <= j.age

\* The cached tokens are access tokens. A live entry ends MaxTtl after the last
\* fill that could have read a live row, and a cached introspection ends with the
\* token, the way of its fill aside.
EntryOK(k, t, e) ==
  /\ t \in Access /\ e.ttl <= MaxTtl
  /\ e.val = "live" /\ row[t] = "revoked" => stale[t] + e.ttl <= Lag + MaxTtl
  /\ k = "introspect" => e.val = "live" /\ left[t] # None /\ left[t] >= e.ttl - Lag

FlowInv ==
  /\ \A t \in Tokens : left[t] = None => row[t] = "absent"
  /\ \A c \in wire : CommandOK(c)
  /\ \A w \in Workers : JobOK(job[w])
  /\ \A k \in Cached, t \in Tokens : cache[k][t] # None => EntryOK(k, t, cache[k][t])

\* For both entries of t there is a second DEL to come, and since it was scheduled
\* at most age ticks have gone by.
Caught(t, age) ==
  \A k \in Cached : \E d \in timers : d.key = k /\ d.tok = t /\ d.wait + age >= Delay

\* A DEL of this entry is scheduled or on its way.
Pursued(k, t) ==
  \/ \E d \in timers : d.key = k /\ d.tok = t
  \/ \E c \in wire : c.op = "DEL" /\ c.key = k /\ c.tok = t

\* When nothing fails, a token whose revocation was answered is not live in
\* PostgreSQL. Whatever is on its way with a live value gets to Redis before a
\* second DEL is sent, and a live entry is there only as long as a DEL is to come.
CloseInv ==
  ~setting.faults =>
    /\ \A w \in Workers : job[w].at = "invalidate" => row[job[w].tok] # "live"
    /\ \A t \in acked : left[t] # None /\ row[t] # "live"
    /\ \A t \in acked : \A c \in wire : c.tok = t /\ c.val = "live" => Caught(t, c.age)
    /\ \A t \in acked : \A w \in Workers :
         job[w].at = "warm" /\ job[w].tok = t => Caught(t, job[w].age)
    /\ \A t \in acked : \A k \in Cached :
         cache[k][t] # None /\ cache[k][t].val = "live" => Pursued(k, t)

CacheInv == TypeOK /\ FlowInv /\ CloseInv

-----------------------------------------------------------------------------
\* The steps of PostgreSQL other than the passing of time: an issued token keeps
\* its expiry, and a row that is revoked either was so already or is so from now.
Gentle ==
  \A t \in Tokens :
    /\ left[t] # None => left'[t] = left[t]
    /\ row'[t] = "revoked" => stale'[t] = 0 \/ (row[t] = "revoked" /\ stale'[t] = stale[t])

\* What holds of a command, a request or an entry holds after a gentle step.
LEMMA GentleKeeps ==
  ASSUME TypeOK, Gentle
  PROVE  /\ \A c \in Command : CommandOK(c) => CommandOK(c)'
         /\ \A j \in Job : JobOK(j) => JobOK(j)'
         /\ \A k \in Cached, t \in Tokens, e \in Entry : EntryOK(k, t, e) => EntryOK(k, t, e)'
<1>1. ASSUME NEW c \in Command, CommandOK(c)
      PROVE  CommandOK(c)'
  <2>1. c.tok \in Tokens /\ c.age \in Nat
    BY CacheAssumption DEF Command
  <2>. QED  BY <1>1, <2>1 DEF Gentle, CommandOK
<1>2. ASSUME NEW j \in Job, JobOK(j)
      PROVE  JobOK(j)'
  <2>1. j.age \in Nat
    BY CacheAssumption DEF Job
  <2>. QED  BY <1>2, <2>1 DEF Gentle, JobOK, Tokens
<1>3. ASSUME NEW k \in Cached, NEW t \in Tokens, NEW e \in Entry, EntryOK(k, t, e)
      PROVE  EntryOK(k, t, e)'
  BY <1>3, CacheAssumption DEF Gentle, EntryOK, Entry
<1>. QED  BY <1>1, <1>2, <1>3, Zenon

\* After a gentle step the values in flight are in order when the new ones are.
LEMMA GentleFlow ==
  ASSUME TypeOK, TypeOK', FlowInv, Gentle,
         \A t \in Tokens : left'[t] = None => row'[t] = "absent",
         \A c \in wire' : c \in wire \/ CommandOK(c)',
         \A w \in Workers : job'[w] = job[w] \/ JobOK(job[w])',
         \A k \in Cached, t \in Tokens :
           cache'[k][t] = None \/ cache'[k][t] = cache[k][t] \/ EntryOK(k, t, cache[k][t])'
  PROVE  FlowInv'
<1>1. ASSUME NEW c \in wire'
      PROVE  CommandOK(c)'
  BY <1>1, GentleKeeps, Zenon DEF TypeOK, FlowInv
<1>2. ASSUME NEW w \in Workers
      PROVE  JobOK(job[w])'
  <2>1. CASE job'[w] = job[w]
    <3>. DEFINE j == job[w]
    <3>1. j \in Job /\ JobOK(j)
      BY Zenon DEF TypeOK, FlowInv
    <3>2. JobOK(j)'
      BY <3>1, <2>1, GentleKeeps, Zenon
    <3>. QED  BY <3>2, Zenon
  <2>. QED  BY <1>2, <2>1, Zenon
<1>3. ASSUME NEW k \in Cached, NEW t \in Tokens, cache'[k][t] # None
      PROVE  EntryOK(k, t, cache[k][t])'
  BY <1>3, GentleKeeps DEF TypeOK, FlowInv, Cached, Keys
<1>. QED  BY <1>1, <1>2, <1>3, Zenon DEF FlowInv

\* A step that leaves Redis and the timers alone keeps CloseInv when no issued
\* token becomes live, the live values it sends are those of a live row or of a
\* warm-up, and the requests it starts are for a token that was not issued before
\* or not live any more.
LEMMA GentleClose ==
  ASSUME TypeOK, FlowInv, CloseInv,
         UNCHANGED <<cache, timers, acked, setting>>, wire \subseteq wire',
         \A t \in Tokens : left[t] # None => left'[t] # None /\ (row'[t] = "live" => row[t] = "live"),
         \A c \in wire' : \/ c \in wire \/ c.val # "live" \/ row[c.tok] = "live"
                          \/ \E w \in Workers : /\ job[w].at = "warm"
                                                /\ job[w].tok = c.tok /\ job[w].age = c.age,
         \A w \in Workers : \/ job'[w] = job[w]
                            \/ job'[w].at \notin {"warm", "invalidate"}
                            \/ job'[w].at = "warm" /\ left[job'[w].tok] = None
                            \/ job'[w].at = "invalidate" /\ row'[job'[w].tok] # "live"
                            \/ setting.faults
  PROVE  CloseInv'
<1>. SUFFICES ASSUME ~setting.faults PROVE CloseInv'
  BY Zenon DEF CloseInv
<1>1. ASSUME NEW w \in Workers, job'[w].at = "invalidate"
      PROVE  row'[job'[w].tok] # "live"
  BY <1>1 DEF CloseInv, FlowInv, JobOK, Tokens
<1>2. ASSUME NEW t \in acked
      PROVE  t \in Tokens /\ left[t] # None /\ left'[t] # None /\ row[t] # "live" /\ row'[t] # "live"
  BY <1>2, Zenon DEF CloseInv, TypeOK, Tokens
<1>3. ASSUME NEW t, NEW a
      PROVE  Caught(t, a) => Caught(t, a)'
  BY Zenon DEF Caught
<1>4. ASSUME NEW t \in acked, NEW c \in wire', c.tok = t, c.val = "live"
      PROVE  Caught(t, c.age)'
  <2>1. Caught(t, c.age)
    BY <1>2, <1>4, Zenon DEF CloseInv
  <2>. QED  BY <1>3, <2>1, Zenon
<1>5. ASSUME NEW t \in acked, NEW w \in Workers, job'[w].at = "warm", job'[w].tok = t
      PROVE  Caught(t, job[w].age)'
  <2>1. job'[w] = job[w]
    BY <1>2, <1>5, Zenon
  <2>2. PICK a : a = job[w].age
    OBVIOUS
  <2>3. Caught(t, a)'
    BY <1>3, <1>5, <2>1, <2>2 DEF CloseInv
  <2>. QED  BY <2>1, <2>2, <2>3, Zenon
<1>6. ASSUME NEW t \in acked, NEW k \in Cached, cache'[k][t] # None, cache'[k][t].val = "live"
      PROVE  Pursued(k, t)'
  <2>1. Pursued(k, t)
    BY <1>6, Zenon DEF CloseInv
  <2>. QED  BY <2>1, Zenon DEF Pursued
<1>. QED  BY <1>1, <1>2, <1>4, <1>5, <1>6, Zenon DEF CloseInv

-----------------------------------------------------------------------------
\* Initially nothing is stored, cached or under way.
LEMMA InitCache == Init => CacheInv
<1>. SUFFICES ASSUME Init PROVE CacheInv
  OBVIOUS
<1>1. setting.life \in Nat /\ setting.max \in Nat
  BY CacheAssumption, Zenon DEF Init, Setting
<1>2. TypeOK
  BY <1>1, CacheAssumption DEF Init, TypeOK, Idle, Job
<1>3. FlowInv
  BY Zenon DEF Init, FlowInv, JobOK, Idle, Cached, Keys
<1>4. CloseInv
  BY Zenon DEF Init, CloseInv, Idle, Cached, Keys
<1>. QED  BY <1>2, <1>3, <1>4, Zenon DEF CacheInv

\* A request is under way: the shapes stay right.
LEMMA CallType ==
  ASSUME TypeOK, NEW w \in Workers, NEW t \in Tokens, NEW fill \in BOOLEAN,
         NEW at \in {"readAccess", "readIntrospect", "invalidate", "warm"},
         Call(w, at, t, fill)
  PROVE  /\ job' \in [Workers -> Job] /\ calls' \in 0..setting.max
         /\ job'[w] = [at |-> at, tok |-> t, fill |-> fill, age |-> 0]
         /\ \A x \in Workers : x = w \/ job'[x] = job[x]
<1>1. setting.max \in Nat
  BY CacheAssumption, Zenon DEF TypeOK, Setting
<1>2. [at |-> at, tok |-> t, fill |-> fill, age |-> 0] \in Job
  BY CacheAssumption DEF Job
<1>. QED  BY <1>1, <1>2 DEF TypeOK, Call

LEMMA DoneType ==
  ASSUME TypeOK, NEW w \in Workers, Done(w)
  PROVE  /\ job' \in [Workers -> Job]
         /\ \A x \in Workers : job'[x] = Idle \/ job'[x] = job[x]
BY CacheAssumption DEF TypeOK, Done, Idle, Job

\* A lookup that goes on to PostgreSQL.
LEMMA LookupStep ==
  ASSUME CacheInv, NEW w \in Workers, NEW t \in Tokens,
         GetAccessToken(w, t) \/ IntrospectToken(w, t)
  PROVE  CacheInv'
<1>. USE DEF CacheInv
<1>1. PICK at \in {"readAccess", "readIntrospect"}, fill \in BOOLEAN : Call(w, at, t, fill)
  BY Zenon DEF GetAccessToken, IntrospectToken
<1>2. UNCHANGED <<row, left, stale, cache, wire, timers, acked, setting>>
  BY Zenon DEF GetAccessToken, IntrospectToken, store
<1>. at \in {"readAccess", "readIntrospect", "invalidate", "warm"}
  OBVIOUS
<1>3. /\ job' \in [Workers -> Job] /\ calls' \in 0..setting.max
      /\ job'[w] = [at |-> at, tok |-> t, fill |-> fill, age |-> 0]
      /\ \A x \in Workers : x = w \/ job'[x] = job[x]
  BY <1>1, CallType, Zenon
<1>4. TypeOK'
  BY <1>2, <1>3, Zenon DEF TypeOK
<1>5. FlowInv'
  <2>1. Gentle
    BY <1>2, Zenon DEF Gentle
  <2>2. JobOK(job[w])'
    BY <1>3 DEF JobOK
  <2>. QED  BY <1>2, <1>3, <1>4, <2>1, <2>2, GentleFlow, Zenon DEF FlowInv
<1>6. CloseInv'
  BY <1>2, <1>3, GentleClose
<1>. QED  BY <1>4, <1>5, <1>6, Zenon

\* A request ends and sends commands that are in order.
LEMMA SendStep ==
  ASSUME CacheInv, NEW w \in Workers, Done(w), wire \subseteq wire',
         UNCHANGED <<row, left, stale, cache, timers, calls, acked, setting>>,
         \A c \in wire' \ wire :
           /\ c \in Command /\ CommandOK(c)
           /\ \/ c.val # "live" \/ row[c.tok] = "live"
              \/ job[w].at = "warm" /\ job[w].tok = c.tok /\ job[w].age = c.age
  PROVE  CacheInv'
<1>. USE DEF CacheInv
<1>1. job' \in [Workers -> Job] /\ \A x \in Workers : job'[x] = Idle \/ job'[x] = job[x]
  BY DoneType, Zenon
<1>2. TypeOK'
  BY <1>1, Zenon DEF TypeOK
<1>3. FlowInv'
  <2>1. Gentle
    BY Zenon DEF Gentle
  <2>2. \A x \in Workers : job'[x] = job[x] \/ JobOK(job[x])'
    BY <1>1 DEF JobOK, Idle
  <2>3. \A c \in wire' : c \in wire \/ CommandOK(c)'
    BY Zenon DEF CommandOK
  <2>. QED  BY <1>2, <2>1, <2>2, <2>3, GentleFlow, Zenon DEF FlowInv
<1>4. CloseInv'
  <2>1. \A x \in Workers : job'[x] = job[x] \/ job'[x].at \notin {"warm", "invalidate"}
    BY <1>1 DEF Idle
  <2>. QED  BY <2>1, GentleClose, Zenon
<1>. QED  BY <1>2, <1>3, <1>4, Zenon

\* The SET of a fill is a command.
LEMMA SetType ==
  ASSUME NEW k \in Keys, NEW t \in Tokens, NEW v \in {"live", "revoked"}, NEW ttl \in Nat,
         NEW age \in 0..Lag
  PROVE  Set(k, t, v, ttl, age) \in Command
BY Zenon DEF Set, Command

\* When a fill is in order.
LEMMA FillOK ==
  ASSUME NEW k \in Cached, NEW t \in Access, NEW v \in {"live", "revoked"},
         NEW ttl \in Nat \ {0}, ttl <= MaxTtl, NEW age \in 0..Lag, left[t] # None,
         k = "introspect" => v = "live" /\ left[t] >= ttl - age,
         v = "live" /\ row[t] = "revoked" => stale[t] <= age
  PROVE  /\ Set(k, t, v, ttl, age) \in Command /\ CommandOK(Set(k, t, v, ttl, age))
         /\ Set(k, t, v, ttl, age).val = v /\ Set(k, t, v, ttl, age).tok = t
         /\ Set(k, t, v, ttl, age).age = age
<1>1. k \in Keys /\ t \in Tokens
  BY Zenon DEF Cached, Keys, Tokens
<1>2. Set(k, t, v, ttl, age) \in Command
  BY <1>1, SetType, Zenon
<1>. QED  BY <1>2 DEF CommandOK, Set

\* The TTL of a fill is positive and exceeds neither MaxTtl nor the lifetime left.
LEMMA TtlType ==
  ASSUME NEW l \in Int, l > 0
  PROVE  Smaller(l, MaxTtl) \in Nat \ {0} /\ Smaller(l, MaxTtl) <= MaxTtl /\ Smaller(l, MaxTtl) <= l
BY CacheAssumption DEF Smaller

\* The lifetime that is left of an issued token is a number.
LEMMA LeftType ==
  ASSUME TypeOK, NEW t \in Tokens, left[t] # None
  PROVE  left[t] \in Int
<1>1. setting.life \in Nat
  BY CacheAssumption, Zenon DEF TypeOK, Setting
<1>. QED  BY <1>1, CacheAssumption DEF TypeOK

LEMMA ReadAccessStep ==
  ASSUME CacheInv, NEW w \in Workers, ReadAccess(w)
  PROVE  CacheInv'
<1>. DEFINE t == job[w].tok
            fill == Set("access", t, row[t], Smaller(left[t], MaxTtl), 0)
<1>1. UNCHANGED <<row, left, stale, cache, timers, calls, acked, setting>> /\ Done(w)
  BY Zenon DEF ReadAccess, store
<1>2. \/ wire' = wire
      \/ t \in Access /\ row[t] # "absent" /\ left[t] > 0 /\ wire' = wire \cup {fill}
  BY Zenon DEF ReadAccess
<1>3. CASE wire' = wire
  BY <1>1, <1>3, SendStep, Zenon
<1>4. CASE t \in Access /\ row[t] # "absent" /\ left[t] > 0 /\ wire' = wire \cup {fill}
  <2>1. t \in Tokens /\ left[t] # None /\ left[t] \in Int
    BY <1>4, LeftType, Zenon DEF CacheInv, FlowInv, Tokens
  <2>2. Smaller(left[t], MaxTtl) \in Nat \ {0} /\ Smaller(left[t], MaxTtl) <= MaxTtl
    BY <1>4, <2>1, TtlType, Zenon
  <2>3. row[t] \in {"live", "revoked"}
    BY <1>4, <2>1, Zenon DEF CacheInv, TypeOK
  <2>4. fill \in Command /\ CommandOK(fill) /\ (fill.val # "live" \/ row[fill.tok] = "live")
    <3>1. "access" \in Cached /\ 0 \in 0..Lag
      BY CacheAssumption DEF Cached
    <3>2. fill \in Command /\ CommandOK(fill) /\ fill.val = row[t] /\ fill.tok = t
      BY <1>4, <2>1, <2>2, <2>3, <3>1, FillOK
    <3>. HIDE DEF fill
    <3>. QED  BY <3>2, Zenon
  <2>. QED  BY <1>1, <1>4, <2>4, SendStep, Zenon
<1>. QED  BY <1>2, <1>3, <1>4, Zenon

LEMMA ReadIntrospectStep ==
  ASSUME CacheInv, NEW w \in Workers, ReadIntrospect(w)
  PROVE  CacheInv'
<1>. DEFINE t == job[w].tok
<1>1. UNCHANGED <<row, left, stale, cache, timers, calls, acked, setting>> /\ Done(w)
  BY Zenon DEF ReadIntrospect, store
<1>2. wire' = wire \/ (row[t] = "live" /\ wire' = wire \cup {Exists(t)})
  BY Zenon DEF ReadIntrospect
<1>3. CASE wire' = wire
  BY <1>1, <1>3, SendStep, Zenon
<1>4. CASE row[t] = "live" /\ wire' = wire \cup {Exists(t)}
  <2>1. t \in Tokens
    BY Zenon DEF CacheInv, FlowInv, JobOK, ReadIntrospect
  <2>2. left[t] # None
    BY <1>4, <2>1, Zenon DEF CacheInv, FlowInv
  <2>3. Exists(t) \in Command
    BY <2>1, CacheAssumption DEF Exists, Command, Keys
  <2>4. CommandOK(Exists(t)) /\ row[Exists(t).tok] = "live"
    BY <1>4, <2>2, Zenon DEF CommandOK, Exists
  <2>. QED  BY <1>1, <1>4, <2>3, <2>4, SendStep, Zenon
<1>. QED  BY <1>2, <1>3, <1>4, Zenon

LEMMA WarmAccessStep ==
  ASSUME CacheInv, NEW w \in Workers, WarmAccess(w)
  PROVE  CacheInv'
<1>. DEFINE t == job[w].tok
            fill == Set("access", t, "live", Smaller(left[t], MaxTtl), job[w].age)
<1>1. UNCHANGED <<row, left, stale, cache, timers, calls, acked, setting>> /\ Done(w)
  BY Zenon DEF WarmAccess, store
<1>2. wire' = wire \/ (left[t] > 0 /\ wire' = wire \cup {fill})
  BY Zenon DEF WarmAccess
<1>3. CASE wire' = wire
  BY <1>1, <1>3, SendStep, Zenon
<1>4. CASE left[t] > 0 /\ wire' = wire \cup {fill}
  <2>1. job[w].at = "warm" /\ job[w].age \in 0..Lag /\ JobOK(job[w])
    BY Zenon DEF WarmAccess, CacheInv, TypeOK, FlowInv, Job
  <2>2. t \in Access /\ t \in Tokens /\ left[t] # None /\ left[t] \in Int
    BY <2>1, LeftType, Zenon DEF CacheInv, JobOK, Tokens
  <2>3. Smaller(left[t], MaxTtl) \in Nat \ {0} /\ Smaller(left[t], MaxTtl) <= MaxTtl
    BY <1>4, <2>2, TtlType, Zenon
  <2>4. fill \in Command /\ CommandOK(fill) /\ job[w].tok = fill.tok /\ job[w].age = fill.age
    <3>1. "access" \in Cached /\ (row[t] = "revoked" => stale[t] <= job[w].age)
      BY <2>1, Zenon DEF Cached, JobOK
    <3>. QED  BY <2>1, <2>2, <2>3, <3>1, FillOK
  <2>. QED  BY <1>1, <1>4, <2>1, <2>4, SendStep, Zenon
<1>. QED  BY <1>2, <1>3, <1>4, Zenon

\* The insert of a token: it was not issued, so nothing is under way for it.
LEMMA SaveAccessTokenStep ==
  ASSUME CacheInv, NEW w \in Workers, NEW t \in Tokens, SaveAccessToken(w, t)
  PROVE  CacheInv'
<1>. USE DEF CacheInv
<1>1. /\ t \in Access /\ left[t] = None /\ left' = [left EXCEPT ![t] = setting.life]
      /\ row' = [row EXCEPT ![t] = "live"] \/ row' = row
      /\ Call(w, "warm", t, TRUE)
      /\ UNCHANGED <<stale, cache, wire, timers, acked, setting>>
  BY Zenon DEF SaveAccessToken
<1>2. /\ job' \in [Workers -> Job] /\ calls' \in 0..setting.max
      /\ job'[w] = [at |-> "warm", tok |-> t, fill |-> TRUE, age |-> 0]
      /\ \A x \in Workers : x = w \/ job'[x] = job[x]
  BY <1>1, CallType, Zenon
<1>3. setting.life \in Nat /\ setting.life # None /\ row[t] = "absent"
  BY <1>1, CacheAssumption, NoneAssumption DEF TypeOK, Setting, FlowInv
<1>4. TypeOK'
  BY <1>1, <1>2, <1>3, CacheAssumption DEF TypeOK
<1>5. FlowInv'
  <2>1. Gentle
    BY <1>1, <1>3, Zenon DEF Gentle, TypeOK
  <2>2. JobOK(job[w])'
    BY <1>1, <1>2, <1>3 DEF JobOK, TypeOK
  <2>3. \A u \in Tokens : left'[u] = None => row'[u] = "absent"
    BY <1>1, <1>3, Zenon DEF FlowInv, TypeOK
  <2>. QED  BY <1>1, <1>2, <1>4, <2>1, <2>2, <2>3, GentleFlow, Zenon
<1>6. CloseInv'
  <2>1. \A u \in Tokens : left[u] # None => left'[u] # None /\ (row'[u] = "live" => row[u] = "live")
    BY <1>1, Zenon DEF TypeOK
  <2>. QED  BY <1>1, <1>2, <2>1, GentleClose
<1>. QED  BY <1>4, <1>5, <1>6, Zenon

LEMMA SaveTokenPairStep ==
  ASSUME CacheInv, NEW t \in Tokens, SaveTokenPair(t)
  PROVE  CacheInv'
<1>. USE DEF CacheInv
<1>1. /\ left[t] = None /\ left' = [left EXCEPT ![t] = setting.life]
      /\ row' = [row EXCEPT ![t] = "live"]
      /\ UNCHANGED <<stale, cache, wire, timers, job, calls, acked, setting>>
  BY Zenon DEF SaveTokenPair
<1>2. setting.life \in Nat /\ setting.life # None /\ row[t] = "absent"
  BY <1>1, CacheAssumption, NoneAssumption DEF TypeOK, Setting, FlowInv
<1>3. TypeOK'
  BY <1>1, <1>2, CacheAssumption DEF TypeOK
<1>4. FlowInv'
  <2>1. Gentle
    BY <1>1, <1>2, Zenon DEF Gentle, TypeOK
  <2>2. \A u \in Tokens : left'[u] = None => row'[u] = "absent"
    BY <1>1, <1>2, Zenon DEF FlowInv, TypeOK
  <2>. QED  BY <1>1, <1>3, <2>1, <2>2, GentleFlow, Zenon
<1>5. CloseInv'
  <2>1. \A u \in Tokens : left[u] # None => left'[u] # None /\ (row'[u] = "live" => row[u] = "live")
    BY <1>1, Zenon DEF TypeOK
  <2>. QED  BY <1>1, <2>1, GentleClose, Zenon
<1>. QED  BY <1>3, <1>4, <1>5, Zenon

\* A revocation makes a live row a revoked one, from now on.
LEMMA RevokeRow ==
  ASSUME CacheInv, NEW t \in Tokens, row[t] = "live", Revoke(t), left' = left
  PROVE  /\ row' \in [Tokens -> {"absent", "live", "revoked"}]
         /\ stale' \in [Tokens -> 0..(Lag + MaxTtl)]
         /\ Gentle /\ row'[t] # "live"
         /\ \A u \in Tokens : left'[u] = None => row'[u] = "absent"
         /\ \A u \in Tokens : row'[u] = "live" => row[u] = "live"
BY CacheAssumption DEF Revoke, CacheInv, TypeOK, FlowInv, Gentle

LEMMA RevokePassThroughStep ==
  ASSUME CacheInv, NEW t \in Tokens, RevokePassThrough(t)
  PROVE  CacheInv'
<1>. USE DEF CacheInv
<1>1. /\ row[t] = "live" /\ Revoke(t)
      /\ UNCHANGED <<left, cache, wire, timers, job, calls, acked, setting>>
  BY Zenon DEF RevokePassThrough
<1>2. TypeOK'
  BY <1>1, RevokeRow, Zenon DEF TypeOK
<1>3. FlowInv'
  BY <1>1, <1>2, RevokeRow, GentleFlow, Zenon
<1>4. CloseInv'
  BY <1>1, RevokeRow, GentleClose, Zenon
<1>. QED  BY <1>2, <1>3, <1>4, Zenon

\* revokeAccessToken: the row, and the request that goes on to the cache.
LEMMA RevokeAccessTokenStep ==
  ASSUME CacheInv, NEW w \in Workers, NEW t \in Tokens, RevokeAccessToken(w, t)
  PROVE  CacheInv'
<1>. USE DEF CacheInv
<1>1. /\ t \in Access /\ left[t] # None
      /\ \/ row[t] = "live" /\ Revoke(t)
         \/ (setting.faults \/ row[t] # "live") /\ UNCHANGED <<row, stale>>
      /\ Call(w, "invalidate", t, FALSE)
      /\ UNCHANGED <<left, cache, wire, timers, acked, setting>>
  BY Zenon DEF RevokeAccessToken
<1>2. /\ job' \in [Workers -> Job] /\ calls' \in 0..setting.max
      /\ job'[w] = [at |-> "invalidate", tok |-> t, fill |-> FALSE, age |-> 0]
      /\ \A x \in Workers : x = w \/ job'[x] = job[x]
  BY <1>1, CallType, Zenon
<1>3. /\ row' \in [Tokens -> {"absent", "live", "revoked"}]
      /\ stale' \in [Tokens -> 0..(Lag + MaxTtl)]
      /\ Gentle /\ (setting.faults \/ row'[t] # "live")
      /\ \A u \in Tokens : left'[u] = None => row'[u] = "absent"
      /\ \A u \in Tokens : row'[u] = "live" => row[u] = "live"
  BY <1>1, RevokeRow, Zenon DEF TypeOK, FlowInv, Gentle
<1>4. TypeOK'
  BY <1>1, <1>2, <1>3, Zenon DEF TypeOK
<1>5. FlowInv'
  <2>1. t \in Access /\ left'[t] # None
    BY <1>1, Zenon
  <2>2. JobOK(job[w])'
    BY <1>2, <2>1 DEF JobOK, Tokens
  <2>. QED  BY <1>1, <1>2, <1>3, <1>4, <2>2, GentleFlow, Zenon
<1>6. CloseInv'
  BY <1>1, <1>2, <1>3, GentleClose
<1>. QED  BY <1>4, <1>5, <1>6, Zenon

LEMMA PurgeExpiredStep ==
  ASSUME CacheInv, PurgeExpired
  PROVE  CacheInv'
<1>. USE DEF CacheInv
<1>1. UNCHANGED <<left, stale, cache, wire, timers, job, calls, acked, setting>>
  BY Zenon DEF PurgeExpired
<1>2. row' \in [Tokens -> {"absent", "live", "revoked"}]
      /\ \A t \in Tokens : row'[t] = "absent" \/ row'[t] = row[t]
  BY Zenon DEF PurgeExpired, TypeOK
<1>3. TypeOK'
  BY <1>1, <1>2, Zenon DEF TypeOK
<1>4. FlowInv'
  <2>1. Gentle /\ \A t \in Tokens : left'[t] = None => row'[t] = "absent"
    BY <1>1, <1>2, Zenon DEF Gentle, FlowInv
  <2>. QED  BY <1>1, <1>3, <2>1, GentleFlow, Zenon
<1>5. CloseInv'
  BY <1>1, <1>2, GentleClose, Zenon
<1>. QED  BY <1>3, <1>4, <1>5, Zenon

-----------------------------------------------------------------------------
\* The steps of the cache itself. A DEL is a command that is always in order.
LEMMA DelType ==
  ASSUME NEW k \in Keys, NEW t \in Tokens, NEW retry \in BOOLEAN
  PROVE  Del(k, t, retry) \in Command /\ CommandOK(Del(k, t, retry))' /\ Del(k, t, retry).val # "live"
<1>1. Del(k, t, retry) \in Command
  BY CacheAssumption DEF Del, Command
<1>. QED  BY <1>1, Zenon DEF Del, CommandOK

\* The marker, the first DELs and the timers of the second ones.
LEMMA InvalidateStep ==
  ASSUME CacheInv, NEW w \in Workers, Invalidate(w)
  PROVE  CacheInv'
<1>. PICK t : t = job[w].tok
  OBVIOUS
<1>. DEFINE mark == Set("revoked", t, "revoked", NegTtl, 0)
            second(k) == [key |-> k, tok |-> t, wait |-> Delay]
<1>. USE DEF CacheInv
<1>1. /\ job[w].at = "invalidate" /\ Done(w)
      /\ wire' = wire \cup {mark, Del("access", t, FALSE), Del("introspect", t, FALSE)}
      /\ timers' = timers \cup {second(k) : k \in Cached}
      /\ acked' = acked \cup {t}
      /\ UNCHANGED <<row, left, stale, cache, calls, setting>>
  BY Zenon DEF Invalidate, store, Cached
<1>2. t \in Access /\ t \in Tokens /\ left[t] # None
  BY <1>1, Zenon DEF FlowInv, JobOK, Tokens
<1>3. job' \in [Workers -> Job] /\ \A x \in Workers : job'[x] = Idle \/ job'[x] = job[x]
  BY <1>1, DoneType, Zenon
<1>4. mark \in Command /\ CommandOK(mark)' /\ mark.val # "live"
  <2>1. mark \in Command
    BY <1>2, SetType, CacheAssumption DEF Keys
  <2>. QED  BY <2>1, CacheAssumption DEF CommandOK, Set, Cached
<1>5. ASSUME NEW c \in wire'
      PROVE  c \in wire \/ (c \in Command /\ CommandOK(c)' /\ c.val # "live")
  <2>1. ASSUME NEW k \in Cached
        PROVE  /\ Del(k, t, FALSE) \in Command
               /\ CommandOK(Del(k, t, FALSE))' /\ Del(k, t, FALSE).val # "live"
    <3>1. k \in Keys /\ FALSE \in BOOLEAN
      BY Zenon DEF Cached, Keys
    <3>. QED  BY <1>2, <3>1, DelType, Zenon
  <2>. HIDE DEF mark
  <2>. QED  BY <1>1, <1>4, <2>1, Zenon DEF Cached
<1>6. ASSUME NEW k \in Cached
      PROVE  second(k) \in Timer
  BY <1>2, CacheAssumption DEF Timer, Cached, Keys
<1>7. TypeOK'
  <2>1. wire' \subseteq Command
    BY <1>5, Zenon DEF TypeOK
  <2>2. timers' \subseteq Timer
    BY <1>1, <1>6, Zenon DEF TypeOK
  <2>. QED  BY <1>1, <1>2, <1>3, <2>1, <2>2, Zenon DEF TypeOK
<1>8. FlowInv'
  <2>1. Gentle
    BY <1>1, Zenon DEF Gentle
  <2>2. \A x \in Workers : job'[x] = job[x] \/ JobOK(job[x])'
    BY <1>3 DEF JobOK, Idle
  <2>3. \A u \in Tokens : left'[u] = None => row'[u] = "absent"
    BY <1>1, Zenon DEF FlowInv
  <2>. QED  BY <1>1, <1>5, <1>7, <2>1, <2>2, <2>3, GentleFlow, Zenon
<1>9. CloseInv'
  <2>. SUFFICES ASSUME ~setting.faults PROVE CloseInv'
    BY <1>1, Zenon DEF CloseInv
  <2>1. ASSUME NEW u \in acked', NEW a \in 0..Lag, u = t \/ Caught(u, a)
        PROVE  Caught(u, a)'
    <3>1. CASE u = t
      <4>1. ASSUME NEW k \in Cached
            PROVE  second(k) \in timers' /\ second(k).key = k /\ second(k).tok = t
                   /\ second(k).wait + a >= Delay
        BY <1>1, CacheAssumption
      <4>. QED  BY <3>1, <4>1, Zenon DEF Caught
    <3>2. CASE Caught(u, a)
      BY <3>2, <1>1, Zenon DEF Caught
    <3>. QED  BY <2>1, <3>1, <3>2, Zenon
  <2>2. ASSUME NEW x \in Workers, job'[x].at = "invalidate"
        PROVE  row'[job'[x].tok] # "live"
    BY <1>1, <1>3, <2>2 DEF CloseInv, Idle
  <2>3. ASSUME NEW u \in acked'
        PROVE  left'[u] # None /\ row'[u] # "live"
    BY <1>1, <1>2, Zenon DEF CloseInv
  <2>4. ASSUME NEW u \in acked', NEW c \in wire', c.tok = u, c.val = "live"
        PROVE  Caught(u, c.age)'
    BY <1>1, <1>5, <2>1, <2>4, Zenon DEF CloseInv, TypeOK, Command
  <2>5. ASSUME NEW u \in acked', NEW x \in Workers, job'[x].at = "warm", job'[x].tok = u
        PROVE  Caught(u, job[x].age)'
    <3>1. job'[x] = job[x]
      BY <1>3, <2>5 DEF Idle
    <3>2. PICK a \in 0..Lag : a = job[x].age
      BY Zenon DEF TypeOK, Job
    <3>3. Caught(u, a)'
      BY <1>1, <2>1, <2>5, <3>1, <3>2, Zenon DEF CloseInv
    <3>. QED  BY <3>1, <3>2, <3>3, Zenon
  <2>6. ASSUME NEW u \in acked', NEW k \in Cached, cache'[k][u] # None, cache'[k][u].val = "live"
        PROVE  Pursued(k, u)'
    <3>1. CASE u = t
      <4>1. second(k) \in timers' /\ second(k).key = k /\ second(k).tok = t
        BY <1>1, Zenon
      <4>. QED  BY <3>1, <4>1, Zenon DEF Pursued
    <3>2. CASE u # t
      <4>1. Pursued(k, u)
        BY <1>1, <2>6, <3>2, Zenon DEF CloseInv
      <4>. QED  BY <1>1, <4>1, Zenon DEF Pursued
    <3>. QED  BY <3>1, <3>2, Zenon
  <2>. QED  BY <2>2, <2>3, <2>4, <2>5, <2>6, Zenon DEF CloseInv
<1>. QED  BY <1>7, <1>8, <1>9, Zenon

\* Redis executes a command.
LEMMA ExecuteStep ==
  ASSUME CacheInv, NEW c \in wire, Execute(c)
  PROVE  CacheInv'
<1>. DEFINE entry == [val |-> c.val, ttl |-> c.ttl]
            fill == Set("introspect", c.tok, "live", Smaller(left[c.tok], MaxTtl), c.age)
            Fills == c.op = "EXISTS" /\ cache["access"][c.tok] # None /\ left[c.tok] > 0
<1>. USE DEF CacheInv
<1>1. UNCHANGED <<row, left, stale, timers, job, calls, acked, setting>>
  BY Zenon DEF Execute, store
<1>2. wire' = (wire \ {c}) \cup IF Fills THEN {fill} ELSE {}
  BY Zenon DEF Execute
<1>3. c \in Command /\ c.tok \in Tokens /\ c.key \in Keys /\ c.age \in 0..Lag /\ CommandOK(c)
  BY Zenon DEF TypeOK, Command, FlowInv
<1>4. ASSUME NEW k \in Keys, NEW t \in Tokens
      PROVE  cache'[k][t] = IF k = c.key /\ t = c.tok /\ c.op # "EXISTS"
                            THEN IF c.op = "SET" THEN entry ELSE None
                            ELSE cache[k][t]
  <2>1. c.op \in {"SET", "DEL", "EXISTS"}
    BY <1>3, Zenon DEF Command
  <2>2. CASE c.op = "SET"
    BY <1>3, <2>2, Zenon DEF Execute, TypeOK
  <2>3. CASE c.op = "DEL"
    BY <1>3, <2>3, Zenon DEF Execute, TypeOK
  <2>4. CASE c.op = "EXISTS"
    BY <1>3, <2>4, Zenon DEF Execute, TypeOK
  <2>. QED  BY <2>1, <2>2, <2>3, <2>4, Zenon
<1>5. c.op = "SET" => entry \in Entry
  BY <1>3 DEF Entry, Command, CommandOK
<1>6. ASSUME Fills
      PROVE  fill \in Command /\ CommandOK(fill)
  <2>1. c.tok \in Access /\ left[c.tok] # None
    BY <1>3, <1>6, Zenon DEF FlowInv, EntryOK, CommandOK, Cached
  <2>2. left[c.tok] \in Int
    BY <1>3, <2>1, LeftType, Zenon
  <2>3. /\ Smaller(left[c.tok], MaxTtl) \in Nat \ {0}
        /\ Smaller(left[c.tok], MaxTtl) <= MaxTtl /\ Smaller(left[c.tok], MaxTtl) <= left[c.tok]
    BY <1>6, <2>2, TtlType, Zenon
  <2>4. /\ "introspect" \in Cached /\ c.val = "live"
        /\ row[c.tok] = "revoked" => stale[c.tok] <= c.age
        /\ left[c.tok] >= Smaller(left[c.tok], MaxTtl) - c.age
    BY <1>3, <1>6, <2>2, <2>3 DEF Cached, CommandOK
  <2>. QED  BY <1>3, <2>1, <2>3, <2>4, FillOK
<1>7. TypeOK'
  <2>1. wire' \subseteq Command
    BY <1>2, <1>6, Zenon DEF TypeOK
  <2>2. cache' \in [Keys -> [Tokens -> Entry \cup {None}]]
    <3>. HIDE DEF entry
    <3>1. CASE c.op = "SET"
      BY <1>3, <1>5, <3>1, Zenon DEF Execute, TypeOK, entry
    <3>2. CASE c.op = "DEL"
      BY <1>3, <3>2, Zenon DEF Execute, TypeOK
    <3>3. CASE c.op \notin {"SET", "DEL"}
      BY <3>3, Zenon DEF Execute, TypeOK
    <3>. QED  BY <3>1, <3>2, <3>3, Zenon
  <2>. QED  BY <1>1, <2>1, <2>2, Zenon DEF TypeOK
<1>8. FlowInv'
  <2>1. Gentle
    BY <1>1, Zenon DEF Gentle
  <2>2. ASSUME NEW b \in wire', b \notin wire
        PROVE  CommandOK(b)'
    <3>1. CommandOK(b)
      BY <1>2, <1>6, <2>2, Zenon
    <3>. QED  BY <1>1, <3>1, Zenon DEF CommandOK
  <2>3. ASSUME NEW k \in Cached, NEW t \in Tokens, cache'[k][t] # cache[k][t], cache'[k][t] # None
        PROVE  EntryOK(k, t, cache[k][t])'
    <3>1. k = c.key /\ t = c.tok /\ c.op = "SET" /\ cache'[k][t] = entry
      BY <1>4, <2>3 DEF Cached, Keys
    <3>2. EntryOK(k, t, entry)
      BY <1>3, <3>1, CacheAssumption DEF CommandOK, EntryOK, Command, TypeOK, Cached
    <3>. QED  BY <1>1, <3>1, <3>2, Zenon DEF EntryOK
  <2>. QED  BY <1>1, <1>7, <2>1, <2>2, <2>3, GentleFlow, Zenon DEF FlowInv
<1>9. CloseInv'
  <2>. SUFFICES ASSUME ~setting.faults PROVE CloseInv'
    BY <1>1, Zenon DEF CloseInv
  <2>1. ASSUME NEW t \in acked, NEW b \in wire', b.tok = t, b.val = "live"
        PROVE  Caught(t, b.age)'
    <3>1. b \in wire \/ (b = fill /\ c.val = "live" /\ c.tok = t /\ c.age = b.age)
      BY <1>2, <1>3, <2>1 DEF CommandOK, Set
    <3>2. Caught(t, b.age)
      BY <2>1, <3>1, Zenon DEF CloseInv
    <3>. QED  BY <1>1, <3>2, Zenon DEF Caught
  <2>2. ASSUME NEW t \in acked, NEW k \in Cached, cache'[k][t] # None, cache'[k][t].val = "live"
        PROVE  Pursued(k, t)'
    <3>. k \in Keys /\ t \in Tokens
      BY Zenon DEF TypeOK, Tokens, Cached, Keys
    <3>1. CASE k = c.key /\ t = c.tok /\ c.op # "EXISTS"
      <4>1. c.val = "live"
        BY <1>4, <2>2, <3>1
      <4>2. Caught(t, c.age)
        BY <3>1, <4>1, Zenon DEF CloseInv
      <4>. QED  BY <1>1, <4>2, Zenon DEF Caught, Pursued
    <3>2. CASE ~(k = c.key /\ t = c.tok /\ c.op # "EXISTS")
      <4>1. cache'[k][t] = cache[k][t]
        BY <1>4, <3>2, Zenon
      <4>2. Pursued(k, t)
        BY <2>2, <4>1, Zenon DEF CloseInv
      <4>. QED  BY <1>1, <1>2, <3>2, <4>2, Zenon DEF Pursued
    <3>. QED  BY <3>1, <3>2, Zenon
  <2>3. ASSUME NEW t \in acked, NEW w \in Workers, job'[w].at = "warm", job'[w].tok = t
        PROVE  Caught(t, job[w].age)'
    <3>1. Caught(t, job[w].age)
      BY <1>1, <2>3, Zenon DEF CloseInv
    <3>. QED  BY <1>1, <3>1, Zenon DEF Caught
  <2>. QED  BY <1>1, <2>1, <2>2, <2>3, Zenon DEF CloseInv
<1>. QED  BY <1>7, <1>8, <1>9, Zenon

\* A command fails, or the process dies: then CloseInv promises nothing.
LEMMA FailStep ==
  ASSUME CacheInv, NEW c \in wire, Fail(c)
  PROVE  CacheInv'
<1>. USE DEF CacheInv
<1>1. /\ UNCHANGED <<row, left, stale, cache, timers, job, calls, acked, setting>>
      /\ setting.faults
      /\ wire' \subseteq wire \cup {Del(c.key, c.tok, TRUE)}
  BY Zenon DEF Fail, store
<1>2. Del(c.key, c.tok, TRUE) \in Command /\ CommandOK(Del(c.key, c.tok, TRUE))'
  <2>1. c.key \in Keys /\ c.tok \in Tokens /\ TRUE \in BOOLEAN
    BY Zenon DEF TypeOK, Command
  <2>. QED  BY <2>1, DelType, Zenon
<1>3. TypeOK'
  BY <1>1, <1>2, Zenon DEF TypeOK
<1>4. FlowInv'
  <2>1. Gentle
    BY <1>1, Zenon DEF Gentle
  <2>. QED  BY <1>1, <1>2, <1>3, <2>1, GentleFlow, Zenon DEF FlowInv
<1>. QED  BY <1>1, <1>3, <1>4, Zenon DEF CloseInv

LEMMA CrashStep ==
  ASSUME CacheInv, Crash
  PROVE  CacheInv'
<1>. USE DEF CacheInv
<1>1. /\ UNCHANGED <<row, left, stale, cache, calls, acked, setting>>
      /\ setting.faults /\ wire' = {} /\ timers' = {}
      /\ job' = [w \in Workers |-> Idle]
  BY Zenon DEF Crash, store
<1>2. TypeOK'
  BY <1>1, CacheAssumption DEF TypeOK, Idle, Job
<1>3. FlowInv'
  <2>1. Gentle /\ \A w \in Workers : JobOK(job[w])'
    BY <1>1, Zenon DEF Gentle, JobOK, Idle
  <2>. QED  BY <1>1, <1>2, <2>1, GentleFlow, Zenon DEF FlowInv
<1>. QED  BY <1>1, <1>2, <1>3, Zenon DEF CloseInv

\* A timer ends: what it was to catch has been executed before, because a live
\* value on its way is younger than the timer, and Lag is less than Delay.
LEMMA SecondDeleteStep ==
  ASSUME CacheInv, NEW d \in timers, SecondDelete(d)
  PROVE  CacheInv'
<1>. DEFINE del == Del(d.key, d.tok, FALSE)
<1>. USE DEF CacheInv
<1>1. /\ d.wait = 0 /\ timers' = timers \ {d} /\ wire' = wire \cup {del}
      /\ UNCHANGED <<row, left, stale, cache, job, calls, acked, setting>>
  BY Zenon DEF SecondDelete, store
<1>2. del \in Command /\ CommandOK(del)' /\ del.val # "live"
  <2>1. d.key \in Keys /\ d.tok \in Tokens /\ FALSE \in BOOLEAN
    BY Zenon DEF TypeOK, Timer
  <2>. QED  BY <2>1, DelType, Zenon
<1>3. TypeOK'
  BY <1>1, <1>2, Zenon DEF TypeOK
<1>4. FlowInv'
  <2>1. Gentle
    BY <1>1, Zenon DEF Gentle
  <2>. QED  BY <1>1, <1>2, <1>3, <2>1, GentleFlow, Zenon DEF FlowInv
<1>5. CloseInv'
  <2>1. ASSUME NEW t, NEW a \in 0..Lag, Caught(t, a)
        PROVE  Caught(t, a)'
    BY <1>1, <2>1, DelayAssumption, CacheAssumption DEF Caught
  <2>2. ASSUME ~setting.faults, NEW t \in acked, NEW c \in wire', c.tok = t, c.val = "live"
        PROVE  Caught(t, c.age)'
    BY <1>1, <1>2, <2>1, <2>2, Zenon DEF CloseInv, TypeOK, Command
  <2>3. ASSUME ~setting.faults, NEW t \in acked, NEW w \in Workers,
               job'[w].at = "warm", job'[w].tok = t
        PROVE  Caught(t, job[w].age)'
    <3>1. PICK a \in 0..Lag : a = job[w].age
      BY Zenon DEF TypeOK, Job
    <3>2. Caught(t, a)'
      BY <1>1, <2>1, <2>3, <3>1, Zenon DEF CloseInv
    <3>. QED  BY <1>1, <3>1, <3>2, Zenon
  <2>4. ASSUME ~setting.faults, NEW t \in acked, NEW k \in Cached,
               cache'[k][t] # None, cache'[k][t].val = "live"
        PROVE  Pursued(k, t)'
    <3>1. Pursued(k, t)
      BY <1>1, <2>4, Zenon DEF CloseInv
    <3>2. del \in wire' /\ del.op = "DEL" /\ del.key = d.key /\ del.tok = d.tok
      BY <1>1, Zenon DEF Del
    <3>. QED  BY <1>1, <3>1, <3>2, Zenon DEF Pursued
  <2>. QED  BY <1>1, <2>2, <2>3, <2>4, Zenon DEF CloseInv
<1>. QED  BY <1>3, <1>4, <1>5, Zenon

-----------------------------------------------------------------------------
\* A command that is younger than Lag may grow older.
LEMMA OlderType ==
  ASSUME NEW b \in Command, b.age < Lag, NEW c, c = [b EXCEPT !.age = @ + 1]
  PROVE  /\ c \in Command /\ c.age = b.age + 1 /\ b.age \in Nat
         /\ c.op = b.op /\ c.key = b.key /\ c.tok = b.tok /\ c.val = b.val /\ c.ttl = b.ttl
BY CacheAssumption DEF Command

\* A second passes: lifetimes, entries and timers count down, and revocations,
\* commands and warm-ups grow older, all by one.
LEMMA TickStep ==
  ASSUME CacheInv, Tick
  PROVE  CacheInv'
<1>. USE DEF CacheInv
<1>. DEFINE Older(c) == [c EXCEPT !.age = @ + 1]
            Nearer(d) == [d EXCEPT !.wait = @ - 1]
<1>1. setting.life \in Nat /\ UNCHANGED <<row, calls, acked, setting>>
  BY CacheAssumption, Zenon DEF TypeOK, Setting, Tick
<1>2. ASSUME NEW t \in Tokens
      PROVE  /\ left[t] = None <=> left'[t] = None
             /\ left[t] # None => /\ left'[t] \in (-(Lag + 1))..setting.life
                                  /\ left[t] \in Int /\ left'[t] \in Int
                                  /\ left'[t] >= left[t] - 1
  <2>1. left'[t] = IF left[t] = None THEN None ELSE Larger(left[t] - 1, -(Lag + 1))
    BY Zenon DEF Tick
  <2>2. CASE left[t] = None
    BY <2>1, <2>2, Zenon
  <2>3. CASE left[t] # None
    <3>1. left[t] \in (-(Lag + 1))..setting.life /\ left[t] \in Int
      BY <2>3, LeftType, Zenon DEF TypeOK
    <3>. QED  BY <1>1, <2>1, <2>3, <3>1, CacheAssumption, NoneAssumption DEF Larger
  <2>. QED  BY <2>2, <2>3, Zenon
<1>3. ASSUME NEW t \in Tokens
      PROVE  /\ stale'[t] \in 0..(Lag + MaxTtl)
             /\ row[t] = "revoked" => stale'[t] <= stale[t] + 1
  BY CacheAssumption DEF Tick, TypeOK, Smaller
<1>4. ASSUME NEW c \in wire'
      PROVE  \E b \in wire : /\ c = Older(b) /\ c \in Command /\ c.age = b.age + 1 /\ b.age \in Nat
                             /\ c.op = b.op /\ c.key = b.key /\ c.tok = b.tok /\ c.val = b.val
                             /\ c.ttl = b.ttl
  <2>1. PICK b \in wire : c = Older(b)
    BY Zenon DEF Tick
  <2>2. b \in Command /\ b.age < Lag
    BY Zenon DEF TypeOK, Tick
  <2>. QED  BY <2>1, <2>2, OlderType, SMTT(20)
<1>5. ASSUME NEW w \in Workers
      PROVE  /\ job'[w] \in Job /\ job'[w].at = job[w].at /\ job'[w].tok = job[w].tok
             /\ job[w].at = "warm" => job'[w].age = job[w].age + 1 /\ job[w].age \in Nat
  <2>1. job'[w] = IF job[w].at = "warm" THEN [job[w] EXCEPT !.age = @ + 1] ELSE job[w]
    BY Zenon DEF Tick
  <2>2. job[w] \in Job /\ (job[w].at = "warm" => job[w].age < Lag)
    BY Zenon DEF Tick, TypeOK
  <2>3. CASE job[w].at = "warm"
    BY <2>1, <2>2, <2>3, CacheAssumption DEF Job
  <2>. QED  BY <2>1, <2>2, <2>3, Zenon
<1>6. ASSUME NEW k \in Keys, NEW t \in Tokens, cache'[k][t] # None
      PROVE  /\ cache[k][t] # None /\ cache'[k][t] \in Entry
             /\ cache'[k][t].val = cache[k][t].val
             /\ cache'[k][t].ttl = cache[k][t].ttl - 1 /\ cache[k][t].ttl \in Nat
  <2>1. cache'[k][t] = IF cache[k][t] = None \/ cache[k][t].ttl = 1 THEN None
                       ELSE [cache[k][t] EXCEPT !.ttl = @ - 1]
    BY Zenon DEF Tick
  <2>2. cache[k][t] \in Entry /\ cache[k][t].ttl # 1
    BY <1>6, <2>1 DEF TypeOK
  <2>. QED  BY <1>6, <2>1, <2>2 DEF Entry
<1>7. ASSUME NEW d \in timers
      PROVE  /\ Nearer(d) \in timers' /\ Nearer(d) \in Timer /\ Nearer(d).wait = d.wait - 1
             /\ Nearer(d).key = d.key /\ Nearer(d).tok = d.tok /\ d.wait \in Nat
  <2>1. d \in Timer /\ d.wait > 0 /\ Nearer(d) \in timers'
    BY Zenon DEF Tick, TypeOK
  <2>. QED  BY <2>1, CacheAssumption DEF Timer
<1>8. TypeOK'
  <2>1. left' \in [Tokens -> (-(Lag + 1))..setting.life \cup {None}]
    BY <1>2, Zenon DEF Tick
  <2>2. stale' \in [Tokens -> 0..(Lag + MaxTtl)]
    BY <1>3, Zenon DEF Tick
  <2>3. cache' \in [Keys -> [Tokens -> Entry \cup {None}]]
    BY <1>6, Zenon DEF Tick
  <2>4. wire' \subseteq Command
    BY <1>4, Zenon
  <2>5. timers' \subseteq Timer
    BY <1>7, Zenon DEF Tick
  <2>6. job' \in [Workers -> Job]
    BY <1>5, Zenon DEF Tick
  <2>. QED  BY <1>1, <2>1, <2>2, <2>3, <2>4, <2>5, <2>6, Zenon DEF TypeOK
<1>9. FlowInv'
  <2>1. ASSUME NEW t \in Tokens, left'[t] = None
        PROVE  row'[t] = "absent"
    BY <1>1, <1>2, <2>1, Zenon DEF FlowInv
  <2>2. ASSUME NEW c \in wire'
        PROVE  CommandOK(c)'
    <3>1. PICK b \in wire : /\ c = Older(b) /\ c \in Command /\ c.age = b.age + 1 /\ b.age \in Nat
                            /\ c.op = b.op /\ c.key = b.key /\ c.tok = b.tok /\ c.val = b.val
                            /\ c.ttl = b.ttl
      BY <1>4, Zenon
    <3>2. b \in Command /\ CommandOK(b) /\ b.tok \in Tokens /\ b.ttl \in Nat /\ b.op \in {"SET", "DEL", "EXISTS"}
      BY Zenon DEF TypeOK, FlowInv, Command
    <3>3. left[b.tok] # None => left[b.tok] \in Int /\ left'[b.tok] \in Int
      BY <1>2, <3>2, Zenon
    <3>4. stale[b.tok] \in Nat /\ stale'[b.tok] \in Nat
      BY <1>3, <3>2, CacheAssumption DEF TypeOK
    <3>. HIDE DEF Older
    <3>5. c.op = "SET" /\ c.key = "introspect" => c.val = "live" /\ left'[c.tok] >= c.ttl - c.age
      BY <1>2, <3>1, <3>2, <3>3 DEF CommandOK
    <3>6. c.val = "live" =>
            left'[c.tok] # None /\ (row'[c.tok] = "revoked" => stale'[c.tok] <= c.age)
      BY <1>1, <1>2, <1>3, <3>1, <3>2, <3>4 DEF CommandOK
    <3>7. /\ c.op = "EXISTS" => c.val = "live"
          /\ c.op = "SET" => c.ttl > 0
          /\ c.op = "SET" /\ c.key \in Cached => c.tok \in Access /\ c.ttl <= MaxTtl
      BY <3>1, <3>2, Zenon DEF CommandOK
    <3>. QED  BY <3>5, <3>6, <3>7, Zenon DEF CommandOK
  <2>3. ASSUME NEW w \in Workers
        PROVE  JobOK(job[w])'
    <3>1. JobOK(job[w])
      BY Zenon DEF FlowInv
    <3>2. job[w].tok \in Tokens => stale[job[w].tok] \in Nat /\ stale'[job[w].tok] \in Nat
      BY <1>3, CacheAssumption DEF TypeOK
    <3>3. /\ job[w].at # "idle" => job[w].tok \in Tokens
          /\ job[w].at \in {"warm", "invalidate"} => job[w].tok \in Access /\ left'[job[w].tok] # None
      BY <1>2, <3>1, Zenon DEF JobOK, Tokens
    <3>4. job[w].at = "warm" /\ row[job[w].tok] = "revoked" => stale'[job[w].tok] <= job[w].age + 1
      BY <1>3, <1>5, <3>1, <3>2 DEF JobOK
    <3>. QED  BY <1>1, <1>5, <3>3, <3>4, Zenon DEF JobOK
  <2>4. ASSUME NEW k \in Cached, NEW t \in Tokens, cache'[k][t] # None
        PROVE  EntryOK(k, t, cache[k][t])'
    <3>1. k \in Keys
      BY Zenon DEF Cached, Keys
    <3>2. EntryOK(k, t, cache[k][t])
      BY <1>6, <2>4, <3>1, Zenon DEF FlowInv
    <3>3. stale[t] \in Nat /\ stale'[t] \in Nat
      BY <1>3, CacheAssumption DEF TypeOK
    <3>4. left[t] # None => left[t] \in Int /\ left'[t] \in Int
      BY <1>2, Zenon
    <3>. DEFINE e == cache[k][t]
                f == cache'[k][t]
    <3>5. f.val = e.val /\ f.ttl = e.ttl - 1 /\ e.ttl \in Nat
      BY <1>6, <2>4, <3>1, Zenon
    <3>. HIDE DEF e, f
    <3>6. t \in Access /\ f.ttl <= MaxTtl
      BY <3>2, <3>5, CacheAssumption DEF EntryOK, e
    <3>7. f.val = "live" /\ row'[t] = "revoked" => stale'[t] + f.ttl <= Lag + MaxTtl
      BY <1>1, <1>3, <3>2, <3>3, <3>5, CacheAssumption DEF EntryOK, e
    <3>8. k = "introspect" => f.val = "live" /\ left'[t] # None /\ left'[t] >= f.ttl - Lag
      BY <1>2, <3>2, <3>4, <3>5, CacheAssumption DEF EntryOK, e
    <3>. QED  BY <3>6, <3>7, <3>8, Zenon DEF EntryOK, f
  <2>. QED  BY <2>1, <2>2, <2>3, <2>4, Zenon DEF FlowInv
<1>10. CloseInv'
  <2>. HIDE DEF Nearer
  <2>. SUFFICES ASSUME ~setting.faults PROVE CloseInv'
    BY <1>1, Zenon DEF CloseInv
  <2>1. ASSUME NEW t, NEW a \in Nat, Caught(t, a)
        PROVE  Caught(t, a + 1)'
    <3>1. ASSUME NEW k \in Cached
          PROVE  \E d \in timers' : d.key = k /\ d.tok = t /\ d.wait + (a + 1) >= Delay
      <4>1. PICK d \in timers : d.key = k /\ d.tok = t /\ d.wait + a >= Delay
        BY <2>1, Zenon DEF Caught
      <4>2. Nearer(d).wait = d.wait - 1 /\ d.wait \in Nat
        BY <1>7, Zenon
      <4>3. Nearer(d).wait + (a + 1) >= Delay
        BY <4>1, <4>2, CacheAssumption
      <4>. QED  BY <1>7, <4>1, <4>3, Zenon
    <3>. QED  BY <3>1, Zenon DEF Caught
  <2>2. ASSUME NEW w \in Workers, job'[w].at = "invalidate"
        PROVE  row'[job'[w].tok] # "live"
    BY <1>1, <1>5, <2>2, Zenon DEF CloseInv
  <2>3. ASSUME NEW t \in acked'
        PROVE  left'[t] # None /\ row'[t] # "live"
    BY <1>1, <1>2, Zenon DEF CloseInv, TypeOK, Tokens
  <2>4. ASSUME NEW t \in acked', NEW c \in wire', c.tok = t, c.val = "live"
        PROVE  Caught(t, c.age)'
    BY <1>1, <1>4, <2>1, <2>4 DEF CloseInv
  <2>5. ASSUME NEW t \in acked', NEW w \in Workers, job'[w].at = "warm", job'[w].tok = t
        PROVE  Caught(t, job[w].age)'
    <3>1. PICK a \in Nat : a = job[w].age /\ job'[w].age = a + 1
      BY <1>5, <2>5, Zenon
    <3>2. Caught(t, a + 1)'
      BY <1>1, <1>5, <2>1, <2>5, <3>1, Zenon DEF CloseInv
    <3>. QED  BY <3>1, <3>2, Zenon
  <2>6. ASSUME NEW t \in acked', NEW k \in Cached, cache'[k][t] # None, cache'[k][t].val = "live"
        PROVE  Pursued(k, t)'
    <3>. k \in Keys /\ t \in Tokens
      BY <1>1, Zenon DEF TypeOK, Tokens, Cached, Keys
    <3>1. Pursued(k, t)
      BY <1>1, <1>6, <2>6, Zenon DEF CloseInv
    <3>2. CASE \E d \in timers : d.key = k /\ d.tok = t
      BY <1>7, <3>2, Zenon DEF Pursued
    <3>3. ASSUME NEW c \in wire, c.op = "DEL", c.key = k, c.tok = t
          PROVE  Pursued(k, t)'
      <4>1. Older(c) \in wire' /\ Older(c).op = "DEL" /\ Older(c).key = k /\ Older(c).tok = t
        BY <3>3, Zenon DEF Tick, TypeOK, Command
      <4>. QED  BY <4>1, Zenon DEF Pursued
    <3>. QED  BY <3>1, <3>2, <3>3, Zenon DEF Pursued
  <2>. QED  BY <2>2, <2>3, <2>4, <2>5, <2>6, Zenon DEF CloseInv
<1>. QED  BY <1>8, <1>9, <1>10, Zenon

-----------------------------------------------------------------------------
\* The invariant holds throughout: every step of the repository, of PostgreSQL, of
\* Redis and of the clock keeps it.
THEOREM CacheInvariance == Spec => []CacheInv
<1>1. CacheInv /\ [Next]_vars => CacheInv'
  <2>. SUFFICES ASSUME CacheInv, [Next]_vars PROVE CacheInv'
    OBVIOUS
  <2>0. \A t \in setting.on : t \in Tokens
    BY CacheAssumption, Zenon DEF CacheInv, TypeOK, Setting
  <2>1. ASSUME NEW w \in Workers, Request(w)
        PROVE  CacheInv'
    BY <2>0, <2>1, LookupStep, SaveAccessTokenStep, RevokeAccessTokenStep, ReadAccessStep,
       ReadIntrospectStep, WarmAccessStep, InvalidateStep, Zenon DEF Request
  <2>2. ASSUME NEW t \in setting.on, SaveTokenPair(t) \/ RevokePassThrough(t)
        PROVE  CacheInv'
    BY <2>0, <2>2, SaveTokenPairStep, RevokePassThroughStep, Zenon
  <2>3. ASSUME NEW c \in wire, Execute(c) \/ Fail(c)
        PROVE  CacheInv'
    BY <2>3, ExecuteStep, FailStep, Zenon
  <2>4. ASSUME NEW d \in timers, SecondDelete(d)
        PROVE  CacheInv'
    BY <2>4, SecondDeleteStep, Zenon
  <2>5. CASE PurgeExpired \/ Crash \/ Tick
    BY <2>5, PurgeExpiredStep, CrashStep, TickStep, Zenon
  <2>6. CASE UNCHANGED vars
    <3>1. UNCHANGED <<row, left, stale, cache, wire, timers, job, calls, acked, setting>>
      BY <2>6, Zenon DEF vars, store
    <3>2. TypeOK'
      BY <3>1, Zenon DEF CacheInv, TypeOK
    <3>3. FlowInv'
      <4>1. Gentle
        BY <3>1, Zenon DEF Gentle
      <4>. QED  BY <3>1, <3>2, <4>1, GentleFlow, Zenon DEF CacheInv, FlowInv
    <3>4. CloseInv'
      BY <3>1, GentleClose, Zenon DEF CacheInv
    <3>. QED  BY <3>2, <3>3, <3>4, Zenon DEF CacheInv
  <2>. QED  BY <2>1, <2>2, <2>3, <2>4, <2>5, <2>6, Zenon DEF Next
<1>. QED  BY InitCache, <1>1, PTL DEF Spec

\* Rows, entries, commands, timers and requests keep their shapes: no SET with a
\* TTL that Redis rejects is ever sent, and no countdown leaves its range.
THEOREM CacheTypes == Spec => []TypeOK
<1>1. CacheInv => TypeOK
  BY Zenon DEF CacheInv
<1>. QED  BY CacheInvariance, <1>1, PTL

\* A revoked token is accepted from the cache for less than Lag + MaxTtl, by
\* whatever path it was revoked and whatever fails.
THEOREM StaleBoundHolds == Spec => []StaleBound
<1>1. CacheInv => StaleBound
  <2>. SUFFICES ASSUME CacheInv, NEW t \in Tokens, row[t] = "revoked", Validates(t) \/ Introspects(t)
                PROVE  stale[t] < Lag + MaxTtl
    BY Zenon DEF StaleBound
  <2>1. PICK k \in Cached : cache[k][t] # None /\ cache[k][t].val = "live" /\ EntryOK(k, t, cache[k][t])
    BY Zenon DEF Validates, Introspects, RevokedThenGet, CacheInv, FlowInv, EntryOK, Cached
  <2>2. cache[k][t].ttl \in Nat \ {0} /\ stale[t] \in Nat
    BY <2>1, CacheAssumption DEF CacheInv, TypeOK, Entry, Cached, Keys
  <2>. QED  BY <2>1, <2>2, CacheAssumption DEF EntryOK
<1>. QED  BY CacheInvariance, <1>1, PTL

\* A cached introspection does not outlive its token by more than the way of its
\* fill.
THEOREM ExpiryBoundHolds == Spec => []ExpiryBound
<1>1. CacheInv => ExpiryBound
  <2>. SUFFICES ASSUME CacheInv, NEW t \in Tokens, Introspects(t)
                PROVE  left[t] > -Lag
    BY Zenon DEF ExpiryBound
  <2>1. cache["introspect"][t] # None /\ EntryOK("introspect", t, cache["introspect"][t])
    BY Zenon DEF Introspects, RevokedThenGet, CacheInv, FlowInv, Cached
  <2>2. cache["introspect"][t].ttl \in Nat \ {0}
    BY <2>1, Zenon DEF CacheInv, TypeOK, Entry, Keys
  <2>3. left[t] \in Int
    BY <2>1, LeftType, Zenon DEF EntryOK, CacheInv
  <2>. QED  BY <2>1, <2>2, <2>3, CacheAssumption DEF EntryOK
<1>. QED  BY CacheInvariance, <1>1, PTL

\* No refresh token is ever answered from the cache, so its revocation, which
\* invalidates nothing, takes effect at once.
THEOREM RefreshRevocationHolds == Spec => []RefreshRevocationImmediate
<1>1. CacheInv => RefreshRevocationImmediate
  BY CacheAssumption, Zenon DEF CacheInv, FlowInv, EntryOK, RefreshRevocationImmediate, Introspects,
     Validates, RevokedThenGet, Cached, Tokens
<1>. QED  BY CacheInvariance, <1>1, PTL

\* When nothing fails, the second DELs close every race between a revocation and a
\* fill, because Delay exceeds Lag.
THEOREM RefillRaceHolds == Spec => []RefillRaceClosed
<1>1. CacheInv => RefillRaceClosed
  <2>. SUFFICES ASSUME CacheInv, ~setting.faults, NEW t \in acked,
                       \A d \in timers : d.tok # t, \A c \in wire : c.op = "DEL" => c.tok # t
                PROVE  /\ cache["introspect"][t] = None
                       /\ cache["access"][t] # None => cache["access"][t].val = "revoked"
    BY Zenon DEF RefillRaceClosed
  <2>1. t \in Tokens /\ \A k \in Cached : cache[k][t] # None => cache[k][t].val # "live"
    BY DEF CacheInv, CloseInv, Pursued, TypeOK, Tokens
  <2>2. \A k \in Cached : cache[k][t] # None => cache[k][t].val \in {"live", "revoked"}
    BY <2>1 DEF CacheInv, TypeOK, Entry, Cached, Keys
  <2>3. cache["introspect"][t] # None => cache["introspect"][t].val = "live"
    BY <2>1, Zenon DEF CacheInv, FlowInv, EntryOK, Cached
  <2>. QED  BY <2>1, <2>2, <2>3, Zenon DEF Cached
<1>. QED  BY CacheInvariance, <1>1, PTL
=============================================================================
