------------------------- MODULE AdminDashboardPage -------------------------
(***************************************************************************)
(* The admin console's dashboard (frontends/admin, pages/dashboard) and    *)
(* the readiness probe it shows (HealthController).  The page sends two    *)
(* calls when it is mounted and waits until both are settled, each by an   *)
(* answer or by its time-out of 8 s.                                       *)
(***************************************************************************)
EXTENDS PageRuntime

\* What the probe can answer; an answer after the ping of Redis is the first of
\* the ping's own, its error and the 2 s timer.  redis is missing from an answer
\* that the database check ended.
healthReady ==
    {[status |-> "ok", database |-> d, redis |-> "not_configured"] :
       d \in {"not_configured", "connected"}}
    \cup {[status |-> "ok", database |-> "connected", redis |-> "connected"]}
    \cup {[status |-> "degraded", database |-> "connected", redis |-> r] :
            r \in {"disconnected", "timeout"}}
    \cup {[status |-> "unhealthy", database |-> d, redis |-> None] :
            d \in {"disconnected", "unavailable"}}

Db0 == {[report |-> r] : r \in healthReady}

\* healthResult and statsResult are the elements of the awaited array.
Ui0 == [health |-> None, stats |-> FALSE, loading |-> TRUE,
        healthResult |-> None, statsResult |-> FALSE]

\* onMounted
Calls0 == <<Call("health", None, {}), Call("stats", None, {})>>

\* A plausible slip: only a lost connection counts as a fault.
DotTimeoutGreen(value) == value \in {None, "connected", "not_configured", "timeout"}

\* TRUE for a green dot.
componentDotClass(value) == value \in {None, "connected", "not_configured"}

overall(u) == u.health.status

\* The card after the skeleton: the dots of the system, the database and Redis.
HealthCard(u) ==
    IF u.loading THEN None
    ELSE [system   |-> overall(u) = "ok",
          database |-> componentDotClass(u.health.database),
          redis    |-> componentDotClass(u.health.redis)]

\* A failed load shows zeros under the error banner.
StatsGrid(u) == IF u.loading THEN None ELSE u.stats

\* Rejected: the body that the catch-all gives the card has a status only.
Unanswered == [status |-> "error", database |-> None, redis |-> None]

\* Promise.allSettled: the continuation runs when the last call is settled.
AllSettled(i, u) ==
    Settle(i, IF Len(calls) > 1 THEN u
              ELSE [u EXCEPT !.stats = u.statsResult, !.health = u.healthResult,
                             !.loading = FALSE], db)

healthThen(i) ==
    /\ calls[i].fn = "health"
    /\ \E r \in {db.report, Unanswered} : AllSettled(i, [ui EXCEPT !.healthResult = r])

statsThen(i) ==
    /\ calls[i].fn = "stats"
    /\ \E r \in BOOLEAN : AllSettled(i, [ui EXCEPT !.statsResult = r])

Step == \E i \in DOMAIN calls : healthThen(i) \/ statsThen(i)

\* The card names the component that keeps an answering system from being ready,
\* and no other; the statistics are shown whatever became of the probe.
CardExplains ==
    ~ui.loading /\ ui.health # Unanswered =>
      LET card == HealthCard(ui) IN card.system <=> card.database /\ card.redis
=============================================================================
