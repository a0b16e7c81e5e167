------------------------------- MODULE Health --------------------------------
(***************************************************************************)
(* HealthService: the checks of all services behind GET /health, their     *)
(* cache of 30 seconds, the alerts for admin-health and the pings of       *)
(* system.health.ping, which write to the same cache.                      *)
(*                                                                         *)
(* A service is whatever its indicator finds at the time of a measurement. *)
(* The time of a measurement and the length of a check are not kept by the *)
(* code; they are here to say how old an answer is.  A check may take any  *)
(* time: the database, pgvector and MinIO are called without a timeout.    *)
(* Latencies, versions and the time of the last ping, which only GET       *)
(* /health/details shows, are left out.                                    *)
(***************************************************************************)
EXTENDS Naturals, FiniteSets

CONSTANTS
    Services, \* the services checked, of the seven below
    Calls,    \* callers of GET /health, each with one request at a time
    TTL,      \* the life of a cached result
    NoResult, \* no cached result, no status
    MaxTime   \* bound on the clock

Status == {"ok", "degraded", "down"}

ASSUME HealthAssumption ==
    /\ Services \subseteq {"postgres", "pgvector", "nats", "minio", "ollama", "fastapi", "elsa"}
    /\ NoResult \notin Status
    /\ TTL \in Nat \ {0} /\ MaxTime \in Nat

VARIABLES
    cache,   \* the cached result
    call,    \* per caller: step and locals
    alerted, \* per service: the status of the last alert since the process started
    now      \* the clock

healthVars == <<cache, call, alerted, now>>

Time == 0..MaxTime
Measurement == [status : Status, time : Time]

Result == UNION {[S -> Measurement] : S \in SUBSET Services}

NotAsked == [step |-> "idle"]

Asking ==
    {NotAsked} \union [step : {"checking"}, since : Time, measured : Result]
    \union [step : {"answered"}, time : Time, status : Status, services : Result, took : Time]

HealthTypeOK ==
    /\ cache \in [result : Result, at : Time, took : Time] \union {NoResult}
    /\ call \in [Calls -> Asking]
    /\ alerted \in [Services -> (Status \ {"ok"}) \union {NoResult}]
    /\ now \in Time

HealthInit ==
    /\ cache = NoResult
    /\ call = [r \in Calls |-> NotAsked]
    /\ alerted = [s \in Services |-> NoResult]
    /\ now = 0

Goto(r, next) == call' = [call EXCEPT ![r] = next]

-----------------------------------------------------------------------------
\* calculateAggregateStatus; of no services it is ok.
Aggregate(result) ==
    LET statuses == {result[s].status : s \in DOMAIN result} IN
    IF "down" \in statuses THEN "down"
    ELSE IF "degraded" \in statuses THEN "degraded" ELSE "ok"

Answer(result, took) ==
    [step |-> "answered", time |-> now, status |-> Aggregate(result), services |-> result,
     took |-> took]

Fresh == cache # NoResult /\ now - cache.at < TTL

AnswerFromCache(r) ==
    /\ call[r] = NotAsked
    /\ Fresh
    /\ Goto(r, Answer(cache.result, cache.took))
    /\ UNCHANGED <<cache, alerted, now>>

\* Nothing keeps a call from starting a check while another one runs.
StartCheck(r) ==
    /\ call[r] = NotAsked
    /\ ~Fresh
    /\ Goto(r, [step |-> "checking", since |-> now, measured |-> [s \in {} |-> NoResult]])
    /\ UNCHANGED <<cache, alerted, now>>

\* What an indicator that calls its service may report: up, degraded after
\* 500 ms, down after an error.
Reports == {"up", "degraded", "down"}

CheckPostgres == Reports

\* A database without the extension is up as well.
CheckPgVector == Reports

CheckMinIO == Reports

\* An answer other than 2xx, or none in five seconds, is an error.
CheckOllama == Reports
CheckFastAPI == Reports
CheckElsa == Reports

\* This indicator calls nothing between its two looks at the clock.
CheckNats == {"up"}

MapStatus(report) == IF report = "up" THEN "ok" ELSE report

Indicator == [postgres |-> CheckPostgres, pgvector |-> CheckPgVector, nats |-> CheckNats,
              minio |-> CheckMinIO, ollama |-> CheckOllama, fastapi |-> CheckFastAPI,
              elsa |-> CheckElsa]

Indicated(s) == {MapStatus(report) : report \in Indicator[s]}

\* The indicators run side by side and answer in any order.
Measure(r, s, status) ==
    /\ call[r].step = "checking"
    /\ s \notin DOMAIN call[r].measured
    /\ status \in Indicated(s)
    /\ LET measured == call[r].measured IN
       Goto(r, [call[r] EXCEPT !.measured =
                   [t \in DOMAIN measured \union {s} |->
                       IF t = s THEN [status |-> status, time |-> now] ELSE measured[t]]])
    /\ UNCHANGED <<cache, alerted, now>>

Previous(s) ==
    IF s \in DOMAIN cache.result THEN cache.result[s].status ELSE NoResult

\* Mutant: only a service that was ok is alerted.
AlertsFromOk(result) ==
    IF cache = NoResult THEN {}
    ELSE {s \in DOMAIN result : result[s].status # "ok" /\ Previous(s) \in {"ok", NoResult}}

\* checkAndEmitAlerts: a service that is degraded or down and was not in the
\* cached result.  Without a cached result there is no alert.
Alerts(result) ==
    IF cache = NoResult THEN {}
    ELSE {s \in DOMAIN result : result[s].status \notin {"ok", Previous(s)}}

\* The alerts go out and the cache is replaced in one step: checkAndEmitAlerts
\* awaits nothing, and no other check resumes between them.  The answer is
\* made of the check's own result.
FinishCheck(r) ==
    LET result == call[r].measured
        took == now - call[r].since IN
    /\ call[r].step = "checking"
    /\ DOMAIN result = Services
    /\ alerted' = [s \in Services |-> IF s \in Alerts(result) THEN result[s].status
                                      ELSE alerted[s]]
    /\ cache' = [result |-> result, at |-> now, took |-> took]
    /\ Goto(r, Answer(result, took))
    /\ UNCHANGED now

\* Mutant: a ping makes the cached result new.
HealthPingRenews ==
    /\ cache' = IF cache = NoResult
                THEN [result |-> [s \in {} |-> NoResult], at |-> now, took |-> 0]
                ELSE [cache EXCEPT !.at = now]
    /\ UNCHANGED <<call, alerted, now>>

\* The ping keeps the result and its timestamp, or invents them.
HealthPing ==
    /\ cache' = IF cache = NoResult
                THEN [result |-> [s \in {} |-> NoResult], at |-> now, took |-> 0] ELSE cache
    /\ UNCHANGED <<call, alerted, now>>

Leave(r) ==
    /\ call[r].step = "answered"
    /\ Goto(r, NotAsked)
    /\ UNCHANGED <<cache, alerted, now>>

\* Time passes whatever is on its way: no check is waited for.
Tick ==
    /\ now < MaxTime
    /\ now' = now + 1
    /\ UNCHANGED <<cache, call, alerted>>

HealthRestarts ==
    /\ cache' = NoResult
    /\ call' = [r \in Calls |-> NotAsked]
    /\ alerted' = [s \in Services |-> NoResult]
    /\ UNCHANGED now

HealthNext ==
    \/ \E r \in Calls :
          \/ AnswerFromCache(r)
          \/ StartCheck(r)
          \/ \E s \in Services, status \in {"ok", "up", "degraded", "down"} : Measure(r, s, status)
          \/ FinishCheck(r)
          \/ Leave(r)
    \/ HealthPing
    \/ Tick
    \/ HealthRestarts

HealthSpec == HealthInit /\ [][HealthNext]_healthVars

-----------------------------------------------------------------------------
(* Properties                                                              *)

Answers == {call[r] : r \in {q \in Calls : call[q].step = "answered"}}

\* Whatever checks and pings overlap, and however long an indicator hangs, a
\* status in an answer was measured less than the life of the cache and the
\* length of the one check the answer comes from before: a ping does not make
\* an old result new, and a slow check that overwrites a newer result adds no
\* more than its own length.  There is no bound on that length: a database
\* that hangs for a minute makes the other statuses of the check as old.
AnswersAreRecent ==
    \A a \in Answers : \A s \in DOMAIN a.services :
        a.time - a.services[s].time < TTL + a.took

\* The state is well formed and no answer is made of results too old for it.
AnswersConsistent == HealthTypeOK /\ AnswersAreRecent

\* What makes that inductive: a check measures while it runs, so what it
\* leaves in the cache is at most its own length old when it is stored.
ChecksInTime ==
    \A r \in Calls : call[r].step = "checking" =>
        /\ call[r].since <= now
        /\ \A s \in DOMAIN call[r].measured :
              call[r].since <= call[r].measured[s].time

CacheInTime ==
    cache # NoResult => \A s \in DOMAIN cache.result :
                        cache.at <= cache.result[s].time + cache.took

HealthInv == AnswersConsistent /\ ChecksInTime /\ CacheInTime
=============================================================================
