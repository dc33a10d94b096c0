------------------------------ MODULE WeatherSync ------------------------------
(***************************************************************************)
(* The weather ingestion (services/weatherPipeline.ts, lib/openMeteo.ts)   *)
(* and the worker that schedules it (worker.ts).  A run fetches and        *)
(* upserts every monitored point in parallel.  Runs are started by the     *)
(* worker's timer and by hand (POST /weather/sync on an API replica), and  *)
(* nothing keeps one from starting while another is under way.             *)
(***************************************************************************)
EXTENDS Integers, FiniteSets

CONSTANTS
    Points,        \* monitored locations
    LastHour,      \* bound: the provider's observation times are 0..LastHour
    Runs,          \* bound: names for the runs under way together
    MaxRestarts,   \* bound: restarts of the worker
    MaxManual,     \* bound: runs started by hand
    Fetching, Settled   \* what a point of a run is, when it holds no observation

WeatherAssumption ==
    IsFiniteSet(Points) /\ {Fetching, Settled} \cap Int = {} /\ Fetching # Settled
    /\ LastHour \in Nat /\ MaxRestarts \in Nat /\ MaxManual \in Nat

VARIABLES
    hour,      \* the time of the observation the provider serves
    healthy,   \* provider and database answer
    rows,      \* WeatherObservation: the (point, observedAt) stored
    starter,   \* per run, who started it
    at,        \* per run and point: being fetched, the time of what was fetched, or settled
    worker,    \* "up", "stopping" (SIGTERM) or "down"
    restarts,
    manual     \* runs started by hand

vars == <<hour, healthy, rows, starter, at, worker, restarts, manual>>
env == <<hour, healthy>>
process == <<worker, restarts, manual>>

Hours == 0..LastHour

TypeOK ==
    /\ hour \in Hours /\ healthy \in BOOLEAN
    /\ rows \subseteq Points \X Hours
    /\ starter \in [Runs -> {"nobody", "timer", "hand"}]
    /\ \A r \in Runs, p \in Points :
         /\ at[r][p] \in Hours \cup {Fetching, Settled}
         /\ starter[r] = "nobody" => at[r][p] = Settled
    /\ worker \in {"up", "stopping", "down"}
    /\ restarts \in 0..MaxRestarts /\ manual \in 0..MaxManual

\* syncWeather: all points at once.
StartRun(by) ==
    \E r \in Runs :
        /\ starter[r] = "nobody"
        /\ starter' = [starter EXCEPT ![r] = by]
        /\ at' = [at EXCEPT ![r] = [p \in Points |-> Fetching]]

\* The worker starts a run when it starts.
Init ==
    /\ hour = 0 /\ healthy = TRUE /\ rows = {}
    /\ \E first \in Runs :
         /\ starter = [r \in Runs |-> IF r = first THEN "timer" ELSE "nobody"]
         /\ at = [r \in Runs |-> [p \in Points |-> IF r = first THEN Fetching ELSE Settled]]
    /\ worker = "up" /\ restarts = 0 /\ manual = 0

\* setInterval: a run that is still under way holds nothing back.
Tick ==
    /\ worker = "up"
    /\ StartRun("timer")
    /\ UNCHANGED <<env, rows, process>>

\* POST /weather/sync.
SyncByHand ==
    /\ manual < MaxManual
    /\ StartRun("hand")
    /\ manual' = manual + 1
    /\ UNCHANGED <<env, rows, worker, restarts>>

\* fetchObservation: both answers are in, of the right shape, with a time that
\* parses.  The time is the provider's, not the clock's.
Fetched(r, p) ==
    /\ at[r][p] = Fetching
    /\ healthy
    /\ at' = [at EXCEPT ![r][p] = hour]
    /\ UNCHANGED <<env, rows, starter, process>>

\* The first point to settle ends the run, as with Promise.race.
Settle_Race(r, p) == at' = [at EXCEPT ![r] = [q \in Points |-> Settled]]

Settle(r, p) == at' = [at EXCEPT ![r][p] = Settled]

\* An upsert on (latitude, longitude, observedAt).
Stored(r, p) ==
    /\ at[r][p] \in Hours
    /\ healthy
    /\ rows' = rows \cup {<<p, at[r][p]>>}
    /\ Settle(r, p)
    /\ UNCHANGED <<env, starter, process>>

\* A refusal, a bad shape, the abort of the ten-second timer or a failing
\* upsert: of this point only.
Failed(r, p) ==
    /\ at[r][p] # Settled
    /\ ~healthy
    /\ Settle(r, p)
    /\ UNCHANGED <<env, rows, starter, process>>

\* Promise.all is through.
Finished(r) ==
    /\ starter[r] # "nobody" /\ \A p \in Points : at[r][p] = Settled
    /\ starter' = [starter EXCEPT ![r] = "nobody"]
    /\ UNCHANGED <<env, rows, at, process>>

\* SIGTERM: the timer is cleared and the pool closed; nothing waits for a run.
Shutdown ==
    /\ worker = "up" /\ restarts < MaxRestarts
    /\ worker' = "stopping"
    /\ UNCHANGED <<env, rows, starter, at, restarts, manual>>

Exit ==
    /\ worker = "stopping"
    /\ worker' = "down"
    /\ starter' = [r \in Runs |-> IF starter[r] = "timer" THEN "nobody" ELSE starter[r]]
    /\ at' = [r \in Runs |-> IF starter[r] = "timer" THEN [p \in Points |-> Settled] ELSE at[r]]
    /\ UNCHANGED <<env, rows, restarts, manual>>

\* The orchestrator starts another.
Restart ==
    /\ worker = "down"
    /\ worker' = "up" /\ restarts' = restarts + 1
    /\ StartRun("timer")
    /\ UNCHANGED <<env, rows, manual>>

\* The provider and the database.
NextObservation == hour < LastHour /\ hour' = hour + 1
                   /\ UNCHANGED <<healthy, rows, starter, at, process>>

HealthChanges == healthy' = ~healthy /\ UNCHANGED <<hour, rows, starter, at, process>>

PointStep(r, p) == Fetched(r, p) \/ Stored(r, p) \/ Failed(r, p)

Next ==
    \/ Tick \/ SyncByHand \/ Shutdown \/ Exit \/ Restart
    \/ \E r \in Runs : Finished(r) \/ \E p \in Points : PointStep(r, p)
    \/ NextObservation \/ HealthChanges

\* Every fetch ends, by its timer if not otherwise, and so does every run; the
\* interval elapses, and a worker that stopped is started again.
Fairness ==
    /\ WF_vars(Tick) /\ WF_vars(Exit) /\ WF_vars(Restart) /\ WF_vars(NextObservation)
    /\ \A r \in Runs : WF_vars(Finished(r)) /\ \A p \in Points : WF_vars(PointStep(r, p))

Spec == Init /\ [][Next]_vars /\ Fairness

-----------------------------------------------------------------------------

\* One point's failure never aborts the others, and re-runs are idempotent
\* (weatherPipeline.ts:18-24): once the provider and the database stay up, the
\* latest observation of every point gets stored, whatever runs overlapped,
\* failed or were cut off by a restart before.
KeepsUp == <>[]healthy => <>[](\A p \in Points : <<p, LastHour>> \in rows)
=============================================================================
