------------------------------- MODULE Warehouse -------------------------------
(***************************************************************************)
(* The analytics warehouse (data-platform/): raw files are landed in       *)
(* bronze as they are, silver types, validates and deduplicates them, and  *)
(* the gold tables are rebuilt from silver, one table at a time.  The      *)
(* loader and dbt run as processes of their own and the analytics API      *)
(* opens the same database file for each request.                          *)
(*                                                                         *)
(* Times are seconds, as AIS files have them; a place is its distance      *)
(* along one line.                                                         *)
(***************************************************************************)
EXTENDS Integers, Sequences, FiniteSets, FiniteSetsExt

CONSTANTS
    Deliveries,   \* the files that may come: sequences of sets of rows
    Unknown,      \* NULL
    NullIsland,   \* latitude and longitude 0
    OffTheMap,    \* an impossible or unparsable coordinate
    IdleSpeed,    \* idle_speed_knots
    IdleMin,      \* idle_min_minutes
    MaxGap,       \* idle_max_gap_minutes
    MaxKnots,     \* max_plausible_knots
    Day,          \* seconds of a day
    MaxBuilds     \* bound: rebuilds

Row ==
    [mmsi : Nat \cup {Unknown}, time : Int \cup {Unknown}, place : Int \cup {NullIsland, OffTheMap},
     speed : Int \cup {Unknown}, name : STRING \cup {Unknown}]

WarehouseAssumption ==
    /\ IdleSpeed \in Nat /\ IdleMin \in Nat /\ MaxGap \in Nat /\ MaxKnots \in Nat
    /\ Day \in Nat \ {0} /\ MaxBuilds \in Nat
    /\ \A files \in Deliveries : files \in Seq(SUBSET Row) /\ \A i \in DOMAIN files : IsFiniteSet(files[i])

VARIABLES
    coming,             \* files still to come
    raw,                \* rows of the files in data/raw
    bronze, silver,     \* the tables, as sets of rows
    dim, fact, idling,
    from,               \* per gold table, the silver it was built from
    job,                \* "none", "loading", or what the build does next
    result,             \* how the last job ended
    readers,            \* requests of the API that hold the database open
    builds

vars == <<coming, raw, bronze, silver, dim, fact, idling, from, job, result, readers, builds>>

-----------------------------------------------------------------------------
(* silver_ais_positions.sql *)

\* The sentinel 102.3 and other impossible speeds become NULL; the row stays.
Typed(row) == IF row.speed \in 0..MaxKnots THEN row ELSE [row EXCEPT !.speed = Unknown]

\* An MMSI of nine digits, a time that parses, a coordinate that can be.
Valid(row) == /\ row.mmsi # Unknown /\ row.time # Unknown
              /\ row.place \notin {NullIsland, OffTheMap}

Faster(a, b) == a.speed # Unknown /\ (b.speed = Unknown \/ a.speed > b.speed)

SameKey(a, b) == a.mmsi = b.mmsi /\ a.time = b.time

\* One row for each vessel and instant, of those with the highest known speed:
\* which one of equals is up to the query's plan.
Deduped(rows) ==
    LET best == {row \in rows : ~\E other \in rows : SameKey(row, other) /\ Faster(other, row)}
    IN  {kept \in SUBSET best : \A row \in best : Cardinality({k \in kept : SameKey(k, row)}) = 1}

\* Deduplicated before it is validated.
SilverOf_DedupedFirst(rows) == {{row \in kept : Valid(row)} : kept \in Deduped({Typed(r) : r \in rows})}

SilverOf(rows) == Deduped({row \in {Typed(r) : r \in rows} : Valid(row)})

Mmsis(pings) == {p.mmsi : p \in pings}

-----------------------------------------------------------------------------
(* dim_vessel.sql, fct_vessel_daily.sql *)

\* The name of the latest ping that has one.
DimOf(pings) ==
    {LET named == {p \in pings : p.mmsi = m /\ p.name # Unknown}
     IN  [mmsi |-> m,
          name |-> IF named = {} THEN Unknown
                   ELSE (CHOOSE p \in named : \A q \in named : q.time <= p.time).name] : m \in Mmsis(pings)}

DayOf(p) == p.time \div Day

\* lag over a window: the ping before, of the same vessel; {} for the first.
Lag(pings, p) ==
    LET before == {q \in pings : q.mmsi = p.mmsi /\ q.time < p.time}
    IN  {q \in before : \A o \in before : o.time <= q.time}

Abs(n) == IF n < 0 THEN -n ELSE n

\* Any hop counts.
Leg_Raw(p, q) == Abs(p.place - q.place)

\* A hop counts unless its implied speed, in miles per 3600 seconds, is implausible.
Leg(p, q) ==
    LET hop == Abs(p.place - q.place)
    IN  IF p.time > q.time /\ hop * 3600 <= MaxKnots * (p.time - q.time) THEN hop ELSE 0

Sum(f) == FoldFunction(LAMBDA x, n : x + n, 0, f)

\* The pings of the vessel of one on the same day.
Today(pings, p) == {q \in pings : q.mmsi = p.mmsi /\ DayOf(q) = DayOf(p)}

Miles(today) == Sum([p \in today |-> Sum([q \in Lag(today, p) |-> Leg(p, q)])])

DayRow(pings, p) ==
    LET today == Today(pings, p)
        times == {q.time : q \in today}
    IN  [mmsi |-> p.mmsi, day |-> DayOf(p), pings |-> Cardinality(today), miles |-> Miles(today),
         first |-> Min(times), last |-> Max(times)]

FactOf(pings) == {DayRow(pings, p) : p \in pings}

-----------------------------------------------------------------------------
(* gold_vessel_idling.sql: gaps and islands *)

Idle(p) == p.speed # Unknown /\ p.speed <= IdleSpeed

\* date_diff('minute', a, b) counts the full minutes of the clock passed on the
\* way from a to b: 12:00:59 to 12:01:00 is one minute.
Minutes(a, b) == (b \div 60) - (a \div 60)

\* Adjacent in the ordering only.
RunStart_AnyGap(pings, p) ==
    Idle(p) /\ \A q \in Lag(pings, p) : ~Idle(q)

\* The first idle ping after another kind, or after the reporting lapsed.
RunStart(pings, p) ==
    Idle(p) /\ \A q \in Lag(pings, p) : ~Idle(q) \/ Minutes(q.time, p.time) > MaxGap

\* The running sum of the starts.
RunId(pings, p) ==
    Cardinality({q \in pings : q.mmsi = p.mmsi /\ q.time <= p.time /\ RunStart(pings, q)})

Run(pings, p) == {q \in pings : Idle(q) /\ q.mmsi = p.mmsi /\ RunId(pings, q) = RunId(pings, p)}

Episode(pings, p) ==
    LET times == {q.time : q \in Run(pings, p)}
    IN  [mmsi |-> p.mmsi, start |-> Min(times), end |-> Max(times), pings |-> Cardinality(times)]

IdlingOf(pings) ==
    {e \in {Episode(pings, p) : p \in {q \in pings : Idle(q)}} : Minutes(e.start, e.end) >= IdleMin}

-----------------------------------------------------------------------------
(* The jobs and the API *)

NeverBuilt == [dim |-> {}, fact |-> {}, idling |-> {}]

Init ==
    /\ coming \in Deliveries /\ raw = {}
    /\ bronze = {} /\ silver = {} /\ dim = {} /\ fact = {} /\ idling = {}
    /\ from = NeverBuilt
    /\ job = "none" /\ result = "none" /\ readers = 0 /\ builds = 0

\* DuckDB takes one process that writes or many that read.  A job that finds
\* readers fails.
StartJob(first) ==
    /\ job = "none" /\ builds < MaxBuilds
    /\ builds' = builds + 1
    /\ IF readers > 0 THEN job' = "none" /\ result' = "locked out"
       ELSE job' = first /\ result' = "running"
    /\ UNCHANGED <<coming, raw, bronze, silver, dim, fact, idling, from, readers>>

\* python ingestion/load_bronze.py; dbt run.
Loader == StartJob("load")
Dbt == StartJob("silver")

\* CREATE OR REPLACE TABLE ... AS SELECT over all files.
LoadBronze ==
    /\ job = "load"
    /\ bronze' = raw
    /\ job' = "none" /\ result' = "succeeded"
    /\ UNCHANGED <<coming, raw, silver, dim, fact, idling, from, readers, builds>>

BuildSilver ==
    /\ job = "silver"
    /\ silver' \in SilverOf(bronze)
    /\ job' = "dim"
    /\ UNCHANGED <<coming, raw, bronze, dim, fact, idling, from, result, readers, builds>>

BuildDim ==
    /\ job = "dim"
    /\ dim' = DimOf(silver) /\ from' = [from EXCEPT !.dim = silver]
    /\ job' = "fact"
    /\ UNCHANGED <<coming, raw, bronze, silver, fact, idling, result, readers, builds>>

BuildFact ==
    /\ job = "fact"
    /\ fact' = FactOf(silver) /\ from' = [from EXCEPT !.fact = silver]
    /\ job' = "idling"
    /\ UNCHANGED <<coming, raw, bronze, silver, dim, idling, result, readers, builds>>

BuildIdling ==
    /\ job = "idling"
    /\ idling' = IdlingOf(silver) /\ from' = [from EXCEPT !.idling = silver]
    /\ job' = "none" /\ result' = "succeeded"
    /\ UNCHANGED <<coming, raw, bronze, silver, dim, fact, readers, builds>>

\* A step fails: what was rebuilt stays, the rest is as it was.
JobFails ==
    /\ job # "none"
    /\ job' = "none" /\ result' = "failed"
    /\ UNCHANGED <<coming, raw, bronze, silver, dim, fact, idling, from, readers, builds>>

\* Another day's file arrives.
NewFiles ==
    /\ coming # <<>>
    /\ raw' = raw \cup Head(coming) /\ coming' = Tail(coming)
    /\ UNCHANGED <<bronze, silver, dim, fact, idling, from, job, result, readers, builds>>

\* query(): a read-only connection of its own; while a job writes, it fails.
OpenQuery ==
    /\ readers = 0 /\ job = "none"
    /\ readers' = 1
    /\ UNCHANGED <<coming, raw, bronze, silver, dim, fact, idling, from, job, result, builds>>

CloseQuery ==
    /\ readers = 1
    /\ readers' = 0
    /\ UNCHANGED <<coming, raw, bronze, silver, dim, fact, idling, from, job, result, builds>>

Next ==
    \/ Loader \/ Dbt \/ LoadBronze \/ BuildSilver \/ BuildDim \/ BuildFact \/ BuildIdling \/ JobFails
    \/ NewFiles \/ OpenQuery \/ CloseQuery

Spec == Init /\ [][Next]_vars

-----------------------------------------------------------------------------

TypeOK ==
    /\ readers \in 0..1 /\ builds \in 0..MaxBuilds
    /\ job \in {"none", "load", "silver", "dim", "fact", "idling"}
    /\ result \in {"none", "running", "succeeded", "failed", "locked out"}
    /\ readers > 0 => job = "none"

\* One row per vessel and instant, and every ping that is fit for use is
\* represented (assert_silver_unique_ping.sql; silver_ais_positions.sql:8-11): a
\* corrupt copy never displaces a good one.
Represented ==
    /\ \A p, q \in silver : SameKey(p, q) => p = q
    /\ job = "dim" => \A row \in bronze : Valid(row) => \E p \in silver : SameKey(p, row)

\* An episode by its meaning: from an idle ping to another, all the vessel's
\* pings between are idle and no two that follow each other are further apart
\* than the gap; it could not begin earlier or end later; it lasts long enough.
Consecutive(pings, p, q) == p \in Lag(pings, q)

Chained(p, q) == Idle(p) /\ Idle(q) /\ Minutes(p.time, q.time) <= MaxGap

Between(pings, s, e) == {p \in pings : p.mmsi = s.mmsi /\ p.time \in s.time..e.time}

IsEpisode(pings, s, e) ==
    /\ s.mmsi = e.mmsi /\ s.time <= e.time /\ Minutes(s.time, e.time) >= IdleMin /\ Idle(s)
    /\ \A p, q \in Between(pings, s, e) : Consecutive(pings, p, q) => Chained(p, q)
    /\ \A p \in Lag(pings, s) : ~Chained(p, s)
    /\ \A q \in pings : Consecutive(pings, e, q) => ~Chained(e, q)

\* The vessel sat idle from one ping to the other, by the seconds and not by the
\* minutes of the clock.
SatIdle(pings, s, e) ==
    /\ s.mmsi = e.mmsi /\ s.time <= e.time /\ e.time - s.time >= 60 * IdleMin /\ Idle(s)
    /\ \A p, q \in Between(pings, s, e) :
         Consecutive(pings, p, q) => Idle(p) /\ Idle(q) /\ q.time - p.time <= 60 * MaxGap

\* The idle table holds exactly the episodes of the silver it was built from:
\* none spans a hole in the reporting
\* (assert_idling_episode_has_no_reporting_gap.sql), none is cut or missed.  By
\* the seconds, every long enough time the vessel sat idle is within an episode,
\* and an episode is less than a minute too short and its holes less than a
\* minute too long: from 0:30 to 30:00 is thirty of the clock's minutes, though
\* not "lasting at least" thirty (gold_vessel_idling.sql:6-8).
EpisodesAreRuns ==
    /\ \A p, q \in from.idling :
         IsEpisode(from.idling, p, q)
           <=> \E e \in idling : e.mmsi = p.mmsi /\ e.start = p.time /\ e.end = q.time /\ p.mmsi = q.mmsi
    /\ \A e \in idling : \E p, q \in from.idling :
         /\ p.mmsi = e.mmsi /\ p.time = e.start /\ q.time = e.end
         /\ e.end - e.start > 60 * (IdleMin - 1)
         /\ \A u, v \in Between(from.idling, p, q) :
              Consecutive(from.idling, u, v) => v.time - u.time < 60 * (MaxGap + 1)
    /\ \A p, q \in from.idling : SatIdle(from.idling, p, q) =>
         \E e \in idling : e.mmsi = p.mmsi /\ e.start <= p.time /\ q.time <= e.end

\* The distance of a day is one the vessel could have travelled between its first
\* and its last ping of the day: no teleport, no leg across midnight
\* (fct_vessel_daily.sql:25-28, 57-61); and every ping is counted in one day.
DistanceIsPossible ==
    /\ \A f \in fact : f.miles * 3600 <= MaxKnots * (f.last - f.first)
    /\ Sum([f \in fact |-> f.pings]) = Cardinality(from.fact)
=============================================================================
