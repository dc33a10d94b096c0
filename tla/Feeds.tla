--------------------------------- MODULE Feeds ---------------------------------
(***************************************************************************)
(* The four ways data is brought in: the AIS stream, the weather           *)
(* ingestion, the bunker import and the warehouse.  They share no state,   *)
(* so a behaviour is one of any of them, with the others at rest.          *)
(***************************************************************************)
EXTENDS Integers, FiniteSets, Sequences

CONSTANTS
    Vessels, Window, Latency, InitialDelay, MaxDelay,
    Points, LastHour, Runs, MaxRestarts, MaxManual, Fetching, Settled,
    Sheets, Styles, FleetOfImo, Fleet, NoFleet, Figure, MaxUploads,
    Deliveries, Unknown, NullIsland, OffTheMap, IdleSpeed, IdleMin, MaxGap, MaxKnots, Day, MaxBuilds

VARIABLES
    feed,   \* the feed of this behaviour
    sockets, timers, delay, up, since, pending, stored, heard, gap, lost,
    hour, healthy, rows, starter, at, worker, restarts, manual,
    sheet, style, uploads, stage, parsed, summary, records, trail,
    coming, raw, bronze, silver, dim, fact, idling, from, job, result, readers, builds

Ais == INSTANCE AisIngestion
Weather == INSTANCE WeatherSync
Bunker == INSTANCE BunkerImport
Lake == INSTANCE Warehouse

ASSUME FeedsAssumption ==
    Ais!AisAssumption /\ Weather!WeatherAssumption /\ Bunker!BunkerAssumption /\ Lake!WarehouseAssumption

aisVars == <<sockets, timers, delay, up, since, pending, stored, heard, gap, lost>>
weatherVars == <<hour, healthy, rows, starter, at, worker, restarts, manual>>
bunkerVars == <<sheet, style, uploads, stage, parsed, summary, records, trail>>
lakeVars == <<coming, raw, bronze, silver, dim, fact, idling, from, job, result, readers, builds>>

vars == <<feed, aisVars, weatherVars, bunkerVars, lakeVars>>

TypeOK == Ais!TypeOK /\ Weather!TypeOK /\ Bunker!TypeOK /\ Lake!TypeOK

\* What varies of a feed at rest is fixed.
Either(f, S) == IF feed = f THEN S ELSE {CHOOSE x \in S : TRUE}

Init ==
    /\ feed \in {"ais", "weather", "bunker", "warehouse"}
    /\ up \in Either("ais", BOOLEAN)
    /\ sheet \in Either("bunker", Sheets) /\ style \in Either("bunker", Styles)
    /\ coming \in Either("warehouse", Deliveries)
    /\ starter \in Either("weather", {s \in [Runs -> {"timer", "nobody"}] : Cardinality({r \in Runs : s[r] = "timer"}) = 1})
    /\ Ais!Init /\ Weather!Init /\ Bunker!Init /\ Lake!Init

\* A step of one feed, with the others at rest.
AisStep(A) == feed = "ais" /\ A /\ UNCHANGED <<feed, weatherVars, bunkerVars, lakeVars>>
WeatherStep(A) == feed = "weather" /\ A /\ UNCHANGED <<feed, aisVars, bunkerVars, lakeVars>>
BunkerStep(A) == feed = "bunker" /\ A /\ UNCHANGED <<feed, aisVars, weatherVars, lakeVars>>
LakeStep(A) == feed = "warehouse" /\ A /\ UNCHANGED <<feed, aisVars, weatherVars, bunkerVars>>

Next == AisStep(Ais!Next) \/ WeatherStep(Weather!Next) \/ BunkerStep(Bunker!Next) \/ LakeStep(Lake!Next)

\* The fairness each feed states for itself.
Fairness ==
    /\ WF_vars(AisStep(Ais!Connection)) /\ WF_vars(AisStep(Ais!Tick))
    /\ \A m \in Vessels : WF_vars(AisStep(Ais!Finish(m)))
    /\ WF_vars(WeatherStep(Weather!Tick)) /\ WF_vars(WeatherStep(Weather!Exit))
    /\ WF_vars(WeatherStep(Weather!Restart)) /\ WF_vars(WeatherStep(Weather!NextObservation))
    /\ \A r \in Runs : WF_vars(WeatherStep(Weather!Finished(r)))
    /\ \A r \in Runs, p \in Points : WF_vars(WeatherStep(Weather!PointStep(r, p)))

Spec == Init /\ [][Next]_vars /\ Fairness

-----------------------------------------------------------------------------
(* Each property is stated, with what the code says of it, in the module of its feed. *)

OneStream == Ais!OneStream
LagIsBounded == Ais!LagIsBounded
SelfHeals == feed = "ais" => Ais!SelfHeals
RoundTrip == Bunker!RoundTrip
ReportIsTrue == Bunker!ReportIsTrue
Represented == Lake!Represented
EpisodesAreRuns == Lake!EpisodesAreRuns
DistanceIsPossible == Lake!DistanceIsPossible
KeepsUp == feed = "weather" => Weather!KeepsUp
=============================================================================
