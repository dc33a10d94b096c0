--------------------------------- MODULE Pages ---------------------------------
(***************************************************************************)
(* The pages of the web application over the API: what a page asks, about  *)
(* which vessel, through the client (lib/api.ts), what the route answers   *)
(* (ApiRoutes), and what the page shows while the vessel changes, answers  *)
(* are late and requests fail.                                             *)
(*                                                                         *)
(* A page is a record.  how: it queries through react-query under a key    *)
(* with the vessel in it ("query"), in an effect that depends on the       *)
(* vessel ("effect"), when it is mounted and again ("fleet") or never       *)
(* again ("mount"), or on a button ("form").  ask: its request for each vessel.  standIn and        *)
(* builds: the fixtures it shows for a failed request, and in which        *)
(* builds.  alone: what it does without a vessel.  clears: when a form     *)
(* drops its last result.  Figures and layout are left out.                *)
(***************************************************************************)
EXTENDS ApiRoutes

CONSTANTS
    Fixtures,    \* ids of the fixtures' vessels, v1 first
    BackendOf,   \* VESSEL_ID_MAP
    Caller,      \* the user of the session
    Nobody,      \* no vessel selected
    Flagged,     \* the flagged equipment of each vessel
    MaxAsks      \* bound: requests of a page

PagesAssumption ==
    /\ ToSet(Fixtures) \cap ToSet(Vessels) = {} /\ Nobody \notin ToSet(Vessels) \cup ToSet(Fixtures)
    /\ \A f \in ToSet(Fixtures) : BackendOf[f] \in ToSet(Vessels)
    /\ Fixtures \in Seq(ToSet(Fixtures)) /\ Fixtures # <<>> /\ Omitted \notin ToSet(Fixtures)
    /\ \A v \in ToSet(Vessels) \cup ToSet(Fixtures) \cup {Nobody} :
         Flagged[v] \in DOMAIN VesselOf => VesselOf[Flagged[v]] = v

VARIABLES
    page, build,
    fleet,      \* FleetContext: "loading", "loaded" or "failed", and its vessels
    selected,
    open,       \* requests under way
    asks,       \* how many were sent
    cache,      \* data of the page: per vessel for a query, one for the others
    failed,     \* its error, kept the same way
    loading,
    last,       \* how the last request for each key ended
    overlapped  \* the vessel changed while an effect's request was under way

pageVars == <<page, build, fleet, selected, open, asks, cache, failed, loading, last, overlapped>>

Ids == ToSet(Vessels) \cup ToSet(Fixtures) \cup {Nobody}

-----------------------------------------------------------------------------
(* The client (lib/api.ts) *)

\* The fixtures' ids, and no id, are translated for some of the routes.
ToBackendVesselId(v) == IF v = Nobody THEN Head(Vessels) ELSE IF v \in ToSet(Fixtures) THEN BackendOf[v] ELSE v

Get(route, v, item) == [route |-> route, user |-> Caller, vessel |-> v, item |-> item, ok |-> TRUE]

GetFleet == Get("fleet", Omitted, Omitted)

OptimizeRouteFor == [v \in Ids |-> Get("voyage/optimize-route", v, Omitted)]

GetHistory == [v \in Ids |-> Get("voyage/history", v, Omitted)]

\* The call's vessel goes along, no voyage does.
GenerateMessage == [v \in Ids |-> Get("voyage/generate-agent-message", v, Omitted)]

GetLive == [v \in Ids |-> Get("weather/live", Omitted, Omitted)]

GetPositions == [v \in Ids |-> Get("ais/positions", Omitted, Omitted)]

GetEquipment == [v \in Ids |-> Get("maintenance/equipment", v, Omitted)]

GetSensorData == [v \in Ids |-> Get("maintenance/sensor-data", Omitted, Flagged[v])]

Analyze == [v \in Ids |-> Get("maintenance/analyze-anomaly", v, Flagged[v])]

GetWorkOrders == [v \in Ids |-> Get("maintenance/work-orders", v, Omitted)]

GetAlerts == [v \in Ids |-> Get("maintenance/alerts", v, Omitted)]

GetCII == [v \in Ids |-> Get("compliance/cii", v, Omitted)]

GetETS == [v \in Ids |-> Get("compliance/ets", v, Omitted)]

GetCongestion == [v \in Ids |-> Get("ports/congestion", Omitted, Omitted)]

GenerateDefectReport == [v \in Ids |-> Get("knowledge/generate-defect-report", ToBackendVesselId(v), Omitted)]

GetDocuments == [v \in Ids |-> Get("knowledge/documents", ToBackendVesselId(v), Omitted)]

CreateHandover == [v \in Ids |-> Get("knowledge/handover", ToBackendVesselId(v), Omitted)]

GetReadinessScore == [v \in Ids |-> Get("sire/readiness-score", v, Omitted)]

GetSireDocuments == [v \in Ids |-> Get("sire/documents", v, Omitted)]

GetFindings == [v \in Ids |-> Get("sire/findings", v, Omitted)]

\* The four requests of the analytics page, as one.
GetAnalytics == [v \in Ids |-> Get("analytics", Omitted, Omitted)]

\* The analytics service and the board of WorkOrders, and every other route.
Served(q) ==
    CASE q.route = "analytics" -> Await("warehouse", {}, {200, 503})
      [] q.route = "maintenance/work-orders" -> 
             IF CanAccess(q.user, q.vessel) THEN Await("database", {q.vessel}, {200, 503})
             ELSE Await("database", {}, {403, 503})
      [] OTHER -> Handle(q)

-----------------------------------------------------------------------------
(* The pages *)

Query(ask, standIn, builds, alone) ==
    [how |-> "query", ask |-> ask, standIn |-> standIn, builds |-> builds, alone |-> alone, clears |-> {}]

Effect(ask, standIn) ==
    [how |-> "effect", ask |-> ask, standIn |-> standIn, builds |-> "every", alone |-> "nothing", clears |-> {}]

FleetWide(how, ask, standIn) ==
    [how |-> how, ask |-> ask, standIn |-> standIn, builds |-> "every", alone |-> "asks", clears |-> {}]

Form(ask, alone, clears) ==
    [how |-> "form", ask |-> ask, standIn |-> "none", builds |-> "every", alone |-> alone, clears |-> clears]

\* The filter by vessel leaves nothing of the fixtures for a real vessel.
WorkOrderSystem == Query(GetWorkOrders, "own list", "every", "fixtures")

EquipmentGrid == Query(GetEquipment, "own list", "every", "fixtures")

\* The catalogue of the new order's form, under the grid's key.
NewWorkOrderModal == Query(GetEquipment, "none", "every", "nothing")

EquipmentDetail == Query(GetAlerts, "own list", "every", "nothing")

SensorChart == Query(GetSensorData, "anything", "development", "nothing")

VoyageHistoryTable == Query(GetHistory, "own list", "every", "fixtures")

\* Without data the table shows DEMO_DOCS, and without a vessel it asks for one.
DocumentManager == Query(GetDocuments, "placeholder", "every", "asks")

\* v1's chapters for a vessel that has none.
ReadinessTab == Query(GetReadinessScore, "anything", "every", "nothing")

DocumentsTab == Query(GetSireDocuments, "own list", "development", "nothing")

FindingsTab == Query(GetFindings, "own list", "development", "nothing")

AnalyticsPage == FleetWide("fleet", GetAnalytics, "none")

CIITracker == Effect(GetCII, "own record")

ETSTracker == Effect(GetETS, "own record")

PortCongestionPage == FleetWide("mount", GetCongestion, "anything")

WeatherPanel == FleetWide("fleet", GetLive, "none")

\* Polled; a failure leaves what is shown and is not told.
LiveFleetMap == FleetWide("fleet", GetPositions, "silent")

RouteOptimizer == Form(OptimizeRouteFor, "nothing", {"submit"})

DefectReportGenerator == Form(GenerateDefectReport, "asks", {})

\* The report composed in the browser when the service could not be reached.
ShiftHandover_Synthesises == [Form(CreateHandover, "asks", {}) EXCEPT !.standIn = "anything"]

\* A failed handover takes the last one off the page.
ShiftHandover == Form(CreateHandover, "asks", {"failure"})

\* Its vessel is the one of the port call that was clicked.
AgentHub == Form(GenerateMessage, "nothing", {"submit", "selection"})

AnalyzeAll == Form(Analyze, "nothing", {})

Pages ==
    [work_orders |-> WorkOrderSystem, equipment |-> EquipmentGrid, picker |-> NewWorkOrderModal,
     alerts |-> EquipmentDetail, sensors |-> SensorChart, history |-> VoyageHistoryTable,
     documents |-> DocumentManager, readiness |-> ReadinessTab, certificates |-> DocumentsTab,
     findings |-> FindingsTab, analytics |-> AnalyticsPage, cii |-> CIITracker, ets |-> ETSTracker,
     congestion |-> PortCongestionPage, weather |-> WeatherPanel, map |-> LiveFleetMap,
     route |-> RouteOptimizer, defect |-> DefectReportGenerator, handover |-> ShiftHandover,
     agent_hub |-> AgentHub, analysis |-> AnalyzeAll]

P == Pages[page]

\* kind: "real" and "made up" (by the service) came in an answer, "fixture" and
\* "empty" are the browser's.
Nothing == [kind |-> "none", about |-> {}, of |-> Nobody]
Datum(kind, about, v) == [kind |-> kind, about |-> about, of |-> v]

FromService(datum) == datum.kind \in {"real", "made up"}

\* A key of the persisted cache that leaves the vessel out.
Key_Unkeyed(p, v) == Nobody

\* Where a page keeps what it holds for a vessel.
Key(p, v) == IF Pages[p].how = "query" THEN v ELSE Nobody

Keys == Ids

\* What a failed request of a page is replaced by, if by anything.
StandIn(p, v) ==
    LET own == IF v \in ToSet(Fixtures) THEN {Datum("fixture", {v}, v)} ELSE {}
    IN  IF Pages[p].builds = "development" /\ build = "production" THEN {}
        ELSE CASE Pages[p].standIn = "anything" -> {Datum("fixture", {}, v)}
               [] Pages[p].standIn = "own list" -> IF own # {} THEN own ELSE {Datum("empty", {v}, v)}
               [] Pages[p].standIn = "own record" -> own
               [] OTHER -> {}

-----------------------------------------------------------------------------
\* A request of page p for vessel v goes out; n tells it from the others.
Request(p, v, n) == [page |-> p, vessel |-> v, n |-> n, tries |-> 0]

Pending(p, v) == \E r \in open : Key(r.page, r.vessel) = Key(p, v)

\* Whether a page sends a request when the vessel becomes v: a query that has
\* the data or waits for it does not, an effect always does.
AsksAbout(v) ==
    /\ v # Nobody \/ P.alone = "asks"
    /\ \/ P.how = "query" /\ cache[v] = Nothing /\ ~Pending(page, v)
       \/ P.how = "effect"

PageInit ==
    /\ page \in DOMAIN Pages
    /\ build \in {"production", "development"}
    /\ fleet = [status |-> "loading", vessels |-> {}]
    /\ selected = Nobody
    /\ open = IF P.alone = "asks" /\ P.how # "form" THEN {Request(page, Nobody, 1)} ELSE {}
    /\ asks = Cardinality(open)
    /\ cache = [k \in Keys |-> IF k = Nobody /\ P.alone = "fixtures" THEN Datum("fixture", {}, Nobody) ELSE Nothing]
    /\ failed = [k \in Keys |-> FALSE]
    /\ loading = (open # {})
    /\ last = [k \in Keys |-> "none"]
    /\ overlapped = FALSE

\* The vessel becomes v: the page's queries and effects follow, the text of a
\* form stays.
Select(v) ==
    /\ selected' = v
    /\ asks < MaxAsks
    /\ overlapped' = (overlapped \/ (open # {} /\ (P.how = "effect" \/ "selection" \in P.clears)))
    /\ IF AsksAbout(v)
       THEN /\ open' = open \cup {Request(page, v, asks + 1)}
            /\ asks' = asks + 1
            /\ loading' = TRUE
            /\ failed' = [failed EXCEPT ![Key(page, v)] = FALSE]
       ELSE UNCHANGED <<open, asks, loading, failed>>
    /\ cache' = IF "selection" \in P.clears THEN [cache EXCEPT ![Nobody] = Nothing] ELSE cache
    /\ UNCHANGED <<page, build, last>>

\* The top bar's menu, the CII tracker's own, or a click on a port call.
SelectVessel(v) ==
    /\ IF page = "agent_hub" THEN v \in ToSet(Fixtures) ELSE v \in fleet.vessels \ {selected}
    /\ Select(v)
    /\ UNCHANGED fleet

\* FleetContext's effect: the first vessel of the fleet is selected.
FleetLoaded ==
    /\ fleet.status = "loading"
    /\ LET own == FleetVessels(Caller)
       IN  /\ Handle(GetFleet).about = own
           /\ fleet' = [status |-> "loaded", vessels |-> own]
           /\ IF own = {} \/ page = "agent_hub" THEN UNCHANGED <<page, build, selected, open, asks, cache, failed, loading, last, overlapped>>
              ELSE Select(FirstOf(Vessels, own))

FleetFails ==
    /\ fleet.status = "loading"
    /\ fleet' = IF build = "development" THEN [status |-> "loaded", vessels |-> ToSet(Fixtures)]
                                          ELSE [status |-> "failed", vessels |-> {}]
    /\ IF build = "development" /\ page # "agent_hub" THEN Select(Head(Fixtures))
       ELSE UNCHANGED <<page, build, selected, open, asks, cache, failed, loading, last, overlapped>>

\* A form's button, disabled while its request is under way; a query whose data
\* has grown stale; a poll, a refresh, or the mount of a fleet-wide page.
Ask ==
    /\ asks < MaxAsks
    /\ P.how \in {"query", "fleet", "form"}
    /\ page = "map" \/ ~Pending(page, selected)
    /\ selected # Nobody \/ P.alone = "asks"
    /\ open' = open \cup {Request(page, IF P.how = "fleet" THEN Nobody ELSE selected, asks + 1)}
    /\ asks' = asks + 1
    /\ loading' = TRUE
    /\ failed' = IF P.how = "query" THEN failed ELSE [failed EXCEPT ![Nobody] = FALSE]
    /\ cache' = IF "submit" \in P.clears THEN [cache EXCEPT ![Nobody] = Nothing] ELSE cache
    /\ UNCHANGED <<page, build, fleet, selected, last, overlapped>>

\* Another page that reads the same key of the cache.
Visit(p) ==
    /\ p # page
    /\ P.how = "query" /\ Pages[p].how = "query" /\ Pages[p].ask = P.ask
    /\ page' = p
    /\ UNCHANGED <<build, fleet, selected, open, asks, cache, failed, loading, last, overlapped>>

-----------------------------------------------------------------------------
AnswerTo(r) == Served(Pages[r.page].ask[r.vessel])

\* An effect's success does not take back the error of another of its requests.
Ended(r, datum, isError, how) ==
    LET k == Key(r.page, r.vessel)
    IN  /\ open' = open \ {r}
        /\ loading' = FALSE
        /\ cache' = [cache EXCEPT ![k] = datum]
        /\ failed' = [failed EXCEPT ![k] = isError \/ (Pages[r.page].how = "effect" /\ @)]
        /\ last' = [last EXCEPT ![k] = how]
        /\ UNCHANGED <<page, build, fleet, selected, asks, overlapped>>

\* A 200 is an answer to the client, which reads no header: what the service
\* made up for a model that failed is kept like what the model said.
Answered(r) ==
    /\ \E s \in AnswerTo(r).statuses : s < 400
    /\ \E kind \in {"real"} \cup (IF MayBeMadeUp(AnswerTo(r)) THEN {"made up"} ELSE {}) :
         Ended(r, Datum(kind, AnswerTo(r).about, r.vessel), FALSE, "ok")

\* A query that throws is tried again, twice, unless the status is the client's.
Retried(r) ==
    /\ Pages[r.page].how = "query" /\ StandIn(r.page, r.vessel) = {}
    /\ r.tries < 2
    /\ open' = (open \ {r}) \cup {[r EXCEPT !.tries = @ + 1]}
    /\ UNCHANGED <<page, build, fleet, selected, asks, cache, failed, loading, last, overlapped>>

GivenUp(r) ==
    \/ Pages[r.page].how # "query" \/ StandIn(r.page, r.vessel) # {}
    \/ r.tries = 2
    \/ \E s \in AnswerTo(r).statuses : s \in 400..499

\* A status of failure, or no answer at all.
Fails(r) ==
    /\ GivenUp(r)
    /\ LET k == Key(r.page, r.vessel)
           kept == IF "failure" \in Pages[r.page].clears THEN Nothing ELSE cache[k]
           isError == Pages[r.page].standIn # "silent"
       IN  IF StandIn(r.page, r.vessel) = {} THEN Ended(r, kept, isError, "failed")
           ELSE \E datum \in StandIn(r.page, r.vessel) : Ended(r, datum, FALSE, "failed")

PageNext ==
    \/ FleetLoaded \/ FleetFails \/ Ask
    \/ \E v \in Ids : SelectVessel(v)
    \/ \E p \in DOMAIN Pages : Visit(p)
    \/ \E r \in open : Answered(r) \/ Retried(r) \/ Fails(r)

-----------------------------------------------------------------------------
PageTypeOK ==
    /\ page \in DOMAIN Pages /\ selected \in Ids /\ asks \in 0..MaxAsks
    /\ fleet.status \in {"loading", "loaded", "failed"}
    /\ \A r \in open : r.page \in DOMAIN Pages /\ r.vessel \in Ids /\ r.n \in 1..asks /\ r.tries \in 0..2
    /\ \A k \in Keys : cache[k].kind \in {"none", "real", "made up", "fixture", "empty"}

\* What the page shows for the selected vessel: an effect's page a spinner or its
\* error first.
Shown == IF P.how = "effect" /\ (loading \/ failed[Nobody]) THEN Nothing ELSE cache[Key(page, selected)]

\* The service's figures on a page are about the vessel in its heading: those of the
\* answer to a query whatever the order of answers and selections, those of an
\* effect unless the vessel changed while a request was under way (nothing
\* cancels it), and those of a form about the vessel it was submitted for.
ShownIsSelected ==
    FromService(Shown) /\ ~overlapped /\ P.how \in {"query", "effect", "form"} =>
        /\ Shown.about = {ToBackendVesselId(Shown.of)}
        /\ P.how # "form" => Shown.of = selected

\* Pages that promise to tell a failure: "Never present invented readings as a
\* real sensor trend", "a fabricated certificate list must never stand in"
\* (SensorChart.tsx:56-58, SirePage.tsx:255-256), "A failed handover is now
\* reported as failed", "Say it failed" (ShiftHandover.tsx:60-61,
\* AgentHub.tsx:50-52).
Candid == {"sensors", "certificates", "findings", "handover", "agent_hub"}

\* In production the last request of such a page is told for what it was: the
\* browser makes nothing up, and after a request that failed there is an error,
\* and what a handover or a letter would be taken for is gone.  What the service
\* made up (kind "made up") is not told, although "no AI ever made" it: its request
\* succeeded, and createHandover and generateAgentMessage (api.ts:504-517,
\* 321-334) do not read the header that says so.
FailuresAreTold ==
    build = "production" /\ page \in Candid /\ ~Pending(page, selected) =>
        LET k == Key(page, selected)
        IN  /\ cache[k] = Nothing \/ FromService(cache[k])
            /\ last[k] = "failed" => failed[k] /\ (P.how = "form" => cache[k] = Nothing)
            /\ FromService(cache[k]) /\ ~failed[k] => last[k] = "ok"
===============================================================================
