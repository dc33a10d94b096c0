------------------------------- MODULE ApiRoutes -------------------------------
(***************************************************************************)
(* The route handlers of the API that keep nothing in the database, up to  *)
(* their first await: the status, the vessels whose figures the answer     *)
(* discloses, and what the handler waits for before it answers.  The       *)
(* figures themselves (estimates, fixtures, prompts) are left out.         *)
(*                                                                         *)
(* A request q has the route, the user its token names, the vessel it      *)
(* supplies in its path or body, the other id it supplies (a voyage, an    *)
(* equipment, a fleet, a notification), and whether its body passes the    *)
(* schema.                                                                 *)
(***************************************************************************)
EXTENDS Tenancy

CONSTANTS
    Voyages,    \* MOCK_ACTIVE_VOYAGES, in order: records of id and vessel
    VesselOf,   \* the vessel of each equipment
    Surveyed    \* vessels with an entry in SIRE_READINESS and in CII_DATA

ASSUME RoutesAssumption ==
    /\ Voyages \in Seq(ToSet(Voyages))
    /\ \A y \in ToSet(Voyages) : y.vessel \in ToSet(Vessels)

Answer(status, about) == [awaits |-> "nothing", about |-> about, statuses |-> {status}]

\* The answer comes after an await, with one of these statuses; a rejection
\* that the handler catches has its own among them.
Await(what, about, statuses) == [awaits |-> what, about |-> about, statuses |-> statuses]

\* generateJson, streamChatResponse and runVoyageAgent never reject: when the
\* model fails, or answers in another shape, the route's own fallback goes out
\* with the same 200.
AskModel(how, about) == Await(how, about, {200})

\* The fallback of an answer sent whole is told from the model's by the header
\* X-AI-Fallback alone; the streams flag theirs in a chunk or the last event.
MayBeMadeUp(answer) == answer.awaits \in {"json", "agent"}

WithVessel(found, Then(_)) == IF found.vessel = Omitted THEN Answer(found.status, {}) ELSE Then(found.vessel)

OfVessel(q, Then(_)) == WithVessel(RequireVessel(q.user, q.vessel), Then)

OfFleetVessel(q, Then(_)) == WithVessel(ResolveFleetVessel(q.user, q.vessel), Then)

ForMembers(q, outcome) == IF RequireFleetMembership(q.user) THEN outcome ELSE Answer(403, {})

Show(v) == Answer(200, {v})

-----------------------------------------------------------------------------
(* Accounts (routes/auth.ts) *)

\* No such user, a wrong password, or no database.
Login(q) == Await("database", {}, {200, 401, 500, 503})

\* The address is looked up first.
Register(q) == Await("lookup", {}, {409, 503})

\* The token's claims stand in for an unreachable database.
Me(q) == Await("database", {}, {200, 404})

-----------------------------------------------------------------------------
(* Voyages (routes/voyage.ts) *)

OptimizeRoute(q) == OfFleetVessel(q, LAMBDA v : AskModel("json", {v}))

\* Both ports are required although the schema leaves them out.
WithPorts(q, outcome) == IF q.item = Omitted THEN Answer(400, {}) ELSE outcome

AgentPlan(q) == WithPorts(q, OfFleetVessel(q, LAMBDA v : AskModel("agent", {v})))

AgentPlanStream(q) == WithPorts(q, OfFleetVessel(q, LAMBDA v : AskModel("agent stream", {v})))

VoyageHistory(q) == OfVessel(q, Show)

CalculateSpeed(q) == OfFleetVessel(q, Show)

FuelAnalysis(q) == OfFleetVessel(q, Show)

AccessibleVoyages(user) == {y \in ToSet(Voyages) : CanAccess(user, y.vessel)}

ActiveVoyages(q) ==
    IF RequireFleetAccess(q.user, q.item)
    THEN Answer(200, {y.vessel : y \in AccessibleVoyages(q.user)})
    ELSE Answer(403, {})

\* resolveFleetVoyage: the voyage named, or any of the fleet, of which the first
\* is taken.
FleetVoyages(q) == {y \in AccessibleVoyages(q.user) : q.item = Omitted \/ y.id = q.item}

FirstVoyage(q) == FirstOf(Voyages, FleetVoyages(q))

\* The vessel and the voyage are looked up apart: the figures are of both.
PredictEta(q) ==
    OfFleetVessel(q, LAMBDA v : IF FleetVoyages(q) = {} THEN Answer(404, {})
                                ELSE AskModel("json", {v, FirstVoyage(q).vessel}))

GenerateAgentMessage(q) ==
    OfFleetVessel(q, LAMBDA v : IF FleetVoyages(q) = {} THEN Answer(404, {})
                                ELSE AskModel("json", {v, FirstVoyage(q).vessel}))

-----------------------------------------------------------------------------
(* Inspections, compliance and knowledge *)

Readiness(v) == v \in Surveyed

ReadinessScore(q) == OfVessel(q, LAMBDA v : IF Readiness(v) THEN Show(v) ELSE Answer(404, {}))

PreInspectionReport(q) == OfVessel(q, LAMBDA v : AskModel("json", {v}))

SireDocuments(q) == OfVessel(q, Show)

InspectorSimulation(q) == OfFleetVessel(q, LAMBDA v : AskModel("chat", {v}))

SireFindings(q) == OfVessel(q, Show)

CiiData(v) == v \in Surveyed

CiiRating(q) == OfVessel(q, LAMBDA v : IF CiiData(v) THEN Show(v) ELSE Answer(404, {}))

EtsPosition(q) == OfVessel(q, Show)

MrvReport(q) == OfVessel(q, Show)

ComplianceChat(q) == OfFleetVessel(q, LAMBDA v : AskModel("chat", {v}))

KnowledgeChat(q) == OfFleetVessel(q, LAMBDA v : AskModel("chat", {v}))

\* The document is answered, not kept.
UploadDocument(q) == OfVessel(q, LAMBDA v : Answer(201, {v}))

KnowledgeDocuments(q) == OfVessel(q, Show)

DefectReport(q) == OfVessel(q, LAMBDA v : AskModel("json", {v}))

Handover(q) == OfVessel(q, LAMBDA v : AskModel("json", {v}))

-----------------------------------------------------------------------------
(* Maintenance, fleet, ports and feeds *)

EquipmentOf(q) == OfVessel(q, Show)

OfEquipment(q, Then(_)) ==
    IF q.item \notin DOMAIN VesselOf THEN Answer(404, {})
    ELSE IF CanAccess(q.user, VesselOf[q.item]) THEN Then(VesselOf[q.item]) ELSE Answer(403, {})

SensorData(q) == OfEquipment(q, Show)

AnalyzeAnomaly(q) == OfEquipment(q, LAMBDA v : AskModel("json", {v}))

MaintenanceAlerts(q) == OfVessel(q, Show)

OwnVessels(q) == FleetVessels(q.user)

\* With a fleet its rows are read first and the fixtures they are seeded from
\* stand in for them.  One vessel takes two awaits (VesselRoutes).
FleetOverview(q) ==
    IF q.user.fleet = NoFleet THEN Answer(200, {}) ELSE Await("database", OwnVessels(q), {200})

\* Any of the fleet's vessels may match the search.
VesselList(q) ==
    IF q.user.fleet = NoFleet THEN Answer(200, {}) ELSE Await("database", OwnVessels(q), {200})

PortCongestion(q) == Await("database", {}, {200})

Demurrage(q) == OfVessel(q, Show)

PortById(q) == Answer(IF q.item = Omitted THEN 404 ELSE 200, {})

\* One location's failure is part of the answer.
WeatherLive(q) == Await("provider", {}, {200})

WeatherSync(q) == ForMembers(q, Await("provider", {}, {200, 502}))

WeatherLatest(q) == Await("database", {}, {200, 503})

\* The item stands for the coordinates.
AtCoordinates(q) == IF q.item = Omitted THEN Answer(400, {}) ELSE Await("database", {}, {200, 503})

AisPositions(q) == ForMembers(q, Await("database", {}, {200, 503}))

AisPositionsNear(q) == ForMembers(q, AtCoordinates(q))

\* The item stands for the file.
ImportBunker(q) == IF q.item = Omitted THEN Answer(400, {}) ELSE Await("database", {}, {200, 201, 400, 500})

BunkerTemplate(q) == Answer(200, {})

-----------------------------------------------------------------------------
(* What stands before a handler *)

PublicRoutes == {"health", "ready", "auth/login", "auth/register"}

\* aiLimiter missing from one of the routes that call the model.
AiRoutes_Handover ==
    {"voyage/optimize-route", "voyage/agent-plan", "voyage/agent-plan/stream", "voyage/predict-eta",
     "voyage/generate-agent-message", "sire/generate-pre-inspection-report", "sire/inspector-simulation",
     "compliance/chat", "knowledge/chat", "knowledge/generate-defect-report", "maintenance/analyze-anomaly"}

\* Routes behind aiLimiter.
AiRoutes ==
    {"voyage/optimize-route", "voyage/agent-plan", "voyage/agent-plan/stream", "voyage/predict-eta",
     "voyage/generate-agent-message", "sire/generate-pre-inspection-report", "sire/inspector-simulation",
     "compliance/chat", "knowledge/chat", "knowledge/generate-defect-report", "knowledge/handover",
     "maintenance/analyze-anomaly"}

\* Routes behind requireRole(['fleet_manager']).
ManagerRoutes == {"weather/sync", "imports/bunker"}

\* What the request schemas refuse: a body of the wrong shape, or one without a
\* vessel where the schema requires it.
Invalid(q) ==
    \/ ~q.ok
    \/ /\ q.vessel = Omitted
       /\ q.route \in {"compliance/generate-mrv-report", "knowledge/upload-document", "knowledge/generate-defect-report",
                        "knowledge/handover", "sire/generate-pre-inspection-report"}

Handle(q) ==
    CASE q.route = "health" -> Answer(200, {})
      [] q.route = "ready" -> Await("database", {}, {200, 503})
      [] q.route = "auth/login" -> Login(q)
      [] q.route = "auth/register" -> Register(q)
      [] q.route = "auth/me" -> Me(q)
      [] q.route = "voyage/optimize-route" -> OptimizeRoute(q)
      [] q.route = "voyage/agent-plan" -> AgentPlan(q)
      [] q.route = "voyage/agent-plan/stream" -> AgentPlanStream(q)
      [] q.route = "voyage/history" -> VoyageHistory(q)
      [] q.route = "voyage/calculate-speed" -> CalculateSpeed(q)
      [] q.route = "voyage/active" -> ActiveVoyages(q)
      [] q.route = "voyage/predict-eta" -> PredictEta(q)
      [] q.route = "voyage/generate-agent-message" -> GenerateAgentMessage(q)
      [] q.route = "voyage/fuel-analysis" -> FuelAnalysis(q)
      [] q.route = "sire/readiness-score" -> ReadinessScore(q)
      [] q.route = "sire/generate-pre-inspection-report" -> PreInspectionReport(q)
      [] q.route = "sire/documents" -> SireDocuments(q)
      [] q.route = "sire/inspector-simulation" -> InspectorSimulation(q)
      [] q.route = "sire/findings" -> SireFindings(q)
      [] q.route = "compliance/cii" -> CiiRating(q)
      [] q.route = "compliance/ets" -> EtsPosition(q)
      [] q.route = "compliance/generate-mrv-report" -> MrvReport(q)
      [] q.route = "compliance/chat" -> ComplianceChat(q)
      [] q.route = "knowledge/chat" -> KnowledgeChat(q)
      [] q.route = "knowledge/upload-document" -> UploadDocument(q)
      [] q.route = "knowledge/documents" -> KnowledgeDocuments(q)
      [] q.route = "knowledge/generate-defect-report" -> DefectReport(q)
      [] q.route = "knowledge/handover" -> Handover(q)
      [] q.route = "maintenance/equipment" -> EquipmentOf(q)
      [] q.route = "maintenance/sensor-data" -> SensorData(q)
      [] q.route = "maintenance/analyze-anomaly" -> AnalyzeAnomaly(q)
      [] q.route = "maintenance/alerts" -> MaintenanceAlerts(q)
      [] q.route = "fleet" -> FleetOverview(q)
      [] q.route = "vessels" -> VesselList(q)
      [] q.route = "ports/congestion" -> PortCongestion(q)
      [] q.route = "ports/demurrage" -> Demurrage(q)
      [] q.route = "ports/:id" -> PortById(q)
      [] q.route = "weather/live" -> WeatherLive(q)
      [] q.route = "weather/sync" -> WeatherSync(q)
      [] q.route = "weather/latest" -> WeatherLatest(q)
      [] q.route = "weather/near" -> AtCoordinates(q)
      [] q.route = "ais/positions" -> AisPositions(q)
      [] q.route = "ais/positions/near" -> AisPositionsNear(q)
      [] q.route = "imports/bunker" -> ImportBunker(q)
      [] q.route = "imports/bunker/template" -> BunkerTemplate(q)
      [] OTHER -> Answer(404, {})
===============================================================================
