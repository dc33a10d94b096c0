----------------------------- MODULE MCApiServer -----------------------------
(* Two vessels of one fleet and one of another; a user of each fleet and one *)
(* without; every route, grouped into workloads that keep a run small.       *)
EXTENDS ApiServer, TLC

CONSTANTS v1, v2, v3, f1, f2, e1, e3, y1, y3, m1, c1, c2

MCVessels == <<v1, v2, v3>>
MCFleetOf == v1 :> f1 @@ v2 :> f1 @@ v3 :> f2
MCVoyages == <<[id |-> y1, vessel |-> v1], [id |-> y3, vessel |-> v3]>>
MCVesselOf == e1 :> v1 @@ e3 :> v3

User(id, role, fleet) == [id |-> id, role |-> role, fleet |-> fleet]
Manager == User("u1", "fleet_manager", f1)
Viewer == User("u2", "viewer", f2)
Loner == User("u3", "fleet_manager", NoFleet)
MCUsers == {Manager, Viewer, Loner}
MCNobody == User("", "", NoFleet)

MCRequests(routes, users, vessels, items, bodies) ==
    [route : routes, user : users, vessel : vessels, item : items, ok : bodies]

Named == {v1, v2, v3, "unknown"}
Good == {TRUE}

Load(requests, clients) == [requests |-> requests, clients |-> clients]

Planning == MCRequests({"voyage/agent-plan", "voyage/agent-plan/stream"}, {Manager, Viewer}, {v2, Omitted}, {y1, Omitted}, Good)
Voyaging == MCRequests({"voyage/predict-eta", "voyage/generate-agent-message"}, {Manager, Viewer}, {v2, v3, Omitted}, {y1, Omitted}, Good)
Asking == MCRequests({"voyage/optimize-route", "sire/inspector-simulation", "compliance/chat", "knowledge/chat"},
                     {Manager, Loner}, {v2, v3, Omitted}, {Omitted}, Good)
Reporting == MCRequests({"sire/generate-pre-inspection-report", "knowledge/generate-defect-report", "knowledge/handover"},
                        {Manager, Loner}, {v1, v3}, {Omitted}, BOOLEAN)
Reading == MCRequests({"voyage/history", "voyage/calculate-speed", "voyage/fuel-analysis", "sire/readiness-score",
                       "sire/documents", "sire/findings", "compliance/cii", "compliance/ets", "compliance/generate-mrv-report",
                       "knowledge/upload-document", "knowledge/documents", "maintenance/equipment", "maintenance/alerts",
                       "ports/demurrage"}, {Manager, Loner}, Named, {Omitted}, Good)
Catalogue == MCRequests({"voyage/active", "maintenance/sensor-data", "maintenance/analyze-anomaly", "ports/:id"},
                        {Viewer, MCNobody}, {Omitted}, {f1, f2, e1, e3, Omitted}, Good)
Feeds == MCRequests({"fleet", "vessels", "ports/congestion", "weather/live", "weather/sync", "weather/latest", "weather/near",
                     "ais/positions", "ais/positions/near", "imports/bunker", "imports/bunker/template", "health", "ready"},
                    {Viewer, Loner}, {Omitted}, {y1, Omitted}, Good)
Signing == MCRequests({"auth/login", "auth/register", "auth/me"}, {MCNobody, Loner}, {Omitted}, {m1}, BOOLEAN)
Notifying == MCRequests({"notifications/create"}, {Manager, Viewer}, {v1, v3, Omitted}, {Omitted}, Good)
             \cup MCRequests({"notifications", "notifications/read-all"}, {Manager, Viewer}, {Omitted}, {Omitted}, Good)
             \cup MCRequests({"notifications/read", "notifications/delete"}, {Manager, Viewer}, {Omitted}, {1, 2}, Good)
Watching == MCRequests({"auth/me", "nowhere"}, {Manager}, {Omitted}, {Omitted}, Good)

MCWorkloads == {Load(r, {}) : r \in {Planning, Voyaging, Asking, Reporting, Reading, Catalogue, Feeds, Signing, Notifying}}
               \cup {Load(Watching, {Manager, Viewer, Loner})}
==============================================================================
