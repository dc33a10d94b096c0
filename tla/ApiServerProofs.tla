--------------------------- MODULE ApiServerProofs ---------------------------
(***************************************************************************)
(* Proofs about a replica of the API, for any requests, connections, users *)
(* and limits: every route answers with the caller's own vessels only      *)
(* (OwnFleetOnly), no route reaches the model past the limit               *)
(* (ModelCallsCounted), and the drain leaves no client waiting             *)
(* (DrainIsHonest).                                                        *)
(***************************************************************************)
EXTENDS ApiServer, SequenceTheorems, WellFoundedInduction, TLAPS

(* The first of a list *)

\* A set of numbers that is not empty has a least one.
LEMMA Least == ASSUME NEW S \in SUBSET Nat, S # {} PROVE \E i \in S : \A j \in S : i <= j
<1>1. PICK i \in S : \A j \in S : ~ (<<j, i>> \in OpToRel(<, Nat))
  BY NatLessThanWellFounded, WFMin
<1>2. \A j \in S : ~ (j < i)
  BY <1>1 DEF OpToRel
<1>. QED BY <1>2

\* The first of a list that is in a set is in the set.
LEMMA FirstIsOne ==
    ASSUME NEW T, NEW list \in Seq(T), NEW S, S # {}, S \subseteq ToSet(list)
    PROVE  FirstOf(list, S) \in S
<1>. DEFINE at == {i \in DOMAIN list : list[i] \in S}
<1>1. at # {} /\ at \in SUBSET Nat
  BY DEF ToSet
<1>2. \E i \in at : \A j \in at : i <= j
  BY <1>1, Least
<1>3. \E i \in DOMAIN list : list[i] \in S /\ \A j \in DOMAIN list : list[j] \in S => i <= j
  BY <1>2
<1>. QED BY <1>3 DEF FirstOf

-----------------------------------------------------------------------------
(* The handlers *)

\* requireVessel finds own vessels only.
LEMMA RequiredIsOwn ==
    ASSUME NEW user, NEW v, RequireVessel(user, v).vessel # Omitted
    PROVE  CanAccess(user, RequireVessel(user, v).vessel)
BY DEF RequireVessel, Found, Refused

\* resolveFleetVessel finds own vessels only, the default included.
LEMMA ResolvedIsOwn ==
    ASSUME NEW user, NEW v, ResolveFleetVessel(user, v).vessel # Omitted
    PROVE  CanAccess(user, ResolveFleetVessel(user, v).vessel)
<1>. DEFINE own == FleetVessels(user)
<1>1. \A w \in own : CanAccess(user, w)
  BY DEF FleetVessels, CanAccess
<1>2. own # {} => FirstOf(Vessels, own) \in own
  BY FirstIsOne, TenancyAssumption DEF FleetVessels
<1>. HIDE DEF own
<1>3. ResolveFleetVessel(user, v) = IF v # Omitted THEN IF v \in own THEN Found(v) ELSE Refused(404)
                                    ELSE IF own # {} THEN Found(FirstOf(Vessels, own)) ELSE Refused(403)
  BY DEF ResolveFleetVessel, own
<1>. QED BY <1>1, <1>2, <1>3 DEF Found, Refused

\* So does resolveFleetVoyage.
LEMMA VoyageIsOwn ==
    ASSUME NEW q, FleetVoyages(q) # {}
    PROVE  CanAccess(q.user, FirstVoyage(q).vessel)
<1>1. FirstVoyage(q) \in FleetVoyages(q)
  BY FirstIsOne, RoutesAssumption DEF FirstVoyage, FleetVoyages, AccessibleVoyages
<1>. QED BY <1>1 DEF FleetVoyages, AccessibleVoyages

\* What a handler does before its answer, of its own caller's vessels.
OwnPlan(plan, user) ==
    /\ plan = [awaits |-> plan.awaits, about |-> plan.about, statuses |-> plan.statuses]
    /\ \A v \in plan.about : CanAccess(user, v)

\* The handlers that ask the model, all of which stand behind aiLimiter.
LEMMA AskingRoutes ==
    ASSUME NEW q
    PROVE  /\ \A plan \in {OptimizeRoute(q), AgentPlan(q), AgentPlanStream(q), InspectorSimulation(q), ComplianceChat(q),
                           KnowledgeChat(q), PredictEta(q), GenerateAgentMessage(q), PreInspectionReport(q),
                           DefectReport(q), Handover(q), AnalyzeAnomaly(q)} : OwnPlan(plan, q.user)
<1>1. /\ OwnPlan(OptimizeRoute(q), q.user) /\ OwnPlan(AgentPlan(q), q.user)
      /\ OwnPlan(AgentPlanStream(q), q.user) /\ OwnPlan(InspectorSimulation(q), q.user)
      /\ OwnPlan(ComplianceChat(q), q.user) /\ OwnPlan(KnowledgeChat(q), q.user)
  BY ResolvedIsOwn DEF OptimizeRoute, AgentPlan, AgentPlanStream, InspectorSimulation, ComplianceChat, KnowledgeChat,
     WithPorts, OfFleetVessel, WithVessel, AskModel, Await, Answer, OwnPlan
<1>2. /\ OwnPlan(PredictEta(q), q.user) /\ OwnPlan(GenerateAgentMessage(q), q.user)
  BY ResolvedIsOwn, VoyageIsOwn DEF PredictEta, GenerateAgentMessage,
     OfFleetVessel, WithVessel, AskModel, Await, Answer, OwnPlan
<1>3. /\ OwnPlan(PreInspectionReport(q), q.user) /\ OwnPlan(DefectReport(q), q.user)
      /\ OwnPlan(Handover(q), q.user)
  BY RequiredIsOwn DEF PreInspectionReport, DefectReport, Handover, OfVessel, WithVessel, AskModel, Await, Answer, OwnPlan
<1>4. OwnPlan(AnalyzeAnomaly(q), q.user)
  BY DEF AnalyzeAnomaly, OfEquipment, AskModel, Await, Answer, OwnPlan
<1>. QED BY <1>1, <1>2, <1>3, <1>4

\* The others do not.
QuietPlan(plan, user) == OwnPlan(plan, user) /\ plan.awaits \notin ModelKinds

\* The routes that ask the model nothing: what they answer with is own.
LEMMA QuietRoutes ==
    ASSUME NEW q
    PROVE  /\ \A plan \in {VoyageHistory(q), SireDocuments(q), SireFindings(q), EtsPosition(q), MrvReport(q),
                           UploadDocument(q), KnowledgeDocuments(q), EquipmentOf(q), MaintenanceAlerts(q), Demurrage(q),
                           ReadinessScore(q), CiiRating(q), CalculateSpeed(q), FuelAnalysis(q), ActiveVoyages(q),
                           SensorData(q), FleetOverview(q), VesselList(q)} : QuietPlan(plan, q.user)
           /\ \A plan \in {Login(q), Register(q), Me(q), PortCongestion(q), PortById(q), WeatherLive(q), WeatherSync(q),
                           WeatherLatest(q), AtCoordinates(q), AisPositions(q), AisPositionsNear(q), ImportBunker(q),
                           BunkerTemplate(q)} : QuietPlan(plan, q.user)
           /\ \A kind \in {"nothing", "database"} : \A statuses :
                QuietPlan([awaits |-> kind, about |-> {}, statuses |-> statuses], q.user)
<1>1. /\ QuietPlan(VoyageHistory(q), q.user) /\ QuietPlan(SireDocuments(q), q.user)
      /\ QuietPlan(SireFindings(q), q.user) /\ QuietPlan(EtsPosition(q), q.user)
      /\ QuietPlan(MrvReport(q), q.user) /\ QuietPlan(UploadDocument(q), q.user)
      /\ QuietPlan(KnowledgeDocuments(q), q.user) /\ QuietPlan(EquipmentOf(q), q.user)
      /\ QuietPlan(MaintenanceAlerts(q), q.user) /\ QuietPlan(Demurrage(q), q.user)
  BY RequiredIsOwn DEF VoyageHistory, SireDocuments, SireFindings, EtsPosition, MrvReport, UploadDocument,
     KnowledgeDocuments, EquipmentOf, MaintenanceAlerts, Demurrage, OfVessel, WithVessel, Show, Answer, OwnPlan, QuietPlan,
     ModelKinds
<1>2. /\ QuietPlan(ReadinessScore(q), q.user) /\ QuietPlan(CiiRating(q), q.user)
  BY RequiredIsOwn DEF ReadinessScore, CiiRating, OfVessel, WithVessel, Show, Answer, OwnPlan, QuietPlan, ModelKinds
<1>3. /\ QuietPlan(CalculateSpeed(q), q.user) /\ QuietPlan(FuelAnalysis(q), q.user)
  BY ResolvedIsOwn DEF CalculateSpeed, FuelAnalysis, OfFleetVessel, WithVessel, Show, Answer, OwnPlan, QuietPlan, ModelKinds
<1>4. QuietPlan(ActiveVoyages(q), q.user) /\ QuietPlan(SensorData(q), q.user)
  BY DEF ActiveVoyages, AccessibleVoyages, SensorData, OfEquipment, Show, Answer, OwnPlan, QuietPlan, ModelKinds
<1>5. \A v \in FleetVessels(q.user) : CanAccess(q.user, v)
  BY DEF FleetVessels, CanAccess
<1>6. QuietPlan(FleetOverview(q), q.user) /\ QuietPlan(VesselList(q), q.user)
  BY <1>5 DEF FleetOverview, VesselList, OwnVessels, Answer, Await, OwnPlan, QuietPlan, ModelKinds
<1>8. /\ QuietPlan(Login(q), q.user) /\ QuietPlan(Register(q), q.user) /\ QuietPlan(Me(q), q.user)
      /\ QuietPlan(PortCongestion(q), q.user) /\ QuietPlan(WeatherLive(q), q.user)
      /\ QuietPlan(WeatherLatest(q), q.user) /\ QuietPlan(BunkerTemplate(q), q.user)
  BY DEF Login, Register, Me, PortCongestion, WeatherLive, WeatherLatest, BunkerTemplate, Answer, Await, OwnPlan,
     QuietPlan, ModelKinds
<1>9. /\ QuietPlan(PortById(q), q.user) /\ QuietPlan(AtCoordinates(q), q.user) /\ QuietPlan(ImportBunker(q), q.user)
  BY DEF PortById, AtCoordinates, ImportBunker, Answer, Await, OwnPlan, QuietPlan, ModelKinds
<1>10. /\ QuietPlan(WeatherSync(q), q.user) /\ QuietPlan(AisPositions(q), q.user)
       /\ QuietPlan(AisPositionsNear(q), q.user)
  BY <1>9 DEF WeatherSync, AisPositions, AisPositionsNear, ForMembers, Answer, Await, OwnPlan, QuietPlan, ModelKinds
<1>11. \A kind \in {"nothing", "database"} : \A statuses :
         QuietPlan([awaits |-> kind, about |-> {}, statuses |-> statuses], q.user)
  BY DEF OwnPlan, QuietPlan, ModelKinds
<1>. QED BY <1>1, <1>2, <1>3, <1>4, <1>6, <1>8, <1>9, <1>10, <1>11

\* Whatever the route: the caller's own vessels, and the model only behind aiLimiter.
LEMMA Handled ==
    ASSUME NEW q
    PROVE  OwnPlan(Handle(q), q.user) /\ (Handle(q).awaits \in ModelKinds => q.route \in AiRoutes)
<1>1. CASE q.route \in AiRoutes
  <2>1. CASE q.route \in {"voyage/optimize-route", "voyage/agent-plan", "voyage/agent-plan/stream"}
    BY <1>1, <2>1, AskingRoutes DEF Handle
  <2>2. CASE q.route \in {"voyage/predict-eta", "voyage/generate-agent-message", "maintenance/analyze-anomaly"}
    BY <1>1, <2>2, AskingRoutes DEF Handle
  <2>3. CASE q.route \in {"sire/generate-pre-inspection-report", "sire/inspector-simulation", "compliance/chat"}
    BY <1>1, <2>3, AskingRoutes DEF Handle
  <2>4. CASE q.route \in {"knowledge/chat", "knowledge/generate-defect-report", "knowledge/handover"}
    BY <1>1, <2>4, AskingRoutes DEF Handle
  <2>. QED BY <1>1, <2>1, <2>2, <2>3, <2>4 DEF AiRoutes
<1>2. CASE q.route \notin AiRoutes
  <2>1. QuietPlan(Handle(q), q.user)
    BY <1>2, QuietRoutes, SMTT(30) DEF AiRoutes, Handle, Answer, Await
  <2>. QED BY <2>1 DEF QuietPlan
<1>. QED BY <1>1, <1>2

-----------------------------------------------------------------------------
(* The invariant *)

\* A request whose handler awaits will answer with its user's vessels.
OwnRequest(p) ==
    /\ p = [user |-> p.user, named |-> p.named, about |-> p.about, awaits |-> p.awaits, statuses |-> p.statuses,
            address |-> p.address]
    /\ \A v \in p.about : CanAccess(p.user, v)

Pending ==
    /\ pending = [c \in Conns |-> pending[c]]
    /\ \A c \in Conns : pending[c] # Idle => OwnRequest(pending[c])

Notes == [id : Nat, vessel : ToSet(Vessels), read : BOOLEAN]

FeedInv == feed \in Seq(Notes)

\* A request that goes to the model is one aiLimiter has counted.
Counters ==
    /\ hits \in 0..ApiMax
    /\ counted \in [Users -> 0..AiMax]
    /\ asked \in [Users -> Nat]
    /\ \A u \in Users : asked[u] <= counted[u]

Closed == (phase \in {"released", "exited"} => open = {}) /\ ~cut

IInv == Pending /\ FeedInv /\ Counters /\ Closed

-----------------------------------------------------------------------------
(* Notifications *)

\* find: the first notification with the id.
LEMMA IndexIsOne ==
    ASSUME FeedInv, NEW id, IndexOf(id) # 0
    PROVE  IndexOf(id) \in DOMAIN feed
<1>. DEFINE at == {i \in DOMAIN feed : feed[i].id = id}
<1>1. at # {} /\ at \in SUBSET Nat
  BY DEF IndexOf, FeedInv
<1>2. \E i \in at : \A j \in at : i <= j
  BY <1>1, Least
<1>3. IndexOf(id) = CHOOSE i \in at : \A j \in at : i <= j
  BY <1>1 DEF IndexOf
<1>. HIDE DEF at
<1>4. IndexOf(id) \in at
  BY <1>2, <1>3
<1>. QED BY <1>4 DEF at

\* Marking a notification leaves it about its vessel.
LEMMA Marked == ASSUME NEW n \in Notes PROVE MarkRead(n) \in Notes /\ MarkRead(n).vessel = n.vessel
BY DEF MarkRead, Notes

\* Only the one notification changes.
LEMMA ReadOne ==
    ASSUME FeedInv, NEW i \in DOMAIN feed, Visible(answer'.user, feed[i]), feed' = [feed EXCEPT ![i] = MarkRead(@)]
    PROVE  FeedInv' /\ OwnNotifications
<1>1. feed[i] \in Notes /\ MarkRead(feed[i]) \in Notes /\ MarkRead(feed[i]).vessel = feed[i].vessel
  BY Marked DEF FeedInv
<1>2. feed' \in Seq(Notes) /\ DOMAIN feed' = DOMAIN feed
  BY <1>1 DEF FeedInv
<1>3. \A j \in DOMAIN feed : feed'[j] = IF j = i THEN MarkRead(feed[i]) ELSE feed[j]
  BY DEF FeedInv
<1>4. \A n \in (ToSet(feed) \ ToSet(feed')) \cup (ToSet(feed') \ ToSet(feed)) : n \in {feed[i], MarkRead(feed[i])}
  BY <1>2, <1>3 DEF ToSet
<1>. QED BY <1>1, <1>2, <1>4 DEF FeedInv, OwnNotifications, Visible

\* read-all marks what the caller sees.
LEMMA ReadMany ==
    ASSUME FeedInv, NEW q, ReadAll(q), answer'.user = q.user
    PROVE  FeedInv' /\ OwnNotifications
<1>1. \A i \in DOMAIN feed : feed[i] \in Notes /\ MarkRead(feed[i]) \in Notes /\ MarkRead(feed[i]).vessel = feed[i].vessel
  BY Marked DEF FeedInv
<1>2. /\ DOMAIN feed' = DOMAIN feed
      /\ \A i \in DOMAIN feed : feed'[i] = IF Visible(q.user, feed[i]) THEN MarkRead(feed[i]) ELSE feed[i]
  BY DEF ReadAll
<1>3. feed' \in Seq(Notes)
  <2>1. \A i \in DOMAIN feed : (IF Visible(q.user, feed[i]) THEN MarkRead(feed[i]) ELSE feed[i]) \in Notes
    BY <1>1
  <2>. QED BY <2>1 DEF ReadAll, FeedInv
<1>4. ASSUME NEW n \in (ToSet(feed) \ ToSet(feed')) \cup (ToSet(feed') \ ToSet(feed))
      PROVE  CanAccess(q.user, n.vessel)
  <2>1. PICK i \in DOMAIN feed : n \in {feed[i], feed'[i]} /\ feed'[i] # feed[i]
    BY <1>2, <1>4 DEF ToSet
  <2>2. Visible(q.user, feed[i]) /\ feed'[i] = MarkRead(feed[i])
    BY <1>2, <2>1
  <2>. QED BY <1>1, <2>1, <2>2 DEF Visible
<1>. QED BY <1>3, <1>4 DEF FeedInv, OwnNotifications

\* A notification is made for a vessel of the caller.
LEMMA Created ==
    ASSUME FeedInv, NEW q, NEW status, CreateNotification(q, status), answer'.user = q.user
    PROVE  FeedInv' /\ OwnNotifications
<1>. DEFINE found == RequireVessel(q.user, q.vessel)
<1>1. CASE UNCHANGED feed
  BY <1>1 DEF FeedInv, OwnNotifications
<1>2. CASE feed' # feed
  <2>1. found.status = 200 /\ \E id \in Nat : feed' = <<[id |-> id, vessel |-> found.vessel, read |-> FALSE]>> \o feed
    <3>1. CASE feed = <<>>
      BY <1>2, <3>1 DEF CreateNotification
    <3>2. CASE feed # <<>>
      <4>1. feed[1] \in Notes
        BY <3>2 DEF FeedInv
      <4>2. {feed[1].id, feed[1].id + 1} \subseteq Nat
        BY <4>1 DEF Notes
      <4>3. found.status = 200
        BY <1>2 DEF CreateNotification
      <4>4. PICK id \in {feed[1].id, feed[1].id + 1} : feed' = <<[id |-> id, vessel |-> found.vessel, read |-> FALSE]>> \o feed
        BY <1>2, <3>2 DEF CreateNotification
      <4>5. id \in Nat
        BY <4>2
      <4>. HIDE DEF found
      <4>. QED BY <4>3, <4>4, <4>5
    <3>. QED BY <3>1, <3>2
  <2>2. CanAccess(q.user, found.vessel) /\ found.vessel \in ToSet(Vessels)
    BY <2>1 DEF RequireVessel, Found, Refused, CanAccess
  <2>. HIDE DEF found
  <2>3. PICK id \in Nat : feed' = <<[id |-> id, vessel |-> found.vessel, read |-> FALSE]>> \o feed
    BY <2>1
  <2>. DEFINE n == [id |-> id, vessel |-> found.vessel, read |-> FALSE]
  <2>4. n \in Notes /\ n.vessel = found.vessel
    BY <2>2 DEF Notes
  <2>. HIDE DEF n
  <2>5. <<n>> \in Seq(Notes) /\ Len(<<n>>) = 1 /\ <<n>>[1] = n
    BY <2>4
  <2>6. /\ feed' \in Seq(Notes) /\ Len(feed') = 1 + Len(feed)
        /\ \A i \in 1..1 + Len(feed) : feed'[i] = IF i <= 1 THEN <<n>>[i] ELSE feed[i - 1]
    BY <2>3, <2>5, ConcatProperties DEF FeedInv, n
  <2>7. DOMAIN feed' = 1..1 + Len(feed) /\ DOMAIN feed = 1..Len(feed) /\ Len(feed) \in Nat
    BY <2>6 DEF FeedInv
  <2>8. ToSet(feed') = ToSet(feed) \cup {n}
    <3>1. \A i \in DOMAIN feed' : feed'[i] \in ToSet(feed) \cup {n}
      BY <2>5, <2>6, <2>7 DEF ToSet
    <3>2. \A i \in DOMAIN feed : i + 1 \in DOMAIN feed' /\ feed'[i + 1] = feed[i]
      BY <2>6, <2>7
    <3>3. 1 \in DOMAIN feed' /\ feed'[1] = n
      BY <2>5, <2>6, <2>7
    <3>. QED BY <3>1, <3>2, <3>3 DEF ToSet
  <2>. QED BY <2>2, <2>4, <2>6, <2>8 DEF FeedInv, OwnNotifications
<1>. QED BY <1>1, <1>2

\* One notification the caller sees is taken out.
LEMMA RemovedOne ==
    ASSUME FeedInv, NEW i \in DOMAIN feed, Visible(answer'.user, feed[i]), feed' = RemoveAt(feed, i)
    PROVE  FeedInv' /\ OwnNotifications
<1>. DEFINE front == SubSeq(feed, 1, i - 1)
            back == SubSeq(feed, i + 1, Len(feed))
<1>1. /\ Len(feed) \in Nat /\ DOMAIN feed = 1..Len(feed) /\ i \in 1..Len(feed)
      /\ \A j \in 1..Len(feed) : feed[j] \in Notes
  BY DEF FeedInv
<1>2. /\ front \in Seq(Notes) /\ Len(front) = i - 1
      /\ \A j \in 1..i - 1 : front[j] = feed[j]
  <2>1. \A j \in 1..i - 1 : feed[j] \in Notes
    BY <1>1
  <2>2. /\ front \in Seq(Notes) /\ Len(front) = IF 1 <= i - 1 THEN i - 1 - 1 + 1 ELSE 0
        /\ \A j \in 1..i - 1 - 1 + 1 : front[j] = feed[1 + j - 1]
    BY <1>1, <2>1, SubSeqProperties
  <2>. QED BY <1>1, <2>2
<1>3. /\ back \in Seq(Notes) /\ Len(back) = Len(feed) - i
      /\ \A j \in 1..Len(feed) - i : back[j] = feed[i + j]
  <2>1. \A j \in i + 1..Len(feed) : feed[j] \in Notes
    BY <1>1
  <2>2. /\ back \in Seq(Notes) /\ Len(back) = IF i + 1 <= Len(feed) THEN Len(feed) - (i + 1) + 1 ELSE 0
        /\ \A j \in 1..Len(feed) - (i + 1) + 1 : back[j] = feed[i + 1 + j - 1]
    BY <1>1, <2>1, SubSeqProperties
  <2>. QED BY <1>1, <2>2
<1>4. feed' = front \o back
  BY <1>1 DEF RemoveAt
<1>. HIDE DEF front, back
<1>5. /\ feed' \in Seq(Notes) /\ Len(feed') = Len(feed) - 1
      /\ \A j \in 1..Len(feed) - 1 : feed'[j] = IF j < i THEN feed[j] ELSE feed[j + 1]
  <2>1. /\ front \o back \in Seq(Notes) /\ Len(front \o back) = Len(front) + Len(back)
        /\ \A j \in 1..Len(front) + Len(back) :
             (front \o back)[j] = IF j <= Len(front) THEN front[j] ELSE back[j - Len(front)]
    BY <1>2, <1>3, ConcatProperties
  <2>2. Len(front) + Len(back) = Len(feed) - 1
    BY <1>1, <1>2, <1>3
  <2>3. ASSUME NEW j \in 1..Len(feed) - 1 PROVE (front \o back)[j] = IF j < i THEN feed[j] ELSE feed[j + 1]
    <3>1. CASE j < i
      <4>1. j \in 1..i - 1 /\ j <= Len(front) /\ j \in 1..Len(front) + Len(back)
        BY <1>1, <1>2, <2>2, <3>1
      <4>. QED BY <1>2, <2>1, <3>1, <4>1
    <3>2. CASE ~(j < i)
      <4>1. /\ ~(j <= Len(front)) /\ j \in 1..Len(front) + Len(back)
            /\ j - Len(front) \in 1..Len(feed) - i /\ i + (j - Len(front)) = j + 1
        BY <1>1, <1>2, <2>2, <3>2
      <4>. QED BY <1>3, <2>1, <3>2, <4>1
    <3>. QED BY <3>1, <3>2
  <2>. QED BY <1>4, <2>1, <2>2, <2>3
<1>6. DOMAIN feed' = 1..Len(feed) - 1
  BY <1>5
<1>7. \A j \in DOMAIN feed' : feed'[j] \in ToSet(feed)
  BY <1>1, <1>5, <1>6 DEF ToSet
<1>8. ASSUME NEW j \in DOMAIN feed, j # i PROVE feed[j] \in ToSet(feed')
  <2>1. CASE j < i
    <3>1. j \in DOMAIN feed' /\ feed'[j] = feed[j]
      BY <1>1, <1>5, <1>6, <2>1
    <3>. QED BY <3>1 DEF ToSet
  <2>2. CASE j > i
    <3>1. j - 1 \in DOMAIN feed' /\ feed'[j - 1] = feed[j]
      BY <1>1, <1>5, <1>6, <2>2
    <3>. QED BY <3>1 DEF ToSet
  <2>3. j < i \/ j > i
    BY <1>1, <1>8
  <2>. QED BY <2>1, <2>2, <2>3
<1>9. \A n \in (ToSet(feed) \ ToSet(feed')) \cup (ToSet(feed') \ ToSet(feed)) : n = feed[i]
  BY <1>7, <1>8 DEF ToSet
<1>. QED BY <1>5, <1>9 DEF FeedInv, OwnNotifications, Visible

\* Whichever operation: only an owning caller's request changes the list.
LEMMA FeedHandled ==
    ASSUME FeedInv, NEW q, NEW status, q.route \in FeedRoutes, FeedHandler(q, status), answer'.user = q.user
    PROVE  FeedInv' /\ OwnNotifications
<1>1. CASE UNCHANGED feed
  BY <1>1 DEF FeedInv, OwnNotifications
<1>. DEFINE i == IndexOf(q.item)
<1>2. CASE q.route = "notifications/read" /\ feed' # feed
  <2>1. i # 0 /\ Visible(q.user, feed[i]) /\ feed' = [feed EXCEPT ![i] = MarkRead(@)]
    BY <1>2 DEF FeedHandler, OnNotification
  <2>. QED BY <2>1, IndexIsOne, ReadOne
<1>3. CASE q.route = "notifications/delete" /\ feed' # feed
  <2>1. i # 0 /\ Visible(q.user, feed[i]) /\ feed' = RemoveAt(feed, i)
    BY <1>3 DEF FeedHandler, OnNotification
  <2>. QED BY <2>1, IndexIsOne, RemovedOne
<1>4. CASE q.route = "notifications/read-all"
  BY <1>4, ReadMany DEF FeedHandler
<1>5. CASE q.route = "notifications/create"
  BY <1>5, Created DEF FeedHandler
<1>6. CASE q.route = "notifications"
  BY <1>1, <1>6 DEF FeedHandler
<1>. QED BY <1>1, <1>2, <1>3, <1>4, <1>5, <1>6 DEF FeedRoutes

-----------------------------------------------------------------------------
(* The steps *)

Own == OwnAnswer /\ OwnNotifications

\* An answer goes out to the request it is of, with own figures.
LEMMA Replied ==
    ASSUME NEW user, NEW named, NEW about, NEW status, \A v \in about : CanAccess(user, v),
           Reply(user, named, about, status)
    PROVE  OwnAnswer /\ answer'.user = user
BY DEF Reply, OwnAnswer

\* What goes to the model has passed aiLimiter, which has counted it.
LEMMA Counts ==
    ASSUME Counters, NEW q, Count(q),
           \/ UNCHANGED asked
           \/ Refusal(q) = 0 /\ q.route \in AiRoutes /\ asked' = [asked EXCEPT ![q.user] = @ + 1]
    PROVE  Counters'
<1>1. AiMax \in Nat /\ ApiMax \in Nat
  BY ServerAssumption
<1>. DEFINE limited == q.route \notin Probes
            counts(u) == /\ limited /\ hits < ApiMax /\ u = q.user /\ u \notin expired /\ q.route \in AiRoutes
<1>2. hits' = Counted(hits, ApiMax, limited) /\ counted' = [u \in Users |-> Counted(counted[u], AiMax, counts(u))]
  BY DEF Count
<1>3. hits' \in 0..ApiMax
  BY <1>1, <1>2 DEF Counted, Counters
<1>4. ASSUME NEW u \in Users
      PROVE  /\ counted'[u] \in 0..AiMax /\ counted'[u] >= counted[u]
             /\ counts(u) /\ counted[u] # AiMax => counted'[u] = counted[u] + 1
  <2>1. counted[u] \in 0..AiMax /\ counted'[u] = Counted(counted[u], AiMax, counts(u))
    BY <1>2 DEF Counters
  <2>. HIDE DEF counts
  <2>. QED BY <1>1, <2>1 DEF Counted
<1>5. counted' \in [Users -> 0..AiMax]
  <2>. HIDE DEF counts
  <2>. QED BY <1>2, <1>4
<1>. HIDE DEF limited, counts
<1>6. CASE Refusal(q) = 0 /\ q.route \in AiRoutes /\ asked' = [asked EXCEPT ![q.user] = @ + 1]
  <2>1. limited /\ q.route \notin PublicRoutes
    BY <1>6 DEF AiRoutes, Probes, PublicRoutes, limited
  <2>2. /\ hits # ApiMax
        /\ ~Unauthenticated(q)
        /\ counted[q.user] # AiMax
    BY <1>6, <2>1 DEF Refusal, limited
  <2>3. hits < ApiMax /\ q.user \notin expired
    BY <1>1, <2>1, <2>2 DEF Unauthenticated, Counters
  <2>4. \A u \in Users : asked'[u] = IF u = q.user THEN asked[u] + 1 ELSE asked[u]
    BY <1>6 DEF Counters
  <2>5. \A u \in Users : u = q.user => counted'[u] = counted[u] + 1
    BY <1>4, <1>6, <2>1, <2>2, <2>3 DEF counts
  <2>6. asked' \in [Users -> Nat]
    <3>1. asked' = [u \in Users |-> asked'[u]]
      BY <1>6 DEF Counters
    <3>2. \A u \in Users : asked'[u] \in Nat
      BY <2>4 DEF Counters
    <3>. QED BY <3>1, <3>2
  <2>7. \A u \in Users : asked'[u] <= counted'[u]
    <3>1. ASSUME NEW u \in Users PROVE asked'[u] <= counted'[u]
      <4>1. /\ asked[u] \in Nat /\ counted[u] \in Nat /\ counted'[u] \in Nat
            /\ asked[u] <= counted[u] /\ counted[u] <= counted'[u]
        BY <1>1, <1>4 DEF Counters
      <4>2. CASE u = q.user
        BY <2>4, <2>5, <4>1, <4>2
      <4>3. CASE u # q.user
        BY <2>4, <4>1, <4>3
      <4>. QED BY <4>2, <4>3
    <3>. QED BY <3>1
  <2>. QED BY <1>3, <1>5, <2>6, <2>7 DEF Counters
<1>7. CASE UNCHANGED asked
  <2>1. ASSUME NEW u \in Users PROVE asked'[u] <= counted'[u]
    <3>1. /\ asked[u] \in Nat /\ counted[u] \in Nat /\ counted'[u] \in Nat
          /\ asked[u] <= counted[u] /\ counted[u] <= counted'[u]
      BY <1>1, <1>4 DEF Counters
    <3>. QED BY <1>7, <3>1
  <2>. QED BY <1>3, <1>5, <1>7, <2>1 DEF Counters
<1>. QED BY <1>6, <1>7

\* A request arrives: it is refused, answered at once, or awaits.
LEMMA ReceiveStep ==
    ASSUME IInv, NEW c \in Conns, NEW q, Receive(c, q)
    PROVE  IInv' /\ Own
<1>. DEFINE plan == Handle(q)
            goes == Refusal(q) = 0 /\ q.route \notin FeedRoutes /\ plan.awaits # "nothing"
<1>1. OwnPlan(plan, q.user) /\ (plan.awaits \in ModelKinds => q.route \in AiRoutes)
  BY Handled
<1>2. /\ Count(q)
      /\ pending' = (IF goes THEN [pending EXCEPT ![c] = Waiting(q, plan)] ELSE pending)
      /\ asked' = IF goes /\ plan.awaits \in ModelKinds THEN [asked EXCEPT ![q.user] = @ + 1] ELSE asked
      /\ \/ Reply(q.user, q.vessel, {}, Refusal(q)) /\ UNCHANGED feed
         \/ /\ q.route \in FeedRoutes
            /\ \E status \in {200, 201, 403, 404} : FeedHandler(q, status) /\ Reply(q.user, q.vessel, Shown(q), status)
         \/ /\ \E status \in plan.statuses : Reply(q.user, q.vessel, plan.about, status)
            /\ UNCHANGED feed
         \/ UNCHANGED <<answer, feed>>
      /\ UNCHANGED <<open, phase, cut>>
  BY DEF Receive
<1>. HIDE DEF plan
<1>3. Pending'
  <2>1. OwnRequest(Waiting(q, plan))
    BY <1>1 DEF OwnRequest, OwnPlan, Waiting
  <2>. HIDE DEF goes
  <2>. QED BY <1>2, <2>1 DEF IInv, Pending
<1>4. Counters'
  BY <1>1, <1>2, Counts DEF IInv
<1>5. Closed'
  BY <1>2 DEF IInv, Closed
<1>6. FeedInv' /\ Own
  <2>1. CASE UNCHANGED <<answer, feed>>
    BY <2>1 DEF IInv, FeedInv, Own, OwnAnswer, OwnNotifications
  <2>2. CASE Reply(q.user, q.vessel, {}, Refusal(q)) /\ UNCHANGED feed
    <3>1. OwnAnswer
      BY <2>2, Replied
    <3>. QED BY <2>2, <3>1 DEF IInv, FeedInv, Own, OwnNotifications
  <2>3. CASE (\E status \in plan.statuses : Reply(q.user, q.vessel, plan.about, status)) /\ UNCHANGED feed
    <3>1. PICK status \in plan.statuses : Reply(q.user, q.vessel, plan.about, status)
      BY <2>3
    <3>2. OwnAnswer
      BY <1>1, <3>1, Replied DEF OwnPlan
    <3>. QED BY <2>3, <3>2 DEF IInv, FeedInv, Own, OwnNotifications
  <2>4. CASE /\ q.route \in FeedRoutes
             /\ \E status \in {200, 201, 403, 404} : FeedHandler(q, status) /\ Reply(q.user, q.vessel, Shown(q), status)
    <3>1. PICK status \in {200, 201, 403, 404} : FeedHandler(q, status) /\ Reply(q.user, q.vessel, Shown(q), status)
      BY <2>4
    <3>2. \A v \in Shown(q) : CanAccess(q.user, v)
      BY DEF Shown, Visible
    <3>3. OwnAnswer /\ answer'.user = q.user
      BY <3>1, <3>2, Replied
    <3>4. FeedInv' /\ OwnNotifications
      BY <2>4, <3>1, <3>3, FeedHandled DEF IInv
    <3>. QED BY <3>3, <3>4 DEF Own
  <2>. QED BY <1>2, <2>1, <2>2, <2>3, <2>4
<1>. QED BY <1>3, <1>4, <1>5, <1>6 DEF IInv

\* Whatever an awaited call answers: the answer was fixed when the request came.
LEMMA FinishStep ==
    ASSUME IInv, NEW c \in Conns, NEW status, pending[c] # Idle, Finish(c, status),
           UNCHANGED <<open, hits, counted, asked, feed, phase, cut>>
    PROVE  IInv' /\ Own
<1>1. OwnRequest(pending[c])
  BY DEF IInv, Pending
<1>2. OwnAnswer
  <2>1. CASE c \in open
    BY <1>1, <2>1, Replied DEF Finish, OwnRequest
  <2>2. CASE c \notin open
    BY <2>2 DEF Finish, OwnAnswer
  <2>. QED BY <2>1, <2>2
<1>3. Pending'
  BY DEF IInv, Pending, Finish
<1>. QED BY <1>2, <1>3 DEF IInv, FeedInv, Counters, Closed, Own, OwnNotifications

\* What a handler awaited is there.
LEMMA AnswerStep ==
    ASSUME IInv, NEW c \in Conns, Step(c)
    PROVE  IInv' /\ Own
<1>1. CASE Returns(c)
  BY <1>1, FinishStep DEF Returns, others
<1>2. CASE LookUpAddress(c)
  <2>1. CASE Finish(c, 503) \/ Finish(c, 409)
    BY <1>2, <2>1, FinishStep DEF LookUpAddress, others
  <2>2. CASE pending' = [pending EXCEPT ![c].awaits = "create"] /\ UNCHANGED answer
    <3>1. OwnRequest(pending[c])
      BY <1>2 DEF LookUpAddress, IInv, Pending
    <3>2. OwnRequest([pending[c] EXCEPT !.awaits = "create"])
      BY <3>1 DEF OwnRequest
    <3>3. Pending'
      BY <2>2, <3>2 DEF IInv, Pending
    <3>. QED BY <1>2, <2>2, <3>3 DEF LookUpAddress, others, IInv, FeedInv, Counters, Closed, Own, OwnAnswer, OwnNotifications
  <2>. QED BY <1>2, <2>1, <2>2 DEF LookUpAddress
<1>3. CASE CreateAccount(c)
  BY <1>3, FinishStep DEF CreateAccount, others
<1>. QED BY <1>1, <1>2, <1>3 DEF Step

\* Connections, sockets, windows and the drain answer nothing.
Elsewhere ==
    \/ \E c \in Conns : Connect(c) \/ Disconnect(c)
    \/ \E u \in load.clients : Handshake(u) \/ TokenExpires(u) \/ ExpiryTimer(u)
    \/ \E u \in load.clients, f \in {w.fleet : w \in Users} : Subscribe(u, f)
    \/ WindowEnds \/ Terminate \/ Drain
    \/ UNCHANGED vars

\* Steps of connections, sockets, windows and the drain.
LEMMA ElsewhereStep ==
    ASSUME IInv, Elsewhere
    PROVE  IInv' /\ Own
<1>1. UNCHANGED <<answer, feed>>
  BY DEF Elsewhere, Connect, Disconnect, Handshake, TokenExpires, ExpiryTimer, Subscribe, WindowEnds, Terminate,
         Drain, Release, Exit, ForceExit, Gone, vars
<1>2. pending' = pending \/ pending' = [c \in Conns |-> Idle]
  BY DEF Elsewhere, Connect, Disconnect, Handshake, TokenExpires, ExpiryTimer, Subscribe, WindowEnds, Terminate,
         Drain, Release, Exit, ForceExit, Gone, vars
<1>3. \/ UNCHANGED limits
      \/ hits' = 0 /\ counted' = [u \in Users |-> 0] /\ asked' = [u \in Users |-> 0]
  BY DEF Elsewhere, Connect, Disconnect, Handshake, TokenExpires, ExpiryTimer, Subscribe, WindowEnds, Terminate,
         Drain, Release, Exit, ForceExit, Gone, vars, limits
<1>4. Closed'
  <2>1. CASE UNCHANGED <<open, phase, cut>>
    BY <2>1 DEF IInv, Closed
  <2>2. CASE (\E c \in Conns : Connect(c) \/ Disconnect(c)) \/ Terminate
    BY <2>2 DEF Connect, Disconnect, Terminate, IInv, Closed
  <2>3. CASE Drain
    <3>1. CASE Release \/ ForceExit
      BY <3>1 DEF Release, ForceExit, Gone, IInv, Closed
    <3>2. CASE Exit
      <4>1. open = {}
        BY <3>2 DEF Exit, IInv, Closed
      <4>. QED BY <3>2, <4>1 DEF Exit, Gone, Closed
    <3>. QED BY <2>3, <3>1, <3>2 DEF Drain
  <2>. QED BY <2>1, <2>2, <2>3 DEF Elsewhere, Handshake, TokenExpires, ExpiryTimer, Subscribe, WindowEnds, vars
<1>5. Counters'
  BY <1>3, ServerAssumption DEF IInv, Counters, limits
<1>6. Pending'
  BY <1>2 DEF IInv, Pending
<1>. QED BY <1>1, <1>4, <1>5, <1>6 DEF IInv, FeedInv, Own, OwnAnswer, OwnNotifications

\* Initially nothing is under way.
LEMMA InitIInv == ASSUME Init PROVE IInv
BY ServerAssumption DEF Init, IInv, Pending, FeedInv, Counters, Closed

\* Every step keeps the invariant and answers with own figures.
LEMMA NextIInv == ASSUME IInv, [Next]_vars PROVE IInv' /\ Own
<1>1. CASE \E c \in Conns, q \in load.requests : Receive(c, q)
  BY <1>1, ReceiveStep
<1>2. CASE \E c \in Conns : Step(c)
  BY <1>2, AnswerStep
<1>3. CASE Elsewhere
  BY <1>3, ElsewhereStep
<1>. QED BY <1>1, <1>2, <1>3 DEF Next, Elsewhere

-----------------------------------------------------------------------------
(* The theorems *)

\* The invariant, whatever is asked on whichever connections, however long the
\* calls take, and at whatever moment the replica is told to stop.
THEOREM Inductive == Spec => []IInv
<1>1. Init => IInv
  BY InitIInv
<1>2. IInv /\ [Next]_vars => IInv'
  BY NextIInv
<1>. QED BY <1>1, <1>2, PTL DEF Spec

\* Over all routes: an answer discloses figures of the caller's vessels only, and
\* the notifications of a vessel change only for a caller who owns it.
THEOREM OwnFigures == Spec => OwnFleetOnly
<1>1. IInv /\ [Next]_vars => [OwnAnswer /\ OwnNotifications]_vars
  BY NextIInv DEF Own
<1>. QED BY <1>1, Inductive, PTL DEF Spec, OwnFleetOnly

\* No user reaches the model more often in a window than aiLimiter allows,
\* whichever of the twelve routes the requests go to.
THEOREM CountedCalls == Spec => []ModelCallsCounted
<1>1. IInv => ModelCallsCounted
  BY ServerAssumption DEF IInv, Counters, ModelCallsCounted
<1>. QED BY <1>1, Inductive, PTL

\* While the pool is released no client waits, and an exit with code 0 has left
\* none without an answer.
THEOREM HonestDrain == Spec => []DrainIsHonest
<1>1. IInv => DrainIsHonest
  BY DEF IInv, Closed, DrainIsHonest
<1>. QED BY <1>1, Inductive, PTL
=============================================================================
