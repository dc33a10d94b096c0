-------------------------- MODULE VesselRoutesProofs --------------------------
(* Theorems about VesselRoutes, for any sets of requests, replicas, fleets,  *)
(* vessels and bodies.                                                       *)
EXTENDS VesselRoutes, TLAPS

Writing == {"create", "created", "lookup", "update", "updated", "audit"}
Running == Writing \cup Reading
Owning == {"created", "update", "updated", "audit", "equipment"}

\* What a handler's position says of its request and of its own ids.
Control ==
    \A r \in Requests :
        /\ req[r].pc \in Writing => req[r].body \in Bodies
        /\ req[r].pc \in Running => req[r].fleet \in Fleets
        /\ req[r].pc \in {"create", "created"} => req[r].target = <<"db", r>> /\ req[r].body \in CreateBodies
        /\ req[r].pc # "done" => req[r].reply = "none"
        /\ req[r].pc \in {"new", "create"} => db[<<"db", r>>] = Absent

\* A handler that is past its lookup, or its insert, has its vessel's row.
TargetExists ==
    \A r \in Requests : req[r].pc \in {"created", "update", "updated", "audit"} => db[req[r].target] # Absent

\* The fleets a handler's vessel has had include the one it has, and, past the
\* lookup, the caller's.
OwnersRecorded ==
    \A r \in Requests :
        /\ req[r].pc \in Running /\ db[req[r].target] # Absent => db[req[r].target].fleet \in req[r].owners
        /\ req[r].pc \in Owning => req[r].fleet \in req[r].owners

\* A confirmed write is past the fallback.
Confirmed ==
    \A r \in acked : req[r].pc \in {"audit", "done", "dead"} /\ req[r].reply \in {"none", "201 db", "200 db"}

\* A generated fixture is the answer of the request it is named after.
FixturesAnswered ==
    \A r \in Requests, p \in Replicas :
        fixtures[p][<<"mem", r>>] # Absent => req[r].pc = "done" /\ req[r].reply = "201 mem"

IInv ==
    /\ TypeOK
    /\ Control
    /\ TargetExists
    /\ OwnersRecorded
    /\ AuditIsDurable
    /\ Confirmed
    /\ FixturesAnswered

-----------------------------------------------------------------------------
(* Rows, and the requests told of a vessel's new fleet. *)

\* A body makes a row.
LEMMA NewIsRow ==
    ASSUME NEW b \in CreateBodies, NEW f \in Fleets
    PROVE  New(b, f) \in Rows
BY VesselAssumption DEF CreateBodies, New, Rows

\* A patched row is a row of the same fleet.
LEMMA PatchedIsRow ==
    ASSUME NEW row \in Rows, NEW b \in Bodies
    PROVE  Patched(row, b) \in Rows /\ Patched(row, b).fleet = row.fleet
BY VesselAssumption DEF Patched, Or, Rows

\* Putting a row into a store leaves a store.
LEMMA PutIsStores ==
    ASSUME NEW F \in [Replicas -> Stores], NEW p \in Replicas, NEW id \in Ids, NEW row \in Rows
    PROVE  [F EXCEPT ![p][id] = row] \in [Replicas -> Stores]
<1>1. [F[p] EXCEPT ![id] = row] \in Stores
  BY DEF Stores
<1>. QED BY <1>1

\* The seed is a store without generated rows.
LEMMA SeedIsStore == Seed \in Stores /\ \A r \in Requests : Seed[<<"mem", r>>] = Absent /\ Seed[<<"db", r>>] = Absent
BY VesselAssumption DEF Seed, Stores, Ids

\* Owned changes nothing of a request but the fleets of its vessel.
Told(q, id, f, told) ==
    /\ told \in [pc : {req[q].pc}, on : {req[q].on}, fleet : {req[q].fleet}, target : {req[q].target},
                 body : {req[q].body}, owners : SUBSET Fleets, reply : {req[q].reply}]
    /\ req[q].owners \subseteq told.owners
    /\ req[q].target = id /\ req[q].pc \in Running => f \in told.owners

\* What recording a fleet leaves of the requests.
LEMMA OwnedFacts ==
    ASSUME TypeOK, NEW id, NEW f \in Fleets
    PROVE  \A q \in Requests : Told(q, id, f, Owned(id, f)[q])
BY DEF Owned, Told, TypeOK, Running, Writing, Reading, Pcs

-----------------------------------------------------------------------------
(* The inductive invariant *)

\* Initially no request has run.
LEMMA InitIInv == Init => IInv
<1>. SUFFICES ASSUME Init PROVE IInv
  OBVIOUS
<1>1. (CHOOSE p \in Replicas : TRUE) \in Replicas /\ (CHOOSE v \in Seeded : TRUE) \in Ids
  BY VesselAssumption DEF Ids
<1>2. \A r \in Requests : req[r] \in [pc : {"new"}, on : {CHOOSE p \in Replicas : TRUE}, fleet : {NoFleet},
                             target : {CHOOSE v \in Seeded : TRUE}, body : {Keep},
                             owners : {{}}, reply : {"none"}]
  BY DEF Init
<1>3. TypeOK
  BY <1>1, <1>2, SeedIsStore DEF Init, TypeOK, Pcs, Replies
<1>4. Control /\ TargetExists /\ OwnersRecorded
  BY <1>2, SeedIsStore DEF Init, Control, TargetExists, OwnersRecorded, Owning, Running, Writing, Reading
<1>5. AuditIsDurable /\ Confirmed /\ FixturesAnswered
  BY SeedIsStore DEF Init, AuditIsDurable, Confirmed, FixturesAnswered
<1>. QED BY <1>3, <1>4, <1>5 DEF IInv

\* A request arrives at a replica.
LEMMA ArriveIInv ==
    ASSUME IInv, NEW r \in Requests, NEW p \in Replicas, NEW f \in Fleets \cup {NoFleet}, Arrive(r, p, f)
    PROVE  IInv'
<1>1. PICK id \in Ids, b \in Bodies \cup {Keep}, pc \in {"done", "create", "lookup", "find"}, reply \in Replies :
         /\ req[r].pc = "new"
         /\ Begin(r, p, f, id, b, pc, reply)
         /\ pc \in {"create", "lookup"} => b \in Bodies
         /\ pc # "done" => reply = "none" /\ f \in Fleets
         /\ pc = "create" => id = <<"db", r>> /\ b \in CreateBodies
         /\ UNCHANGED <<db, fixtures, audit, acked>>
  <2>1. CASE \E b \in CreateBodies : PostVessel(r, p, f, b)
    BY <2>1 DEF PostVessel, Replies, CreateBodies, Ids
  <2>2. CASE \E id \in Ids, b \in Bodies : PatchVessel(r, p, f, id, b)
    BY <2>2 DEF PatchVessel, ForVessel, Replies
  <2>3. CASE \E id \in Ids : GetVessel(r, p, f, id)
    BY <2>3 DEF GetVessel, ForVessel, Replies
  <2>. QED BY <2>1, <2>2, <2>3 DEF Arrive
<1>2. /\ req' = [req EXCEPT ![r] = req'[r]]
      /\ req'[r] \in [pc : {pc}, on : {p}, fleet : {f}, target : {id}, body : {b}, reply : {reply},
                      owners : {IF db[id] = Absent THEN {} ELSE {db[id].fleet}}]
  BY <1>1 DEF Begin, IInv, TypeOK
<1>3. (IF db[id] = Absent THEN {} ELSE {db[id].fleet}) \in SUBSET Fleets
  BY DEF IInv, TypeOK, Stores, Rows
<1>4. TypeOK'
  BY <1>1, <1>2, <1>3 DEF IInv, TypeOK, Pcs
<1>5. Control'
  BY <1>1, <1>2 DEF IInv, TypeOK, Control, Running, Writing, Reading
<1>6. TargetExists' /\ OwnersRecorded'
  BY <1>1, <1>2 DEF IInv, TypeOK, TargetExists, OwnersRecorded, Owning, Running, Writing, Reading
<1>7. AuditIsDurable' /\ Confirmed' /\ FixturesAnswered'
  BY <1>1, <1>2 DEF IInv, TypeOK, AuditIsDurable, Confirmed, FixturesAnswered
<1>. QED BY <1>4, <1>5, <1>6, <1>7 DEF IInv

-----------------------------------------------------------------------------
(* A step of one handler, whatever it does to its replica's fixtures *)

RequestType == [pc : Pcs, on : Replicas, fleet : Fleets \cup {NoFleet}, target : Ids,
                body : Bodies \cup {Keep}, owners : SUBSET Fleets, reply : Replies]

\* Request r goes to pc; of the others at most the fleets recorded grow.
Moved(r, pc, reply) ==
    /\ req' \in [Requests -> RequestType]
    /\ \A q \in Requests :
         /\ req'[q].pc = IF q = r THEN pc ELSE req[q].pc
         /\ req'[q].reply = IF q = r THEN reply ELSE req[q].reply
         /\ req'[q].on = req[q].on /\ req'[q].fleet = req[q].fleet
         /\ req'[q].target = req[q].target /\ req'[q].body = req[q].body
         /\ req[q].owners \subseteq req'[q].owners

\* Moving a request keeps its fleet and vessel.
LEMMA AtPc ==
    ASSUME NEW x \in RequestType, NEW pc \in Pcs
    PROVE  LET y == [x EXCEPT !.pc = pc]
           IN  /\ y \in RequestType /\ y.pc = pc /\ y.fleet = x.fleet /\ y.target = x.target
               /\ y.body = x.body /\ y.owners = x.owners /\ y.reply = x.reply
BY DEF RequestType

\* A request that ends is moved, with its reply.
LEMMA MovedByEnding ==
    ASSUME TypeOK, NEW r \in Requests, NEW pc \in Pcs, NEW reply \in Replies,
           req' = [req EXCEPT ![r].pc = pc, ![r].reply = reply]
    PROVE  Moved(r, pc, reply)
<1>1. req \in [Requests -> RequestType]
  BY DEF TypeOK, RequestType
<1>2. req' = [req EXCEPT ![r] = [req[r] EXCEPT !.pc = pc, !.reply = reply]]
  BY <1>1
<1>3. [req[r] EXCEPT !.pc = pc, !.reply = reply] \in RequestType
  BY <1>1 DEF RequestType
<1>. QED BY <1>1, <1>2, <1>3 DEF Moved, RequestType

\* A request that goes on is moved.
LEMMA MovedByGoto ==
    ASSUME TypeOK, NEW r \in Requests, NEW pc \in Pcs, Goto(r, pc)
    PROVE  Moved(r, pc, req[r].reply)
<1>1. req \in [Requests -> RequestType]
  BY DEF TypeOK, RequestType
<1>2. req' = [req EXCEPT ![r] = [req[r] EXCEPT !.pc = pc]]
  BY <1>1 DEF Goto
<1>3. [req[r] EXCEPT !.pc = pc] \in RequestType
  BY <1>1 DEF RequestType
<1>. QED BY <1>1, <1>2, <1>3 DEF Moved, RequestType

\* A request that gives the database up: it was not confirmed, and it ends.
LEMMA FallBackIInv ==
    ASSUME IInv, NEW r \in Requests, FallBack(r), UNCHANGED <<db, audit, acked>>,
           req[r].pc \in Creating \cup {"lookup", "update", "updated"} \cup Reading
    PROVE  /\ IInv'
           /\ \E p \in Replicas, id \in Ids, row \in Rows :
                fixtures' \in {fixtures, [fixtures EXCEPT ![p][id] = row]} /\ row.fleet = req[r].fleet
           /\ req'[r].pc # req[r].pc /\ req'[r].reply # "200 db"
<1>. DEFINE p == req[r].on
<1>1. /\ req[r].fleet \in Fleets /\ p \in Replicas /\ req[r].target \in Ids
      /\ req[r].pc \notin Reading => req[r].body \in Bodies
  BY DEF IInv, TypeOK, Control, Running, Writing, Creating
<1>2. PICK reply \in Replies \ {"200 db"} : Reply(r, reply)
  BY DEF FallBack, CreateFixture, RefusedFixture, PatchFixture, ReadFixture, Replies
<1>3. /\ req' = [req EXCEPT ![r] = req'[r]]
      /\ req'[r] \in [pc : {"done"}, on : {p}, fleet : {req[r].fleet}, target : {req[r].target},
                      body : {req[r].body}, owners : {req[r].owners}, reply : {reply}]
  BY <1>2 DEF Reply, IInv, TypeOK
<1>4. PICK id \in Ids, row \in Rows :
         /\ fixtures' \in {fixtures, [fixtures EXCEPT ![p][id] = row]}
         /\ row.fleet = req[r].fleet
         /\ fixtures' # fixtures => \/ fixtures[p][id] # Absent
                                    \/ id = <<"mem", r>> /\ req'[r].reply = "201 mem"
  <2>1. CASE req[r].pc \in Creating
    <3>1. New(req[r].body, req[r].fleet) \in Rows
      BY <2>1, <1>1, NewIsRow DEF IInv, Control, Creating
    <3>2. <<"mem", r>> \in Ids
      BY DEF Ids
    <3>3. fixtures' = [fixtures EXCEPT ![p][<<"mem", r>>] = New(req[r].body, req[r].fleet)]
      BY <2>1 DEF FallBack, CreateFixture, PutFixture, Creating, Reading
    <3>4. Reply(r, "201 mem")
      BY <2>1 DEF FallBack, CreateFixture, Creating, Reading
    <3>5. req'[r].reply = "201 mem"
      BY <3>4 DEF Reply, IInv, TypeOK
    <3>. QED BY <3>1, <3>2, <3>3, <3>5 DEF New
  <2>2. CASE req[r].pc \notin Creating /\ fixtures' = fixtures
    <3>1. PICK row \in Rows : row.fleet = req[r].fleet
      <4>1. \E b \in Imos, n \in Names : [imo |-> b, fleet |-> req[r].fleet, name |-> n] \in Rows
        <5>1. PICK v \in Seeded : TRUE
          BY VesselAssumption
        <5>2. SeedRow[v] \in Rows
          BY <5>1, VesselAssumption
        <5>. QED BY <1>1, <5>2 DEF Rows
      <4>. QED BY <4>1
    <3>. QED BY <1>1, <2>2, <3>1
  <2>3. CASE req[r].pc \notin Creating /\ fixtures' # fixtures
    <3>. DEFINE row == fixtures[p][req[r].target]
    <3>1. row # Absent /\ row.fleet = req[r].fleet /\ PutFixture(r, req[r].target, Patched(row, req[r].body))
      BY <2>3 DEF FallBack, RefusedFixture, ReadFixture, PatchFixture, OwnFixture, Fixture
    <3>0. req[r].body \in Bodies
      BY <1>1, <2>3 DEF FallBack, RefusedFixture, ReadFixture
    <3>2. row \in Rows
      <4>1. fixtures \in [Replicas -> [Ids -> Rows \cup {Absent}]]
        BY DEF IInv, TypeOK, Stores
      <4>2. p \in Replicas /\ req[r].target \in Ids /\ row # Absent
        BY <1>1, <3>1
      <4>. QED BY ONLY <4>1, <4>2
    <3>3. Patched(row, req[r].body) \in Rows /\ Patched(row, req[r].body).fleet = req[r].fleet
      BY <3>0, <3>1, <3>2, PatchedIsRow
    <3>4. fixtures' = [fixtures EXCEPT ![p][req[r].target] = Patched(row, req[r].body)]
      BY <3>1 DEF PutFixture
    <3>5. fixtures[p][req[r].target] # Absent
      BY <3>1
    <3>. HIDE DEF row, p
    <3>. QED BY <1>1, <3>3, <3>4, <3>5
  <2>. QED BY <2>1, <2>2, <2>3
<1>5. TypeOK'
  <2>1. fixtures' \in [Replicas -> Stores]
    <3>1. fixtures \in [Replicas -> Stores]
      BY DEF IInv, TypeOK
    <3>2. [fixtures EXCEPT ![p][id] = row] \in [Replicas -> Stores]
      BY <1>1, <3>1, PutIsStores
    <3>. QED BY <1>4, <3>1, <3>2
  <2>2. req' \in [Requests -> [pc : Pcs, on : Replicas, fleet : Fleets \cup {NoFleet}, target : Ids,
                               body : Bodies \cup {Keep}, owners : SUBSET Fleets, reply : Replies]]
    <3>1. req'[r] \in [pc : Pcs, on : Replicas, fleet : Fleets \cup {NoFleet}, target : Ids,
                       body : Bodies \cup {Keep}, owners : SUBSET Fleets, reply : Replies]
      BY <1>1, <1>3 DEF IInv, TypeOK, Pcs
    <3>. QED BY <1>3, <3>1 DEF IInv, TypeOK
  <2>. QED BY <2>1, <2>2 DEF IInv, TypeOK
<1>12. Moved(r, "done", reply)
  BY <1>2, MovedByEnding DEF Reply, IInv, Pcs
<1>6. Control' /\ TargetExists' /\ OwnersRecorded'
  <2>1. Control'
    BY <1>12 DEF Moved, IInv, Control, Running, Writing, Reading
  <2>2. TargetExists'
    BY <1>12 DEF Moved, IInv, TargetExists
  <2>3. OwnersRecorded'
    BY <1>12 DEF Moved, IInv, OwnersRecorded, Owning, Running, Writing, Reading
  <2>. QED BY <2>1, <2>2, <2>3
<1>7. AuditIsDurable' /\ Confirmed'
  <2>1. AuditIsDurable'
    BY DEF IInv, AuditIsDurable
  <2>2. r \notin acked
    BY DEF IInv, Confirmed, Creating, Reading
  <2>3. Confirmed'
    BY <1>12, <2>2 DEF Moved, IInv, TypeOK, Confirmed
  <2>. QED BY <2>1, <2>3
<1>8. FixturesAnswered'
  <2>1. ASSUME NEW q \in Requests, NEW s \in Replicas, fixtures'[s][<<"mem", q>>] # Absent
        PROVE  req'[q].pc = "done" /\ req'[q].reply = "201 mem"
    <3>1. <<"mem", q>> \in Ids
      BY DEF Ids
    <3>2. CASE fixtures[s][<<"mem", q>>] # Absent
      <4>1. q # r
        BY <3>2 DEF IInv, FixturesAnswered, Creating, Reading
      <4>. QED BY <1>3, <3>2, <4>1 DEF IInv, TypeOK, FixturesAnswered
    <3>3. CASE fixtures[s][<<"mem", q>>] = Absent
      <4>1. fixtures' # fixtures /\ fixtures' = [fixtures EXCEPT ![p][id] = row]
        BY <1>4, <2>1, <3>3
      <4>2. s = p /\ id = <<"mem", q>>
        <5>1. fixtures'[s][<<"mem", q>>] # fixtures[s][<<"mem", q>>]
          BY <2>1, <3>3
        <5>2. fixtures \in [Replicas -> [Ids -> Rows \cup {Absent}]]
          BY DEF IInv, TypeOK, Stores
        <5>3. [fixtures EXCEPT ![p][id] = row][s] = IF s = p THEN [fixtures[s] EXCEPT ![id] = row] ELSE fixtures[s]
          BY <1>1, <5>2
        <5>4. [fixtures[s] EXCEPT ![id] = row][<<"mem", q>>] = IF <<"mem", q>> = id THEN row ELSE fixtures[s][<<"mem", q>>]
          BY <3>1, <5>2
        <5>. HIDE DEF p
        <5>. QED BY <4>1, <5>1, <5>3, <5>4
      <4>3. id = <<"mem", r>> /\ req'[r].reply = "201 mem"
        BY <1>4, <4>1, <4>2, <3>3
      <4>4. q = r
        <5>1. <<"mem", q>> = <<"mem", r>>
          BY <4>2, <4>3
        <5>. QED BY ONLY <5>1
      <4>. QED BY <1>3, <4>3, <4>4
    <3>. QED BY <3>2, <3>3
  <2>. QED BY <2>1 DEF FixturesAnswered
<1>9. \E s \in Replicas, i \in Ids, w \in Rows :
         fixtures' \in {fixtures, [fixtures EXCEPT ![s][i] = w]} /\ w.fleet = req[r].fleet
  <2>. HIDE DEF p
  <2>. QED BY <1>1, <1>4
<1>10. req'[r].pc # req[r].pc /\ req'[r].reply # "200 db"
  BY <1>3 DEF Creating, Reading
<1>11. IInv'
  BY <1>5, <1>6, <1>7, <1>8 DEF IInv
<1>. QED BY <1>9, <1>10, <1>11

-----------------------------------------------------------------------------
(* A step of one handler that keeps its replica's fixtures as they are *)

\* A request moves on without a write.
LEMMA MovedIInv ==
    ASSUME IInv, NEW r \in Requests, NEW pc \in Owning \cup {"done"}, NEW reply \in Replies,
           Moved(r, pc, reply),
           req[r].pc \in Running,
           pc = "created" => req[r].pc = "create",
           pc \in Writing => req[r].pc \in Writing,
           pc # "done" => reply = "none",
           pc # "done" => db'[req[r].target] # Absent,
           pc # "done" => req[r].fleet \in req'[r].owners,
           db' \in Stores,
           \A id \in Ids : db[id] # Absent => db'[id] # Absent,
           \A q \in Requests \ {r} : db'[<<"db", q>>] # Absent => db[<<"db", q>>] # Absent,
           \A q \in Requests : req[q].pc \in Running /\ db'[req[q].target] # Absent =>
                                 db'[req[q].target].fleet \in req'[q].owners,
           audit' \subseteq audit \cup {req[r].target},
           audit' = audit \/ req[r].pc = "audit",
           acked' \subseteq acked \cup {r},
           r \in acked' => pc \in {"audit", "done"} /\ reply \in {"none", "201 db", "200 db"},
           UNCHANGED fixtures
    PROVE  IInv'
<1>0. \A q \in Requests : req[q] \in RequestType /\ req'[q] \in RequestType
  BY DEF IInv, TypeOK, RequestType, Moved
<1>1. TypeOK'
  <2>1. audit' \subseteq Ids /\ acked' \subseteq Requests
    BY <1>0 DEF IInv, TypeOK, RequestType
  <2>2. db' \in Stores /\ fixtures' \in [Replicas -> Stores]
    BY DEF IInv, TypeOK
  <2>. QED BY <2>1, <2>2 DEF TypeOK, Moved, RequestType
<1>2. Control'
  <2>. SUFFICES ASSUME NEW q \in Requests
                PROVE  /\ req'[q].pc \in Writing => req'[q].body \in Bodies
                       /\ req'[q].pc \in Running => req'[q].fleet \in Fleets
                       /\ req'[q].pc \in {"create", "created"} =>
                            req'[q].target = <<"db", q>> /\ req'[q].body \in CreateBodies
                       /\ req'[q].pc # "done" => req'[q].reply = "none"
                       /\ req'[q].pc \in {"new", "create"} => db'[<<"db", q>>] = Absent
    BY DEF Control
  <2>1. CASE q = r
    BY <2>1 DEF IInv, Control, Moved, Owning, Running, Writing, Reading
  <2>2. CASE q # r
    BY <2>2 DEF IInv, Control, Moved, Running, Writing, Reading
  <2>. QED BY <2>1, <2>2
<1>3. TargetExists'
  <2>. SUFFICES ASSUME NEW q \in Requests, req'[q].pc \in {"created", "update", "updated", "audit"}
                PROVE  db'[req'[q].target] # Absent
    BY DEF TargetExists
  <2>1. req'[q].target = req[q].target /\ req[q].target \in Ids
    BY <1>0 DEF Moved, RequestType
  <2>2. CASE q = r
    BY <2>1, <2>2 DEF Moved
  <2>3. CASE q # r
    BY <2>1, <2>3 DEF Moved, IInv, TargetExists
  <2>. QED BY <2>2, <2>3
<1>4. OwnersRecorded'
  <2>. SUFFICES ASSUME NEW q \in Requests
                PROVE  /\ req'[q].pc \in Running /\ db'[req'[q].target] # Absent =>
                            db'[req'[q].target].fleet \in req'[q].owners
                       /\ req'[q].pc \in Owning => req'[q].fleet \in req'[q].owners
    BY DEF OwnersRecorded
  <2>1. CASE q = r
    BY <2>1 DEF Moved, Owning
  <2>2. CASE q # r
    BY <2>2 DEF Moved, IInv, OwnersRecorded
  <2>. QED BY <2>1, <2>2
<1>5. AuditIsDurable'
  BY <1>0 DEF IInv, TypeOK, AuditIsDurable, TargetExists, RequestType
<1>6. Confirmed'
  <2>. SUFFICES ASSUME NEW q \in acked'
                PROVE  req'[q].pc \in {"audit", "done", "dead"} /\ req'[q].reply \in {"none", "201 db", "200 db"}
    BY DEF Confirmed
  <2>1. q \in Requests
    BY DEF IInv, TypeOK
  <2>2. CASE q = r
    BY <2>1, <2>2 DEF Moved
  <2>3. CASE q # r
    BY <2>1, <2>3 DEF Moved, IInv, Confirmed
  <2>. QED BY <2>2, <2>3
<1>7. FixturesAnswered'
  <2>1. req[r].pc # "done"
    BY DEF Running, Writing, Reading
  <2>. QED BY <2>1 DEF IInv, FixturesAnswered, Moved
<1>. QED BY <1>1, <1>2, <1>3, <1>4, <1>5, <1>6, <1>7 DEF IInv

\* The insert: the row is the caller's, and nobody had it before.
LEMMA CreateRowIInv ==
    ASSUME IInv, NEW r \in Requests, CreateRow(r)
    PROVE  IInv'
<1>. DEFINE id == <<"db", r>>  row == New(req[r].body, req[r].fleet)
<1>1. /\ id \in Ids /\ row \in Rows /\ req[r].fleet \in Fleets /\ req[r].target = id /\ db[id] = Absent
      /\ req[r].pc = "create" /\ req[r].reply = "none"
  BY NewIsRow DEF CreateRow, Ids, IInv, Control, Running, Writing
<1>2. row.fleet = req[r].fleet /\ row # Absent
  BY <1>1, VesselAssumption DEF New
<1>3. db' = [db EXCEPT ![id] = row] /\ UNCHANGED <<fixtures, audit, acked>>
  BY DEF CreateRow
<1>4. \A q \in Requests : Told(q, id, req[r].fleet, Owned(id, req[r].fleet)[q])
  BY <1>1, OwnedFacts DEF IInv
<1>5. req' = [Owned(id, req[r].fleet) EXCEPT ![r].pc = "created"]
  BY DEF CreateRow
<1>6. \A q \in Requests \ {r} : id # <<"db", q>>
  OBVIOUS
<1>. HIDE DEF id, row
<1>7. \A q \in Requests : req'[q] = IF q = r THEN [Owned(id, req[r].fleet)[q] EXCEPT !.pc = "created"]
                                             ELSE Owned(id, req[r].fleet)[q]
  BY <1>5 DEF Owned
<1>8. Moved(r, "created", "none")
  <2>1. \A q \in Requests : req'[q] \in RequestType
    <3>1. \A q \in Requests : Owned(id, req[r].fleet)[q] \in RequestType
      BY <1>4 DEF Told, IInv, TypeOK, RequestType
    <3>2. [Owned(id, req[r].fleet)[r] EXCEPT !.pc = "created"] \in RequestType
      BY <3>1, AtPc DEF Pcs
    <3>. QED BY <1>7, <3>1, <3>2
  <2>2. req' \in [Requests -> RequestType]
    BY <1>5, <2>1 DEF Owned
  <2>. QED BY <1>1, <1>4, <1>7, <2>2 DEF Moved, Told
<1>9. \A q \in Requests : req[q].target = id /\ req[q].pc \in Running => req[r].fleet \in req'[q].owners
  BY <1>4, <1>7 DEF Told
<1>10. db' \in Stores /\ \A i \in Ids : db'[i] = IF i = id THEN row ELSE db[i]
  BY <1>1, <1>3 DEF IInv, TypeOK, Stores
<1>11. \A q \in Requests : <<"db", q>> \in Ids /\ req[q].target \in Ids
  BY DEF IInv, TypeOK, Ids
<1>12. ASSUME NEW q \in Requests, req[q].pc \in Running, db'[req[q].target] # Absent
       PROVE  db'[req[q].target].fleet \in req'[q].owners
  BY <1>2, <1>8, <1>9, <1>10, <1>11, <1>12 DEF IInv, OwnersRecorded, Moved
<1>13. r \notin acked
  BY <1>1 DEF IInv, Confirmed
<1>14. \A i \in Ids : db[i] # Absent => db'[i] # Absent
  BY <1>2, <1>10
<1>15. \A q \in Requests \ {r} : db'[<<"db", q>>] # Absent => db[<<"db", q>>] # Absent
  BY <1>6, <1>10, <1>11
<1>16. db'[req[r].target] # Absent
  BY <1>1, <1>2, <1>10
<1>17. /\ req[r].pc \in Running /\ req[r].pc \in Writing /\ "none" \in Replies /\ "created" \in Owning \cup {"done"}
       /\ req[r].fleet \in req'[r].owners
  BY <1>1, <1>9 DEF Running, Writing, Replies, Owning
<1>. HIDE DEF Running, Moved, Replies
<1>. QED BY <1>1, <1>3, <1>8, <1>10, <1>12, <1>13, <1>14, <1>15, <1>16, <1>17, MovedIInv

\* The update: the vessel stays in the fleet it is in.
LEMMA UpdateRowIInv ==
    ASSUME IInv, NEW r \in Requests, UpdateRow(r)
    PROVE  IInv'
<1>. DEFINE id == req[r].target  row == Patched(db[id], req[r].body)
<1>1. /\ id \in Ids /\ db[id] \in Rows /\ req[r].body \in Bodies
      /\ req[r].pc = "update" /\ req[r].reply = "none"
  BY DEF UpdateRow, IInv, TypeOK, Stores, TargetExists, Control, Running, Writing
<1>2. row \in Rows /\ row.fleet = db[id].fleet
  BY <1>1, PatchedIsRow
<1>3. row # Absent /\ db[id] # Absent
  BY <1>1, <1>2, VesselAssumption
<1>4. db' = [db EXCEPT ![id] = row] /\ UNCHANGED <<fixtures, audit, acked>>
  BY DEF UpdateRow
<1>5. Moved(r, "updated", "none")
  BY <1>1, MovedByGoto DEF UpdateRow, IInv, Pcs
<1>. HIDE DEF row
<1>6. db' \in Stores /\ \A i \in Ids : db'[i] = IF i = id THEN row ELSE db[i]
  BY <1>1, <1>2, <1>4 DEF IInv, TypeOK, Stores
<1>7. \A q \in Requests : <<"db", q>> \in Ids /\ req[q].target \in Ids
  BY DEF IInv, TypeOK, Ids
<1>8. ASSUME NEW q \in Requests, req[q].pc \in Running, db'[req[q].target] # Absent
      PROVE  db'[req[q].target].fleet \in req'[q].owners
  BY <1>2, <1>3, <1>5, <1>6, <1>7, <1>8 DEF IInv, OwnersRecorded, Moved
<1>9. r \notin acked
  BY <1>1 DEF IInv, Confirmed
<1>10. req[r].fleet \in req'[r].owners
  BY <1>1, <1>5 DEF IInv, OwnersRecorded, Owning, Moved
<1>. QED BY <1>1, <1>3, <1>4, <1>5, <1>6, <1>7, <1>8, <1>9, <1>10, MovedIInv DEF Running, Writing, Owning, Replies

\* A confirmed write, and its audit, which cannot fail the request.
LEMMA ConfirmedIInv ==
    ASSUME IInv, NEW r \in Requests, WriteConfirmed(r) \/ RecordAudit(r)
    PROVE  IInv' /\ UNCHANGED <<db, fixtures>> /\ req[r].fleet \in req[r].owners
<1>1. \A q \in Requests : <<"db", q>> \in Ids /\ req[q].target \in Ids
  BY DEF IInv, TypeOK, Ids
<1>2. /\ UNCHANGED <<db, fixtures>> /\ db \in Stores /\ req[r].fleet \in req[r].owners
      /\ req[r].pc \in {"created", "updated", "audit"} /\ req[r].reply = "none"
      /\ db[req[r].target] # Absent
  BY DEF WriteConfirmed, RecordAudit, IInv, TypeOK, Control, TargetExists, OwnersRecorded, Owning
<1>3. CASE WriteConfirmed(r)
  <2>1. Moved(r, "audit", "none")
    BY <1>2, <1>3, MovedByGoto DEF WriteConfirmed, IInv, Pcs
  <2>2. \A q \in Requests : req[q].pc \in Running /\ db'[req[q].target] # Absent =>
                              db'[req[q].target].fleet \in req'[q].owners
    BY <1>2, <2>1 DEF IInv, OwnersRecorded, Moved
  <2>3. acked' = acked \cup {r} /\ UNCHANGED audit
    BY <1>3 DEF WriteConfirmed
  <2>4. req[r].fleet \in req'[r].owners
    BY <1>2, <2>1 DEF Moved
  <2>. QED BY <1>1, <1>2, <2>1, <2>2, <2>3, <2>4, MovedIInv DEF Running, Writing, Owning, Replies
<1>4. CASE RecordAudit(r)
  <2>1. DbReply(r) \in {"201 db", "200 db"}
    BY DEF DbReply
  <2>2. Moved(r, "done", DbReply(r))
    BY <1>4, <2>1, MovedByEnding DEF RecordAudit, Reply, IInv, Pcs, Replies
  <2>3. \A q \in Requests : req[q].pc \in Running /\ db'[req[q].target] # Absent =>
                              db'[req[q].target].fleet \in req'[q].owners
    BY <1>2, <2>2 DEF IInv, OwnersRecorded, Moved
  <2>4. /\ req[r].pc = "audit" /\ UNCHANGED acked /\ audit' \subseteq audit \cup {req[r].target}
    BY <1>4 DEF RecordAudit
  <2>. QED BY <1>1, <1>2, <2>1, <2>2, <2>3, <2>4, MovedIInv DEF Running, Writing, Owning, Replies
<1>. QED BY <1>2, <1>3, <1>4

\* The lookup found the row: refuse, or go on to the update or the equipment.
LEMMA LookUpFound ==
    ASSUME IInv, NEW r \in Requests, LookUp(r), db[req[r].target] # Absent
    PROVE  IInv' /\ UNCHANGED <<db, fixtures>> /\ req'[r].reply # "200 db"
<1>. DEFINE next == IF req[r].pc = "find" THEN "equipment" ELSE "update"
<1>1. \A q \in Requests : <<"db", q>> \in Ids /\ req[q].target \in Ids
  BY DEF IInv, TypeOK, Ids
<1>2. /\ req[r].pc \in {"lookup", "find"} /\ req[r].reply = "none" /\ UNCHANGED <<db, fixtures, audit, acked>>
      /\ db \in Stores /\ r \notin acked
  BY DEF LookUp, IInv, TypeOK, Control, Confirmed
<1>3. \/ Moved(r, "done", "403")
      \/ Moved(r, next, "none") /\ db[req[r].target].fleet = req[r].fleet
  BY <1>2, MovedByGoto, MovedByEnding DEF LookUp, Reply, IInv, Pcs, Replies
<1>4. \A q \in Requests : req[q].pc \in Running /\ db'[req[q].target] # Absent =>
                            db'[req[q].target].fleet \in req'[q].owners
  BY <1>2, <1>3 DEF IInv, OwnersRecorded, Moved
<1>5. req[r].pc \in Running /\ db[req[r].target].fleet \in req[r].owners
  BY <1>2 DEF IInv, OwnersRecorded, Running, Writing, Reading
<1>6. ASSUME Moved(r, "done", "403") PROVE IInv'
  <2>1. "403" \in Replies /\ "done" \in Owning \cup {"done"} /\ "done" \notin Writing
    BY DEF Replies, Writing
  <2>. HIDE DEF Moved, Running, Writing, Owning
  <2>. QED BY <1>1, <1>2, <1>4, <1>5, <1>6, <2>1, MovedIInv
<1>7. ASSUME Moved(r, next, "none"), db[req[r].target].fleet = req[r].fleet PROVE IInv'
  <2>1. /\ next \in Owning \cup {"done"} /\ next # "created" /\ next \notin {"audit", "done"}
        /\ next \in Writing => req[r].pc \in Writing
    BY <1>2 DEF Owning, Writing
  <2>2. req[r].fleet \in req'[r].owners
    BY <1>5, <1>7 DEF Moved
  <2>3. "none" \in Replies
    BY DEF Replies
  <2>. HIDE DEF next, Moved, Running, Writing, Owning
  <2>. QED BY <1>1, <1>2, <1>4, <1>5, <1>7, <2>1, <2>2, <2>3, MovedIInv
<1>8. req'[r].reply # "200 db"
  BY <1>3 DEF Moved
<1>. QED BY <1>2, <1>3, <1>6, <1>7, <1>8

\* A read ends with the row it found.
LEMMA EquipmentIInv ==
    ASSUME IInv, NEW r \in Requests, FindEquipment(r)
    PROVE  IInv' /\ UNCHANGED <<db, fixtures>> /\ req[r].fleet \in req[r].owners
<1>1. \A q \in Requests : <<"db", q>> \in Ids /\ req[q].target \in Ids
  BY DEF IInv, TypeOK, Ids
<1>2. /\ req[r].pc = "equipment" /\ UNCHANGED <<db, fixtures, audit, acked>> /\ db \in Stores /\ r \notin acked
      /\ req[r].fleet \in req[r].owners
  BY DEF FindEquipment, IInv, TypeOK, Confirmed, OwnersRecorded, Owning
<1>3. Moved(r, "done", "200 db")
  BY MovedByEnding DEF FindEquipment, Reply, IInv, Pcs, Replies
<1>4. \A q \in Requests : req[q].pc \in Running /\ db'[req[q].target] # Absent =>
                            db'[req[q].target].fleet \in req'[q].owners
  BY <1>2, <1>3 DEF IInv, OwnersRecorded, Moved
<1>5. /\ req[r].pc \in Running /\ req[r].pc \notin {"audit", "create"}
      /\ "200 db" \in Replies /\ "done" \in Owning \cup {"done"} /\ "done" \notin Writing
  BY <1>2 DEF Replies, Running, Reading, Writing
<1>. HIDE DEF Moved, Running, Writing, Owning, Replies
<1>6. IInv'
  BY <1>1, <1>2, <1>3, <1>4, <1>5, MovedIInv
<1>. QED BY <1>2, <1>6

-----------------------------------------------------------------------------
(* The environment *)

\* Only what a replica remembers is lost with it.
LEMMA RestartIInv ==
    ASSUME IInv, NEW p \in Replicas, Restart(p)
    PROVE  IInv'
<1>1. UNCHANGED <<db, audit, acked>> /\ fixtures' = [fixtures EXCEPT ![p] = Seed]
  BY DEF Restart
<1>2. /\ req' \in [Requests -> RequestType]
      /\ \A q \in Requests :
           \/ req'[q] = req[q]
           \/ req[q].pc \notin {"new", "done"} /\ req'[q] = [req[q] EXCEPT !.pc = "dead"]
  <2>1. req \in [Requests -> RequestType]
    BY DEF IInv, TypeOK, RequestType
  <2>2. \A q \in Requests : [req[q] EXCEPT !.pc = "dead"] \in RequestType
    BY <2>1 DEF RequestType, Pcs
  <2>. QED BY <2>1, <2>2 DEF Restart
<1>3. \A q \in Requests :
         /\ \/ req'[q].pc = req[q].pc
            \/ req[q].pc \notin {"new", "done"} /\ req'[q].pc = "dead"
         /\ req'[q].fleet = req[q].fleet /\ req'[q].target = req[q].target /\ req'[q].body = req[q].body
         /\ req'[q].owners = req[q].owners /\ req'[q].reply = req[q].reply
  <2>. SUFFICES ASSUME NEW q \in Requests
                PROVE  /\ \/ req'[q].pc = req[q].pc
                          \/ req[q].pc \notin {"new", "done"} /\ req'[q].pc = "dead"
                       /\ req'[q].fleet = req[q].fleet /\ req'[q].target = req[q].target
                       /\ req'[q].body = req[q].body /\ req'[q].owners = req[q].owners
                       /\ req'[q].reply = req[q].reply
    OBVIOUS
  <2>1. req[q] \in RequestType
    BY DEF IInv, TypeOK, RequestType
  <2>2. CASE req'[q] = req[q]
    BY <2>2
  <2>3. CASE req[q].pc \notin {"new", "done"} /\ req'[q] = [req[q] EXCEPT !.pc = "dead"]
    BY <2>1, <2>3, AtPc DEF Pcs
  <2>. QED BY <1>2, <2>2, <2>3
<1>4. TypeOK'
  BY <1>1, <1>2, SeedIsStore DEF IInv, TypeOK, RequestType
<1>5. Control'
  BY <1>1, <1>3 DEF IInv, Control, Running, Writing, Reading
<1>6. TargetExists'
  BY <1>1, <1>3 DEF IInv, TargetExists
<1>7. OwnersRecorded'
  BY <1>1, <1>3 DEF IInv, OwnersRecorded, Owning, Running, Writing, Reading
<1>8. AuditIsDurable'
  BY <1>1 DEF IInv, AuditIsDurable
<1>9. Confirmed'
  BY <1>1, <1>3 DEF IInv, TypeOK, Confirmed
<1>10. FixturesAnswered'
  BY <1>1, <1>3, SeedIsStore DEF IInv, TypeOK, FixturesAnswered
<1>. QED BY <1>4, <1>5, <1>6, <1>7, <1>8, <1>9, <1>10 DEF IInv

\* An administrator's move is told to every request about the vessel.
LEMMA ReassignIInv ==
    ASSUME IInv, NEW id \in Ids, NEW f \in Fleets, Reassign(id, f)
    PROVE  IInv'
<1>. DEFINE row == [db[id] EXCEPT !.fleet = f]
<1>1. db[id] \in Rows /\ row \in Rows /\ row.fleet = f /\ db[id] # Absent
  BY DEF Reassign, IInv, TypeOK, Stores, Rows
<1>2. db' = [db EXCEPT ![id] = row] /\ req' = Owned(id, f) /\ UNCHANGED <<fixtures, audit, acked>>
  BY DEF Reassign
<1>3. \A q \in Requests : Told(q, id, f, req'[q])
  BY <1>2, OwnedFacts DEF IInv
<1>4. row # Absent
  BY <1>1, VesselAssumption
<1>. HIDE DEF row
<1>5. db' \in Stores /\ \A i \in Ids : db'[i] = IF i = id THEN row ELSE db[i]
  BY <1>1, <1>2 DEF IInv, TypeOK, Stores
<1>6. \A q \in Requests :
         /\ req'[q].pc = req[q].pc /\ req'[q].reply = req[q].reply /\ req'[q].fleet = req[q].fleet
         /\ req'[q].target = req[q].target /\ req'[q].body = req[q].body
         /\ req[q].owners \subseteq req'[q].owners
         /\ req[q].target = id /\ req[q].pc \in Running => f \in req'[q].owners
  BY <1>3 DEF Told
<1>7. \A q \in Requests : <<"db", q>> \in Ids /\ req[q].target \in Ids
  BY DEF IInv, TypeOK, Ids
<1>8. TypeOK'
  <2>1. \A q \in Requests : req'[q] \in RequestType
    BY <1>3 DEF Told, IInv, TypeOK, RequestType
  <2>2. req' \in [Requests -> RequestType]
    BY <1>2, <2>1 DEF Owned
  <2>. QED BY <1>2, <1>5, <2>2 DEF IInv, TypeOK, RequestType
<1>9. Control'
  BY <1>1, <1>5, <1>6, <1>7 DEF IInv, Control
<1>10. TargetExists'
  BY <1>4, <1>5, <1>6, <1>7 DEF IInv, TargetExists
<1>11. OwnersRecorded'
  <2>. SUFFICES ASSUME NEW q \in Requests
                PROVE  /\ req'[q].pc \in Running /\ db'[req'[q].target] # Absent =>
                            db'[req'[q].target].fleet \in req'[q].owners
                       /\ req'[q].pc \in Owning => req'[q].fleet \in req'[q].owners
    BY DEF OwnersRecorded
  <2>1. CASE req[q].target = id
    BY <1>1, <1>5, <1>6, <1>7, <2>1 DEF IInv, OwnersRecorded
  <2>2. CASE req[q].target # id
    <3>1. db'[req'[q].target] = db[req[q].target] /\ req'[q].pc = req[q].pc /\ req'[q].fleet = req[q].fleet
      BY <1>5, <1>6, <1>7, <2>2
    <3>2. req[q].owners \subseteq req'[q].owners
      BY <1>6
    <3>3. req'[q].pc \in Running /\ db'[req'[q].target] # Absent => db[req[q].target].fleet \in req[q].owners
      BY <3>1 DEF IInv, OwnersRecorded
    <3>4. req'[q].pc \in Owning => req[q].fleet \in req[q].owners
      BY <3>1 DEF IInv, OwnersRecorded
    <3>. QED BY <3>1, <3>2, <3>3, <3>4
  <2>. QED BY <2>1, <2>2
<1>12. AuditIsDurable'
  BY <1>2, <1>4, <1>5 DEF IInv, TypeOK, AuditIsDurable
<1>13. Confirmed' /\ FixturesAnswered'
  BY <1>2, <1>6 DEF IInv, TypeOK, Confirmed, FixturesAnswered
<1>. QED BY <1>8, <1>9, <1>10, <1>11, <1>12, <1>13 DEF IInv

-----------------------------------------------------------------------------
(* The theorems *)

\* The ways a handler gives the database up.
LEMMA HandlerIInv ==
    ASSUME IInv, NEW r \in Requests, Handler(r)
    PROVE  IInv'
<1>1. CASE CreateRow(r)
  BY <1>1, CreateRowIInv
<1>2. CASE UpdateRow(r)
  BY <1>2, UpdateRowIInv
<1>3. CASE WriteConfirmed(r) \/ RecordAudit(r)
  BY <1>3, ConfirmedIInv
<1>4. CASE LookUp(r) /\ db[req[r].target] # Absent
  BY <1>4, LookUpFound
<1>5. CASE LookUp(r) /\ db[req[r].target] = Absent
  BY <1>5, FallBackIInv DEF LookUp, Reading
<1>6. CASE WriteRefused(r) \/ CallFails(r)
  BY <1>6, FallBackIInv DEF WriteRefused, CallFails, Creating
<1>7. CASE FindEquipment(r)
  BY <1>7, EquipmentIInv
<1>. QED BY <1>1, <1>2, <1>3, <1>4, <1>5, <1>6, <1>7 DEF Handler

\* Every step of a handler, the database and the trusted flow keeps the invariant.
LEMMA StepIInv ==
    ASSUME IInv, [Next]_vars
    PROVE  IInv'
<1>1. CASE \E r \in Requests : Handler(r)
  BY <1>1, HandlerIInv
<1>2. CASE \E r \in Requests, p \in Replicas, f \in Fleets \cup {NoFleet} : Arrive(r, p, f)
  BY <1>2, ArriveIInv
<1>3. CASE \E p \in Replicas : Restart(p)
  BY <1>3, RestartIInv
<1>4. CASE \E id \in Ids, f \in Fleets : Reassign(id, f)
  BY <1>4, ReassignIInv
<1>5. CASE UNCHANGED vars
  BY <1>5 DEF vars, IInv, TypeOK, Control, TargetExists, OwnersRecorded, AuditIsDurable, Confirmed, FixturesAnswered
<1>. QED BY <1>1, <1>2, <1>3, <1>4, <1>5 DEF Next

\* The invariant holds initially and every step keeps it, whatever replicas
\* fail, calls are lost and vessels are moved.
THEOREM Inductive == Spec => []IInv
<1>1. Init => IInv
  BY InitIInv
<1>2. IInv /\ [Next]_vars => IInv'
  BY StepIInv
<1>. QED BY <1>1, <1>2, PTL DEF Spec

\* Every state of every behaviour of the specification is well typed.
THEOREM TypeCorrect == Spec => []TypeOK
<1>1. IInv => TypeOK
  BY DEF IInv
<1>. QED BY <1>1, Inductive, PTL

\* No write the database confirmed, in POST or PATCH /vessels, is answered from
\* the fixtures or leaves one behind.
THEOREM NoPhantomFixture == Spec => []NoPhantom
<1>1. IInv => NoPhantom
  BY DEF IInv, NoPhantom, Confirmed, FixturesAnswered, TypeOK
<1>. QED BY <1>1, Inductive, PTL

\* recordAudit names only rows of the Vessel table.
THEOREM DurableAudit == Spec => []AuditIsDurable
<1>1. IInv => AuditIsDurable
  BY DEF IInv
<1>. QED BY <1>1, Inductive, PTL

\* A step that leaves the row as it is changes no attribute of it.
LEMMA SameRow ==
    ASSUME NEW row \in Rows
    PROVE  [row EXCEPT !.fleet = row.fleet] = row
BY DEF Rows

\* No attribute changes when the table does not.
LEMMA SameTable ==
    ASSUME IInv, UNCHANGED db
    PROVE  RowsOwned
BY SameRow DEF IInv, TypeOK, Stores, RowsOwned

\* A step of request r answers at most r.
LEMMA OneAnswer ==
    ASSUME TypeOK, NEW r \in Requests, Handler(r)
    PROVE  \A q \in Requests \ {r} : req'[q].reply = req[q].reply
<1>1. \A q \in Requests : \A pc, reply :
        /\ Goto(r, pc) => req'[q] = req[q] \/ q = r
        /\ Reply(r, reply) => req'[q] = req[q] \/ q = r
  BY DEF TypeOK, Goto, Reply
<1>2. CASE FallBack(r)
  BY <1>1, <1>2 DEF FallBack, CreateFixture, RefusedFixture, PatchFixture, ReadFixture
<1>3. CASE CreateRow(r)
  <2>1. \A q \in Requests \ {r} : req'[q] = Owned(<<"db", r>>, req[r].fleet)[q]
    BY <1>3 DEF CreateRow, Owned
  <2>2. \A q \in Requests : Owned(<<"db", r>>, req[r].fleet)[q].reply = req[q].reply
    BY DEF TypeOK, Owned
  <2>. QED BY <2>1, <2>2
<1>4. CASE \E pc : Goto(r, pc)
  BY <1>1, <1>4
<1>5. CASE \E reply : Reply(r, reply)
  BY <1>1, <1>5
<1>6. FallBack(r) \/ CreateRow(r) \/ (\E pc : Goto(r, pc)) \/ (\E reply : Reply(r, reply))
  BY DEF Handler, LookUp, UpdateRow, WriteRefused, CallFails, WriteConfirmed, RecordAudit, FindEquipment
<1>. QED BY <1>2, <1>3, <1>4, <1>5, <1>6

\* A step of a handler changes and answers only rows of vessels its fleet has
\* owned meanwhile.
LEMMA HandlerOwned ==
    ASSUME IInv, NEW r \in Requests, Handler(r)
    PROVE  RowsOwned /\ FixturesOwned /\ AnswersOwned
<1>0. (req'[r].reply # req[r].reply /\ req'[r].reply = "200 db" => req[r].fleet \in req[r].owners) => AnswersOwned
  BY OneAnswer DEF IInv, AnswersOwned
<1>1. CASE CreateRow(r)
  <2>1. db' = [db EXCEPT ![<<"db", r>>] = New(req[r].body, req[r].fleet)] /\ UNCHANGED fixtures
    BY <1>1 DEF CreateRow
  <2>2. db[<<"db", r>>] = Absent
    BY <1>1 DEF CreateRow, IInv, Control
  <2>3. \A id \in Ids : db[id] # Absent => db'[id] = db[id] /\ db[id] \in Rows
    BY <2>1, <2>2 DEF IInv, TypeOK, Stores
  <2>4. req'[r].reply = req[r].reply
    BY <1>1 DEF CreateRow, Owned, IInv, TypeOK
  <2>. QED BY <1>0, <2>1, <2>3, <2>4, SameRow DEF RowsOwned, FixturesOwned
<1>2. CASE UpdateRow(r)
  <2>1. /\ \A id \in Ids : id # req[r].target => db'[id] = db[id]
        /\ \A id \in Ids : db[id] # Absent => db[id] \in Rows
        /\ UNCHANGED fixtures
    BY <1>2 DEF UpdateRow, IInv, TypeOK, Stores
  <2>2. req'[r].pc # req[r].pc
    BY <1>2 DEF UpdateRow, Goto, IInv, TypeOK
  <2>3. req[r].fleet \in req[r].owners
    BY <1>2 DEF UpdateRow, IInv, OwnersRecorded, Owning
  <2>. QED BY <1>0, <2>1, <2>2, <2>3, SameRow DEF RowsOwned, FixturesOwned
<1>3. CASE WriteConfirmed(r) \/ RecordAudit(r) \/ FindEquipment(r)
  BY <1>0, <1>3, ConfirmedIInv, EquipmentIInv, SameTable DEF FixturesOwned
<1>4. CASE LookUp(r) /\ db[req[r].target] # Absent
  BY <1>0, <1>4, LookUpFound, SameTable DEF FixturesOwned
<1>5. CASE \/ LookUp(r) /\ db[req[r].target] = Absent
           \/ WriteRefused(r)
           \/ CallFails(r)
  <2>1. FallBack(r) /\ UNCHANGED <<db, audit, acked>>
        /\ req[r].pc \in Creating \cup {"lookup", "update", "updated"} \cup Reading
    BY <1>5 DEF LookUp, WriteRefused, CallFails, Creating, Reading
  <2>2. PICK p \in Replicas, id \in Ids, row \in Rows :
          fixtures' \in {fixtures, [fixtures EXCEPT ![p][id] = row]} /\ row.fleet = req[r].fleet
    BY <2>1, FallBackIInv
  <2>3. req'[r].pc # req[r].pc /\ req'[r].reply # "200 db"
    BY <2>1, FallBackIInv
  <2>4. FixturesOwned
    <3>1. \A s \in Replicas, i \in Ids : fixtures'[s][i] \in {fixtures[s][i], row}
      BY <2>2 DEF IInv, TypeOK, Stores
    <3>. QED BY <2>2, <2>3, <3>1 DEF FixturesOwned
  <2>. QED BY <1>0, <2>1, <2>3, <2>4, SameTable
<1>. QED BY <1>1, <1>2, <1>3, <1>4, <1>5 DEF Handler

\* So does every other step, or it changes no row but its fleet.
LEMMA StepOwned ==
    ASSUME IInv, [Next]_vars
    PROVE  [RowsOwned /\ FixturesOwned /\ AnswersOwned]_vars
<1>1. CASE \E r \in Requests : Handler(r)
  BY <1>1, HandlerOwned
<1>2. CASE \E r \in Requests, p \in Replicas, f \in Fleets \cup {NoFleet} : Arrive(r, p, f)
  <2>1. UNCHANGED <<db, fixtures>>
    BY <1>2 DEF Arrive, PostVessel, PatchVessel, GetVessel, ForVessel
  <2>2. AnswersOwned
    <3>1. PICK r \in Requests, p \in Replicas, f \in Fleets \cup {NoFleet} : Arrive(r, p, f)
      BY <1>2
    <3>2. PICK id, b, pc : \E reply \in {"none", "403", "404"} : Begin(r, p, f, id, b, pc, reply)
      BY <3>1 DEF Arrive, PostVessel, PatchVessel, GetVessel, ForVessel
    <3>3. PICK begun : req' = [req EXCEPT ![r] = begun] /\ begun.reply \in {"none", "403", "404"}
      <4>1. PICK reply \in {"none", "403", "404"} : Begin(r, p, f, id, b, pc, reply)
        BY <3>2
      <4>. DEFINE owners == IF db[id] = Absent THEN {} ELSE {db[id].fleet}
                  begun == [pc |-> pc, on |-> p, fleet |-> f, target |-> id, body |-> b, reply |-> reply,
                            owners |-> owners]
      <4>2. req' = [req EXCEPT ![r] = begun]
        BY <4>1 DEF Begin
      <4>3. begun.reply = reply
        OBVIOUS
      <4>. QED BY <4>1, <4>2, <4>3
    <3>4. req'[r].reply # "200 db" /\ \A q \in Requests \ {r} : req'[q] = req[q]
      BY <3>3 DEF IInv, TypeOK
    <3>. QED BY <3>4 DEF AnswersOwned
  <2>. QED BY <2>1, <2>2, SameTable DEF FixturesOwned
<1>3. CASE \E p \in Replicas : Restart(p)
  <2>1. UNCHANGED db /\ \A p \in Replicas, id \in Ids : fixtures'[p][id] \in {fixtures[p][id], Seed[id]}
    BY <1>3 DEF Restart, IInv, TypeOK
  <2>2. AnswersOwned
    <3>1. \A q \in Requests : req'[q] = req[q] \/ req'[q] = [req[q] EXCEPT !.pc = "dead"]
      BY <1>3 DEF Restart
    <3>2. \A q \in Requests : [req[q] EXCEPT !.pc = "dead"].reply = req[q].reply
      BY DEF IInv, TypeOK
    <3>. QED BY <3>1, <3>2 DEF AnswersOwned
  <2>. QED BY <2>1, <2>2, SameTable DEF FixturesOwned
<1>4. CASE \E id \in Ids, f \in Fleets : Reassign(id, f)
  <2>1. PICK id \in Ids, f \in Fleets : Reassign(id, f)
    BY <1>4
  <2>2. UNCHANGED fixtures
    BY <2>1 DEF Reassign
  <2>3. \A i \in Ids : db[i] # Absent => db[i] \in Rows /\ db'[i] \in {db[i], [db[i] EXCEPT !.fleet = f]}
    BY <2>1 DEF Reassign, IInv, TypeOK, Stores
  <2>4. \A row \in Rows : [row EXCEPT !.fleet = f].fleet = f
    BY DEF Rows
  <2>5. RowsOwned
    BY <2>3, <2>4, SameRow DEF RowsOwned
  <2>6. AnswersOwned
    BY <2>1 DEF Reassign, Owned, IInv, TypeOK, AnswersOwned
  <2>. QED BY <2>2, <2>5, <2>6 DEF FixturesOwned
<1>5. CASE UNCHANGED vars
  BY <1>5
<1>. QED BY <1>1, <1>2, <1>3, <1>4, <1>5 DEF Next

\* A row changes, but for its fleet, and is answered only for a caller whose
\* fleet owned the vessel during the request, and a fixture changes only for its
\* own fleet.
THEOREM OwnFleets == Spec => OwnFleetOnly
<1>1. IInv /\ [Next]_vars => [RowsOwned /\ FixturesOwned /\ AnswersOwned]_vars
  BY StepOwned
<1>. QED BY <1>1, Inductive, PTL DEF Spec, OwnFleetOnly

===============================================================================
