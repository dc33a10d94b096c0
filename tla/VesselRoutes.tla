----------------------------- MODULE VesselRoutes -----------------------------
(***************************************************************************)
(* Creating, reading and editing one vessel (routes/fleet.ts): every       *)
(* replica tries the shared database first and, on any rejection, falls    *)
(* back to its own in-memory fixtures (mock/vessels.ts MOCK_VESSELS),      *)
(* which a restart resets.  Only writes to the database are audited        *)
(* (lib/audit.ts).                                                         *)
(*                                                                         *)
(* Of a vessel's attributes the unique IMO number and one other, its name, *)
(* are kept.                                                               *)
(***************************************************************************)
CONSTANTS
    Requests, Replicas, Fleets, Imos,
    Seeded,     \* the seeded vessels: in the database and in the fixtures
    SeedRow,    \* their rows
    Names,
    Bodies,     \* the bodies clients send
    Keep,       \* a field absent from a PATCH body
    NoFleet,    \* the fleetId of a user without a fleet
    Absent      \* no row

Rows == [imo : Imos, fleet : Fleets, name : Names]

\* Identifiers never collide: seeded, generated by the database, or generated
\* for a fixture.
Ids == Seeded \cup {"db", "mem"} \X Requests

ASSUME VesselAssumption ==
    /\ Bodies \subseteq [imo : Imos \cup {Keep}, name : Names \cup {Keep}]
    /\ Keep \notin Imos \cup Names
    /\ Seeded # {} /\ Replicas # {}
    /\ NoFleet \notin Fleets
    /\ Absent \notin Rows
    /\ Seeded \cap ({"db", "mem"} \X Requests) = {}
    /\ SeedRow \in [Seeded -> Rows]
    /\ \A v, w \in Seeded : SeedRow[v].imo = SeedRow[w].imo => v = w

VARIABLES
    db,        \* the Vessel table
    fixtures,  \* per replica, MOCK_VESSELS
    audit,     \* the AuditLog table: the vessels it names
    req,       \* per request, where its handler stands
    acked      \* requests whose write the database confirmed to the handler

vars == <<db, fixtures, audit, req, acked>>

Stores == [Ids -> Rows \cup {Absent}]

Pcs == {"new", "create", "created", "lookup", "update", "updated", "audit", "find", "equipment", "done", "dead"}

\* An answer with a body says whether it is a row of the table or a fixture.
Replies == {"none", "201 db", "201 mem", "200 db", "200 mem", "403", "404"}

TypeOK ==
    /\ db \in Stores
    /\ fixtures \in [Replicas -> Stores]
    /\ audit \subseteq Ids
    /\ req \in [Requests -> [pc : Pcs, on : Replicas, fleet : Fleets \cup {NoFleet}, target : Ids,
                             body : Bodies \cup {Keep}, owners : SUBSET Fleets, reply : Replies]]
    /\ acked \subseteq Requests

Seed == [id \in Ids |-> IF id \in Seeded THEN SeedRow[id] ELSE Absent]

\* VesselCreateSchema requires every attribute; VesselUpdateSchema requires none.
CreateBodies == {b \in Bodies : Keep \notin {b.imo, b.name}}

Init ==
    /\ db = Seed
    /\ fixtures = [p \in Replicas |-> Seed]
    /\ audit = {}
    /\ req \in [Requests -> [pc : {"new"}, on : {CHOOSE p \in Replicas : TRUE}, fleet : {NoFleet},
                             target : {CHOOSE v \in Seeded : TRUE}, body : {Keep},
                             owners : {{}}, reply : {"none"}]]
    /\ acked = {}

-----------------------------------------------------------------------------
(* What a handler does between two awaits *)

New(b, f) == [imo |-> b.imo, fleet |-> f, name |-> b.name]

Or(new, old) == IF new = Keep THEN old ELSE new

Patched(row, b) == [imo |-> Or(b.imo, row.imo), fleet |-> row.fleet, name |-> Or(b.name, row.name)]

\* The requests about a vessel, once fleet f owns it.
Owned(id, f) == [r \in Requests |-> IF req[r].target = id /\ req[r].pc \notin {"new", "done", "dead"}
                                    THEN [req[r] EXCEPT !.owners = @ \cup {f}] ELSE req[r]]

Goto(r, pc) == req' = [req EXCEPT ![r].pc = pc]

Reply(r, reply) == req' = [req EXCEPT ![r].pc = "done", ![r].reply = reply]

PutFixture(r, id, row) == fixtures' = [fixtures EXCEPT ![req[r].on][id] = row]

\* The end of POST: append to the fixtures and answer 201.
CreateFixture(r) ==
    /\ PutFixture(r, <<"mem", r>>, New(req[r].body, req[r].fleet))
    /\ Reply(r, "201 mem")

Fixture(r) == fixtures[req[r].on][req[r].target]

\* requireVessel on the fixtures answers 404 or 403 itself.
RefusedFixture(r) ==
    /\ \/ Fixture(r) = Absent /\ Reply(r, "404")
       \/ Fixture(r) # Absent /\ Fixture(r).fleet # req[r].fleet /\ Reply(r, "403")
    /\ UNCHANGED fixtures

OwnFixture(r) == Fixture(r) # Absent /\ Fixture(r).fleet = req[r].fleet

\* The end of PATCH, Object.assign, and the end of GET.
PatchFixture(r) ==
    OwnFixture(r) /\ PutFixture(r, req[r].target, Patched(Fixture(r), req[r].body)) /\ Reply(r, "200 mem")

ReadFixture(r) == OwnFixture(r) /\ Reply(r, "200 mem") /\ UNCHANGED fixtures

Creating == {"create", "created"}
Reading == {"find", "equipment"}

FallBack(r) ==
    \/ req[r].pc \in Creating /\ CreateFixture(r)
    \/ req[r].pc \notin Creating /\ RefusedFixture(r)
    \/ req[r].pc \in Reading /\ ReadFixture(r)
    \/ req[r].pc \notin Creating \cup Reading /\ PatchFixture(r)

-----------------------------------------------------------------------------
(* Handlers *)

Begin(r, p, f, id, b, pc, reply) ==
    req' = [req EXCEPT ![r] = [pc |-> pc, on |-> p, fleet |-> f, target |-> id, body |-> b, reply |-> reply,
                               owners |-> IF db[id] = Absent THEN {} ELSE {db[id].fleet}]]

PostVessel(r, p, f, b) ==
    /\ req[r].pc = "new"
    /\ IF f = NoFleet THEN Begin(r, p, f, <<"db", r>>, b, "done", "403")
                      ELSE Begin(r, p, f, <<"db", r>>, b, "create", "none")
    /\ UNCHANGED <<db, fixtures, audit, acked>>

\* Without a fleet the database is not asked and requireVessel refuses.
ForVessel(r, p, f, id, b, pc) ==
    /\ req[r].pc = "new"
    /\ IF f = NoFleet
       THEN Begin(r, p, f, id, b, "done", IF fixtures[p][id] = Absent THEN "404" ELSE "403")
       ELSE Begin(r, p, f, id, b, pc, "none")
    /\ UNCHANGED <<db, fixtures, audit, acked>>

PatchVessel(r, p, f, id, b) == ForVessel(r, p, f, id, b, "lookup")

GetVessel(r, p, f, id) == ForVessel(r, p, f, id, Keep, "find")

\* imoNumber is unique in the table.
Free(imo, id) == \A o \in Ids \ {id} : db[o] # Absent => db[o].imo # imo

\* The await of vessel.create: the row is in the table.
CreateRow(r) ==
    /\ req[r].pc = "create"
    /\ Free(req[r].body.imo, <<"db", r>>)
    /\ db' = [db EXCEPT ![<<"db", r>>] = New(req[r].body, req[r].fleet)]
    /\ req' = [Owned(<<"db", r>>, req[r].fleet) EXCEPT ![r].pc = "created"]
    /\ UNCHANGED <<fixtures, audit, acked>>

\* The fleet of the row is not compared.
LookUp_AnyFleet(r) ==
    /\ req[r].pc \in {"lookup", "find"}
    /\ \/ db[req[r].target] = Absent /\ FallBack(r)
       \/ /\ db[req[r].target] # Absent /\ UNCHANGED fixtures
          /\ Goto(r, IF req[r].pc = "find" THEN "equipment" ELSE "update")
    /\ UNCHANGED <<db, audit, acked>>

\* vessel.findUnique, and the ownership check on what it returned, before a
\* PATCH goes on to the update and a GET to the vessel's equipment.
LookUp(r) ==
    /\ req[r].pc \in {"lookup", "find"}
    /\ LET row == db[req[r].target]
       IN  \/ row = Absent /\ FallBack(r)
           \/ row # Absent /\ row.fleet # req[r].fleet /\ Reply(r, "403") /\ UNCHANGED fixtures
           \/ /\ row # Absent /\ row.fleet = req[r].fleet /\ UNCHANGED fixtures
              /\ Goto(r, IF req[r].pc = "find" THEN "equipment" ELSE "update")
    /\ UNCHANGED <<db, audit, acked>>

\* equipment.findMany: the answer is the row found before it.
FindEquipment(r) ==
    /\ req[r].pc = "equipment"
    /\ Reply(r, "200 db")
    /\ UNCHANGED <<db, fixtures, audit, acked>>

\* vessel.update, by id alone.
UpdateRow(r) ==
    /\ req[r].pc = "update"
    /\ Free(Patched(db[req[r].target], req[r].body).imo, req[r].target)
    /\ db' = [db EXCEPT ![req[r].target] = Patched(@, req[r].body)]
    /\ Goto(r, "updated")
    /\ UNCHANGED <<fixtures, audit, acked>>

\* A write that would repeat an imoNumber is rejected (P2002).
WriteRefused(r) ==
    /\ \/ req[r].pc = "create" /\ ~Free(req[r].body.imo, <<"db", r>>)
       \/ req[r].pc = "update" /\ ~Free(Patched(db[req[r].target], req[r].body).imo, req[r].target)
    /\ FallBack(r)
    /\ UNCHANGED <<db, audit, acked>>

\* The audit moved behind the fallback.
CallFails_Audited(r) ==
    /\ req[r].pc \in {"create", "created"}
    /\ CreateFixture(r)
    /\ audit' = audit \cup {<<"mem", r>>}
    /\ UNCHANGED <<db, acked>>

\* A call cannot be made, or its answer is lost after it took effect.
CallFails(r) ==
    /\ req[r].pc \in Creating \cup {"lookup", "update", "updated"} \cup Reading
    /\ FallBack(r)
    /\ UNCHANGED <<db, audit, acked>>

WriteConfirmed(r) ==
    /\ req[r].pc \in {"created", "updated"}
    /\ acked' = acked \cup {r}
    /\ Goto(r, "audit")
    /\ UNCHANGED <<db, fixtures, audit>>

DbReply(r) == IF req[r].target = <<"db", r>> THEN "201 db" ELSE "200 db"

\* recordAudit throws into the handler's try.
RecordAudit_Throws(r) ==
    /\ req[r].pc = "audit"
    /\ \/ audit' = audit \cup {req[r].target} /\ Reply(r, DbReply(r)) /\ UNCHANGED fixtures
       \/ audit' = audit /\ req[r].target = <<"db", r>> /\ CreateFixture(r)
    /\ UNCHANGED <<db, acked>>

\* recordAudit never throws: the row may be missing, the answer is the same.
RecordAudit(r) ==
    /\ req[r].pc = "audit"
    /\ audit' \in {audit, audit \cup {req[r].target}}
    /\ Reply(r, DbReply(r))
    /\ UNCHANGED <<db, fixtures, acked>>

-----------------------------------------------------------------------------
(* The environment *)

\* A replica restarts: its handlers are gone and its fixtures are the seed.
Restart(p) ==
    /\ fixtures' = [fixtures EXCEPT ![p] = Seed]
    /\ req' = [r \in Requests |-> IF req[r].on = p /\ req[r].pc \notin {"new", "done"}
                                  THEN [req[r] EXCEPT !.pc = "dead"] ELSE req[r]]
    /\ UNCHANGED <<db, audit, acked>>

\* An administrator moves a vessel to another fleet.
Reassign(id, f) ==
    /\ db[id] # Absent
    /\ db' = [db EXCEPT ![id].fleet = f]
    /\ req' = Owned(id, f)
    /\ UNCHANGED <<fixtures, audit, acked>>

Handler(r) ==
    \/ CreateRow(r) \/ LookUp(r) \/ UpdateRow(r) \/ WriteRefused(r) \/ CallFails(r)
    \/ WriteConfirmed(r) \/ RecordAudit(r) \/ FindEquipment(r)

Arrive(r, p, f) ==
    \/ \E b \in CreateBodies : PostVessel(r, p, f, b)
    \/ \E id \in Ids, b \in Bodies : PatchVessel(r, p, f, id, b)
    \/ \E id \in Ids : GetVessel(r, p, f, id)

Next ==
    \/ \E r \in Requests : Handler(r)
    \/ \E r \in Requests, p \in Replicas, f \in Fleets \cup {NoFleet} : Arrive(r, p, f)
    \/ \E p \in Replicas : Restart(p)
    \/ \E id \in Ids, f \in Fleets : Reassign(id, f)

Spec == Init /\ [][Next]_vars

-----------------------------------------------------------------------------
(* Properties *)

\* "a rejected audit row must not be able to turn a successful vessel creation
\* into a phantom fixture" (audit.ts:25-26): a request that was answered from
\* the fixtures was never confirmed by the database.
NoPhantom == \A r \in acked : req[r].reply \notin {"201 mem", "200 mem"} /\
                              \A p \in Replicas : fixtures[p][<<"mem", r>>] = Absent

\* The trail names only vessels that a restart does not discard.
AuditIsDurable == \A id \in audit : db[id] # Absent

RowsOwned ==
    \A id \in Ids : db[id] # Absent /\ [db[id] EXCEPT !.fleet = db'[id].fleet] # db'[id] =>
      \E r \in Requests : req'[r].pc # req[r].pc /\ req[r].target = id /\ req[r].fleet \in req[r].owners

FixturesOwned ==
    \A p \in Replicas, id \in Ids : fixtures'[p][id] \notin {fixtures[p][id], Seed[id]} =>
      \E r \in Requests : req'[r].pc # req[r].pc /\ req[r].fleet = fixtures'[p][id].fleet

AnswersOwned ==
    \A r \in Requests : req'[r].reply # req[r].reply /\ req'[r].reply = "200 db" => req[r].fleet \in req[r].owners

\* A row's attributes change for, and a row is answered to, only a caller whose
\* fleet owned the vessel at some moment of the request; a fixture's attributes
\* change only for its fleet.
OwnFleetOnly == [][RowsOwned /\ FixturesOwned /\ AnswersOwned]_vars
=============================================================================
