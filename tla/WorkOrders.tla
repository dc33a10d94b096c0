----------------------------- MODULE WorkOrders -----------------------------
(***************************************************************************)
(* Persisted work orders: POST /api/maintenance/work-order and             *)
(* GET /api/maintenance/work-orders/:vesselId, served by several API       *)
(* replicas over one PostgreSQL database, while vessels change fleet and   *)
(* replicas stop.                                                          *)
(*                                                                         *)
(* Both handlers open a transaction, lock the vessel row FOR SHARE with    *)
(* its fleet in the WHERE clause, and then insert or read.  A handler and  *)
(* its database session are two processes: a COMMIT that was sent may take *)
(* effect after the handler stopped waiting for it, or never.              *)
(***************************************************************************)
EXTENDS FiniteSets

CONSTANTS
    Requests,   \* identities of HTTP requests; an order bears its request's
    Replicas,   \* API processes behind the load balancer
    Vessels,    \* vessel ids a request may name
    Fleets,     \* fleets
    NoFleet,    \* the claim of an account without a fleet
    NoRow,      \* the owner of a vessel id with no row in the database
    Equipment,  \* equipment ids of the catalogue
    Unknown,    \* an equipment id the catalogue does not hold
    VesselOf    \* the vessel of each catalogued equipment

ASSUME ConstantsAssumption ==
    /\ NoFleet \notin Fleets
    /\ NoRow \notin Fleets \cup {NoFleet}
    /\ Unknown \notin Equipment
    /\ VesselOf \in [Equipment -> Vessels]

VARIABLES
    owner,      \* Vessel.fleetId of each vessel row
    pc,         \* where each request's handler is
    arg,        \* what each request asked for, and the replica serving it
    tx,         \* the database session of each request
    orders,     \* committed WorkOrder rows
    audit,      \* orders with a committed AuditLog row
    reply,      \* the response each request received
    result,     \* the orders a list request has read
    promised    \* history: orders acknowledged when a list request arrived

vars == <<owner, pc, arg, tx, orders, audit, reply, result, promised>>

\* The ?status= filter of the list route.  No route changes an order's
\* status, so every row still has the column's default, "open".
Filters == {"any", "open", "completed"}
Keeps(filter) == filter \in {"any", "open"}

Ops == {"create", "list"}
Arguments == [op : Ops, replica : Replicas, fleet : Fleets \cup {NoFleet},
              vessel : Vessels, filter : Filters]
NoArguments == [op |-> "none"]
Waiting == {"lock", "insert", "read", "commit", "refused"}
PCs == {"idle", "audit", "respond", "done", "dead"} \cup Waiting
\* "empty": a COMMIT was sent by a session that locked no row.
TxStates == {"none", "open", "locked", "committing", "committed", "empty", "closed", "aborted"}
Replies == {"none", "200", "201", "400", "403", "503"}

TypeOK ==
    /\ owner \in [Vessels -> Fleets \cup {NoRow}]
    /\ pc \in [Requests -> PCs]
    /\ arg \in [Requests -> Arguments \cup {NoArguments}]
    /\ tx \in [Requests -> TxStates]
    /\ orders \subseteq Requests
    /\ audit \subseteq Requests
    /\ reply \in [Requests -> Replies]
    /\ result \in [Requests -> SUBSET Requests]
    /\ promised \in [Requests -> SUBSET Requests]

Init ==
    /\ owner \in [Vessels -> Fleets \cup {NoRow}]
    /\ pc = [r \in Requests |-> "idle"]
    /\ arg = [r \in Requests |-> NoArguments]
    /\ tx = [r \in Requests |-> "none"]
    /\ orders = {}
    /\ audit = {}
    /\ reply = [r \in Requests |-> "none"]
    /\ result = [r \in Requests |-> {}]
    /\ promised = [r \in Requests |-> {}]

-----------------------------------------------------------------------------
(* The handlers *)

\* The handler answers and returns.
Answer(r, status) ==
    /\ pc' = [pc EXCEPT ![r] = "done"]
    /\ reply' = [reply EXCEPT ![r] = status]

\* prisma.$transaction: the session opens and the lock statement is sent.
BeginTransaction(r) ==
    /\ pc' = [pc EXCEPT ![r] = "lock"]
    /\ tx' = [tx EXCEPT ![r] = "open"]
    /\ UNCHANGED reply

\* POST /work-order up to its first await: the caller needs a fleet, and a
\* catalogued equipment must be on the vessel named.
PostWorkOrder(r, p, f, v, e) ==
    /\ pc[r] = "idle"
    /\ arg' = [arg EXCEPT ![r] = [op |-> "create", replica |-> p, fleet |-> f,
                                  vessel |-> v, filter |-> "any"]]
    /\ IF f = NoFleet THEN Answer(r, "403") /\ UNCHANGED tx
       ELSE IF e \in Equipment /\ VesselOf[e] # v THEN Answer(r, "400") /\ UNCHANGED tx
       ELSE BeginTransaction(r)
    /\ UNCHANGED <<owner, orders, audit, result, promised>>

\* Orders of vessel v whose creators have been told 201.
Acknowledged(v) == {o \in Requests : reply[o] = "201" /\ arg[o].vessel = v}

\* GET /work-orders/:vesselId up to its first await.
GetWorkOrders(r, p, f, v, s) ==
    /\ pc[r] = "idle"
    /\ arg' = [arg EXCEPT ![r] = [op |-> "list", replica |-> p, fleet |-> f,
                                  vessel |-> v, filter |-> s]]
    /\ promised' = [promised EXCEPT ![r] = Acknowledged(v)]
    /\ IF f = NoFleet THEN Answer(r, "403") /\ UNCHANGED tx
       ELSE BeginTransaction(r)
    /\ UNCHANGED <<owner, orders, audit, result>>

\* Mutant: an ownership read that does not filter on the caller's fleet.
LockOwnedVessel_AnyFleet(r) ==
    /\ pc[r] = "lock"
    /\ tx[r] = "open"
    /\ tx' = [tx EXCEPT ![r] = "locked"]
    /\ pc' = [pc EXCEPT ![r] = IF arg[r].op = "create" THEN "insert" ELSE "read"]
    /\ UNCHANGED <<owner, arg, orders, audit, reply, result, promised>>

\* lockOwnedVessel: SELECT ... WHERE id AND fleetId FOR SHARE.  Share locks do
\* not exclude each other; with no row the callback returns null, and Prisma
\* sends the COMMIT of a transaction that did nothing.
LockOwnedVessel(r) ==
    /\ pc[r] = "lock"
    /\ tx[r] = "open"
    /\ IF owner[arg[r].vessel] = arg[r].fleet
       THEN /\ tx' = [tx EXCEPT ![r] = "locked"]
            /\ pc' = [pc EXCEPT ![r] = IF arg[r].op = "create" THEN "insert" ELSE "read"]
       ELSE /\ tx' = [tx EXCEPT ![r] = "empty"]
            /\ pc' = [pc EXCEPT ![r] = "refused"]
    /\ UNCHANGED <<owner, arg, orders, audit, reply, result, promised>>

\* The transaction that found no row has ended: 403.
Refuse(r) ==
    /\ pc[r] = "refused"
    /\ tx[r] = "closed"
    /\ Answer(r, "403")
    /\ UNCHANGED <<owner, arg, tx, orders, audit, result, promised>>

\* tx.workOrder.create, and with its row the COMMIT that Prisma sends when the
\* callback returns.  Nobody else sees the row before the commit.
InsertWorkOrder(r) ==
    /\ pc[r] = "insert"
    /\ tx[r] = "locked"
    /\ pc' = [pc EXCEPT ![r] = "commit"]
    /\ tx' = [tx EXCEPT ![r] = "committing"]
    /\ UNCHANGED <<owner, arg, orders, audit, reply, result, promised>>

\* Mutant: the transaction is not awaited.
CommitReturns_Unawaited(r) ==
    /\ pc[r] = "commit"
    /\ arg[r].op = "create"
    /\ pc' = [pc EXCEPT ![r] = "audit"]
    /\ UNCHANGED <<owner, arg, tx, orders, audit, reply, result, promised>>

\* The handler learns that the order is committed.
CommitReturns(r) ==
    /\ pc[r] = "commit"
    /\ arg[r].op = "create"
    /\ tx[r] = "committed"
    /\ pc' = [pc EXCEPT ![r] = "audit"]
    /\ UNCHANGED <<owner, arg, tx, orders, audit, reply, result, promised>>

\* recordAudit appends the trail's row, or fails and only logs that it did:
\* it never throws, so the handler goes on either way.
RecordAudit(r) ==
    /\ pc[r] = "audit"
    /\ pc' = [pc EXCEPT ![r] = "respond"]
    /\ audit' \in {audit, audit \cup {r}}
    /\ UNCHANGED <<owner, arg, tx, orders, reply, result, promised>>

RespondCreated(r) ==
    /\ pc[r] = "respond"
    /\ Answer(r, "201")
    /\ UNCHANGED <<owner, arg, tx, orders, audit, result, promised>>

\* Mutant: each replica lists the orders it saved itself.
ReadWorkOrders_PerReplica(r) ==
    /\ pc[r] = "read"
    /\ tx[r] = "locked"
    /\ result' = [result EXCEPT ![r] = {o \in orders : arg[o].vessel = arg[r].vessel
                                                      /\ arg[o].replica = arg[r].replica
                                                      /\ Keeps(arg[r].filter)}]
    /\ tx' = [tx EXCEPT ![r] = "committing"]
    /\ pc' = [pc EXCEPT ![r] = "commit"]
    /\ UNCHANGED <<owner, arg, orders, audit, reply, promised>>

\* tx.workOrder.findMany under the lock, and with its rows the COMMIT.
ReadWorkOrders(r) ==
    /\ pc[r] = "read"
    /\ tx[r] = "locked"
    /\ result' = [result EXCEPT ![r] = {o \in orders : arg[o].vessel = arg[r].vessel
                                                      /\ Keeps(arg[r].filter)}]
    /\ tx' = [tx EXCEPT ![r] = "committing"]
    /\ pc' = [pc EXCEPT ![r] = "commit"]
    /\ UNCHANGED <<owner, arg, orders, audit, reply, promised>>

\* The transaction of the read has ended; the rows go out, although orders may
\* have been added and the vessel moved since they were read.
RespondBoard(r) ==
    /\ pc[r] = "commit"
    /\ arg[r].op = "list"
    /\ tx[r] = "committed"
    /\ Answer(r, "200")
    /\ UNCHANGED <<owner, arg, tx, orders, audit, result, promised>>

\* Mutant: the ownership statement is awaited outside the try.
DbCallFails_LockUncaught(r) ==
    /\ pc[r] \in Waiting \ {"lock"}
    /\ Answer(r, "503")
    /\ UNCHANGED <<owner, arg, tx, orders, audit, result, promised>>

\* A statement rejects: the connection failed, the session was aborted, or
\* Prisma's transaction timeout passed.  The handler answers 503 and forgets
\* the session, whatever state the session is in.
DbCallFails(r) ==
    /\ pc[r] \in Waiting
    /\ Answer(r, "503")
    /\ UNCHANGED <<owner, arg, tx, orders, audit, result, promised>>

\* A replica stops: its handlers vanish without an answer.
Crash(p) ==
    /\ \E r \in Requests : pc[r] \notin {"idle", "done", "dead"} /\ arg[r].replica = p
    /\ pc' = [r \in Requests |->
                IF pc[r] \notin {"idle", "done", "dead"} /\ arg[r].replica = p
                THEN "dead" ELSE pc[r]]
    /\ UNCHANGED <<owner, arg, tx, orders, audit, reply, result, promised>>

-----------------------------------------------------------------------------
(* The database and the people who administer it *)

\* COMMIT takes effect: a created order is durable and the lock released.
DbCommit(r) ==
    /\ tx[r] \in {"committing", "empty"}
    /\ tx' = [tx EXCEPT ![r] = IF tx[r] = "empty" THEN "closed" ELSE "committed"]
    /\ orders' = IF tx[r] = "committing" /\ arg[r].op = "create" THEN orders \cup {r} ELSE orders
    /\ UNCHANGED <<owner, pc, arg, audit, reply, result, promised>>

\* The server rolls a session back: connection lost, timeout, or restart.
DbAbort(r) ==
    /\ tx[r] \in {"open", "locked", "committing", "empty"}
    /\ tx' = [tx EXCEPT ![r] = "aborted"]
    /\ UNCHANGED <<owner, pc, arg, orders, audit, reply, result, promised>>

\* Mutant: a plain SELECT, which locks nothing.
Holders_PlainSelect(v) == {}

\* Sessions holding the share lock of v's row.
Holders(v) == {r \in Requests : tx[r] \in {"locked", "committing"} /\ arg[r].vessel = v}

\* The trusted admin flow moves a vessel to another fleet: an UPDATE of its
\* row, which waits for the share locks.
Reassign(v, f) ==
    /\ owner[v] \in Fleets \ {f}
    /\ Holders(v) = {}
    /\ owner' = [owner EXCEPT ![v] = f]
    /\ UNCHANGED <<pc, arg, tx, orders, audit, reply, result, promised>>

-----------------------------------------------------------------------------
Handler(r) ==
    \/ LockOwnedVessel(r)
    \/ Refuse(r)
    \/ InsertWorkOrder(r)
    \/ CommitReturns(r)
    \/ RecordAudit(r)
    \/ RespondCreated(r)
    \/ ReadWorkOrders(r)
    \/ RespondBoard(r)
    \/ DbCallFails(r)

Database(r) == DbCommit(r) \/ DbAbort(r)

Arrive(r) ==
    \E p \in Replicas, f \in Fleets \cup {NoFleet}, v \in Vessels :
        \/ \E e \in Equipment \cup {Unknown} : PostWorkOrder(r, p, f, v, e)
        \/ \E s \in Filters : GetWorkOrders(r, p, f, v, s)

Next ==
    \/ \E r \in Requests : Arrive(r) \/ Handler(r) \/ Database(r)
    \/ \E p \in Replicas : Crash(p)
    \/ \E v \in Vessels, f \in Fleets : Reassign(v, f)

Spec == Init /\ [][Next]_vars

\* A session whose handler is gone (the connection closes) or was thrown an
\* error (Prisma rolls back).
Abandoned(r) == pc[r] = "dead" \/ reply[r] = "503"

\* A handler keeps running: each await settles, if only by Prisma's
\* transaction timeout.  The server acts on a COMMIT it received and ends
\* abandoned sessions.  Nothing obliges clients to send requests, replicas to
\* crash, vessels to change hands or healthy sessions to be aborted.
Fairness ==
    \A r \in Requests :
        /\ WF_vars(Handler(r))
        /\ WF_vars(DbCommit(r))
        /\ WF_vars(Abandoned(r) /\ DbAbort(r))

FairSpec == Spec /\ Fairness

-----------------------------------------------------------------------------
(* What the routes promise *)

\* An order becomes durable, and a board is read, only while the vessel belongs
\* to the fleet the caller acts for, and still when the transaction of the read
\* ends: "keep ownership stable until the persisted read/write completes"
\* (maintenance.ts:93), although the owner is checked one statement earlier and
\* vessels change hands in between.
OwnershipAtEffect ==
    \A r \in Requests :
        \/ r \in orders' \ orders
        \/ pc[r] = "read" /\ pc'[r] = "commit"
        \/ tx[r] # "committed" /\ tx'[r] = "committed"
        => owner[arg[r].vessel] = arg[r].fleet
OwnedAtEffect == [][OwnershipAtEffect]_vars

\* The caller who was told 201 has a durable order; the caller refused with
\* 400 or 403 has none, and no COMMIT of theirs is still on its way.
RepliesAreTrue ==
    \A r \in Requests :
        /\ reply[r] = "201" => r \in orders
        /\ reply[r] \in {"400", "403"} => r \notin orders /\ tx[r] # "committing"

\* No trail of an order that does not exist: the audit row is written after
\* the commit is known, by a call that cannot undo it.
AuditIsSound == audit \subseteq orders

\* Whichever replica lists the vessel's orders, every order acknowledged
\* before the request arrived is on the board: the failure the route "was
\* moved out of memory to stop making" (maintenance.ts:352-355).
BoardIsCurrent ==
    \A r \in Requests :
        reply[r] = "200" /\ Keeps(arg[r].filter) => promised[r] \subseteq result[r]

\* Every request is answered unless its replica stops first.
Answered == \A r \in Requests : pc[r] # "idle" ~> pc[r] \in {"done", "dead"}

\* The refinement mapping: the committed rows, with the vessel and the fleet
\* of the request that made them, are the ledger.
Ledger == INSTANCE WorkOrderLedger WITH
    Ids <- Requests,
    ledger <- {[id |-> o, vessel |-> arg[o].vessel, fleet |-> arg[o].fleet] : o \in orders},
    acked <- {o \in Requests : reply[o] = "201"},
    trail <- audit,
    board <- result

\* The locked transactions, over any number of replicas that fail at any
\* point, implement the atomic ledger.
ImplementsLedger == Ledger!Spec
=============================================================================
