-------------------------- MODULE WorkOrdersProofs --------------------------
(* Theorems about WorkOrders, for any sets of requests, replicas, vessels  *)
(* and fleets.                                                             *)
EXTENDS WorkOrders, TLAPS

\* A session that locked its vessel keeps the vessel in the caller's fleet.
LockedIsOwned ==
    \A r \in Requests :
        tx[r] \in {"locked", "committing"} => owner[arg[r].vessel] = arg[r].fleet

\* The committed rows are those of the sessions that committed an insert.
OrdersAreCommitted == \A r \in Requests : r \in orders <=> tx[r] = "committed" /\ arg[r].op = "create"

\* What a handler's position says of its session and its response.
Control ==
    \A r \in Requests :
        /\ pc[r] = "idle" => tx[r] = "none" /\ promised[r] = {}
        /\ pc[r] # "idle" => arg[r] \in Arguments
        /\ pc[r] # "done" => reply[r] = "none"
        /\ pc[r] \in {"insert", "audit", "respond"} \/ reply[r] = "201" => arg[r].op = "create"
        /\ pc[r] \in {"audit", "respond"} \/ reply[r] = "201" => tx[r] = "committed"
        /\ reply[r] \in {"400", "403"} => tx[r] \in {"none", "closed"}

\* A board that was read and is yet to be answered, or was.
BoardRead(r) == (pc[r] = "commit" /\ arg[r].op = "list") \/ reply[r] = "200"

\* Acknowledged orders stay on their vessel's board.
PromisesAreKept ==
    \A r \in Requests :
        /\ pc[r] # "idle" => \A o \in promised[r] : /\ o \in orders
                                                    /\ arg[o].vessel = arg[r].vessel
        /\ BoardRead(r) /\ Keeps(arg[r].filter) => promised[r] \subseteq result[r]

IInv ==
    /\ TypeOK
    /\ LockedIsOwned
    /\ OrdersAreCommitted
    /\ AuditIsSound
    /\ Control
    /\ PromisesAreKept

-----------------------------------------------------------------------------
(* A request that was just sent. *)

\* A request that arrives keeps the types.
LEMMA ArriveTypeOK ==
    ASSUME TypeOK, NEW r \in Requests, Arrive(r)
    PROVE  TypeOK'
<1>1. PICK p \in Replicas, f \in Fleets \cup {NoFleet}, v \in Vessels :
         \/ \E e \in Equipment \cup {Unknown} : PostWorkOrder(r, p, f, v, e)
         \/ \E s \in Filters : GetWorkOrders(r, p, f, v, s)
  BY DEF Arrive
<1>2. ASSUME NEW e \in Equipment \cup {Unknown}, PostWorkOrder(r, p, f, v, e)
      PROVE  TypeOK'
  BY <1>2 DEF TypeOK, PostWorkOrder, Answer, BeginTransaction, PCs, Waiting,
              TxStates, Replies, Arguments, Ops, Filters
<1>3. ASSUME NEW s \in Filters, GetWorkOrders(r, p, f, v, s)
      PROVE  TypeOK'
  BY <1>3 DEF TypeOK, GetWorkOrders, Answer, BeginTransaction, PCs, Waiting,
              TxStates, Replies, Arguments, Ops, Filters, Acknowledged
<1>. QED BY <1>1, <1>2, <1>3

\* So does every other step.
LEMMA StepTypeOK ==
    ASSUME TypeOK, [Next]_vars
    PROVE  TypeOK'
<1>1. ASSUME NEW r \in Requests, Arrive(r) PROVE TypeOK'
  BY <1>1, ArriveTypeOK
<1>2. ASSUME NEW r \in Requests, Handler(r) PROVE TypeOK'
  <2>1. CASE LockOwnedVessel(r)
    BY <2>1 DEF TypeOK, LockOwnedVessel, PCs, Waiting, TxStates
  <2>2. CASE InsertWorkOrder(r)
    BY <2>2 DEF TypeOK, InsertWorkOrder, PCs, Waiting, TxStates
  <2>3. CASE CommitReturns(r)
    BY <2>3 DEF TypeOK, CommitReturns, PCs
  <2>4. CASE RecordAudit(r)
    BY <2>4 DEF TypeOK, RecordAudit, PCs
  <2>5. CASE RespondCreated(r)
    BY <2>5 DEF TypeOK, RespondCreated, Answer, PCs, Replies
  <2>6. CASE ReadWorkOrders(r)
    BY <2>6 DEF TypeOK, ReadWorkOrders, PCs, Waiting, TxStates
  <2>7. CASE DbCallFails(r)
    BY <2>7 DEF TypeOK, DbCallFails, Answer, PCs, Replies
  <2>8. CASE Refuse(r)
    BY <2>8 DEF TypeOK, Refuse, Answer, PCs, Replies
  <2>9. CASE RespondBoard(r)
    BY <2>9 DEF TypeOK, RespondBoard, Answer, PCs, Replies
  <2>. QED BY <1>2, <2>1, <2>2, <2>3, <2>4, <2>5, <2>6, <2>7, <2>8, <2>9 DEF Handler
<1>3. ASSUME NEW r \in Requests, Database(r) PROVE TypeOK'
  BY <1>3 DEF TypeOK, Database, DbCommit, DbAbort, TxStates
<1>4. ASSUME NEW p \in Replicas, Crash(p) PROVE TypeOK'
  BY <1>4 DEF TypeOK, Crash, PCs
<1>5. ASSUME NEW v \in Vessels, NEW f \in Fleets, Reassign(v, f) PROVE TypeOK'
  BY <1>5 DEF TypeOK, Reassign
<1>6. CASE UNCHANGED vars
  BY <1>6 DEF TypeOK, vars
<1>. QED BY <1>1, <1>2, <1>3, <1>4, <1>5, <1>6 DEF Next

\* Every state of every behaviour of the specification is well typed.
THEOREM TypeCorrect == Spec => []TypeOK
<1>1. Init => TypeOK
  BY DEF Init, TypeOK, PCs, TxStates, Replies
<1>2. TypeOK /\ [Next]_vars => TypeOK'
  BY StepTypeOK
<1>. QED BY <1>1, <1>2, PTL DEF Spec

-----------------------------------------------------------------------------
(* The inductive invariant: one lemma for arrivals, one for the handlers'  *)
(* steps, and the database's and the environment's in the theorem.         *)

\* A request that arrives keeps the invariant.
LEMMA ArriveIInv ==
    ASSUME IInv, NEW r \in Requests, Arrive(r)
    PROVE  IInv'
<1>1. TypeOK'
  BY ArriveTypeOK DEF IInv
<1>2. PICK p \in Replicas, f \in Fleets \cup {NoFleet}, v \in Vessels :
         \/ \E e \in Equipment \cup {Unknown} : PostWorkOrder(r, p, f, v, e)
         \/ \E s \in Filters : GetWorkOrders(r, p, f, v, s)
  BY DEF Arrive
<1>3. ASSUME NEW e \in Equipment \cup {Unknown}, PostWorkOrder(r, p, f, v, e)
      PROVE  IInv'
  <2>. USE <1>3 DEF IInv, TypeOK, PostWorkOrder, Answer, BeginTransaction
  <2>1. LockedIsOwned'  BY DEF LockedIsOwned, Control
  <2>2. OrdersAreCommitted' /\ AuditIsSound'
    BY DEF OrdersAreCommitted, AuditIsSound, Control
  <2>3. Control'  BY DEF Control, Arguments, Ops, Filters
  <2>4. PromisesAreKept'
    <3>1. \A o \in orders : o # r
      BY DEF OrdersAreCommitted, Control
    <3>. QED BY <3>1 DEF PromisesAreKept, BoardRead, Control
  <2>. QED BY <1>1, <2>1, <2>2, <2>3, <2>4 DEF IInv
<1>4. ASSUME NEW s \in Filters, GetWorkOrders(r, p, f, v, s)
      PROVE  IInv'
  <2>. USE <1>4 DEF IInv, TypeOK, GetWorkOrders, Answer, BeginTransaction
  <2>1. LockedIsOwned'  BY DEF LockedIsOwned, Control
  <2>2. OrdersAreCommitted' /\ AuditIsSound'
    BY DEF OrdersAreCommitted, AuditIsSound, Control
  <2>3. Control'  BY DEF Control, Arguments, Ops, Filters
  <2>4. PromisesAreKept'
    <3>1. \A o \in orders : o # r
      BY DEF OrdersAreCommitted, Control
    <3>2. \A o \in Acknowledged(v) : o \in orders /\ o # r /\ arg[o].vessel = v
      BY <3>1 DEF Acknowledged, OrdersAreCommitted, Control
    <3>. QED BY <3>1, <3>2 DEF PromisesAreKept, BoardRead, Control
  <2>. QED BY <1>1, <2>1, <2>2, <2>3, <2>4 DEF IInv
<1>. QED BY <1>2, <1>3, <1>4

\* The steps of a handler keep the invariant.
LEMMA HandlerIInv ==
    ASSUME IInv, NEW r \in Requests, Handler(r), TypeOK'
    PROVE  IInv'
<1>. USE DEF IInv, TypeOK
<1>1. CASE LockOwnedVessel(r)
  <2>. USE <1>1 DEF LockOwnedVessel
  <2>1. LockedIsOwned'                      BY DEF LockedIsOwned
  <2>2. OrdersAreCommitted' /\ AuditIsSound' BY DEF OrdersAreCommitted, AuditIsSound
  <2>3. Control'                            BY DEF Control
  <2>4. PromisesAreKept'                    BY DEF PromisesAreKept, BoardRead
  <2>. QED BY <2>1, <2>2, <2>3, <2>4
<1>2. CASE InsertWorkOrder(r)
  <2>. USE <1>2 DEF InsertWorkOrder
  <2>1. LockedIsOwned'                      BY DEF LockedIsOwned
  <2>2. OrdersAreCommitted' /\ AuditIsSound' BY DEF OrdersAreCommitted, AuditIsSound
  <2>3. Control'                            BY DEF Control
  <2>4. PromisesAreKept'                    BY DEF PromisesAreKept, BoardRead, Control
  <2>. QED BY <2>1, <2>2, <2>3, <2>4
<1>3. CASE CommitReturns(r)
  BY <1>3 DEF CommitReturns, LockedIsOwned, OrdersAreCommitted, AuditIsSound,
              Control, PromisesAreKept, BoardRead
<1>4. CASE RecordAudit(r)
  <2>. USE <1>4 DEF RecordAudit
  <2>1. LockedIsOwned' /\ OrdersAreCommitted' BY DEF LockedIsOwned, OrdersAreCommitted
  <2>2. AuditIsSound'  BY DEF AuditIsSound, OrdersAreCommitted, Control
  <2>3. Control'       BY DEF Control
  <2>4. PromisesAreKept' BY DEF PromisesAreKept, BoardRead
  <2>. QED BY <2>1, <2>2, <2>3, <2>4
<1>5. CASE RespondCreated(r)
  <2>. USE <1>5 DEF RespondCreated, Answer
  <2>1. LockedIsOwned'                      BY DEF LockedIsOwned
  <2>2. OrdersAreCommitted' /\ AuditIsSound' BY DEF OrdersAreCommitted, AuditIsSound
  <2>3. Control'                            BY DEF Control
  <2>4. PromisesAreKept'                    BY DEF PromisesAreKept, BoardRead
  <2>. QED BY <2>1, <2>2, <2>3, <2>4
<1>6. CASE ReadWorkOrders(r)
  <2>. USE <1>6 DEF ReadWorkOrders
  <2>1. LockedIsOwned'                      BY DEF LockedIsOwned
  <2>2. OrdersAreCommitted' /\ AuditIsSound' BY DEF OrdersAreCommitted, AuditIsSound
  <2>3. Control'                            BY DEF Control
  <2>4. PromisesAreKept'                    BY DEF PromisesAreKept, BoardRead
  <2>. QED BY <2>1, <2>2, <2>3, <2>4
<1>7. CASE DbCallFails(r)
  <2>. USE <1>7 DEF DbCallFails, Answer, Waiting
  <2>1. LockedIsOwned'                      BY DEF LockedIsOwned
  <2>2. OrdersAreCommitted' /\ AuditIsSound' BY DEF OrdersAreCommitted, AuditIsSound
  <2>3. Control'                            BY DEF Control
  <2>4. PromisesAreKept'                    BY DEF PromisesAreKept, BoardRead
  <2>. QED BY <2>1, <2>2, <2>3, <2>4
<1>8. CASE Refuse(r)
  <2>. USE <1>8 DEF Refuse, Answer
  <2>1. LockedIsOwned'                      BY DEF LockedIsOwned
  <2>2. OrdersAreCommitted' /\ AuditIsSound' BY DEF OrdersAreCommitted, AuditIsSound
  <2>3. Control'                            BY DEF Control
  <2>4. PromisesAreKept'                    BY DEF PromisesAreKept, BoardRead
  <2>. QED BY <2>1, <2>2, <2>3, <2>4
<1>9. CASE RespondBoard(r)
  <2>. USE <1>9 DEF RespondBoard, Answer
  <2>1. LockedIsOwned'                      BY DEF LockedIsOwned
  <2>2. OrdersAreCommitted' /\ AuditIsSound' BY DEF OrdersAreCommitted, AuditIsSound
  <2>3. Control'                            BY DEF Control
  <2>4. PromisesAreKept'                    BY DEF PromisesAreKept, BoardRead
  <2>. QED BY <2>1, <2>2, <2>3, <2>4
<1>. QED BY <1>1, <1>2, <1>3, <1>4, <1>5, <1>6, <1>7, <1>8, <1>9 DEF Handler

\* The steps of the database keep the invariant.
LEMMA DatabaseIInv ==
    ASSUME IInv, NEW r \in Requests, Database(r), TypeOK'
    PROVE  IInv'
<1>. USE DEF IInv, TypeOK
<1>1. CASE DbCommit(r)
  <2>. USE <1>1 DEF DbCommit
  <2>1. LockedIsOwned'                      BY DEF LockedIsOwned
  <2>2. OrdersAreCommitted' /\ AuditIsSound' BY DEF OrdersAreCommitted, AuditIsSound
  <2>3. Control'                            BY DEF Control
  <2>4. PromisesAreKept'                    BY DEF PromisesAreKept, BoardRead
  <2>. QED BY <2>1, <2>2, <2>3, <2>4
<1>2. CASE DbAbort(r)
  <2>. USE <1>2 DEF DbAbort
  <2>1. LockedIsOwned'                      BY DEF LockedIsOwned
  <2>2. OrdersAreCommitted' /\ AuditIsSound' BY DEF OrdersAreCommitted, AuditIsSound
  <2>3. Control'                            BY DEF Control
  <2>4. PromisesAreKept'                    BY DEF PromisesAreKept, BoardRead
  <2>. QED BY <2>1, <2>2, <2>3, <2>4
<1>. QED BY <1>1, <1>2 DEF Database

\* The invariant holds in every reachable state: no interleaving of handlers,
\* sessions, crashes and transfers breaks it.
THEOREM Inductive == Spec => []IInv
<1>1. Init => IInv
  BY DEF Init, IInv, TypeOK, PCs, TxStates, Replies, LockedIsOwned,
         OrdersAreCommitted, AuditIsSound, Control, PromisesAreKept, BoardRead
<1>2. ASSUME IInv, [Next]_vars PROVE IInv'
  <2>. TypeOK'  BY <1>2, StepTypeOK DEF IInv
  <2>1. ASSUME NEW r \in Requests, Arrive(r) PROVE IInv'
    BY <1>2, <2>1, ArriveIInv
  <2>2. ASSUME NEW r \in Requests, Handler(r) PROVE IInv'
    BY <1>2, <2>2, HandlerIInv
  <2>3. ASSUME NEW r \in Requests, Database(r) PROVE IInv'
    BY <1>2, <2>3, DatabaseIInv
  <2>4. ASSUME NEW p \in Replicas, Crash(p) PROVE IInv'
    <3>. USE <1>2, <2>4 DEF IInv, TypeOK, Crash
    <3>1. LockedIsOwned' /\ OrdersAreCommitted' /\ AuditIsSound'
      BY DEF LockedIsOwned, OrdersAreCommitted, AuditIsSound
    <3>2. Control'          BY DEF Control
    <3>3. PromisesAreKept'  BY DEF PromisesAreKept, BoardRead
    <3>. QED BY <3>1, <3>2, <3>3
  <2>5. ASSUME NEW v \in Vessels, NEW f \in Fleets, Reassign(v, f) PROVE IInv'
    <3>. USE <1>2, <2>5 DEF IInv, TypeOK, Reassign
    <3>1. LockedIsOwned'
      BY DEF LockedIsOwned, Holders
    <3>2. OrdersAreCommitted' /\ AuditIsSound' /\ Control' /\ PromisesAreKept'
      BY DEF OrdersAreCommitted, AuditIsSound, Control, PromisesAreKept, BoardRead
    <3>. QED BY <3>1, <3>2
  <2>6. CASE UNCHANGED vars
    BY <1>2, <2>6 DEF vars, IInv, TypeOK, LockedIsOwned, OrdersAreCommitted,
                      AuditIsSound, Control, PromisesAreKept, BoardRead
  <2>. QED BY <1>2, <2>1, <2>2, <2>3, <2>4, <2>5, <2>6 DEF Next
<1>. QED BY <1>1, <1>2, PTL DEF Spec

\* 201 means saved, 400 and 403 mean not saved and never to be.
THEOREM TrueReplies == Spec => []RepliesAreTrue
<1>1. IInv => RepliesAreTrue
  BY DEF IInv, RepliesAreTrue, OrdersAreCommitted, Control
<1>. QED BY <1>1, Inductive, PTL

\* The trail names only orders that exist.
THEOREM SoundAudit == Spec => []AuditIsSound
<1>1. IInv => AuditIsSound
  BY DEF IInv
<1>. QED BY <1>1, Inductive, PTL

\* A board misses no order acknowledged before it was asked for.
THEOREM CurrentBoards == Spec => []BoardIsCurrent
<1>1. IInv => BoardIsCurrent
  BY DEF IInv, PromisesAreKept, BoardRead, BoardIsCurrent
<1>. QED BY <1>1, Inductive, PTL

-----------------------------------------------------------------------------
(* Steps: ownership at the point of effect, and the refinement.            *)

\* Only a commit adds an order.
LEMMA OnlyCommitsAddOrders ==
    ASSUME TypeOK, [Next]_vars, NEW r \in Requests, r \in orders' \ orders
    PROVE  DbCommit(r)
<1>1. ASSUME NEW q \in Requests, Arrive(q) PROVE FALSE
  BY <1>1 DEF Arrive, PostWorkOrder, GetWorkOrders
<1>2. ASSUME NEW q \in Requests, Handler(q) PROVE FALSE
  BY <1>2 DEF Handler, LockOwnedVessel, Refuse, InsertWorkOrder, CommitReturns, RecordAudit,
              RespondCreated, ReadWorkOrders, RespondBoard, DbCallFails
<1>3. ASSUME NEW q \in Requests, Database(q) PROVE DbCommit(r)
  BY <1>3 DEF Database, DbCommit, DbAbort
<1>. QED BY <1>1, <1>2, <1>3 DEF Next, Crash, Reassign, vars

\* Only a COMMIT that was sent with a lock held makes a session committed.
LEMMA OnlyCommitsCommit ==
    ASSUME TypeOK, [Next]_vars, NEW r \in Requests, tx[r] # "committed", tx'[r] = "committed"
    PROVE  tx[r] = "committing"
<1>. USE DEF TypeOK
<1>1. ASSUME NEW q \in Requests, Arrive(q) PROVE FALSE
  BY <1>1 DEF Arrive, PostWorkOrder, GetWorkOrders, BeginTransaction
<1>2. ASSUME NEW q \in Requests, Handler(q) PROVE FALSE
  BY <1>2 DEF Handler, LockOwnedVessel, Refuse, InsertWorkOrder, CommitReturns, RecordAudit,
              RespondCreated, ReadWorkOrders, RespondBoard, DbCallFails
<1>3. ASSUME NEW q \in Requests, Database(q) PROVE tx[r] = "committing"
  BY <1>3 DEF Database, DbCommit, DbAbort
<1>. QED BY <1>1, <1>2, <1>3 DEF Next, Crash, Reassign, vars

\* Only a read under the lock goes from the read to its commit.
LEMMA OnlyReadsRead ==
    ASSUME TypeOK, [Next]_vars, NEW r \in Requests, pc[r] = "read", pc'[r] = "commit"
    PROVE  ReadWorkOrders(r)
<1>. USE DEF TypeOK
<1>1. ASSUME NEW q \in Requests, Arrive(q) PROVE FALSE
  BY <1>1 DEF Arrive, PostWorkOrder, GetWorkOrders, Answer, BeginTransaction
<1>2. ASSUME NEW q \in Requests, Handler(q) PROVE ReadWorkOrders(r)
  BY <1>2 DEF Handler, LockOwnedVessel, Refuse, InsertWorkOrder, CommitReturns, RecordAudit,
              RespondCreated, ReadWorkOrders, RespondBoard, DbCallFails, Answer
<1>3. ASSUME NEW q \in Requests, Database(q) PROVE FALSE
  BY <1>3 DEF Database, DbCommit, DbAbort
<1>4. ASSUME NEW p \in Replicas, Crash(p) PROVE FALSE
  BY <1>4 DEF Crash
<1>. QED BY <1>1, <1>2, <1>3, <1>4 DEF Next, Reassign, vars

\* An order is saved, a board read, and the transaction of either ended, only
\* while the vessel belongs to the fleet the caller acts for.
THEOREM OwnedWhenItCounts == Spec => OwnedAtEffect
<1>1. IInv /\ [Next]_vars => OwnershipAtEffect
  <2> SUFFICES ASSUME IInv, [Next]_vars, NEW r \in Requests,
                      \/ r \in orders' \ orders
                      \/ pc[r] = "read" /\ pc'[r] = "commit"
                      \/ tx[r] # "committed" /\ tx'[r] = "committed"
               PROVE  owner[arg[r].vessel] = arg[r].fleet
    BY DEF OwnershipAtEffect
  <2>1. tx[r] \in {"locked", "committing"}
    <3>1. CASE r \in orders' \ orders
      BY <3>1, OnlyCommitsAddOrders DEF IInv, TypeOK, DbCommit
    <3>2. CASE pc[r] = "read" /\ pc'[r] = "commit"
      BY <3>2, OnlyReadsRead DEF IInv, ReadWorkOrders
    <3>3. CASE tx[r] # "committed" /\ tx'[r] = "committed"
      BY <3>3, OnlyCommitsCommit DEF IInv
    <3>. QED BY <3>1, <3>2, <3>3
  <2>. QED BY <2>1 DEF IInv, LockedIsOwned
<1>. QED BY <1>1, Inductive, PTL DEF Spec, OwnedAtEffect

\* The ledger that the refinement mapping makes of the committed rows.
Book == {[id |-> o, vessel |-> arg[o].vessel, fleet |-> arg[o].fleet] : o \in orders}
Told == {o \in Requests : reply[o] = "201"}

Entry(o) == [id |-> o, vessel |-> arg[o].vessel, fleet |-> arg[o].fleet]

\* The ids recorded in the ledger are those of the committed orders.
LEMMA BookIds == Ledger!Recorded = orders
<1>1. \A o : Entry(o).id = o
  BY DEF Entry
<1>2. Ledger!Recorded = {e.id : e \in {Entry(o) : o \in orders}}
  BY DEF Ledger!Recorded, Entry
<1>. QED BY <1>1, <1>2

\* The ledger's entries of a vessel are its committed orders.
LEMMA BookOnVessel ==
    ASSUME NEW v
    PROVE  Ledger!OnVessel(v) = {o \in orders : arg[o].vessel = v}
<1>1. \A o : Entry(o).id = o /\ Entry(o).vessel = arg[o].vessel
  BY DEF Entry
<1>2. Ledger!OnVessel(v) = {e.id : e \in {x \in {Entry(o) : o \in orders} : x.vessel = v}}
  BY DEF Ledger!OnVessel, Entry
<1>. QED BY <1>1, <1>2

\* A step that saves nothing, tells nobody 201 and changes none of the three
\* mapped variables is a stuttering step of the ledger.
LEMMA Stutter ==
    ASSUME UNCHANGED <<owner, orders, audit, result>>,
           \A o \in orders : arg'[o] = arg[o],
           \A o \in Requests : reply'[o] = "201" <=> reply[o] = "201"
    PROVE  UNCHANGED Ledger!vars
<1>1. Book' = Book
  BY DEF Book
<1>2. Told' = Told
  BY DEF Told
<1>. QED BY <1>1, <1>2 DEF Ledger!vars, Book, Told

\* A step of a handler is a step of the ledger or stutters.
LEMMA HandlerRefines ==
    ASSUME IInv, NEW r \in Requests, Handler(r)
    PROVE  [Ledger!Next]_(Ledger!vars)
<1>. USE DEF IInv, TypeOK
<1>1. CASE LockOwnedVessel(r) \/ InsertWorkOrder(r) \/ CommitReturns(r) \/ DbCallFails(r) \/ Refuse(r) \/ RespondBoard(r)
  <2>1. UNCHANGED <<owner, orders, audit, result, arg>>
    BY <1>1 DEF LockOwnedVessel, InsertWorkOrder, CommitReturns, DbCallFails, Refuse, RespondBoard
  <2>2. \A o \in Requests : reply'[o] = "201" <=> reply[o] = "201"
    BY <1>1 DEF LockOwnedVessel, InsertWorkOrder, CommitReturns, DbCallFails, Refuse, RespondBoard,
                Answer, Control, Waiting
  <2>. QED BY <2>1, <2>2, Stutter
<1>2. CASE RecordAudit(r)
  <2>1. Book' = Book /\ Told' = Told
    BY <1>2 DEF RecordAudit, Book, Told
  <2>2. r \in Ledger!Recorded
    BY <1>2, BookIds DEF RecordAudit, Control, OrdersAreCommitted
  <2>3. UNCHANGED <<owner, result>> /\ (audit' = audit \/ audit' = audit \cup {r})
    BY <1>2 DEF RecordAudit
  <2>. QED BY <2>1, <2>2, <2>3 DEF Ledger!Next, Ledger!Trail, Ledger!vars, Book, Told
<1>3. CASE RespondCreated(r)
  <2>1. Book' = Book
    BY <1>3 DEF RespondCreated, Book
  <2>2. r \in Ledger!Recorded
    BY <1>3, BookIds DEF RespondCreated, Control, OrdersAreCommitted
  <2>3. Told' = Told \cup {r}
    BY <1>3 DEF RespondCreated, Answer, Told
  <2>4. UNCHANGED <<owner, audit, result>>
    BY <1>3 DEF RespondCreated
  <2>. QED BY <2>1, <2>2, <2>3, <2>4 DEF Ledger!Next, Ledger!Acknowledge, Book, Told
<1>4. CASE ReadWorkOrders(r)
  <2>. DEFINE v == arg[r].vessel
              f == arg[r].fleet
  <2>1. Book' = Book
    BY <1>4 DEF ReadWorkOrders, Book
  <2>2. Told' = Told
    BY <1>4 DEF ReadWorkOrders, Told
  <2>3. owner[v] = f /\ v \in Vessels /\ f \in Fleets
    BY <1>4, ConstantsAssumption DEF ReadWorkOrders, LockedIsOwned, Control, Arguments
  <2>4. \E shown \in {Ledger!OnVessel(v), {}} : result' = [result EXCEPT ![r] = shown]
    <3>1. CASE Keeps(arg[r].filter)
      <4>1. {o \in orders : arg[o].vessel = v /\ Keeps(arg[r].filter)} = Ledger!OnVessel(v)
        BY <3>1, BookOnVessel
      <4>. QED BY <1>4, <4>1 DEF ReadWorkOrders
    <3>2. CASE ~Keeps(arg[r].filter)
      <4>1. {o \in orders : arg[o].vessel = v /\ Keeps(arg[r].filter)} = {}
        BY <3>2
      <4>. QED BY <1>4, <4>1 DEF ReadWorkOrders
    <3>. QED BY <3>1, <3>2
  <2>5. UNCHANGED <<owner, audit>>
    BY <1>4 DEF ReadWorkOrders
  <2>6. Ledger!Read(r, v, f)
    BY <2>1, <2>2, <2>3, <2>4, <2>5 DEF Ledger!Read, Book, Told
  <2>. QED BY <2>3, <2>6 DEF Ledger!Next
<1>. QED BY <1>1, <1>2, <1>3, <1>4 DEF Handler

\* A commit that makes an order durable records it in the ledger.
LEMMA CommitRefines ==
    ASSUME IInv, NEW r \in Requests, DbCommit(r), tx[r] = "committing", arg[r].op = "create"
    PROVE  Ledger!Next
<1>. USE DEF IInv, TypeOK, DbCommit
<1>. DEFINE v == arg[r].vessel
            f == arg[r].fleet
<1>1. owner[v] = f /\ v \in Vessels /\ f \in Fleets
  BY ConstantsAssumption DEF LockedIsOwned, Control, Arguments
<1>2. r \notin Ledger!Recorded
  BY BookIds DEF OrdersAreCommitted
<1>3. Book' = Book \cup {[id |-> r, vessel |-> v, fleet |-> f]}
  BY DEF Book
<1>4. Told' = Told /\ UNCHANGED <<owner, audit, result>>
  BY DEF Told
<1>5. Ledger!Record(r, v, f)
  BY <1>1, <1>2, <1>3, <1>4 DEF Ledger!Record, Book, Told
<1>. QED BY <1>1, <1>5 DEF Ledger!Next, Ledger!Record

\* The routes implement the atomic ledger: every step of a handler, of a
\* database session, of a crash or of a transfer is one step of the ledger or
\* none.
THEOREM Refinement == Spec => ImplementsLedger
<1>1. Init => Ledger!Init
  BY DEF Init, Ledger!Init
<1>2. ASSUME IInv, [Next]_vars PROVE [Ledger!Next]_(Ledger!vars)
  <2>. USE <1>2 DEF IInv, TypeOK
  <2>1. ASSUME NEW r \in Requests, Arrive(r) PROVE UNCHANGED Ledger!vars
    <3>1. UNCHANGED <<owner, orders, audit, result>>
      BY <2>1 DEF Arrive, PostWorkOrder, GetWorkOrders
    <3>2. \A o \in orders : o # r /\ arg'[o] = arg[o]
      BY <2>1 DEF Arrive, PostWorkOrder, GetWorkOrders, OrdersAreCommitted, Control
    <3>3. \A o \in Requests : reply'[o] = "201" <=> reply[o] = "201"
      BY <2>1 DEF Arrive, PostWorkOrder, GetWorkOrders, Answer, BeginTransaction, Control
    <3>. QED BY <3>1, <3>2, <3>3, Stutter
  <2>2. ASSUME NEW r \in Requests, Handler(r) PROVE [Ledger!Next]_(Ledger!vars)
    BY <2>2, HandlerRefines
  <2>3. ASSUME NEW r \in Requests, DbCommit(r) PROVE [Ledger!Next]_(Ledger!vars)
    <3>1. CASE tx[r] = "committing" /\ arg[r].op = "create"
      BY <2>3, <3>1, CommitRefines
    <3>2. CASE ~(tx[r] = "committing" /\ arg[r].op = "create")
      BY <2>3, <3>2, Stutter DEF DbCommit
    <3>. QED BY <3>1, <3>2
  <2>4. ASSUME NEW r \in Requests, DbAbort(r) PROVE UNCHANGED Ledger!vars
    BY <2>4, Stutter DEF DbAbort
  <2>5. ASSUME NEW p \in Replicas, Crash(p) PROVE UNCHANGED Ledger!vars
    BY <2>5, Stutter DEF Crash
  <2>6. ASSUME NEW v \in Vessels, NEW f \in Fleets, Reassign(v, f) PROVE Ledger!Next
    <3>1. Book' = Book /\ Told' = Told
      BY <2>6 DEF Reassign, Book, Told
    <3>2. Ledger!Transfer(v, f)
      BY <2>6, <3>1 DEF Reassign, Ledger!Transfer, Book, Told
    <3>. QED BY <3>2 DEF Ledger!Next
  <2>7. CASE UNCHANGED vars
    BY <2>7, Stutter DEF vars
  <2>. QED BY <1>2, <2>1, <2>2, <2>3, <2>4, <2>5, <2>6, <2>7 DEF Next, Database
<1>. QED BY <1>1, <1>2, Inductive, PTL DEF Spec, ImplementsLedger, Ledger!Spec
=============================================================================
