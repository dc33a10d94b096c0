-------------------------- MODULE WorkOrderLedger --------------------------
(***************************************************************************)
(* What the persisted work-order routes promise, without transactions,     *)
(* locks, replicas or failures: one ledger of orders, each recorded in one *)
(* atomic step that checks the vessel's owner, acknowledged and audited    *)
(* only once recorded, and read in one atomic step under the same check.   *)
(***************************************************************************)
CONSTANTS Ids, Vessels, Fleets

VARIABLES
    owner,   \* the fleet of each vessel (or no fleet value: no such row)
    ledger,  \* the recorded orders
    acked,   \* orders whose creators have been told so
    trail,   \* orders with an audit row
    board    \* what each reader has read

vars == <<owner, ledger, acked, trail, board>>

Recorded == {e.id : e \in ledger}

OnVessel(v) == {e.id : e \in {x \in ledger : x.vessel = v}}

Init ==
    /\ ledger = {}
    /\ acked = {}
    /\ trail = {}
    /\ board = [r \in Ids |-> {}]

Record(i, v, f) ==
    /\ owner[v] = f
    /\ i \notin Recorded
    /\ ledger' = ledger \cup {[id |-> i, vessel |-> v, fleet |-> f]}
    /\ UNCHANGED <<owner, acked, trail, board>>

Acknowledge(i) ==
    /\ i \in Recorded
    /\ acked' = acked \cup {i}
    /\ UNCHANGED <<owner, ledger, trail, board>>

Trail(i) ==
    /\ i \in Recorded
    /\ trail' = trail \cup {i}
    /\ UNCHANGED <<owner, ledger, acked, board>>

\* A reader of fleet f sees all of vessel v's orders, or, when its filter
\* excludes their status, none.
Read(r, v, f) ==
    /\ owner[v] = f
    /\ \E shown \in {OnVessel(v), {}} : board' = [board EXCEPT ![r] = shown]
    /\ UNCHANGED <<owner, ledger, acked, trail>>

\* Vessels change hands at any time: nothing of the ledger blocks them.
Transfer(v, f) ==
    /\ owner' = [owner EXCEPT ![v] = f]
    /\ UNCHANGED <<ledger, acked, trail, board>>

Next ==
    \/ \E i \in Ids : Acknowledge(i) \/ Trail(i)
    \/ \E i \in Ids, v \in Vessels, f \in Fleets : Record(i, v, f) \/ Read(i, v, f)
    \/ \E v \in Vessels, f \in Fleets : Transfer(v, f)

Spec == Init /\ [][Next]_vars
=============================================================================
