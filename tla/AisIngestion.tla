----------------------------- MODULE AisIngestion -----------------------------
(***************************************************************************)
(* The AIS consumer (services/aisStream.ts, lib/aisParser.ts): one         *)
(* websocket that reconnects with exponential backoff, and one upsert per  *)
(* vessel and throttle window, started without waiting for the one before. *)
(*                                                                         *)
(* Time is in ticks and kept relative: ages instead of timestamps, each    *)
(* saturating where nothing can tell older values apart.                   *)
(***************************************************************************)
EXTENDS Integers, Sequences, SequencesExt

CONSTANTS
    Vessels,        \* MMSIs in the bounding box
    Window,         \* WRITE_THROTTLE_MS
    Latency,        \* bound: the longest an upsert takes; the code sets none
    InitialDelay,   \* INITIAL_RECONNECT_MS
    MaxDelay        \* MAX_RECONNECT_MS

AisAssumption ==
    /\ Window \in Nat \ {0}
    /\ Latency \in Nat
    /\ InitialDelay \in Nat \ {0}
    /\ MaxDelay \in Nat
    /\ InitialDelay <= MaxDelay

VARIABLES
    sockets,    \* live websockets: the state of each
    timers,     \* pending reconnects: ticks left of each
    delay,      \* reconnectDelay
    up,         \* the provider accepts connections and keeps them
    since,      \* age of lastWrite per vessel; Window + 1 also without one
    pending,    \* per vessel, the ages of the upserts under way
    stored,     \* per vessel, the age of the report in the table; None without a row
    heard,      \* per vessel, the age of the last usable report
    gap,        \* per vessel, how much older the stored report was than the last one
    lost        \* vessels of which the upsert that ended last failed

vars == <<sockets, timers, delay, up, since, pending, stored, heard, gap, lost>>
stream == <<sockets, timers, delay>>
table == <<since, pending, stored, heard, gap, lost>>

None == -1
Cap == Window + Latency
Older(age, cap) == IF age = None \/ age >= cap THEN age ELSE age + 1

TypeOK ==
    /\ sockets \in Seq({"connecting", "open"})
    /\ timers \in Seq(0..MaxDelay)
    /\ delay \in InitialDelay..MaxDelay
    /\ up \in BOOLEAN
    /\ since \in [Vessels -> 0..(Window + 1)]
    /\ pending \in [Vessels -> SUBSET (0..Latency)]
    /\ stored \in [Vessels -> {None} \cup 0..Cap]
    /\ heard \in [Vessels -> {None} \cup 0..Latency]
    /\ gap \in [Vessels -> {None} \cup 0..Cap]
    /\ lost \subseteq Vessels

Init ==
    /\ sockets = <<"connecting">>
    /\ timers = <<>>
    /\ delay = InitialDelay
    /\ up \in BOOLEAN
    /\ since = [m \in Vessels |-> Window + 1]
    /\ pending = [m \in Vessels |-> {}]
    /\ stored = [m \in Vessels |-> None]
    /\ heard = [m \in Vessels |-> None]
    /\ gap = [m \in Vessels |-> None]
    /\ lost = {}

-----------------------------------------------------------------------------
(* The connection *)

\* onopen: the backoff starts over.
Open(i) ==
    /\ sockets[i] = "connecting"
    /\ up
    /\ sockets' = [sockets EXCEPT ![i] = "open"]
    /\ delay' = InitialDelay
    /\ UNCHANGED <<timers, up, table>>

Doubled == IF 2 * delay < MaxDelay THEN 2 * delay ELSE MaxDelay

\* onerror schedules a reconnect as well.
Closed_Twice(i) ==
    /\ ~up
    /\ sockets' = RemoveAt(sockets, i)
    /\ timers' = timers \o <<delay, delay>>
    /\ delay' = Doubled
    /\ UNCHANGED <<up, table>>

\* No reconnect when the first connection failed.
Closed_OnlyIfOpened(i) ==
    /\ ~up
    /\ sockets' = RemoveAt(sockets, i)
    /\ timers' = IF sockets[i] = "open" THEN Append(timers, delay) ELSE timers
    /\ delay' = Doubled
    /\ UNCHANGED <<up, table>>

\* onclose, which also follows onerror: reconnect after the delay, and double it.
Closed(i) ==
    /\ ~up
    /\ sockets' = RemoveAt(sockets, i)
    /\ timers' = Append(timers, delay)
    /\ delay' = Doubled
    /\ UNCHANGED <<up, table>>

\* The timer fires: connect() again.
Reconnect(i) ==
    /\ timers[i] = 0
    /\ timers' = RemoveAt(timers, i)
    /\ sockets' = Append(sockets, "connecting")
    /\ UNCHANGED <<delay, up, table>>

ProviderChanges == up' = ~up /\ UNCHANGED <<stream, table>>

-----------------------------------------------------------------------------
(* Reports *)

Throttled_Inclusive(m) == since[m] <= Window

\* Dropped when within the window of the last write.
Throttled(m) == since[m] < Window

\* A usable report arrives: drop it, or stamp lastWrite and start an upsert.
Report(m) ==
    /\ \E i \in DOMAIN sockets : sockets[i] = "open"
    /\ heard' = [heard EXCEPT ![m] = 0]
    /\ gap' = [gap EXCEPT ![m] = stored[m]]
    /\ IF Throttled(m)
       THEN UNCHANGED <<since, pending>>
       ELSE /\ since' = [since EXCEPT ![m] = 0]
            /\ pending' = [pending EXCEPT ![m] = @ \cup {0}]
    /\ UNCHANGED <<stream, up, stored, lost>>

\* The upsert reaches the table, whatever the row holds by then.
Upserted(m, age) ==
    /\ age \in pending[m]
    /\ pending' = [pending EXCEPT ![m] = @ \ {age}]
    /\ stored' = [stored EXCEPT ![m] = age]
    /\ gap' = [gap EXCEPT ![m] = age - heard[m]]
    /\ lost' = lost \ {m}
    /\ UNCHANGED <<stream, up, since, heard>>

\* The upsert is rejected: logged, and not tried again.
UpsertFails(m, age) ==
    /\ age \in pending[m]
    /\ pending' = [pending EXCEPT ![m] = @ \ {age}]
    /\ lost' = lost \cup {m}
    /\ UNCHANGED <<stream, up, since, stored, heard, gap>>

\* The worker is replaced, which takes a tick at least: at most one runs (strategy
\* Recreate).  lastWrite is forgotten; an upsert under way may still reach the
\* table, or not.
Restart ==
    /\ \A m \in Vessels : 0 \notin pending[m]
    /\ sockets' = <<"connecting">>
    /\ timers' = <<>>
    /\ delay' = InitialDelay
    /\ since' = [m \in Vessels |-> Window + 1]
    /\ UNCHANGED <<up, pending, stored, heard, gap, lost>>

Tick ==
    /\ \A m \in Vessels : Latency \notin pending[m]
    /\ \A i \in DOMAIN timers : timers[i] > 0
    /\ timers' = [i \in DOMAIN timers |-> timers[i] - 1]
    /\ since' = [m \in Vessels |-> Older(since[m], Window + 1)]
    /\ pending' = [m \in Vessels |-> {age + 1 : age \in pending[m]}]
    /\ stored' = [m \in Vessels |-> Older(stored[m], Cap)]
    /\ heard' = [m \in Vessels |-> Older(heard[m], Latency)]
    /\ UNCHANGED <<sockets, delay, up, gap, lost>>

Connection == \/ \E i \in DOMAIN sockets : Open(i) \/ Closed(i)
              \/ \E i \in DOMAIN timers : Reconnect(i)

Finish(m) == \E age \in pending[m] : Upserted(m, age) \/ UpsertFails(m, age)

Next ==
    \/ Connection
    \/ \E m \in Vessels : Report(m) \/ Finish(m)
    \/ ProviderChanges \/ Restart \/ Tick

Spec == Init /\ [][Next]_vars

\* The event loop runs what is due, calls end, and time passes.
Fairness == WF_vars(Connection) /\ WF_vars(Tick) /\ \A m \in Vessels : WF_vars(Finish(m))

-----------------------------------------------------------------------------
(* Properties *)

\* There is one stream: either a socket or a reconnect on its way, never two
\* consumers of the feed and never none.
OneStream == Len(sockets) + Len(timers) = 1

\* "so a dropped socket self-heals" (aisStream.ts:18): once the provider stays
\* up, and the worker is not replaced for ever, the stream is open.
SelfHeals == (<>[]up /\ <>[][~Restart]_vars) => <>[](\E i \in DOMAIN sockets : sockets[i] = "open")

\* No upsert of the vessel is under way, and the one that ended last wrote a row.
Quiet(m) == pending[m] = {} /\ m \notin lost /\ stored[m] # None

\* Throttling drops reports for good (aisStream.ts:13-15), and an upsert may end
\* after one that began later; yet once they have ended the row lags the last
\* report of its vessel by less than a window and the time of the longest upsert.
\* It is not always "the latest known position" (schema.prisma:361): an upsert
\* slower than the next one puts an older position back, until the next write.
LagIsBounded == \A m \in Vessels : Quiet(m) => gap[m] < Window + Latency
===============================================================================
