------------------------------ MODULE FeedsProofs ------------------------------
(* Theorems about three of the feeds: the AIS stream, for any vessels,       *)
(* throttle window, longest upsert and reconnection delays; the warehouse,   *)
(* for any files of rows, thresholds of idling and plausible speed; and the  *)
(* bunker import, for any sheets, styles of spreadsheets, vessels and fleet. *)
EXTENDS Feeds, SequenceTheorems, FiniteSetTheorems, WellFoundedInduction, TLAPS

\* A socket, or a reconnect on its way.
Stream == sockets \in Seq({"connecting", "open"}) /\ timers \in Seq(Int) /\ delay \in Int /\ OneStream

\* The rows the ages of which the throttle compares.
Ages ==
    /\ since \in [Vessels -> 0..(Window + 1)]
    /\ pending \in [Vessels -> SUBSET (0..Latency)]
    /\ stored \in [Vessels -> {Ais!None} \cup 0..Ais!Cap]
    /\ heard \in [Vessels -> {Ais!None} \cup 0..Latency]
    /\ gap \in [Vessels -> {Ais!None} \cup 0..Ais!Cap]
    /\ lost \subseteq Vessels

\* No upsert under way is of a later report than the last one.
NoneAhead == \A m \in Vessels : \A age \in pending[m] : heard[m] # Ais!None /\ heard[m] <= age

\* When the upserts have ended, the last to end began at most the longest upsert
\* before the last to begin.
RowNearLastWrite ==
    \A m \in Vessels :
      pending[m] = {} /\ m \notin lost /\ since[m] < Window => stored[m] <= since[m] + Latency

TableInv ==
    /\ Ages
    /\ NoneAhead
    /\ RowNearLastWrite
    /\ LagIsBounded

\* In a behaviour of the feeds the AIS feed moves as it does alone, or rests.
LEMMA AisMoves ==
    /\ Ais!AisAssumption
    /\ Init => Ais!Init
    /\ [Next]_vars => [Ais!Next]_(Ais!vars)
<1>1. Init => Ais!Init
  BY DEF Init
<1>2. ASSUME Next PROVE [Ais!Next]_(Ais!vars)
  BY <1>2 DEF Next, AisStep, WeatherStep, BunkerStep, LakeStep, aisVars, Ais!vars
<1>3. ASSUME UNCHANGED vars PROVE UNCHANGED Ais!vars
  BY <1>3 DEF vars, aisVars, Ais!vars
<1>. QED BY <1>1, <1>2, <1>3, FeedsAssumption

-----------------------------------------------------------------------------
(* The connection *)

\* Taking one element out of a list leaves a list one shorter.
LEMMA RemoveAtFacts ==
    ASSUME NEW S, NEW s \in Seq(S), NEW i \in DOMAIN s
    PROVE  Ais!RemoveAt(s, i) \in Seq(S) /\ Len(Ais!RemoveAt(s, i)) = Len(s) - 1
<1>. DEFINE before == SubSeq(s, 1, i - 1)  after == SubSeq(s, i + 1, Len(s))
<1>1. before \in Seq(S) /\ Len(before) = i - 1
  BY SubSeqProperties
<1>2. after \in Seq(S) /\ Len(after) = Len(s) - i
  BY SubSeqProperties
<1>3. Ais!RemoveAt(s, i) = before \o after
  BY DEF Ais!RemoveAt
<1>. HIDE DEF before, after
<1>4. before \o after \in Seq(S) /\ Len(before \o after) = Len(before) + Len(after)
  BY <1>1, <1>2, ConcatProperties
<1>. QED BY <1>1, <1>2, <1>3, <1>4

\* A socket is replaced by a timer and a timer by a socket, one for one.
LEMMA StreamStep ==
    ASSUME Ais!AisAssumption, Stream, [Ais!Next]_(Ais!vars)
    PROVE  Stream'
<1>1. CASE \E i \in DOMAIN sockets : Ais!Open(i)
  <2>1. PICK i \in DOMAIN sockets : Ais!Open(i)
    BY <1>1
  <2>2. sockets' \in Seq({"connecting", "open"}) /\ Len(sockets') = Len(sockets)
    BY <2>1, ExceptSeq DEF Stream, Ais!Open
  <2>. QED BY <2>1, <2>2 DEF Stream, OneStream, Ais!OneStream, Ais!Open, Ais!AisAssumption
<1>2. CASE \E i \in DOMAIN sockets : Ais!Closed(i)
  <2>1. PICK i \in DOMAIN sockets : Ais!Closed(i)
    BY <1>2
  <2>2. sockets' \in Seq({"connecting", "open"}) /\ Len(sockets') = Len(sockets) - 1
    BY <2>1, RemoveAtFacts DEF Stream, Ais!Closed
  <2>3. timers' \in Seq(Int) /\ Len(timers') = Len(timers) + 1
    BY <2>1, AppendProperties DEF Stream, Ais!Closed
  <2>. QED BY <2>1, <2>2, <2>3 DEF Stream, OneStream, Ais!OneStream, Ais!Closed, Ais!Doubled,
                                   Ais!AisAssumption
<1>3. CASE \E i \in DOMAIN timers : Ais!Reconnect(i)
  <2>1. PICK i \in DOMAIN timers : Ais!Reconnect(i)
    BY <1>3
  <2>2. timers' \in Seq(Int) /\ Len(timers') = Len(timers) - 1
    BY <2>1, RemoveAtFacts DEF Stream, Ais!Reconnect
  <2>3. sockets' \in Seq({"connecting", "open"}) /\ Len(sockets') = Len(sockets) + 1
    BY <2>1, AppendProperties DEF Stream, Ais!Reconnect
  <2>. QED BY <2>1, <2>2, <2>3 DEF Stream, OneStream, Ais!OneStream, Ais!Reconnect
<1>4. CASE Ais!Restart
  BY <1>4 DEF Ais!Restart, Stream, OneStream, Ais!OneStream, Ais!AisAssumption
<1>5. CASE Ais!Tick
  <2>1. timers' \in Seq(Int) /\ Len(timers') = Len(timers)
    <3>1. timers' = [i \in 1..Len(timers) |-> timers[i] - 1]
      BY <1>5 DEF Ais!Tick, Stream
    <3>. QED BY <3>1, IsASeq DEF Stream
  <2>. QED BY <1>5, <2>1 DEF Ais!Tick, Stream, OneStream, Ais!OneStream
<1>6. CASE \/ Ais!ProviderChanges \/ UNCHANGED Ais!vars
           \/ \E m \in Vessels : Ais!Report(m) \/ Ais!Finish(m)
  BY <1>6 DEF Ais!ProviderChanges, Ais!Report, Ais!Finish, Ais!Upserted, Ais!UpsertFails, Ais!vars,
              Ais!stream, Stream, OneStream, Ais!OneStream
<1>. QED BY <1>1, <1>2, <1>3, <1>4, <1>5, <1>6 DEF Ais!Next, Ais!Connection

\* There is always one consumer of the feed, or one reconnect pending, whatever
\* order sockets fail in and however the provider comes and goes.
THEOREM OneConsumer == Spec => []OneStream
<1>1. Init => Stream
  <2>. SUFFICES ASSUME Ais!Init, Ais!AisAssumption PROVE Stream
    BY AisMoves
  <2>. QED BY DEF Ais!Init, Stream, OneStream, Ais!OneStream, Ais!AisAssumption
<1>2. Stream /\ [Next]_vars => Stream'
  BY AisMoves, StreamStep
<1>3. Stream => OneStream
  BY DEF Stream
<1>. QED BY <1>1, <1>2, <1>3, PTL DEF Spec

-----------------------------------------------------------------------------
(* The table *)

\* A report: dropped within the window, or an upsert more.
LEMMA ReportTable ==
    ASSUME Ais!AisAssumption, TableInv, NEW m \in Vessels, Ais!Report(m)
    PROVE  TableInv'
<1>1. Ages'
  BY DEF TableInv, Ages, Ais!Report, Ais!AisAssumption, Ais!None, Ais!Cap
<1>2. NoneAhead'
  BY DEF TableInv, Ages, NoneAhead, Ais!Report, Ais!None, Ais!AisAssumption
<1>3. RowNearLastWrite'
  BY DEF TableInv, Ages, RowNearLastWrite, Ais!Report, Ais!AisAssumption
<1>4. LagIsBounded'
  <2>1. ASSUME NEW v \in Vessels, v # m, Ais!Quiet(v)' PROVE gap'[v] < Window + Latency
    BY <2>1 DEF TableInv, Ages, LagIsBounded, Ais!LagIsBounded, Ais!Report, Ais!Quiet
  <2>2. ASSUME Ais!Quiet(m)' PROVE gap'[m] < Window + Latency
    <3>1. since[m] < Window /\ pending[m] = {} /\ m \notin lost
      BY <2>2 DEF TableInv, Ages, Ais!Quiet, Ais!Report, Ais!Throttled
    <3>2. gap'[m] = stored[m] /\ stored[m] <= since[m] + Latency
      BY <3>1 DEF TableInv, Ages, RowNearLastWrite, Ais!Report
    <3>3. since[m] \in Int /\ stored[m] \in Int
      BY DEF TableInv, Ages, Ais!None, Ais!Cap, Ais!AisAssumption
    <3>. QED BY <3>1, <3>2, <3>3 DEF Ais!AisAssumption
  <2>. QED BY <2>1, <2>2 DEF LagIsBounded, Ais!LagIsBounded
<1>. QED BY <1>1, <1>2, <1>3, <1>4 DEF TableInv

\* An upsert ends, with the row or without, in whatever order.
LEMMA FinishTable ==
    ASSUME Ais!AisAssumption, TableInv, NEW m \in Vessels, Ais!Finish(m)
    PROVE  TableInv'
<1>1. PICK age \in pending[m] : Ais!Upserted(m, age) \/ Ais!UpsertFails(m, age)
  BY DEF Ais!Finish
<1>2. /\ age \in 0..Latency /\ age \in 0..Ais!Cap /\ age - heard[m] \in 0..Ais!Cap
      /\ age - heard[m] < Window + Latency
  BY DEF TableInv, Ages, NoneAhead, Ais!None, Ais!Cap, Ais!AisAssumption
<1>3. Ages'
  BY <1>1, <1>2 DEF TableInv, Ages, Ais!Upserted, Ais!UpsertFails
<1>4. NoneAhead'
  BY <1>1 DEF TableInv, Ages, NoneAhead, Ais!Upserted, Ais!UpsertFails
<1>5. RowNearLastWrite'
  BY <1>1, <1>2 DEF TableInv, Ages, RowNearLastWrite, Ais!Upserted, Ais!UpsertFails, Ais!AisAssumption
<1>6. LagIsBounded'
  BY <1>1, <1>2 DEF TableInv, Ages, LagIsBounded, Ais!LagIsBounded, Ais!Quiet, Ais!Upserted,
                    Ais!UpsertFails
<1>. QED BY <1>3, <1>4, <1>5, <1>6 DEF TableInv

\* The worker is replaced: what is under way may still end.
LEMMA RestartTable ==
    ASSUME Ais!AisAssumption, TableInv, Ais!Restart
    PROVE  TableInv'
<1>1. since' = [m \in Vessels |-> Window + 1] /\ UNCHANGED <<pending, stored, heard, gap, lost>>
  BY DEF Ais!Restart
<1>. QED BY <1>1 DEF TableInv, Ages, NoneAhead, RowNearLastWrite, LagIsBounded, Ais!LagIsBounded,
                     Ais!Quiet, Ais!AisAssumption

\* Time passes: every age grows, up to its cap.
LEMMA TickTable ==
    ASSUME Ais!AisAssumption, TableInv, Ais!Tick
    PROVE  TableInv'
<1>1. /\ since' = [m \in Vessels |-> Ais!Older(since[m], Window + 1)]
      /\ pending' = [m \in Vessels |-> {age + 1 : age \in pending[m]}]
      /\ stored' = [m \in Vessels |-> Ais!Older(stored[m], Ais!Cap)]
      /\ heard' = [m \in Vessels |-> Ais!Older(heard[m], Latency)]
      /\ UNCHANGED <<gap, lost>>
      /\ \A m \in Vessels : Latency \notin pending[m]
  BY DEF Ais!Tick
<1>2. \A m \in Vessels : \A age \in pending[m] : age \in 0..(Latency - 1)
  BY <1>1 DEF TableInv, Ages, Ais!AisAssumption
<1>3. Ages'
  BY <1>1, <1>2 DEF TableInv, Ages, Ais!Older, Ais!None, Ais!Cap, Ais!AisAssumption
<1>4. NoneAhead'
  BY <1>1, <1>2 DEF TableInv, Ages, NoneAhead, Ais!Older, Ais!None, Ais!AisAssumption
<1>5. RowNearLastWrite'
  BY <1>1 DEF TableInv, Ages, RowNearLastWrite, Ais!Older, Ais!None, Ais!Cap, Ais!AisAssumption
<1>6. LagIsBounded'
  BY <1>1 DEF TableInv, Ages, LagIsBounded, Ais!LagIsBounded, Ais!Quiet, Ais!Older, Ais!None,
              Ais!Cap, Ais!AisAssumption
<1>. QED BY <1>3, <1>4, <1>5, <1>6 DEF TableInv

\* Although reports within the window are dropped for good, and however late and
\* in whatever order upserts end, a row lags the last report of its vessel by less
\* than a window and the longest upsert, unless the last upsert to end failed.
THEOREM RowsKeepUp == Spec => []LagIsBounded
<1>1. Init => TableInv
  BY AisMoves DEF Ais!Init, TableInv, Ages, NoneAhead, RowNearLastWrite, LagIsBounded,
                  Ais!LagIsBounded, Ais!Quiet, Ais!None, Ais!Cap, Ais!AisAssumption
<1>2. TableInv /\ [Next]_vars => TableInv'
  <2>. SUFFICES ASSUME TableInv, Ais!AisAssumption, [Ais!Next]_(Ais!vars) PROVE TableInv'
    BY AisMoves
  <2>1. ASSUME NEW m \in Vessels, Ais!Report(m) PROVE TableInv'
    BY <2>1, ReportTable
  <2>2. ASSUME NEW m \in Vessels, Ais!Finish(m) PROVE TableInv'
    BY <2>2, FinishTable
  <2>3. CASE Ais!Restart
    BY <2>3, RestartTable
  <2>4. CASE Ais!Tick
    BY <2>4, TickTable
  <2>5. CASE Ais!Connection \/ Ais!ProviderChanges \/ UNCHANGED Ais!vars
    <3>1. UNCHANGED Ais!table
      BY <2>5 DEF Ais!Connection, Ais!Open, Ais!Closed, Ais!Reconnect, Ais!ProviderChanges,
                  Ais!vars, Ais!table
    <3>. QED BY <3>1 DEF Ais!table, TableInv, Ages, NoneAhead, RowNearLastWrite, LagIsBounded,
                         Ais!LagIsBounded, Ais!Quiet
  <2>. QED BY <2>1, <2>2, <2>3, <2>4, <2>5 DEF Ais!Next
<1>3. TableInv => LagIsBounded
  BY DEF TableInv
<1>. QED BY <1>1, <1>2, <1>3, PTL DEF Spec

-----------------------------------------------------------------------------
(* The warehouse: pings in their order *)

\* The module's counts are those the theorems of finite sets are about.
LEMMA SameCount ==
    ASSUME NEW S
    PROVE  Lake!Cardinality(S) = Cardinality(S) /\ Lake!IsFiniteSet(S) = IsFiniteSet(S)
BY DEF Lake!Cardinality, Cardinality, Lake!IsFiniteSet, IsFiniteSet

\* Among finitely many pings there is a first and a last.
LEMMA FirstAndLast ==
    ASSUME NEW S, IsFiniteSet(S), S # {}, \A p \in S : p.time \in Int
    PROVE  /\ \E p \in S : \A q \in S : p.time <= q.time
           /\ \E p \in S : \A q \in S : q.time <= p.time
<1>. DEFINE HasBoth(T) == /\ \E p \in T : \A q \in T : p.time <= q.time
                          /\ \E p \in T : \A q \in T : q.time <= p.time
            without == {T \in SUBSET S : T # {} /\ ~HasBoth(T)}
<1>1. SUFFICES ASSUME without # {} PROVE FALSE
  OBVIOUS
<1>2. without \subseteq FiniteSubsetsOf(S)
  BY FS_FiniteSubsetsOfFinite
<1>3. PICK T \in without : \A U \in without : ~ (<<U, T>> \in StrictSubsetOrdering(S))
  BY <1>1, <1>2, FS_StrictSubsetOrderingWellFounded, WFMin
<1>4. PICK p \in T : TRUE
  BY <1>3
<1>5. CASE T = {p}
  BY <1>3, <1>5
<1>6. CASE T # {p}
  <2>. DEFINE U == T \ {p}
  <2>1. U \in SUBSET S /\ U # {} /\ U \subseteq T /\ U # T
    BY <1>3, <1>4, <1>6
  <2>2. U \notin without
    BY <1>3, <2>1 DEF StrictSubsetOrdering
  <2>3. HasBoth(U)
    BY <2>1, <2>2
  <2>4. PICK first \in U, last \in U : \A q \in U : first.time <= q.time /\ q.time <= last.time
    BY <2>3
  <2>5. {p, first, last} \subseteq T /\ \A q \in T : q.time \in Int /\ (q = p \/ q \in U)
    BY <1>3, <1>4, <2>1, <2>4
  <2>6. \E f \in T : \A q \in T : f.time <= q.time
    <3>1. CASE p.time <= first.time
      <4>1. \A q \in T : p.time <= q.time
        BY <2>4, <2>5, <3>1
      <4>. QED BY <1>4, <4>1
    <3>2. CASE first.time <= p.time
      BY <2>4, <2>5, <3>2
    <3>. QED BY <2>5, <3>1, <3>2
  <2>7. \E l \in T : \A q \in T : q.time <= l.time
    <3>1. CASE p.time <= last.time
      BY <2>4, <2>5, <3>1
    <3>2. CASE last.time <= p.time
      <4>1. \A q \in T : q.time <= p.time
        BY <2>4, <2>5, <3>2
      <4>. QED BY <1>4, <4>1
    <3>. QED BY <2>5, <3>1, <3>2
  <2>. QED BY <1>3, <2>6, <2>7
<1>. QED BY <1>5, <1>6

\* Silver as the gold tables find it: finitely many pings with times and places, one of a
\* vessel and instant.
Sound(S) ==
    /\ IsFiniteSet(S)
    /\ \A p \in S : p.time \in Int /\ p.place \in Int
    /\ \A p, q \in S : Lake!SameKey(p, q) => p = q

\* The ping before, if there is one: only one, and none between.
LEMMA Before ==
    ASSUME NEW S, Sound(S), NEW p \in S
    PROVE  /\ \A u \in Lake!Lag(S, p) :
                /\ u \in S /\ u.mmsi = p.mmsi /\ u.time < p.time
                /\ \A q \in S : q.mmsi = p.mmsi /\ q.time < p.time => q.time <= u.time
           /\ \A u, w \in Lake!Lag(S, p) : u = w
           /\ \A q \in S : q.mmsi = p.mmsi /\ q.time < p.time =>
                \E u \in Lake!Lag(S, p) : q.time <= u.time
<1>. DEFINE earlier == {q \in S : q.mmsi = p.mmsi /\ q.time < p.time}
<1>1. Lake!Lag(S, p) = {q \in earlier : \A o \in earlier : o.time <= q.time}
  BY DEF Lake!Lag
<1>2. \A u, w \in Lake!Lag(S, p) : u.time = w.time /\ u.mmsi = w.mmsi /\ u \in S /\ w \in S
  BY <1>1 DEF Sound
<1>3. \A u, w \in Lake!Lag(S, p) : u = w
  BY <1>2 DEF Sound, Lake!SameKey
<1>4. ASSUME NEW q \in earlier PROVE \E u \in Lake!Lag(S, p) : q.time <= u.time
  <2>1. IsFiniteSet(earlier) /\ earlier # {} /\ \A o \in earlier : o.time \in Int
    BY <1>4, FS_Subset DEF Sound
  <2>2. PICK u \in earlier : \A o \in earlier : o.time <= u.time
    BY <2>1, FirstAndLast
  <2>. QED BY <1>1, <2>2
<1>. QED BY <1>1, <1>3, <1>4

\* The ping after, if a later one exists, follows at once.
LEMMA After ==
    ASSUME NEW S, Sound(S), NEW p \in S, NEW q \in S, p.mmsi = q.mmsi, p.time < q.time
    PROVE  \E v \in S : v.mmsi = p.mmsi /\ p.time < v.time /\ v.time <= q.time /\ p \in Lake!Lag(S, v)
<1>. DEFINE later == {o \in S : o.mmsi = p.mmsi /\ p.time < o.time}
<1>1. IsFiniteSet(later) /\ later # {} /\ \A o \in later : o.time \in Int
  BY FS_Subset DEF Sound
<1>2. PICK v \in later : \A o \in later : v.time <= o.time
  BY <1>1, FirstAndLast
<1>3. p \in Lake!Lag(S, v)
  BY <1>2 DEF Sound, Lake!Lag
<1>. QED BY <1>2, <1>3

-----------------------------------------------------------------------------
(* The warehouse: gaps and islands *)

\* The minutes of the clock and the seconds between two times are less than a
\* minute apart.
LEMMA ClockMinutes ==
    ASSUME NEW a \in Int, NEW b \in Int
    PROVE  /\ Lake!Minutes(a, b) \in Int
           /\ \A n \in Int : /\ b - a >= 60 * n => Lake!Minutes(a, b) >= n
                             /\ Lake!Minutes(a, b) >= n => b - a > 60 * (n - 1)
                             /\ b - a <= 60 * n => Lake!Minutes(a, b) <= n
                             /\ Lake!Minutes(a, b) <= n => b - a < 60 * (n + 1)
BY DEF Lake!Minutes

\* The pings of a vessel after p, up to q.
Upto(S, p, q) == {v \in S : v.mmsi = p.mmsi /\ p.time < v.time /\ v.time <= q.time}

\* Two pings are of one run when no run starts after the one, up to the other: the
\* running sum counts the starts.
LEMMA SameRun ==
    ASSUME NEW S, Sound(S), NEW p \in S, NEW q \in S, p.mmsi = q.mmsi, p.time <= q.time
    PROVE  Lake!RunId(S, p) = Lake!RunId(S, q) <=> \A v \in Upto(S, p, q) : ~Lake!RunStart(S, v)
<1>. DEFINE starts(x) == {v \in S : v.mmsi = x.mmsi /\ v.time <= x.time /\ Lake!RunStart(S, v)}
<1>1. Lake!RunId(S, p) = Cardinality(starts(p)) /\ Lake!RunId(S, q) = Cardinality(starts(q))
  BY SameCount DEF Lake!RunId
<1>2. starts(p) \in SUBSET starts(q) /\ IsFiniteSet(starts(q))
  BY FS_Subset DEF Sound
<1>3. Cardinality(starts(p)) = Cardinality(starts(q)) <=> starts(p) = starts(q)
  <2>. HIDE DEF starts
  <2>. QED BY <1>2, FS_Subset
<1>4. starts(p) = starts(q) <=> \A v \in Upto(S, p, q) : ~Lake!RunStart(S, v)
  BY <1>2 DEF Sound, Upto
<1>. QED BY <1>1, <1>3, <1>4

\* Where no run starts between two idle pings, all are idle and each follows the
\* one before within the gap.
LEMMA RunIsChained ==
    ASSUME NEW S, Sound(S), Lake!WarehouseAssumption, NEW p \in S, NEW q \in S, p.mmsi = q.mmsi,
           Lake!Idle(p), Lake!Idle(q), \A v \in Upto(S, p, q) : ~Lake!RunStart(S, v)
    PROVE  \A v \in Upto(S, p, q) : Lake!Idle(v) /\ \E u \in Lake!Lag(S, v) : Lake!Chained(u, v)
<1>1. ASSUME NEW v \in Upto(S, p, q) PROVE Lake!Idle(v)
  <2>1. SUFFICES ASSUME ~Lake!Idle(v) PROVE FALSE
    OBVIOUS
  <2>. DEFINE next == {y \in S : y.mmsi = p.mmsi /\ v.time < y.time /\ y.time <= q.time /\ Lake!Idle(y)}
  <2>2. v \in S /\ v.mmsi = p.mmsi /\ p.time < v.time /\ v.time <= q.time
    BY <1>1 DEF Upto
  <2>3. v.time < q.time
    <3>1. v # q /\ v.time \in Int /\ q.time \in Int
      BY <2>1, <2>2 DEF Sound
    <3>2. v.time # q.time
      BY <2>2, <3>1 DEF Sound, Lake!SameKey
    <3>. QED BY <2>2, <3>1, <3>2
  <2>4. IsFiniteSet(next) /\ q \in next /\ \A y \in next : y.time \in Int
    BY <2>3, FS_Subset DEF Sound
  <2>5. PICK y \in next : \A o \in next : y.time <= o.time
    BY <2>4, FirstAndLast
  <2>6. y \in S /\ y.mmsi = p.mmsi /\ v.time < y.time /\ y.time <= q.time /\ Lake!Idle(y)
    BY <2>5
  <2>7. PICK u \in Lake!Lag(S, y) : v.time <= u.time
    BY <2>2, <2>6, Before
  <2>8. u \in S /\ u.mmsi = p.mmsi /\ u.time < y.time /\ \A w \in Lake!Lag(S, y) : w = u
    BY <2>6, <2>7, Before
  <2>9. u.time \in Int /\ v.time \in Int /\ y.time \in Int /\ q.time \in Int /\ p.time \in Int
    BY <2>2, <2>6, <2>8 DEF Sound
  <2>10. ~Lake!Idle(u)
    <3>1. CASE u.time = v.time
      <4>1. u = v
        BY <2>2, <2>8, <3>1 DEF Sound, Lake!SameKey
      <4>. QED BY <2>1, <4>1
    <3>2. CASE u.time # v.time
      <4>1. v.time < u.time /\ u.time <= q.time /\ ~(y.time <= u.time)
        BY <2>6, <2>7, <2>8, <2>9, <3>2
      <4>. QED BY <2>5, <2>8, <4>1
    <3>. QED BY <3>1, <3>2
  <2>11. Lake!RunStart(S, y)
    BY <2>6, <2>8, <2>10 DEF Lake!RunStart
  <2>12. y \in Upto(S, p, q)
    BY <2>2, <2>6, <2>9 DEF Upto
  <2>. QED BY <2>11, <2>12
<1>2. ASSUME NEW v \in Upto(S, p, q) PROVE \E u \in Lake!Lag(S, v) : Lake!Chained(u, v)
  <2>1. v \in S /\ Lake!Idle(v) /\ ~Lake!RunStart(S, v)
    BY <1>1, <1>2 DEF Upto
  <2>2. PICK u \in Lake!Lag(S, v) : Lake!Idle(u) /\ ~(Lake!Minutes(u.time, v.time) > MaxGap)
    BY <2>1 DEF Lake!RunStart
  <2>3. Lake!Minutes(u.time, v.time) \in Int /\ MaxGap \in Nat
    <3>1. u.time \in Int /\ v.time \in Int
      BY <2>1, Before DEF Sound
    <3>. QED BY <3>1, ClockMinutes DEF Lake!WarehouseAssumption
  <2>. QED BY <2>1, <2>2, <2>3 DEF Lake!Chained
<1>. QED BY <1>1, <1>2

\* Where each ping is chained to the one before, no run starts.
LEMMA ChainedIsRun ==
    ASSUME NEW S, Sound(S), Lake!WarehouseAssumption, NEW v \in S, NEW u \in Lake!Lag(S, v), Lake!Chained(u, v)
    PROVE  Lake!Idle(u) /\ Lake!Idle(v) /\ ~Lake!RunStart(S, v)
<1>1. Lake!Minutes(u.time, v.time) \in Int /\ MaxGap \in Nat
  <2>1. u.time \in Int /\ v.time \in Int
    BY Before DEF Sound
  <2>. QED BY <2>1, ClockMinutes DEF Lake!WarehouseAssumption
<1>2. ~(Lake!Minutes(u.time, v.time) > MaxGap)
  BY <1>1 DEF Lake!Chained
<1>. QED BY <1>2 DEF Lake!Chained, Lake!RunStart

\* An episode begins with the first ping of its run and ends with the last.
LEMMA EpisodeOfRun ==
    ASSUME NEW S, Sound(S), NEW x \in S, Lake!Idle(x)
    PROVE  \E f, l \in Lake!Run(S, x) :
              /\ \A y \in Lake!Run(S, x) : f.time <= y.time /\ y.time <= l.time
              /\ Lake!Episode(S, x).mmsi = x.mmsi
              /\ Lake!Episode(S, x).start = f.time /\ Lake!Episode(S, x).end = l.time
<1>. DEFINE run == Lake!Run(S, x)
            times == {q.time : q \in run}
<1>1. x \in run /\ run \subseteq S /\ IsFiniteSet(run) /\ \A y \in run : y.time \in Int
  BY FS_Subset DEF Sound, Lake!Run
<1>. HIDE DEF run
<1>2. PICK f \in run : \A y \in run : f.time <= y.time
  BY <1>1, FirstAndLast
<1>3. PICK l \in run : \A y \in run : y.time <= l.time
  BY <1>1, FirstAndLast
<1>4. times \subseteq Int /\ f.time \in times /\ l.time \in times
      /\ \A t \in times : f.time <= t /\ t <= l.time
  BY <1>1, <1>2, <1>3
<1>5. Lake!Min(times) = f.time
  <2>. DEFINE m == Lake!Min(times)
  <2>. HIDE DEF times
  <2>1. m \in times /\ \A t \in times : m <= t
    BY <1>4 DEF Lake!Min
  <2>. HIDE DEF m
  <2>2. m \in Int /\ f.time \in Int /\ m <= f.time /\ f.time <= m
    BY <1>4, <2>1
  <2>3. m = f.time
    BY <2>2
  <2>. QED BY <2>3 DEF m
<1>6. Lake!Max(times) = l.time
  <2>. DEFINE m == Lake!Max(times)
  <2>. HIDE DEF times
  <2>1. m \in times /\ \A t \in times : m >= t
    BY <1>4 DEF Lake!Max
  <2>. HIDE DEF m
  <2>2. m \in Int /\ l.time \in Int /\ m <= l.time /\ l.time <= m
    BY <1>4, <2>1
  <2>3. m = l.time
    BY <2>2
  <2>. QED BY <2>3 DEF m
<1>7. Lake!Episode(S, x) =
        [mmsi |-> x.mmsi, start |-> Lake!Min(times), end |-> Lake!Max(times), pings |-> Lake!Cardinality(times)]
  BY DEF Lake!Episode, run
<1>. HIDE DEF times
<1>8. Lake!Episode(S, x).mmsi = x.mmsi /\ Lake!Episode(S, x).start = f.time /\ Lake!Episode(S, x).end = l.time
  BY <1>5, <1>6, <1>7
<1>. QED BY <1>2, <1>3, <1>8 DEF run

\* An episode of the table is one by its meaning.
LEMMA RunIsEpisode ==
    ASSUME NEW S, Sound(S), Lake!WarehouseAssumption, NEW x \in S, Lake!Idle(x),
           NEW f \in Lake!Run(S, x), NEW l \in Lake!Run(S, x),
           \A y \in Lake!Run(S, x) : f.time <= y.time /\ y.time <= l.time,
           Lake!Minutes(f.time, l.time) >= IdleMin
    PROVE  Lake!IsEpisode(S, f, l)
<1>1. /\ f \in S /\ l \in S /\ f.mmsi = x.mmsi /\ l.mmsi = x.mmsi /\ Lake!Idle(f) /\ Lake!Idle(l)
      /\ Lake!RunId(S, f) = Lake!RunId(S, x) /\ Lake!RunId(S, l) = Lake!RunId(S, x)
      /\ f.time <= l.time /\ \A p \in S : p.time \in Int
  BY DEF Lake!Run, Sound
<1>2. \A v \in Upto(S, f, l) : ~Lake!RunStart(S, v)
  BY <1>1, SameRun
<1>3. ASSUME NEW u \in Lake!Between(S, f, l), NEW v \in Lake!Between(S, f, l), Lake!Consecutive(S, u, v) PROVE Lake!Chained(u, v)
  <2>1. u \in Lake!Lag(S, v) /\ u.time < v.time /\ v \in S /\ v \in Upto(S, f, l)
    BY <1>1, <1>3, Before DEF Lake!Consecutive, Lake!Between, Upto
  <2>2. PICK w \in Lake!Lag(S, v) : Lake!Chained(w, v)
    BY <1>1, <1>2, <2>1, RunIsChained
  <2>. QED BY <1>3, <2>1, <2>2, Before
<1>4. ASSUME NEW u \in Lake!Lag(S, f), Lake!Chained(u, f) PROVE FALSE
  <2>1. u \in S /\ u.mmsi = f.mmsi /\ u.time < f.time /\ Lake!Idle(u) /\ ~Lake!RunStart(S, f)
    BY <1>1, <1>4, Before, ChainedIsRun
  <2>2. Upto(S, u, f) \subseteq {f}
    <3>1. SUFFICES ASSUME NEW v \in Upto(S, u, f), v # f PROVE FALSE
      OBVIOUS
    <3>2. v \in S /\ v.mmsi = f.mmsi /\ u.time < v.time /\ v.time <= f.time /\ v.time # f.time
      BY <1>1, <2>1, <3>1 DEF Upto, Sound, Lake!SameKey
    <3>3. v.time < f.time
      BY <1>1, <3>2
    <3>4. v.time <= u.time
      BY <1>1, <1>4, <3>2, <3>3, Before
    <3>. QED BY <1>1, <2>1, <3>2, <3>4
  <2>3. Lake!RunId(S, u) = Lake!RunId(S, f)
    BY <1>1, <2>1, <2>2, SameRun
  <2>4. u \in Lake!Run(S, x)
    BY <1>1, <2>1, <2>3 DEF Lake!Run
  <2>. QED BY <1>1, <2>1, <2>4
<1>5. ASSUME NEW v \in S, Lake!Consecutive(S, l, v), Lake!Chained(l, v) PROVE FALSE
  <2>1. l \in Lake!Lag(S, v) /\ l.mmsi = v.mmsi /\ l.time < v.time /\ Lake!Idle(v) /\ ~Lake!RunStart(S, v)
    BY <1>1, <1>5, Before, ChainedIsRun DEF Lake!Consecutive
  <2>2. Upto(S, l, v) \subseteq {v}
    <3>1. SUFFICES ASSUME NEW w \in Upto(S, l, v), w # v PROVE FALSE
      OBVIOUS
    <3>2. w \in S /\ w.mmsi = v.mmsi /\ l.time < w.time /\ w.time <= v.time /\ w.time # v.time
      BY <1>1, <2>1, <3>1 DEF Upto, Sound, Lake!SameKey
    <3>3. w.time <= l.time
      BY <1>1, <2>1, <3>2, Before
    <3>. QED BY <1>1, <2>1, <3>2, <3>3
  <2>3. Lake!RunId(S, l) = Lake!RunId(S, v)
    BY <1>1, <2>1, <2>2, SameRun
  <2>4. v \in Lake!Run(S, x)
    BY <1>1, <2>1, <2>3 DEF Lake!Run
  <2>. QED BY <1>1, <2>1, <2>4
<1>. QED BY <1>1, <1>3, <1>4, <1>5 DEF Lake!IsEpisode

\* An episode by its meaning is the run of its first ping.
LEMMA EpisodeIsRun ==
    ASSUME NEW S, Sound(S), Lake!WarehouseAssumption, NEW p \in S, NEW q \in S, Lake!IsEpisode(S, p, q)
    PROVE  /\ Lake!Idle(p) /\ Lake!Minutes(p.time, q.time) >= IdleMin /\ p.mmsi = q.mmsi
           /\ q \in Lake!Run(S, p)
           /\ \A r \in Lake!Run(S, p) : p.time <= r.time /\ r.time <= q.time
<1>1. /\ p.mmsi = q.mmsi /\ p.time <= q.time /\ Lake!Minutes(p.time, q.time) >= IdleMin /\ Lake!Idle(p)
      /\ \A u, v \in Lake!Between(S, p, q) : Lake!Consecutive(S, u, v) => Lake!Chained(u, v)
      /\ \A u \in Lake!Lag(S, p) : ~Lake!Chained(u, p)
      /\ \A v \in S : Lake!Consecutive(S, q, v) => ~Lake!Chained(q, v)
  BY DEF Lake!IsEpisode
<1>2. p.time <= q.time /\ \A v \in S : v.time \in Int
  BY <1>1 DEF Sound
<1>3. ASSUME NEW v \in Upto(S, p, q) PROVE Lake!Idle(v) /\ ~Lake!RunStart(S, v)
  <2>1. v \in S /\ v.mmsi = p.mmsi /\ p.time < v.time /\ v.time <= q.time
    BY <1>3 DEF Upto
  <2>2. PICK u \in Lake!Lag(S, v) : p.time <= u.time
    BY <2>1, Before
  <2>3. u \in S /\ u.mmsi = p.mmsi /\ u.time < v.time
    BY <2>1, <2>2, Before
  <2>4. u \in Lake!Between(S, p, q) /\ v \in Lake!Between(S, p, q)
    BY <1>2, <2>1, <2>2, <2>3 DEF Lake!Between
  <2>. QED BY <1>1, <2>1, <2>2, <2>4, ChainedIsRun DEF Lake!Consecutive
<1>4. Lake!Idle(q)
  <2>1. CASE p.time = q.time
    BY <1>1, <2>1 DEF Sound, Lake!SameKey
  <2>2. CASE p.time # q.time
    <3>1. q \in Upto(S, p, q)
      BY <1>1, <1>2, <2>2 DEF Upto
    <3>. QED BY <1>3, <3>1
  <2>. QED BY <2>1, <2>2
<1>5. q \in Lake!Run(S, p)
  BY <1>1, <1>2, <1>3, <1>4, SameRun DEF Lake!Run
<1>6. ASSUME NEW r \in Lake!Run(S, p), r.time < p.time PROVE FALSE
  <2>1. r \in S /\ r.mmsi = p.mmsi /\ Lake!Idle(r) /\ Lake!RunId(S, r) = Lake!RunId(S, p)
    BY <1>6 DEF Lake!Run
  <2>2. \A v \in Upto(S, r, p) : ~Lake!RunStart(S, v)
    BY <1>2, <1>6, <2>1, SameRun
  <2>3. p \in Upto(S, r, p)
    BY <1>2, <1>6, <2>1 DEF Upto
  <2>. QED BY <1>1, <2>1, <2>2, <2>3, RunIsChained
<1>7. ASSUME NEW r \in Lake!Run(S, p), q.time < r.time PROVE FALSE
  <2>1. r \in S /\ r.mmsi = q.mmsi /\ Lake!Idle(r) /\ Lake!RunId(S, r) = Lake!RunId(S, q)
    BY <1>1, <1>5, <1>7 DEF Lake!Run
  <2>2. \A v \in Upto(S, q, r) : ~Lake!RunStart(S, v)
    BY <1>2, <1>7, <2>1, SameRun
  <2>3. PICK v \in S : v.mmsi = q.mmsi /\ q.time < v.time /\ v.time <= r.time /\ q \in Lake!Lag(S, v)
    BY <1>7, <2>1, After
  <2>4. v \in Upto(S, q, r)
    BY <2>3 DEF Upto
  <2>5. PICK u \in Lake!Lag(S, v) : Lake!Chained(u, v)
    BY <1>4, <2>1, <2>2, <2>4, RunIsChained
  <2>6. u = q
    BY <2>3, <2>5, Before
  <2>. QED BY <1>1, <2>3, <2>5, <2>6 DEF Lake!Consecutive
<1>8. \A r \in Lake!Run(S, p) : r \in S
  BY DEF Lake!Run
<1>. QED BY <1>1, <1>2, <1>5, <1>6, <1>7, <1>8

\* The idle table of sound pings holds exactly the episodes.
LEMMA IdlingIsEpisodes ==
    ASSUME NEW S, Sound(S), Lake!WarehouseAssumption
    PROVE  /\ \A p, q \in S :
                Lake!IsEpisode(S, p, q)
                  <=> \E e \in Lake!IdlingOf(S) :
                        e.mmsi = p.mmsi /\ e.start = p.time /\ e.end = q.time /\ p.mmsi = q.mmsi
           /\ \A e \in Lake!IdlingOf(S) : \E p, q \in S :
                p.mmsi = e.mmsi /\ p.time = e.start /\ q.time = e.end /\ Lake!IsEpisode(S, p, q)
<1>1. \A e \in Lake!IdlingOf(S) : \E x \in S : Lake!Idle(x) /\ e = Lake!Episode(S, x) /\ Lake!Minutes(e.start, e.end) >= IdleMin
  BY DEF Lake!IdlingOf
<1>2. ASSUME NEW e \in Lake!IdlingOf(S)
      PROVE  \E f, l \in S : /\ f.mmsi = e.mmsi /\ l.mmsi = e.mmsi /\ f.time = e.start /\ l.time = e.end
                              /\ Lake!IsEpisode(S, f, l)
  <2>1. PICK x \in S : Lake!Idle(x) /\ e = Lake!Episode(S, x) /\ Lake!Minutes(e.start, e.end) >= IdleMin
    BY <1>1, <1>2
  <2>2. PICK f \in Lake!Run(S, x), l \in Lake!Run(S, x) :
          /\ \A y \in Lake!Run(S, x) : f.time <= y.time /\ y.time <= l.time
          /\ e.mmsi = x.mmsi /\ e.start = f.time /\ e.end = l.time
    BY <2>1, EpisodeOfRun
  <2>3. f \in S /\ l \in S /\ f.mmsi = x.mmsi /\ l.mmsi = x.mmsi
    BY DEF Lake!Run
  <2>4. Lake!IsEpisode(S, f, l)
    BY <2>1, <2>2, RunIsEpisode
  <2>. QED BY <2>2, <2>3, <2>4
<1>3. ASSUME NEW p \in S, NEW q \in S, Lake!IsEpisode(S, p, q)
      PROVE  \E e \in Lake!IdlingOf(S) : e.mmsi = p.mmsi /\ e.start = p.time /\ e.end = q.time /\ p.mmsi = q.mmsi
  <2>. DEFINE e == Lake!Episode(S, p)
  <2>1. /\ Lake!Idle(p) /\ Lake!Minutes(p.time, q.time) >= IdleMin /\ p.mmsi = q.mmsi /\ q \in Lake!Run(S, p)
        /\ \A r \in Lake!Run(S, p) : p.time <= r.time /\ r.time <= q.time
    BY <1>3, EpisodeIsRun
  <2>2. PICK f \in Lake!Run(S, p), l \in Lake!Run(S, p) :
          /\ \A y \in Lake!Run(S, p) : f.time <= y.time /\ y.time <= l.time
          /\ e.mmsi = p.mmsi /\ e.start = f.time /\ e.end = l.time
    BY <2>1, EpisodeOfRun
  <2>3. p \in Lake!Run(S, p) /\ f.time \in Int /\ l.time \in Int /\ p.time \in Int /\ q.time \in Int
    BY <2>1 DEF Lake!Run, Sound
  <2>4. f.time <= p.time /\ p.time <= f.time /\ q.time <= l.time /\ l.time <= q.time
    BY <2>1, <2>2, <2>3
  <2>5. f.time = p.time /\ l.time = q.time
    BY <2>3, <2>4
  <2>6. e \in Lake!IdlingOf(S)
    BY <2>1, <2>2, <2>5 DEF Lake!IdlingOf
  <2>. QED BY <2>1, <2>2, <2>5, <2>6
<1>4. ASSUME NEW p \in S, NEW q \in S, NEW e \in Lake!IdlingOf(S),
             e.mmsi = p.mmsi, e.start = p.time, e.end = q.time, p.mmsi = q.mmsi
      PROVE  Lake!IsEpisode(S, p, q)
  <2>1. PICK f \in S, l \in S : /\ f.mmsi = e.mmsi /\ l.mmsi = e.mmsi /\ f.time = e.start /\ l.time = e.end
                                /\ Lake!IsEpisode(S, f, l)
    BY <1>2
  <2>2. f = p /\ l = q
    BY <1>4, <2>1 DEF Sound, Lake!SameKey
  <2>. QED BY <2>1, <2>2
<1>. QED BY <1>2, <1>3, <1>4

\* By the seconds, an episode is less than a minute short, and so are its holes too long.
LEMMA EpisodeBySeconds ==
    ASSUME NEW S, Sound(S), Lake!WarehouseAssumption, NEW p \in S, NEW q \in S, Lake!IsEpisode(S, p, q)
    PROVE  /\ q.time - p.time > 60 * (IdleMin - 1)
           /\ \A u, v \in Lake!Between(S, p, q) :
                Lake!Consecutive(S, u, v) => v.time - u.time < 60 * (MaxGap + 1)
<1>1. p.time \in Int /\ q.time \in Int /\ IdleMin \in Int /\ MaxGap \in Int
  BY DEF Sound, Lake!WarehouseAssumption
<1>2. q.time - p.time > 60 * (IdleMin - 1)
  BY <1>1, ClockMinutes DEF Lake!IsEpisode
<1>3. ASSUME NEW u \in Lake!Between(S, p, q), NEW v \in Lake!Between(S, p, q), Lake!Consecutive(S, u, v)
      PROVE  v.time - u.time < 60 * (MaxGap + 1)
  <2>1. u.time \in Int /\ v.time \in Int
    BY DEF Sound, Lake!Between
  <2>2. Lake!Minutes(u.time, v.time) <= MaxGap
    BY <1>3 DEF Lake!IsEpisode, Lake!Chained
  <2>. QED BY <1>1, <2>1, <2>2, ClockMinutes
<1>. QED BY <1>2, <1>3

\* No idle time is missed: where a vessel sat idle for long enough, an episode is.
LEMMA IdleIsFound ==
    ASSUME NEW S, Sound(S), Lake!WarehouseAssumption, NEW p \in S, NEW q \in S, Lake!SatIdle(S, p, q)
    PROVE  \E e \in Lake!IdlingOf(S) : e.mmsi = p.mmsi /\ e.start <= p.time /\ q.time <= e.end
<1>1. /\ p.mmsi = q.mmsi /\ p.time <= q.time /\ q.time - p.time >= 60 * IdleMin /\ Lake!Idle(p)
      /\ \A u, v \in Lake!Between(S, p, q) :
           Lake!Consecutive(S, u, v) => Lake!Idle(u) /\ Lake!Idle(v) /\ v.time - u.time <= 60 * MaxGap
  BY DEF Lake!SatIdle
<1>2. IdleMin \in Int /\ MaxGap \in Int /\ \A v \in S : v.time \in Int
  BY DEF Sound, Lake!WarehouseAssumption
<1>3. ASSUME NEW v \in Upto(S, p, q) PROVE Lake!Idle(v) /\ ~Lake!RunStart(S, v)
  <2>1. v \in S /\ v.mmsi = p.mmsi /\ p.time < v.time /\ v.time <= q.time
    BY <1>3 DEF Upto
  <2>2. PICK u \in Lake!Lag(S, v) : p.time <= u.time
    BY <2>1, Before
  <2>3. u \in S /\ u.mmsi = p.mmsi /\ u.time < v.time
    BY <2>1, <2>2, Before
  <2>4. u \in Lake!Between(S, p, q) /\ v \in Lake!Between(S, p, q)
    BY <1>2, <2>1, <2>2, <2>3 DEF Lake!Between
  <2>5. Lake!Idle(u) /\ Lake!Idle(v) /\ v.time - u.time <= 60 * MaxGap
    BY <1>1, <2>2, <2>4 DEF Lake!Consecutive
  <2>6. Lake!Minutes(u.time, v.time) <= MaxGap
    BY <1>2, <2>1, <2>3, <2>5, ClockMinutes
  <2>. QED BY <2>1, <2>2, <2>5, <2>6, ChainedIsRun DEF Lake!Chained
<1>4. Lake!Idle(q)
  <2>1. CASE p.time = q.time
    BY <1>1, <2>1 DEF Sound, Lake!SameKey
  <2>2. CASE p.time # q.time
    <3>1. q \in Upto(S, p, q)
      BY <1>1, <1>2, <2>2 DEF Upto
    <3>. QED BY <1>3, <3>1
  <2>. QED BY <2>1, <2>2
<1>5. p \in Lake!Run(S, p) /\ q \in Lake!Run(S, p)
  BY <1>1, <1>3, <1>4, SameRun DEF Lake!Run
<1>. DEFINE e == Lake!Episode(S, p)
<1>6. PICK f \in Lake!Run(S, p), l \in Lake!Run(S, p) :
        /\ \A y \in Lake!Run(S, p) : f.time <= y.time /\ y.time <= l.time
        /\ e.mmsi = p.mmsi /\ e.start = f.time /\ e.end = l.time
  BY <1>1, EpisodeOfRun
<1>7. f.time \in Int /\ l.time \in Int /\ p.time \in Int /\ q.time \in Int
  BY <1>2 DEF Lake!Run
<1>8. f.time <= p.time /\ q.time <= l.time
  BY <1>5, <1>6
<1>9. l.time - f.time >= 60 * IdleMin
  BY <1>1, <1>2, <1>7, <1>8
<1>10. Lake!Minutes(e.start, e.end) >= IdleMin
  BY <1>2, <1>6, <1>7, <1>9, ClockMinutes
<1>11. e \in Lake!IdlingOf(S)
  BY <1>1, <1>10 DEF Lake!IdlingOf
<1>. QED BY <1>6, <1>8, <1>11

-----------------------------------------------------------------------------
(* The warehouse: silver *)

\* Typing a row keeps its vessel, its time and its place; a known speed is plausible.
LEMMA TypedRow ==
    ASSUME NEW r \in Lake!Row
    PROVE  /\ Lake!Typed(r) \in Lake!Row
           /\ Lake!SameKey(Lake!Typed(r), r) /\ Lake!Typed(r).place = r.place
           /\ Lake!Typed(r).speed # Unknown => Lake!Typed(r).speed \in 0..MaxKnots
BY DEF Lake!Typed, Lake!Row, Lake!SameKey

\* Silver is sound, and whatever is fit for use is in it.
LEMMA SilverIsSound ==
    ASSUME Lake!WarehouseAssumption, NEW landed \in SUBSET Lake!Row, IsFiniteSet(landed), NEW S \in Lake!SilverOf(landed)
    PROVE  /\ Sound(S)
           /\ \A row \in landed : Lake!Valid(row) => \E p \in S : Lake!SameKey(p, row)
<1>. DEFINE typed == {Lake!Typed(r) : r \in landed}
            fit == {row \in typed : Lake!Valid(row)}
            best == {row \in fit : ~\E other \in fit : Lake!SameKey(row, other) /\ Lake!Faster(other, row)}
            kin(row) == {k \in S : Lake!SameKey(k, row)}
<1>1. S \in SUBSET best /\ \A row \in best : Lake!Cardinality(kin(row)) = 1
  BY DEF Lake!SilverOf, Lake!Deduped
<1>2. IsFiniteSet(typed)
  <2>1. [r \in landed |-> Lake!Typed(r)] \in Surjection(landed, typed)
    BY DEF Surjection
  <2>. HIDE DEF typed
  <2>. QED BY <2>1, FS_Surjection
<1>3. \A row \in fit : row \in Lake!Row /\ Lake!Valid(row) /\ (row.speed # Unknown => row.speed \in 0..MaxKnots)
  BY TypedRow
<1>4. IsFiniteSet(S) /\ S \subseteq fit
  BY <1>1, <1>2, FS_Subset
<1>5. \A row \in best : \E k : kin(row) = {k}
  <2>1. \A row : IsFiniteSet(kin(row))
    BY <1>4, FS_Subset
  <2>. QED BY <1>1, <2>1, SameCount, FS_Singleton
<1>6. Sound(S)
  <2>1. \A p \in S : p.time \in Int /\ p.place \in Int
    BY <1>3, <1>4 DEF Lake!Row, Lake!Valid
  <2>2. ASSUME NEW p \in S, NEW q \in S, Lake!SameKey(p, q) PROVE p = q
    <3>1. p \in kin(q) /\ q \in kin(q) /\ q \in best
      BY <1>1, <2>2 DEF Lake!SameKey
    <3>. HIDE DEF kin, best
    <3>. QED BY <1>5, <3>1
  <2>. QED BY <1>4, <2>1, <2>2 DEF Sound
<1>7. ASSUME NEW row \in landed, Lake!Valid(row) PROVE \E p \in S : Lake!SameKey(p, row)
  <2>. DEFINE t == Lake!Typed(row)
              fast == {o \in fit : Lake!SameKey(o, row) /\ o.speed # Unknown}
  <2>1. t \in fit /\ Lake!SameKey(t, row)
    BY <1>7, TypedRow DEF Lake!Valid, Lake!SameKey
  <2>2. \E b \in best : Lake!SameKey(b, row)
    <3>1. CASE fast = {}
      <4>1. \A other \in fit : Lake!SameKey(t, other) => other.speed = Unknown
        BY <2>1, <3>1 DEF Lake!SameKey
      <4>. QED BY <2>1, <4>1 DEF Lake!Faster
    <3>2. CASE fast # {}
      <4>. DEFINE slack == {MaxKnots - o.speed : o \in fast}
      <4>1. \A o \in fast : o.speed \in 0..MaxKnots
        BY <1>3
      <4>2. slack # {} /\ slack \subseteq Nat
        <5>1. MaxKnots \in Nat
          BY DEF Lake!WarehouseAssumption
        <5>. HIDE DEF fast
        <5>. QED BY <3>2, <4>1, <5>1
      <4>3. PICK n \in slack : \A m \in slack : ~ (<<m, n>> \in OpToRel(<, Nat))
        BY <4>2, NatLessThanWellFounded, WFMin
      <4>4. \A m \in slack : m \in Nat /\ n \in Nat /\ ~(m < n)
        BY <4>2, <4>3 DEF OpToRel
      <4>5. PICK b \in fast : n = MaxKnots - b.speed
        BY <4>3
      <4>6. ASSUME NEW o \in fast PROVE ~(o.speed > b.speed)
        <5>1. MaxKnots - o.speed \in slack
          BY <4>6
        <5>2. ~(MaxKnots - o.speed < MaxKnots - b.speed) /\ o.speed \in Int /\ b.speed \in Int /\ MaxKnots \in Int
          BY <4>1, <4>4, <4>5, <4>6, <5>1 DEF Lake!WarehouseAssumption
        <5>. QED BY <5>2
      <4>7. ASSUME NEW other \in fit, Lake!SameKey(b, other), Lake!Faster(other, b) PROVE FALSE
        <5>1. other \in fast /\ b.speed # Unknown
          BY <4>5, <4>7 DEF Lake!Faster, Lake!SameKey
        <5>. QED BY <4>6, <4>7, <5>1 DEF Lake!Faster
      <4>. QED BY <4>5, <4>7
    <3>. QED BY <3>1, <3>2
  <2>3. PICK b \in best : Lake!SameKey(b, row)
    BY <2>2
  <2>4. PICK k : kin(b) = {k}
    BY <1>5, <2>3
  <2>5. k \in S /\ Lake!SameKey(k, b)
    BY <2>4
  <2>. QED BY <2>3, <2>5 DEF Lake!SameKey
<1>. QED BY <1>6, <1>7

-----------------------------------------------------------------------------
(* The warehouse: sums *)

\* The fold of the library over a function with finite domain: it takes out the
\* elements of its domain one by one, in an order it chooses.
One(s) == CHOOSE x \in s : TRUE

Added(f, g, s) == IF s = {} THEN 0 ELSE f[One(s)] + g[s \ {One(s)}]

Sums(f) == CHOOSE g : g = [s \in SUBSET DOMAIN f |-> Added(f, g, s)]

\* A sum is that fold, over the whole domain.
LEMMA SumIs == ASSUME NEW f PROVE Lake!Sum(f) = Sums(f)[DOMAIN f]
BY DEF Lake!Sum, Lake!FoldFunction, Lake!FoldFunctionOnSet, Lake!MapThenFoldSet, Sums, One, Added

\* What is left when one element is out.
LEMMA OneOut == ASSUME NEW D, IsFiniteSet(D), NEW s \in SUBSET D, s # {}
      PROVE One(s) \in s /\ s \ {One(s)} \in SUBSET D /\ Cardinality(s \ {One(s)}) = Cardinality(s) - 1 /\ Cardinality(s) \in Nat
<1>1. One(s) \in s
  BY DEF One
<1>2. IsFiniteSet(s)
  BY FS_Subset
<1>. QED BY <1>1, <1>2, FS_RemoveElement, FS_CardinalityType

\* The recursion that defines the fold has a solution: one for the sets up to each
\* size, and so one for all.
LEMMA SumsExist ==
    ASSUME NEW f, IsFiniteSet(DOMAIN f)
    PROVE  Sums(f) = [s \in SUBSET DOMAIN f |-> Added(f, Sums(f), s)]
<1>. DEFINE D == DOMAIN f
            Small(n) == {s \in SUBSET D : Cardinality(s) <= n}
            Solvable(n) == \E g : g = [s \in Small(n) |-> Added(f, g, s)]
            without == {n \in Nat : ~Solvable(n)}
<1>1. ASSUME without # {} PROVE FALSE
  <2>1. PICK n \in without : \A m \in without : ~ (<<m, n>> \in OpToRel(<, Nat))
    BY <1>1, NatLessThanWellFounded, WFMin
  <2>2. CASE n = 0
    <3>. DEFINE g == [s \in Small(0) |-> 0]
    <3>1. \A s \in Small(0) : s = {}
      BY FS_Subset, FS_EmptySet, FS_CardinalityType
    <3>2. g = [s \in Small(0) |-> Added(f, g, s)]
      BY <3>1 DEF Added
    <3>3. Solvable(0)
      BY <3>2
    <3>. QED BY <2>1, <2>2, <3>3
  <2>3. CASE n # 0
    <3>. HIDE DEF Solvable
    <3>0. n \in Nat
      BY <2>1, Zenon
    <3>1. n - 1 \in Nat /\ n - 1 < n
      BY <2>3, <3>0
    <3>. n - 1 \notin without
      BY <2>1, <3>1 DEF OpToRel
    <3>. Solvable(n - 1)
      BY <3>1
    <3>. USE DEF Solvable
    <3>2. PICK g : g = [s \in Small(n - 1) |-> Added(f, g, s)]
      BY <3>1
    <3>. DEFINE h == [s \in Small(n) |-> Added(f, g, s)]
    <3>3. ASSUME NEW s \in Small(n) PROVE Added(f, g, s) = Added(f, h, s)
      <4>1. CASE s = {}
        BY <4>1 DEF Added
      <4>2. CASE s # {}
        <5>. DEFINE r == s \ {One(s)}
        <5>1. r \in Small(n - 1) /\ r \in Small(n)
          BY <3>0, <3>1, <4>2, OneOut
        <5>2. h[r] = Added(f, g, r) /\ g[r] = Added(f, g, r)
          BY <5>1, <3>2
        <5>3. h[r] = g[r]
          BY <5>2
        <5>. HIDE DEF h
        <5>. QED BY <4>2, <5>3 DEF Added
      <4>. QED BY <4>1, <4>2
    <3>4. h = [s \in Small(n) |-> Added(f, h, s)]
      <4>. DEFINE k == [s \in Small(n) |-> Added(f, h, s)]
      <4>1. \A s \in Small(n) : h[s] = k[s]
        BY <3>3
      <4>. QED BY <4>1
    <3>5. Solvable(n)
      BY <3>4
    <3>. QED BY <2>1, <3>5
  <2>. QED BY <2>2, <2>3
<1>2. Solvable(Cardinality(D))
  BY <1>1, FS_CardinalityType
<1>3. Small(Cardinality(D)) = SUBSET D
  BY FS_Subset, FS_CardinalityType
<1>4. \E g : g = [s \in SUBSET D |-> Added(f, g, s)]
  BY <1>2, <1>3
<1>. QED BY <1>4 DEF Sums

\* Sums of integers are integers.
LEMMA SumsInt ==
    ASSUME NEW f, IsFiniteSet(DOMAIN f), \A x \in DOMAIN f : f[x] \in Int
    PROVE  \A s \in SUBSET DOMAIN f : Sums(f)[s] \in Int
<1>. DEFINE D == DOMAIN f
            without == {s \in SUBSET D : Sums(f)[s] \notin Int}
<1>1. SUFFICES ASSUME without # {} PROVE FALSE
  OBVIOUS
<1>2. without \subseteq FiniteSubsetsOf(D)
  BY FS_FiniteSubsetsOfFinite
<1>3. PICK s \in without : \A r \in without : ~ (<<r, s>> \in StrictSubsetOrdering(D))
  BY <1>1, <1>2, FS_StrictSubsetOrderingWellFounded, WFMin
<1>4. Sums(f)[s] = Added(f, Sums(f), s)
  BY <1>3, SumsExist
<1>5. s # {}
  BY <1>3, <1>4 DEF Added
<1>6. One(s) \in s /\ s \ {One(s)} \in SUBSET D /\ s \ {One(s)} # s
  <2>1. s \in SUBSET DOMAIN f
    BY <1>3
  <2>2. One(s) \in s /\ s \ {One(s)} \in SUBSET DOMAIN f
    BY <1>5, <2>1, OneOut
  <2>. QED BY <2>2
<1>7. s \ {One(s)} \notin without
  BY <1>3, <1>6 DEF StrictSubsetOrdering
<1>8. Sums(f)[s \ {One(s)}] \in Int
  BY <1>6, <1>7
<1>. QED BY <1>3, <1>4, <1>5, <1>6, <1>8 DEF Added

\* The order does not matter: any element may be the last one added.
LEMMA SumsAdd ==
    ASSUME NEW f, IsFiniteSet(DOMAIN f), \A x \in DOMAIN f : f[x] \in Int
    PROVE  \A s \in SUBSET DOMAIN f : \A x \in DOMAIN f \ s : Sums(f)[s \cup {x}] = f[x] + Sums(f)[s]
<1>. DEFINE D == DOMAIN f
            Adds(s) == \A x \in D \ s : Sums(f)[s \cup {x}] = f[x] + Sums(f)[s]
            without == {s \in SUBSET D : ~Adds(s)}
<1>1. SUFFICES ASSUME without # {} PROVE FALSE
  OBVIOUS
<1>2. without \subseteq FiniteSubsetsOf(D)
  BY FS_FiniteSubsetsOfFinite
<1>3. PICK s \in without : \A r \in without : ~ (<<r, s>> \in StrictSubsetOrdering(D))
  BY <1>1, <1>2, FS_StrictSubsetOrderingWellFounded, WFMin
<1>4. PICK x \in D \ s : Sums(f)[s \cup {x}] # f[x] + Sums(f)[s]
  BY <1>3
<1>. DEFINE t == s \cup {x}
            y == One(t)
<1>5. t \in SUBSET D /\ s \in SUBSET D /\ t # {}
  BY <1>3, <1>4
<1>6. Sums(f)[t] = f[y] + Sums(f)[t \ {y}] /\ y \in t
  <2>1. Sums(f)[t] = Added(f, Sums(f), t)
    BY <1>5, SumsExist
  <2>2. y \in t
    BY <1>5 DEF One
  <2>. QED BY <1>5, <2>1, <2>2 DEF Added
<1>7. CASE y = x
  BY <1>4, <1>6, <1>7
<1>8. CASE y # x
  <2>. DEFINE r == s \ {y}
  <2>1. y \in s /\ r \in SUBSET D /\ r # s /\ x \in D \ r /\ y \in D \ r /\ r \subseteq s
    BY <1>4, <1>5, <1>6, <1>8
  <2>2. Adds(r)
    BY <1>3, <2>1 DEF StrictSubsetOrdering
  <2>3. r \cup {x} = t \ {y} /\ r \cup {y} = s
    BY <1>4, <1>8, <2>1
  <2>4. Sums(f)[t \ {y}] = f[x] + Sums(f)[r]
    BY <2>1, <2>2, <2>3
  <2>5. Sums(f)[s] = f[y] + Sums(f)[r]
    BY <2>1, <2>2, <2>3
  <2>6. f[x] \in Int /\ f[y] \in Int /\ Sums(f)[r] \in Int
    BY <2>1, SumsInt
  <2>7. Sums(f)[t] = f[x] + Sums(f)[s]
    BY <1>6, <2>4, <2>5, <2>6
  <2>. QED BY <1>4, <2>7
<1>. QED BY <1>7, <1>8
\* The sum of nothing, and of one thing.
LEMMA SmallSums ==
    ASSUME NEW f, IsFiniteSet(DOMAIN f), \A x \in DOMAIN f : f[x] \in Int
    PROVE  /\ Sums(f)[{}] = 0
           /\ \A x \in DOMAIN f : Sums(f)[{x}] = f[x]
<1>1. Sums(f)[{}] = 0
  BY SumsExist DEF Added
<1>2. ASSUME NEW x \in DOMAIN f PROVE Sums(f)[{x}] = f[x]
  <2>1. Sums(f)[{} \cup {x}] = f[x] + Sums(f)[{}]
    BY SumsAdd
  <2>2. f[x] \in Int /\ {} \cup {x} = {x}
    OBVIOUS
  <2>. QED BY <1>1, <2>1, <2>2
<1>. QED BY <1>1, <1>2

\* Every ping is counted in one day: the rows of the table share the pings out.
LEMMA DaysAddUp ==
    ASSUME NEW S, IsFiniteSet(S)
    PROVE  Lake!Sum([e \in Lake!FactOf(S) |-> e.pings]) = Cardinality(S)
<1>. DEFINE D == Lake!FactOf(S)
            f == [e \in D |-> e.pings]
            RowOf(p) == Lake!DayRow(S, p)
            In(T) == {p \in S : RowOf(p) \in T}
<1>1. IsFiniteSet(D)
  <2>1. [p \in S |-> RowOf(p)] \in Surjection(S, D)
    BY DEF Surjection, Lake!FactOf
  <2>. HIDE DEF D, RowOf
  <2>. QED BY <2>1, FS_Surjection
<1>2. \A T : IsFiniteSet(In(T)) /\ Cardinality(In(T)) \in Nat
  BY FS_Subset, FS_CardinalityType
<1>3. ASSUME NEW e \in D PROVE e.pings = Cardinality(In({e}))
  <2>1. PICK o \in S : e = RowOf(o)
    BY DEF Lake!FactOf
  <2>2. /\ e.pings = Lake!Cardinality(Lake!Today(S, o))
        /\ e.mmsi = o.mmsi /\ e.day = Lake!DayOf(o)
    BY <2>1 DEF Lake!DayRow
  <2>3. \A p \in S : RowOf(p).mmsi = p.mmsi /\ RowOf(p).day = Lake!DayOf(p)
    BY DEF Lake!DayRow
  <2>4. ASSUME NEW p \in Lake!Today(S, o) PROVE p \in In({e})
    <3>1. p \in S /\ p.mmsi = o.mmsi /\ Lake!DayOf(p) = Lake!DayOf(o) /\ Lake!Today(S, p) = Lake!Today(S, o)
      BY <2>4 DEF Lake!Today
    <3>2. RowOf(p) = RowOf(o)
      BY <3>1 DEF Lake!DayRow
    <3>. QED BY <2>1, <3>1, <3>2
  <2>5. ASSUME NEW p \in In({e}) PROVE p \in Lake!Today(S, o)
    <3>. HIDE DEF RowOf
    <3>. QED BY <2>2, <2>3, <2>5 DEF Lake!Today
  <2>6. Lake!Today(S, o) = In({e})
    BY <2>4, <2>5 DEF Lake!Today
  <2>. QED BY <2>2, <2>6, SameCount
<1>4. IsFiniteSet(DOMAIN f) /\ \A e \in DOMAIN f : f[e] = Cardinality(In({e})) /\ f[e] \in Int
  <2>. HIDE DEF D, In
  <2>1. DOMAIN f = D /\ \A e \in D : f[e] = e.pings
    OBVIOUS
  <2>. HIDE DEF f
  <2>. QED BY <1>1, <1>2, <1>3, <2>1
<1>. DEFINE without == {T \in SUBSET D : Sums(f)[T] # Cardinality(In(T))}
<1>5. ASSUME without # {} PROVE FALSE
  <2>1. without \subseteq FiniteSubsetsOf(D)
    BY <1>1, FS_FiniteSubsetsOfFinite
  <2>2. PICK T \in without : \A U \in without : ~ (<<U, T>> \in StrictSubsetOrdering(D))
    BY <1>1, <1>5, <2>1, FS_StrictSubsetOrderingWellFounded, WFMin
  <2>. HIDE DEF f, D
  <2>3. DOMAIN f = D
    BY DEF f
  <2>4. T # {}
    <3>1. In({}) = {} /\ Cardinality({}) = 0
      BY FS_EmptySet
    <3>2. Sums(f)[{}] = 0
      BY <1>4, SmallSums
    <3>. QED BY <2>2, <3>1, <3>2
  <2>5. PICK e \in T : TRUE
    BY <2>4
  <2>. DEFINE U == T \ {e}
  <2>6. U \in SUBSET D /\ e \in D \ U /\ U \cup {e} = T /\ U # T /\ U \subseteq T
    BY <2>2, <2>5
  <2>7. Sums(f)[U] = Cardinality(In(U))
    BY <2>2, <2>6 DEF StrictSubsetOrdering
  <2>8. Sums(f)[T] = f[e] + Sums(f)[U]
    BY <1>4, <2>3, <2>6, SumsAdd
  <2>9. In(T) = In(U) \cup In({e}) /\ In(U) \cap In({e}) = {}
    BY <2>6
  <2>10. Cardinality(In(T)) = Cardinality(In(U)) + Cardinality(In({e}))
    <3>. HIDE DEF In
    <3>. DEFINE old == In(U)  new == In({e})
    <3>1. IsFiniteSet(old) /\ IsFiniteSet(new) /\ In(T) = old \cup new /\ old \cap new = {}
      BY <1>2, <2>9
    <3>. HIDE DEF old, new
    <3>2. Cardinality(old \cup new) = Cardinality(old) + Cardinality(new) - Cardinality(old \cap new)
      BY <3>1, FS_Union
    <3>. DEFINE x == Cardinality(old)  y == Cardinality(new)  z == Cardinality(In(T))
    <3>3. x \in Nat /\ y \in Nat /\ Cardinality({}) = 0
      BY <3>1, FS_EmptySet, FS_CardinalityType
    <3>4. z = x + y - Cardinality({})
      BY <3>1, <3>2
    <3>. HIDE DEF x, y, z
    <3>5. z = x + y
      BY <3>3, <3>4
    <3>. QED BY <3>5 DEF x, y, z, old, new
  <2>11. f[e] = Cardinality(In({e}))
    BY <1>4, <2>3, <2>6
  <2>12. Sums(f)[T] = Cardinality(In(T))
    <3>. HIDE DEF In, U
    <3>. QED BY <1>2, <2>7, <2>8, <2>10, <2>11
  <2>. QED BY <2>2, <2>12
<1>6. Sums(f)[D] = Cardinality(In(D)) /\ DOMAIN f = D
  BY <1>5
<1>7. In(D) = S
  BY DEF Lake!FactOf
<1>8. Lake!Sum(f) = Sums(f)[DOMAIN f]
  BY SumIs
<1>. QED BY <1>6, <1>7, <1>8

\* What comes after a ping, in its place.
LEMMA HopOf ==
    ASSUME Lake!WarehouseAssumption, NEW S, Sound(S), NEW p \in S,
           NEW hop, hop = Lake!Sum([q \in Lake!Lag(S, p) |-> Lake!Leg(p, q)])
    PROVE  /\ Lake!Lag(S, p) = {} => hop = 0
           /\ \A q \in Lake!Lag(S, p) : hop \in Int /\ hop * 3600 <= MaxKnots * (p.time - q.time)
<1>. DEFINE f == [q \in Lake!Lag(S, p) |-> Lake!Leg(p, q)]
<1>1. \A q \in Lake!Lag(S, p) : q \in S /\ q.time < p.time
  BY Before
<1>2. \A q \in S : q.time \in Int /\ q.place \in Int
  BY DEF Sound
<1>3. ASSUME NEW q \in Lake!Lag(S, p)
      PROVE  Lake!Leg(p, q) \in Int /\ Lake!Leg(p, q) * 3600 <= MaxKnots * (p.time - q.time)
  <2>1. q.time \in Int /\ p.time \in Int /\ q.place \in Int /\ p.place \in Int /\ q.time < p.time
    BY <1>1, <1>2, <1>3
  <2>2. MaxKnots \in Nat /\ MaxKnots * (p.time - q.time) >= 0
    BY <2>1 DEF Lake!WarehouseAssumption
  <2>. DEFINE jump == Lake!Abs(p.place - q.place)
  <2>3. jump \in Int
    BY <2>1 DEF Lake!Abs
  <2>4. Lake!Leg(p, q) = IF p.time > q.time /\ jump * 3600 <= MaxKnots * (p.time - q.time) THEN jump ELSE 0
    BY DEF Lake!Leg
  <2>. HIDE DEF jump
  <2>. QED BY <2>1, <2>2, <2>3, <2>4
<1>4. CASE Lake!Lag(S, p) = {}
  <2>1. DOMAIN f = {} /\ IsFiniteSet({})
    BY <1>4, FS_EmptySet
  <2>2. Lake!Sum(f) = Sums(f)[{}]
    BY <2>1, SumIs
  <2>. HIDE DEF f
  <2>3. Sums(f)[{}] = 0
    BY <2>1, SmallSums
  <2>. QED BY <1>4, <2>2, <2>3 DEF f
<1>5. ASSUME NEW q \in Lake!Lag(S, p) PROVE hop = Lake!Leg(p, q)
  <2>0. Lake!Lag(S, p) = {q}
    BY <1>5, Before
  <2>1. DOMAIN f = {q} /\ f[q] = Lake!Leg(p, q) /\ IsFiniteSet({q})
    BY <2>0, FS_Singleton
  <2>2. Lake!Sum(f) = Sums(f)[{q}]
    BY <2>1, SumIs
  <2>. HIDE DEF f
  <2>3. Sums(f)[{q}] = f[q]
    BY <1>3, <2>1, SmallSums
  <2>. QED BY <2>1, <2>2, <2>3 DEF f
<1>. QED BY <1>3, <1>4, <1>5

\* The miles of a day fit between its first ping and its last: up to any ping, those
\* so far fit between the first and it.
LEMMA MilesFit ==
    ASSUME Lake!WarehouseAssumption, NEW S, Sound(S), \A p, q \in S : p.mmsi = q.mmsi,
           NEW a \in S, NEW z \in S, \A p \in S : a.time <= p.time /\ p.time <= z.time
    PROVE  Lake!Miles(S) \in Int /\ Lake!Miles(S) * 3600 <= MaxKnots * (z.time - a.time)
<1>. DEFINE hop(p) == Lake!Sum([q \in Lake!Lag(S, p) |-> Lake!Leg(p, q)])
            f == [p \in S |-> hop(p)]
            upTo(p) == {q \in S : q.time <= p.time}
            fits(p) == Sums(f)[upTo(p)] * 3600 <= MaxKnots * (p.time - a.time)
            beyond == {p \in S : ~fits(p)}
<1>1. \A p \in S : p.time \in Int
  BY DEF Sound
<1>2. MaxKnots \in Nat
  BY DEF Lake!WarehouseAssumption
<1>3. \A p \in S : /\ Lake!Lag(S, p) = {} => hop(p) = 0
                   /\ \A q \in Lake!Lag(S, p) : hop(p) \in Int /\ hop(p) * 3600 <= MaxKnots * (p.time - q.time)
  BY HopOf
<1>. HIDE DEF hop
<1>4. DOMAIN f = S /\ IsFiniteSet(DOMAIN f) /\ \A p \in S : f[p] = hop(p) /\ f[p] \in Int
  BY <1>3 DEF Sound
<1>. \A x \in DOMAIN f : f[x] \in Int
  BY <1>4
<1>5. Lake!Miles(S) = Sums(f)[S]
  BY <1>4, SumIs DEF Lake!Miles, hop
<1>. HIDE DEF f, fits
<1>6. ASSUME beyond # {} PROVE FALSE
  <2>1. IsFiniteSet(beyond) /\ \A p \in beyond : p.time \in Int
    BY <1>1, FS_Subset DEF Sound
  <2>2. PICK p \in beyond : \A q \in beyond : p.time <= q.time
    BY <1>6, <2>1, FirstAndLast
  <2>3. p \in S /\ p.time \in Int /\ a.time \in Int /\ a.time <= p.time
    BY <1>1, <2>2
  <2>4. CASE Lake!Lag(S, p) = {}
    <3>1. \A q \in S : ~(q.time < p.time)
      BY <2>3, <2>4, Before
    <3>2. \A q \in S : q.time <= p.time => q = p
      BY <1>1, <2>3, <3>1 DEF Sound, Lake!SameKey
    <3>3. upTo(p) = {p}
      BY <2>3, <3>2
    <3>4. Sums(f)[{p}] = 0
      <4>1. f[p] = 0
        BY <1>3, <1>4, <2>3, <2>4
      <4>2. p \in DOMAIN f
        BY <1>4, <2>3
      <4>. QED BY <1>4, <4>1, <4>2, SmallSums
    <3>5. MaxKnots * (p.time - a.time) >= 0
      BY <1>2, <2>3
    <3>6. fits(p)
      <4>1. Sums(f)[upTo(p)] = 0
        BY <3>3, <3>4
      <4>. HIDE DEF upTo
      <4>2. MaxKnots * (p.time - a.time) \in Int
        BY <1>2, <2>3
      <4>. QED BY <3>5, <4>1, <4>2 DEF fits
    <3>. QED BY <2>2, <3>6
  <2>5. ASSUME NEW q \in Lake!Lag(S, p) PROVE FALSE
    <3>1. /\ q \in S /\ q.time < p.time /\ q.time \in Int
          /\ \A o \in S : o.time < p.time => o.time <= q.time
      BY <1>1, <2>3, <2>5, Before
    <3>2. fits(q)
      BY <2>2, <2>3, <3>1
    <3>3. upTo(p) = upTo(q) \cup {p} /\ p \notin upTo(q)
      <4>1. \A o \in S : o.time = p.time => o = p
        BY <2>3 DEF Sound, Lake!SameKey
      <4>2. \A o \in S : o.time <= p.time <=> o.time <= q.time \/ o = p
        BY <1>1, <2>3, <3>1, <4>1
      <4>. QED BY <2>3, <3>1, <4>2
    <3>4. Sums(f)[upTo(p)] = f[p] + Sums(f)[upTo(q)]
      <4>1. upTo(q) \in SUBSET DOMAIN f /\ p \in DOMAIN f \ upTo(q)
        BY <1>4, <2>3, <3>3
      <4>. HIDE DEF upTo
      <4>2. Sums(f)[upTo(q) \cup {p}] = f[p] + Sums(f)[upTo(q)]
        BY <1>4, <4>1, SumsAdd
      <4>. QED BY <3>3, <4>2
    <3>. DEFINE sofar == Sums(f)[upTo(q)]  more == f[p]
    <3>5. sofar \in Int
      BY <1>4, SumsInt
    <3>6. more \in Int /\ more * 3600 <= MaxKnots * (p.time - q.time)
      BY <1>3, <1>4, <2>3, <2>5
    <3>7. sofar * 3600 <= MaxKnots * (q.time - a.time)
      BY <3>2 DEF fits
    <3>. HIDE DEF sofar, more
    <3>8. MaxKnots * (p.time - a.time) = MaxKnots * (p.time - q.time) + MaxKnots * (q.time - a.time)
      BY <1>2, <2>3, <3>1
    <3>9. (more + sofar) * 3600 <= MaxKnots * (p.time - a.time)
      <4>1. MaxKnots * (p.time - q.time) \in Int /\ MaxKnots * (q.time - a.time) \in Int
        BY <1>2, <2>3, <3>1
      <4>. QED BY <3>5, <3>6, <3>7, <3>8, <4>1
    <3>10. fits(p)
      BY <3>4, <3>9 DEF fits, sofar, more
    <3>. QED BY <2>2, <3>10
  <2>. QED BY <2>4, <2>5
<1>7. fits(z)
  BY <1>6
<1>8. upTo(z) = S
  OBVIOUS
<1>9. Sums(f)[S] \in Int
  BY <1>4, SumsInt
<1>. QED BY <1>5, <1>7, <1>8, <1>9 DEF fits

\* And so each row of the table.
LEMMA DaysFit ==
    ASSUME Lake!WarehouseAssumption, NEW S, Sound(S), NEW e \in Lake!FactOf(S)
    PROVE  e.miles * 3600 <= MaxKnots * (e.last - e.first)
<1>1. PICK o \in S : e = Lake!DayRow(S, o)
  BY DEF Lake!FactOf
<1>. DEFINE T == Lake!Today(S, o)
            times == {q.time : q \in T}
<1>2. Sound(T) /\ o \in T /\ (\A p, q \in T : p.mmsi = q.mmsi)
  BY FS_Subset DEF Sound, Lake!Today
<1>3. PICK a \in T, z \in T : \A p \in T : a.time <= p.time /\ p.time <= z.time
  BY <1>2, FirstAndLast DEF Sound
<1>4. e.miles = Lake!Miles(T) /\ e.first = Lake!Min(times) /\ e.last = Lake!Max(times)
  BY <1>1 DEF Lake!DayRow
<1>. HIDE DEF T
<1>5. a.time \in times /\ z.time \in times /\ \A t \in times : t \in Int /\ a.time <= t /\ t <= z.time
  BY <1>2, <1>3 DEF Sound
<1>. HIDE DEF times
<1>6. Lake!Min(times) = a.time /\ Lake!Max(times) = z.time
  <2>1. \A t \in times : (\A u \in times : t <= u) => t = a.time
    BY <1>5
  <2>2. \A t \in times : (\A u \in times : t >= u) => t = z.time
    BY <1>5
  <2>3. (\A u \in times : a.time <= u) /\ \A u \in times : z.time >= u
    BY <1>5
  <2>. QED BY <1>5, <2>1, <2>2, <2>3 DEF Lake!Min, Lake!Max
<1>. QED BY <1>2, <1>3, <1>4, <1>6, MilesFit

\* What the landed files and the tables hold, whatever job is under way: bronze and
\* silver only change with a job of theirs.
LakeInv ==
    /\ coming \in Seq(SUBSET Lake!Row) /\ \A i \in DOMAIN coming : IsFiniteSet(coming[i])
    /\ raw \in SUBSET Lake!Row /\ IsFiniteSet(raw)
    /\ bronze \in SUBSET Lake!Row /\ IsFiniteSet(bronze)
    /\ Sound(silver) /\ Sound(from.idling) /\ idling = Lake!IdlingOf(from.idling)
    /\ Sound(from.fact) /\ fact = Lake!FactOf(from.fact)
    /\ from = [dim |-> from.dim, fact |-> from.fact, idling |-> from.idling]
    /\ job = "dim" => \A row \in bronze : Lake!Valid(row) => \E p \in silver : Lake!SameKey(p, row)

LEMMA LakeMoves ==
    /\ Lake!WarehouseAssumption
    /\ Init => Lake!Init
    /\ [Next]_vars => [Lake!Next]_(Lake!vars)
<1>1. Init => Lake!Init
  BY DEF Init
<1>2. ASSUME Next PROVE [Lake!Next]_(Lake!vars)
  BY <1>2 DEF Next, AisStep, WeatherStep, BunkerStep, LakeStep, lakeVars, Lake!vars
<1>3. ASSUME UNCHANGED vars PROVE UNCHANGED Lake!vars
  BY <1>3 DEF vars, lakeVars, Lake!vars
<1>. QED BY <1>1, <1>2, <1>3, FeedsAssumption

LEMMA LakeInit == ASSUME Lake!WarehouseAssumption, Lake!Init PROVE LakeInv
<1>1. coming \in Seq(SUBSET Lake!Row) /\ \A i \in DOMAIN coming : IsFiniteSet(coming[i])
  BY SameCount DEF Lake!Init, Lake!WarehouseAssumption
<1>2. IsFiniteSet({}) /\ Sound({}) /\ Lake!IdlingOf({}) = {} /\ Lake!FactOf({}) = {}
  BY FS_EmptySet DEF Sound, Lake!IdlingOf, Lake!FactOf
<1>. QED BY <1>1, <1>2 DEF LakeInv, Lake!Init, Lake!NeverBuilt

LEMMA LakeKeeps == ASSUME Lake!WarehouseAssumption, LakeInv, [Lake!Next]_(Lake!vars) PROVE LakeInv'
<1>1. CASE Lake!Loader \/ Lake!Dbt
  BY <1>1 DEF LakeInv, Lake!Loader, Lake!Dbt, Lake!StartJob
<1>2. CASE Lake!LoadBronze
  BY <1>2 DEF LakeInv, Lake!LoadBronze
<1>3. CASE Lake!BuildSilver
  <2>1. /\ silver' \in Lake!SilverOf(bronze)
        /\ UNCHANGED <<coming, raw, bronze, dim, fact, idling, from, result, readers, builds>>
    BY <1>3 DEF Lake!BuildSilver
  <2>2. bronze \in SUBSET Lake!Row /\ IsFiniteSet(bronze)
    BY DEF LakeInv
  <2>3. PICK S \in Lake!SilverOf(bronze) : silver' = S
    BY <2>1
  <2>4. Sound(S) /\ \A row \in bronze : Lake!Valid(row) => \E p \in S : Lake!SameKey(p, row)
    BY <2>2, SilverIsSound
  <2>. QED BY <2>1, <2>3, <2>4 DEF LakeInv
<1>4. CASE Lake!BuildDim
  BY <1>4 DEF LakeInv, Lake!BuildDim
<1>5. CASE Lake!BuildFact
  <2>1. /\ fact' = Lake!FactOf(silver) /\ from' = [from EXCEPT !.fact = silver] /\ job' = "idling"
        /\ UNCHANGED <<coming, raw, bronze, silver, dim, idling, readers, builds>>
    BY <1>5 DEF Lake!BuildFact
  <2>2. /\ from'.fact = silver /\ from'.idling = from.idling
        /\ from' = [dim |-> from'.dim, fact |-> from'.fact, idling |-> from'.idling]
    BY <2>1 DEF LakeInv
  <2>. QED BY <2>1, <2>2 DEF LakeInv
<1>6. CASE Lake!BuildIdling
  <2>1. /\ idling' = Lake!IdlingOf(silver) /\ from' = [from EXCEPT !.idling = silver] /\ job' = "none"
        /\ UNCHANGED <<coming, raw, bronze, silver, dim, fact, readers, builds>>
    BY <1>6 DEF Lake!BuildIdling
  <2>2. from'.idling = silver /\ from'.fact = from.fact /\ from' = [dim |-> from'.dim, fact |-> from'.fact, idling |-> from'.idling]
    BY <2>1 DEF LakeInv
  <2>. QED BY <2>1, <2>2 DEF LakeInv
<1>7. CASE Lake!JobFails
  BY <1>7 DEF LakeInv, Lake!JobFails
<1>8. CASE Lake!NewFiles
  <2>1. /\ coming # <<>> /\ raw' = raw \cup Head(coming) /\ coming' = Tail(coming)
        /\ UNCHANGED <<bronze, silver, dim, fact, idling, from, job, result, readers, builds>>
    BY <1>8 DEF Lake!NewFiles
  <2>2. /\ Head(coming) \in SUBSET Lake!Row /\ IsFiniteSet(Head(coming))
        /\ Tail(coming) \in Seq(SUBSET Lake!Row) /\ \A i \in DOMAIN Tail(coming) : IsFiniteSet(Tail(coming)[i])
    BY <2>1, HeadTailProperties DEF LakeInv
  <2>3. IsFiniteSet(raw')
    BY <2>1, <2>2, FS_Union DEF LakeInv
  <2>. QED BY <2>1, <2>2, <2>3 DEF LakeInv
<1>9. CASE Lake!OpenQuery \/ Lake!CloseQuery \/ UNCHANGED Lake!vars
  BY <1>9 DEF LakeInv, Lake!OpenQuery, Lake!CloseQuery, Lake!vars
<1>. QED BY <1>1, <1>2, <1>3, <1>4, <1>5, <1>6, <1>7, <1>8, <1>9 DEF Lake!Next

\* What holds of the warehouse, whatever files come, in whatever order jobs start,
\* fail and find the file locked.
THEOREM LakeInductive == Spec => []LakeInv
<1>1. Init => LakeInv
  BY LakeMoves, LakeInit
<1>2. LakeInv /\ [Next]_vars => LakeInv'
  BY LakeMoves, LakeKeeps
<1>. QED BY <1>1, <1>2, PTL DEF Spec

\* Silver has one row per vessel and instant, and a valid ping is in it whatever
\* corrupt copies of it came (assert_silver_unique_ping.sql).
THEOREM SilverRepresents == Spec => []Represented
<1>1. LakeInv => Represented
  BY DEF LakeInv, Sound, Represented, Lake!Represented
<1>. QED BY <1>1, LakeInductive, PTL

\* The idle table holds exactly the episodes of idling, each once it is long enough
\* and none across a hole in the reporting (gold_vessel_idling.sql,
\* assert_idling_episode_has_no_reporting_gap.sql), the time counted in minutes of
\* the clock; by the seconds it misses no idle time and is less than a minute off.
THEOREM IdlingIsExact == Spec => []EpisodesAreRuns
<1>1. LakeInv => EpisodesAreRuns
  <2>1. SUFFICES ASSUME LakeInv PROVE EpisodesAreRuns
    OBVIOUS
  <2>2. Sound(from.idling) /\ idling = Lake!IdlingOf(from.idling)
    BY <2>1 DEF LakeInv
  <2>3. \A p, q \in from.idling :
          Lake!IsEpisode(from.idling, p, q)
            <=> \E e \in idling : e.mmsi = p.mmsi /\ e.start = p.time /\ e.end = q.time /\ p.mmsi = q.mmsi
    BY <2>2, LakeMoves, IdlingIsEpisodes
  <2>4. ASSUME NEW e \in idling
        PROVE  \E p, q \in from.idling :
                 /\ p.mmsi = e.mmsi /\ p.time = e.start /\ q.time = e.end
                 /\ e.end - e.start > 60 * (IdleMin - 1)
                 /\ \A u, v \in Lake!Between(from.idling, p, q) :
                      Lake!Consecutive(from.idling, u, v) => v.time - u.time < 60 * (MaxGap + 1)
    <3>1. PICK p \in from.idling, q \in from.idling :
            p.mmsi = e.mmsi /\ p.time = e.start /\ q.time = e.end /\ Lake!IsEpisode(from.idling, p, q)
      BY <2>2, <2>4, LakeMoves, IdlingIsEpisodes
    <3>2. /\ q.time - p.time > 60 * (IdleMin - 1)
          /\ \A u, v \in Lake!Between(from.idling, p, q) :
               Lake!Consecutive(from.idling, u, v) => v.time - u.time < 60 * (MaxGap + 1)
      BY ONLY <2>2, <3>1, LakeMoves, EpisodeBySeconds
    <3>. QED BY <3>1, <3>2
  <2>5. \A p, q \in from.idling : Lake!SatIdle(from.idling, p, q) =>
          \E e \in idling : e.mmsi = p.mmsi /\ e.start <= p.time /\ q.time <= e.end
    BY <2>2, LakeMoves, IdleIsFound
  <2>. QED BY <2>3, <2>4, <2>5 DEF EpisodesAreRuns, Lake!EpisodesAreRuns
<1>. QED BY <1>1, LakeInductive, PTL

\* The miles of a day are ones the vessel could have sailed between its first ping of
\* the day and its last, and every ping is counted in one day
\* (fct_vessel_daily.sql:25-28, 57-61).
THEOREM MilesArePossible == Spec => []DistanceIsPossible
<1>1. LakeInv => DistanceIsPossible
  <2>1. SUFFICES ASSUME LakeInv PROVE DistanceIsPossible
    OBVIOUS
  <2>2. Sound(from.fact) /\ fact = Lake!FactOf(from.fact)
    BY <2>1 DEF LakeInv
  <2>3. \A e \in fact : e.miles * 3600 <= MaxKnots * (e.last - e.first)
    BY <2>2, LakeMoves, DaysFit
  <2>4. Lake!Sum([e \in fact |-> e.pings]) = Lake!Cardinality(from.fact)
    BY <2>2, DaysAddUp, SameCount DEF Sound
  <2>. QED BY <2>3, <2>4 DEF DistanceIsPossible, Lake!DistanceIsPossible
<1>. QED BY <1>1, LakeInductive, PTL

-----------------------------------------------------------------------------
(* The bunker import: joins of texts *)

\* Induction, over the set of the numbers a claim holds of.
LEMMA Induct ==
    ASSUME NEW P, NEW n \in Nat, 0 \in P, \A k \in 0..(n - 1) : k \in P => k + 1 \in P
    PROVE  0..n \subseteq P /\ n \in P
<1>. DEFINE missed == {k \in Nat : k \in 0..n /\ k \notin P}
<1>1. ASSUME missed # {} PROVE FALSE
  <2>1. PICK k \in missed : \A m \in missed : ~ (<<m, k>> \in OpToRel(<, Nat))
    BY <1>1, NatLessThanWellFounded, WFMin
  <2>2. k \in 0..n /\ k \notin P
    BY <2>1, Zenon
  <2>3. k - 1 \in 0..(n - 1) /\ k - 1 \in Nat /\ k \in Nat /\ k - 1 < k /\ (k - 1) + 1 = k /\ k - 1 \in 0..n
    BY <2>2
  <2>4. k - 1 \notin missed
    BY <2>1, <2>3 DEF OpToRel
  <2>. QED BY <2>2, <2>3, <2>4
<1>2. 0..n \subseteq P
  BY <1>1
<1>. QED BY <1>2

\* The library's join of a sequence of sequences: what is joined up to each of them.
Joins(seqs, n, g) == g = [i \in 1..n |-> IF i = 1 THEN seqs[i] ELSE g[i - 1] \o seqs[i]]

Joined(seqs) == CHOOSE g : Joins(seqs, Len(seqs), g)

LEMMA FlattenIs ==
    ASSUME NEW seqs
    PROVE  Bunker!FlattenSeq(seqs) = IF Len(seqs) = 0 THEN seqs ELSE Joined(seqs)[Len(seqs)]
BY DEF Bunker!FlattenSeq, Joined, Joins

LEMMA JoinedExists ==
    ASSUME NEW S, NEW seqs \in Seq(Seq(S))
    PROVE  Joins(seqs, Len(seqs), Joined(seqs))
<1>. DEFINE N == Len(seqs)
            P == {n \in 0..N : \E g : Joins(seqs, n, g)}
<1>1. N \in Nat
  BY LenProperties
<1>2. 0 \in P
  <2>1. Joins(seqs, 0, [i \in 1..0 |-> seqs[1]])
    BY DEF Joins
  <2>. QED BY <1>1, <2>1
<1>3. ASSUME NEW n \in 0..(N - 1), n \in P PROVE n + 1 \in P
  <2>1. PICK g : Joins(seqs, n, g)
    BY <1>3
  <2>. DEFINE h == [i \in 1..(n + 1) |-> IF i = 1 THEN seqs[i] ELSE g[i - 1] \o seqs[i]]
  <2>2. ASSUME NEW i \in 1..n PROVE h[i] = g[i]
    <3>1. g[i] = IF i = 1 THEN seqs[i] ELSE g[i - 1] \o seqs[i]
      BY <2>1 DEF Joins
    <3>. QED BY <1>1, <3>1
  <2>3. ASSUME NEW i \in 1..(n + 1) PROVE h[i] = IF i = 1 THEN seqs[i] ELSE h[i - 1] \o seqs[i]
    <3>1. i # 1 => h[i - 1] = g[i - 1]
      <4>1. i # 1 => i - 1 \in 1..n
        BY <1>1
      <4>. QED BY <2>2, <4>1
    <3>2. h[i] = IF i = 1 THEN seqs[i] ELSE g[i - 1] \o seqs[i]
      OBVIOUS
    <3>. HIDE DEF h
    <3>. QED BY <3>1, <3>2
  <2>4. Joins(seqs, n + 1, h)
    BY <2>3 DEF Joins
  <2>. QED BY <1>1, <2>4
<1>. HIDE DEF P
<1>4. N \in P
  <2>1. \A n \in 0..(N - 1) : n \in P => n + 1 \in P
    BY <1>3
  <2>. HIDE DEF N
  <2>. QED BY <1>1, <1>2, <2>1, Induct
<1>. QED BY <1>4 DEF P, Joined

LEMMA Concat ==
    ASSUME NEW S, NEW a \in Seq(S), NEW b \in Seq(S)
    PROVE  /\ a \o b \in Seq(S) /\ Len(a \o b) = Len(a) + Len(b) /\ Len(a) \in Nat /\ Len(b) \in Nat
           /\ \A k \in 1..Len(a) : (a \o b)[k] = a[k]
           /\ \A k \in 1..Len(b) : (a \o b)[Len(a) + k] = b[k]
<1>1. Len(a) \in Nat /\ Len(b) \in Nat
  BY LenProperties
<1>2. a \o b \in Seq(S) /\ Len(a \o b) = Len(a) + Len(b)
  BY ConcatProperties
<1>3. \A i \in 1..(Len(a) + Len(b)) : (a \o b)[i] = IF i <= Len(a) THEN a[i] ELSE b[i - Len(a)]
  BY ConcatProperties
<1>4. ASSUME NEW k \in 1..Len(b) PROVE (a \o b)[Len(a) + k] = b[k]
  <2>1. Len(a) + k \in 1..(Len(a) + Len(b)) /\ ~(Len(a) + k <= Len(a)) /\ (Len(a) + k) - Len(a) = k
    BY <1>1
  <2>. QED BY <1>3, <2>1
<1>. QED BY <1>1, <1>2, <1>3, <1>4

\* What is joined after each piece.
LEMMA Joints ==
    ASSUME NEW S, NEW seqs \in Seq(Seq(S))
    PROVE  \E pre \in [0..Len(seqs) -> Seq(S)] :
             /\ pre[0] = <<>> /\ pre[Len(seqs)] = Bunker!FlattenSeq(seqs)
             /\ \A i \in 1..Len(seqs) : pre[i] = pre[i - 1] \o seqs[i]
<1>. DEFINE n == Len(seqs)
            pre == [i \in 0..n |-> IF i = 0 THEN <<>> ELSE Joined(seqs)[i]]
<1>1. n \in Nat /\ DOMAIN seqs = 1..n /\ \A i \in 1..n : seqs[i] \in Seq(S)
  BY LenProperties, ElementOfSeq
<1>2. pre[0] = <<>> /\ DOMAIN pre = 0..n
  BY <1>1
<1>3. ASSUME NEW i \in 1..n PROVE pre[i] = IF i = 1 THEN seqs[i] ELSE pre[i - 1] \o seqs[i]
  <2>1. pre[i] = Joined(seqs)[i]
    BY <1>1
  <2>2. i # 1 => pre[i - 1] = Joined(seqs)[i - 1]
    BY <1>1
  <2>3. Joined(seqs)[i] = IF i = 1 THEN seqs[i] ELSE Joined(seqs)[i - 1] \o seqs[i]
    <3>1. Joins(seqs, n, Joined(seqs))
      BY JoinedExists
    <3>. QED BY <3>1 DEF Joins
  <2>. HIDE DEF pre
  <2>. QED BY <2>1, <2>2, <2>3
<1>4. pre[n] = Bunker!FlattenSeq(seqs)
  <2>1. CASE n = 0
    <3>1. seqs = <<>>
      BY <2>1, EmptySeq
    <3>. QED BY <2>1, <3>1, <1>2, FlattenIs
  <2>2. CASE n # 0
    BY <2>2, <1>1, FlattenIs
  <2>. QED BY <2>1, <2>2
<1>. HIDE DEF pre
<1>5. ASSUME NEW i \in 1..n, pre[i - 1] \in Seq(S) PROVE pre[i] = pre[i - 1] \o seqs[i] /\ pre[i] \in Seq(S)
  <2>1. CASE i = 1
    <3>1. pre[i - 1] = <<>> /\ pre[i] = seqs[i] /\ seqs[i] \in Seq(S)
      BY <1>1, <1>2, <1>3, <2>1
    <3>2. <<>> \o seqs[i] = seqs[i]
      BY <3>1, ConcatEmptySeq
    <3>. QED BY <3>1, <3>2
  <2>2. CASE i # 1
    <3>1. pre[i] = pre[i - 1] \o seqs[i] /\ seqs[i] \in Seq(S)
      BY <1>1, <1>3, <2>2
    <3>. QED BY <3>1, <1>5, ConcatProperties
  <2>. QED BY <2>1, <2>2
<1>6. \A i \in 0..n : pre[i] \in Seq(S)
  <2>. DEFINE P == {i \in 0..n : pre[i] \in Seq(S)}
  <2>1. 0 \in P
    <3>1. <<>> \in Seq(S)
      OBVIOUS
    <3>2. 0 \in 0..n /\ pre[0] \in Seq(S)
      BY <1>1, <1>2, <3>1
    <3>. QED BY <3>2
  <2>2. ASSUME NEW i \in 0..(n - 1), i \in P PROVE i + 1 \in P
    <3>1. i + 1 \in 1..n /\ i + 1 \in 0..n /\ (i + 1) - 1 = i
      BY <1>1
    <3>. QED BY <1>5, <2>2, <3>1
  <2>. HIDE DEF P
  <2>3. 0..n \subseteq P
    BY <1>1, <2>1, <2>2, Induct
  <2>. QED BY <2>3 DEF P
<1>7. pre \in [0..n -> Seq(S)]
  <2>1. pre = [i \in 0..n |-> pre[i]]
    BY <1>2 DEF pre
  <2>. QED BY <1>6, <2>1
<1>8. \A i \in 1..n : i - 1 \in 0..n
  BY <1>1
<1>9. \A i \in 1..n : pre[i] = pre[i - 1] \o seqs[i]
  BY <1>5, <1>6, <1>8
<1>. QED BY <1>2, <1>4, <1>7, <1>9

\* Where each piece of a join ends.
Layout(seqs, F, off) ==
    /\ off \in [0..Len(seqs) -> Nat]
    /\ off[0] = 0 /\ off[Len(seqs)] = Len(F)
    /\ \A i \in 1..Len(seqs) :
         /\ off[i] = off[i - 1] + Len(seqs[i]) /\ off[i] <= Len(F)
         /\ \A k \in 1..Len(seqs[i]) : F[off[i - 1] + k] = seqs[i][k]

\* The pieces of a join follow each other, each at the end of those before.
LEMMA Pieces ==
    ASSUME NEW S, NEW seqs \in Seq(Seq(S)), NEW F, F = Bunker!FlattenSeq(seqs)
    PROVE  F \in Seq(S) /\ \E off : Layout(seqs, F, off)
<1>. DEFINE n == Len(seqs)
<1>1. n \in Nat /\ DOMAIN seqs = 1..n /\ \A i \in 1..n : seqs[i] \in Seq(S)
  BY LenProperties, ElementOfSeq
<1>2. PICK pre \in [0..n -> Seq(S)] :
         /\ pre[0] = <<>> /\ pre[n] = F
         /\ \A i \in 1..n : pre[i] = pre[i - 1] \o seqs[i]
  BY Joints
<1>. HIDE DEF n
<1>3. F \in Seq(S) /\ Len(F) \in Nat
  BY <1>1, <1>2, LenProperties
<1>4. ASSUME NEW i \in 1..n
      PROVE  /\ pre[i - 1] \in Seq(S) /\ Len(pre[i - 1]) \in Nat /\ Len(pre[i]) \in Nat
             /\ Len(pre[i]) = Len(pre[i - 1]) + Len(seqs[i]) /\ Len(seqs[i]) \in Nat
             /\ \A k \in 1..Len(pre[i - 1]) : pre[i][k] = pre[i - 1][k]
             /\ \A k \in 1..Len(seqs[i]) : pre[i][Len(pre[i - 1]) + k] = seqs[i][k]
  <2>1. i - 1 \in 0..n /\ i \in 0..n
    BY <1>1
  <2>2. pre[i - 1] \in Seq(S) /\ seqs[i] \in Seq(S) /\ pre[i] = pre[i - 1] \o seqs[i]
    BY <1>1, <1>2, <2>1
  <2>. DEFINE u == pre[i - 1]  w == seqs[i]
  <2>. HIDE DEF u, w
  <2>3. /\ u \o w \in Seq(S) /\ Len(u \o w) = Len(u) + Len(w) /\ Len(u) \in Nat /\ Len(w) \in Nat
        /\ \A k \in 1..Len(u) : (u \o w)[k] = u[k]
        /\ \A k \in 1..Len(w) : (u \o w)[Len(u) + k] = w[k]
    <3>1. u \in Seq(S) /\ w \in Seq(S)
      BY <2>2 DEF u, w
    <3>. QED BY <3>1, Concat
  <2>4. Len(u \o w) \in Nat
    BY <2>3
  <2>5. pre[i] = u \o w
    BY <2>2 DEF u, w
  <2>. QED BY <2>2, <2>3, <2>4, <2>5 DEF u, w
<1>5. ASSUME NEW i \in 0..n
      PROVE  Len(pre[i]) <= Len(F) /\ \A k \in 1..Len(pre[i]) : F[k] = pre[i][k]
  <2>. DEFINE kept(j) == Len(pre[j]) <= Len(F) /\ \A k \in 1..Len(pre[j]) : F[k] = pre[j][k]
              P == {j \in 0..n : kept(n - j)}
  <2>1. kept(n)
    BY <1>2, <1>3
  <2>2. ASSUME NEW j \in 1..n, kept(j) PROVE kept(j - 1)
    <3>1. /\ Len(pre[j - 1]) \in Nat /\ Len(pre[j]) \in Nat /\ Len(seqs[j]) \in Nat
          /\ Len(pre[j]) = Len(pre[j - 1]) + Len(seqs[j])
          /\ \A k \in 1..Len(pre[j - 1]) : pre[j][k] = pre[j - 1][k]
      BY <1>4
    <3>. DEFINE long == Len(pre[j])  short == Len(pre[j - 1])  more == Len(seqs[j])
    <3>2. short \in Nat /\ long \in Nat /\ short <= long /\ long <= Len(F)
      <4>1. short \in Nat /\ long \in Nat /\ more \in Nat /\ long = short + more /\ long <= Len(F)
        BY <2>2, <3>1
      <4>. HIDE DEF long, short, more
      <4>. QED BY <4>1
    <3>3. \A k \in 1..short : k \in 1..long
      <4>. HIDE DEF long, short
      <4>. QED BY <3>2
    <3>4. ASSUME NEW k \in 1..short PROVE F[k] = pre[j - 1][k]
      <4>1. k \in 1..Len(pre[j])
        BY <3>3
      <4>. QED BY <2>2, <3>1, <4>1
    <3>5. short <= Len(F)
      <4>. HIDE DEF long, short
      <4>. QED BY <1>3, <3>2
    <3>. QED BY <3>4, <3>5
  <2>. HIDE DEF kept
  <2>3. 0 \in P
    BY <1>1, <2>1
  <2>4. ASSUME NEW j \in 0..(n - 1), j \in P PROVE j + 1 \in P
    <3>1. n - j \in 1..n /\ (n - j) - 1 = n - (j + 1) /\ j + 1 \in 0..n
      BY <1>1
    <3>. QED BY <2>2, <2>4, <3>1
  <2>5. 0..n \subseteq P
    <3>. HIDE DEF P
    <3>. QED BY <1>1, <2>3, <2>4, Induct
  <2>6. kept(i)
    <3>1. n - i \in 0..n /\ n - (n - i) = i
      BY <1>1
    <3>2. kept(n - (n - i))
      BY <2>5, <3>1
    <3>. QED BY <3>1, <3>2
  <2>. QED BY <2>6 DEF kept
<1>. DEFINE off == [i \in 0..n |-> Len(pre[i])]
<1>6. off \in [0..n -> Nat]
  BY <1>2, LenProperties
<1>7. off[0] = 0 /\ off[n] = Len(F)
  BY <1>1, <1>2
<1>8. ASSUME NEW i \in 1..n
      PROVE  /\ off[i] = off[i - 1] + Len(seqs[i]) /\ off[i] <= Len(F)
             /\ \A k \in 1..Len(seqs[i]) : F[off[i - 1] + k] = seqs[i][k]
  <2>1. i \in 0..n /\ i - 1 \in 0..n
    BY <1>1
  <2>2. off[i] = Len(pre[i]) /\ off[i - 1] = Len(pre[i - 1])
    BY <2>1
  <2>. HIDE DEF off
  <2>3. off[i] = off[i - 1] + Len(seqs[i]) /\ off[i] <= Len(F)
    BY <1>4, <1>5, <2>1, <2>2
  <2>4. ASSUME NEW k \in 1..Len(seqs[i]) PROVE F[off[i - 1] + k] = seqs[i][k]
    <3>. DEFINE long == Len(pre[i])  short == Len(pre[i - 1])  more == Len(seqs[i])
    <3>0. short \in Nat /\ long \in Nat /\ more \in Nat /\ long = short + more /\ k \in 1..more
      BY <1>4
    <3>1. short + k \in 1..long
      <4>. HIDE DEF long, short, more
      <4>. QED BY <3>0
    <3>2. pre[i][Len(pre[i - 1]) + k] = seqs[i][k]
      BY <1>4
    <3>. QED BY <1>5, <2>1, <2>2, <3>1, <3>2
  <2>. QED BY <2>3, <2>4
<1>. HIDE DEF off
<1>9. Layout(seqs, F, off)
  BY <1>6, <1>7, <1>8 DEF n, Layout
<1>. QED BY <1>3, <1>9

\* The characters, those the parser treats specially among them.
Chars == STRING \cup {Bunker!Quote, Bunker!Comma, Bunker!CR, Bunker!LF, Bunker!BOM}

\* The parser's states: a text, and what they are after each of its characters.
Parses(t, n, g) == g = [i \in 0..n |-> IF i = 0 THEN Bunker!Start ELSE Bunker!Step(t, g[i - 1], i)]

States(t) == CHOOSE g : Parses(t, Len(t), g)

LEMMA ParseIs ==
    ASSUME NEW text
    PROVE  Bunker!parseCsv(text) =
             LET body == IF text # <<>> /\ text[1] = Bunker!BOM THEN Tail(text) ELSE text
                 end  == States(body)[Len(body)]
                 all  == IF end.field # <<>> \/ end.row # <<>> THEN Bunker!EndRow(end) ELSE end
             IN  Bunker!Visible(all.rows)
BY DEF Bunker!parseCsv, States, Parses

LEMMA StatesExist ==
    ASSUME NEW t \in Seq(Chars)
    PROVE  /\ States(t)[0] = Bunker!Start
           /\ \A i \in 1..Len(t) : States(t)[i] = Bunker!Step(t, States(t)[i - 1], i)
<1>. DEFINE N == Len(t)
            P == {n \in 0..N : \E g : Parses(t, n, g)}
<1>1. N \in Nat
  BY LenProperties
<1>2. 0 \in P
  <2>. DEFINE h == [i \in 0..0 |-> Bunker!Start]
  <2>1. \A i \in 0..0 : h[i] = IF i = 0 THEN Bunker!Start ELSE Bunker!Step(t, h[i - 1], i)
    OBVIOUS
  <2>2. Parses(t, 0, h)
    BY <2>1 DEF Parses
  <2>. QED BY <1>1, <2>2
<1>3. ASSUME NEW n \in 0..(N - 1), n \in P PROVE n + 1 \in P
  <2>1. PICK g : Parses(t, n, g)
    BY <1>3
  <2>. DEFINE h == [i \in 0..(n + 1) |-> IF i = 0 THEN Bunker!Start ELSE Bunker!Step(t, g[i - 1], i)]
  <2>2. ASSUME NEW i \in 0..n PROVE h[i] = g[i]
    <3>1. g[i] = IF i = 0 THEN Bunker!Start ELSE Bunker!Step(t, g[i - 1], i)
      BY <2>1 DEF Parses
    <3>. QED BY <1>1, <3>1
  <2>3. ASSUME NEW i \in 0..(n + 1) PROVE h[i] = IF i = 0 THEN Bunker!Start ELSE Bunker!Step(t, h[i - 1], i)
    <3>1. i # 0 => h[i - 1] = g[i - 1]
      <4>1. i # 0 => i - 1 \in 0..n
        BY <1>1
      <4>. QED BY <2>2, <4>1
    <3>2. h[i] = IF i = 0 THEN Bunker!Start ELSE Bunker!Step(t, g[i - 1], i)
      OBVIOUS
    <3>. HIDE DEF h
    <3>. QED BY <3>1, <3>2
  <2>4. Parses(t, n + 1, h)
    BY <2>3 DEF Parses
  <2>. QED BY <1>1, <2>4
<1>. HIDE DEF P
<1>4. N \in P
  <2>1. \A n \in 0..(N - 1) : n \in P => n + 1 \in P
    BY <1>3
  <2>. HIDE DEF N
  <2>. QED BY <1>1, <1>2, <2>1, Induct
<1>5. Parses(t, N, States(t))
  BY <1>4 DEF P, States
<1>. QED BY <1>1, <1>5 DEF Parses

\* Between characters outside of quotes, inside of them, and on a doubled quote.
Out(r, w, f) == [rows |-> r, row |-> w, field |-> f, inQuotes |-> FALSE, skip |-> FALSE]
In(r, w, f) == [rows |-> r, row |-> w, field |-> f, inQuotes |-> TRUE, skip |-> FALSE]
Doubled(r, w, f) == [rows |-> r, row |-> w, field |-> f, inQuotes |-> TRUE, skip |-> TRUE]

LEMMA OutStep ==
    ASSUME NEW t, NEW r, NEW w, NEW f, NEW i
    PROVE  LET next == Bunker!Step(t, Out(r, w, f), i) IN
           /\ t[i] = Bunker!Quote => next = In(r, w, f)
           /\ t[i] = Bunker!Comma => next = Out(r, Append(w, f), <<>>)
           /\ t[i] = Bunker!CR => next = Out(r, w, f)
           /\ t[i] = Bunker!LF => next = Out(Append(r, Append(w, f)), <<>>, <<>>)
           /\ t[i] \notin {Bunker!Quote, Bunker!Comma, Bunker!CR, Bunker!LF} => next = Out(r, w, Append(f, t[i]))
BY DEF Bunker!Step, Bunker!Unquoted, Bunker!EndField, Bunker!EndRow, Bunker!AddChar, Out, In,
       Bunker!Quote, Bunker!Comma, Bunker!CR, Bunker!LF

LEMMA InStep ==
    ASSUME NEW t, NEW r, NEW w, NEW f, NEW i
    PROVE  LET next == Bunker!Step(t, In(r, w, f), i)
               ahead == IF i < Len(t) THEN t[i + 1] ELSE Bunker!LF
           IN
           /\ t[i] # Bunker!Quote => next = In(r, w, Append(f, t[i]))
           /\ t[i] = Bunker!Quote /\ ahead = Bunker!Quote => next = Doubled(r, w, Append(f, Bunker!Quote))
           /\ t[i] = Bunker!Quote /\ ahead # Bunker!Quote => next = Out(r, w, f)
BY DEF Bunker!Step, Bunker!Quoted, Bunker!AddChar, Out, In, Doubled

LEMMA DoubledStep ==
    ASSUME NEW t, NEW r, NEW w, NEW f, NEW i
    PROVE  Bunker!Step(t, Doubled(r, w, f), i) = In(r, w, f)
BY DEF Bunker!Step, In, Doubled

\* A prefix grows by one element.
LEMMA Grow ==
    ASSUME NEW S, NEW u \in Seq(S)
    PROVE  /\ SubSeq(u, 1, 0) = <<>> /\ SubSeq(u, 1, Len(u)) = u
           /\ \A k \in 0..(Len(u) - 1) : SubSeq(u, 1, k + 1) = Append(SubSeq(u, 1, k), u[k + 1])
<1>1. Len(u) \in Nat
  BY LenProperties
<1>2. SubSeq(u, 1, 0) = <<>> /\ SubSeq(u, 1, Len(u)) = u
  BY SubSeqEmpty, SubSeqFull
<1>3. ASSUME NEW k \in 0..(Len(u) - 1) PROVE SubSeq(u, 1, k + 1) = Append(SubSeq(u, 1, k), u[k + 1])
  <2>1. 1 \in 1..Len(u) /\ k + 1 \in 1..Len(u) /\ (k + 1) - 1 = k /\ k \in Int /\ \A i \in 1..k : i \in 1..Len(u)
    BY <1>1
  <2>2. SubSeq(u, 1, k + 1) = SubSeq(u, 1, (k + 1) - 1) \o <<u[k + 1]>>
    BY <2>1, SubSeqRecursiveSecond
  <2>3. SubSeq(u, 1, k) \in Seq(S) /\ u[k + 1] \in S
    <3>1. \A i \in 1..k : u[i] \in S
      BY <2>1, ElementOfSeq
    <3>. QED BY <2>1, <3>1, SubSeqProperties, ElementOfSeq
  <2>. QED BY <2>1, <2>2, <2>3, AppendIsConcat
<1>. QED BY <1>2, <1>3

\* A text holds another, after its first o characters; and no quote follows.
Occurs(t, o, u) ==
    /\ o \in Nat /\ u \in Seq(Chars) /\ Len(u) \in Nat /\ o + Len(u) <= Len(t) /\ Len(t) \in Nat
    /\ \A k \in 1..Len(u) : t[o + k] = u[k]

Spans(t, o, e, u) == Occurs(t, o, u) /\ e = o + Len(u)

NoQuote(t, o) == o < Len(t) => t[o + 1] # Bunker!Quote

\* A cell that is not quoted.
LEMMA PlainRead ==
    ASSUME NEW t \in Seq(Chars), NEW o, NEW u, Occurs(t, o, u), NEW r, NEW w,
           \A k \in 1..Len(u) : u[k] \notin {Bunker!Quote, Bunker!Comma, Bunker!CR, Bunker!LF},
           States(t)[o] = Out(r, w, <<>>)
    PROVE  States(t)[o + Len(u)] = Out(r, w, u)
<1>. DEFINE n == Len(u)
            P == {k \in 0..n : States(t)[o + k] = Out(r, w, SubSeq(u, 1, k))}
<1>1. n \in Nat /\ o \in Nat /\ u \in Seq(Chars) /\ o + n <= Len(t) /\ Len(t) \in Nat
  BY DEF Occurs
<1>2. 0 \in P
  <2>1. SubSeq(u, 1, 0) = <<>> /\ o + 0 = o
    BY <1>1, Grow
  <2>. HIDE DEF n
  <2>2. 0 \in 0..n
    BY <1>1
  <2>. QED BY <2>1, <2>2
<1>3. ASSUME NEW k \in 0..(n - 1), k \in P PROVE k + 1 \in P
  <2>. DEFINE i == o + (k + 1)
              m == Len(t)
  <2>1. i \in 1..Len(t) /\ i - 1 = o + k /\ k + 1 \in 1..n /\ k + 1 \in 0..n
    <3>1. n \in Nat /\ o \in Nat /\ o + n <= m /\ m \in Nat
      BY <1>1
    <3>2. k \in 0..(n - 1)
      OBVIOUS
    <3>. HIDE DEF n, m
    <3>3. o + (k + 1) \in 1..m /\ (o + (k + 1)) - 1 = o + k /\ k + 1 \in 1..n /\ k + 1 \in 0..n
      BY <3>1, <3>2
    <3>. QED BY <3>3 DEF m
  <2>2. t[i] = u[k + 1] /\ u[k + 1] \notin {Bunker!Quote, Bunker!Comma, Bunker!CR, Bunker!LF}
    BY <2>1 DEF Occurs
  <2>. HIDE DEF i
  <2>3. States(t)[i] = Bunker!Step(t, Out(r, w, SubSeq(u, 1, k)), i)
    BY <1>3, <2>1, StatesExist
  <2>4. States(t)[i] = Out(r, w, Append(SubSeq(u, 1, k), u[k + 1]))
    BY <2>2, <2>3, OutStep
  <2>5. States(t)[i] = Out(r, w, SubSeq(u, 1, k + 1))
    BY <1>1, <2>4, Grow
  <2>. QED BY <2>1, <2>5 DEF i
<1>. HIDE DEF P
<1>4. n \in P
  <2>. HIDE DEF n
  <2>. QED BY <1>1, <1>2, <1>3, Induct
<1>. QED BY <1>1, <1>4, Grow DEF P

\* A character inside of quotes, doubled if it is one.
Escaped(c) == IF c = Bunker!Quote THEN <<Bunker!Quote, Bunker!Quote>> ELSE <<c>>

\* What is between the quotes of a cell.
LEMMA EscapedRead ==
    ASSUME NEW t \in Seq(Chars), NEW o, NEW cell \in Seq(Chars), NEW E, E = Bunker!Escape(cell), Occurs(t, o, E),
           NEW r, NEW w, States(t)[o] = In(r, w, <<>>)
    PROVE  States(t)[o + Len(E)] = In(r, w, cell)
<1>. DEFINE n == Len(cell)
            seqs == [i \in DOMAIN cell |-> Escaped(cell[i])]
<1>1. /\ n \in Nat /\ DOMAIN cell = 1..n /\ (\A i \in 1..n : cell[i] \in Chars)
      /\ o \in Nat /\ Len(E) \in Nat /\ o + Len(E) <= Len(t) /\ Len(t) \in Nat
  BY LenProperties, ElementOfSeq DEF Occurs
<1>2. seqs \in Seq(Seq(Chars)) /\ Len(seqs) = n /\ \A i \in 1..n : seqs[i] = Escaped(cell[i])
  <2>1. \A i \in 1..n : Escaped(cell[i]) \in Seq(Chars)
    <3>1. Bunker!Quote \in Chars
      BY DEF Chars
    <3>2. \A T : \A c, d \in T : <<c>> \in Seq(T) /\ <<c, d>> \in Seq(T)
      OBVIOUS
    <3>. QED BY <1>1, <3>1, <3>2 DEF Escaped
  <2>2. seqs = [i \in 1..n |-> Escaped(cell[i])]
    BY <1>1
  <2>. QED BY <1>1, <2>1, <2>2, IsASeq
<1>3. E = Bunker!FlattenSeq(seqs)
  BY DEF Bunker!Escape, Escaped
<1>. HIDE DEF seqs, n
<1>4. PICK off \in [0..n -> Nat] :
        /\ off[0] = 0 /\ off[n] = Len(E)
        /\ \A i \in 1..n :
             /\ off[i] = off[i - 1] + Len(seqs[i]) /\ off[i] <= Len(E)
             /\ \A k \in 1..Len(seqs[i]) : E[off[i - 1] + k] = seqs[i][k]
  <2>1. PICK off : Layout(seqs, E, off)
    BY <1>2, <1>3, Pieces
  <2>. QED BY <1>2, <2>1 DEF Layout
<1>. DEFINE P == {k \in 0..n : States(t)[o + off[k]] = In(r, w, SubSeq(cell, 1, k))}
<1>5. 0 \in P
  <2>1. o + off[0] = o /\ SubSeq(cell, 1, 0) = <<>> /\ 0 \in 0..n
    BY <1>1, <1>4, Grow
  <2>2. States(t)[o + off[0]] = In(r, w, SubSeq(cell, 1, 0))
    BY <2>1
  <2>. QED BY <2>1, <2>2
<1>6. ASSUME NEW k \in 0..(n - 1), k \in P PROVE k + 1 \in P
  <2>. DEFINE a == off[k]
              c == cell[k + 1]
              f == SubSeq(cell, 1, k)
  <2>1. k + 1 \in 1..n /\ (k + 1) - 1 = k /\ k \in 0..n /\ k + 1 \in 0..n
    BY <1>1
  <2>2. /\ a \in Nat /\ off[k + 1] = a + Len(Escaped(c)) /\ off[k + 1] <= Len(E)
        /\ \A j \in 1..Len(Escaped(c)) : E[a + j] = Escaped(c)[j]
    BY <1>2, <1>4, <2>1
  <2>3. States(t)[o + a] = In(r, w, f) /\ SubSeq(cell, 1, k + 1) = Append(f, c)
    <3>1. k \in 0..(Len(cell) - 1)
      BY DEF n
    <3>. QED BY <1>6, <3>1, Grow
  <2>. HIDE DEF a, c, f
  <2>4. \A j \in 1..Len(E) : t[o + j] = E[j]
    BY DEF Occurs
  <2>5. CASE c # Bunker!Quote
    <3>1. Escaped(c) = <<c>> /\ Len(Escaped(c)) = 1
      BY <2>5 DEF Escaped
    <3>2. off[k + 1] = a + 1 /\ a + 1 <= Len(E) /\ E[a + 1] = c
      BY <2>2, <3>1
    <3>. DEFINE i == o + (a + 1)
    <3>3. i \in 1..Len(t) /\ i - 1 = o + a /\ a + 1 \in 1..Len(E)
      BY <1>1, <2>2, <3>2
    <3>4. t[i] = c
      BY <2>4, <3>2, <3>3
    <3>. HIDE DEF i
    <3>5. States(t)[i] = In(r, w, Append(f, c))
      <4>1. States(t)[i] = Bunker!Step(t, In(r, w, f), i)
        BY <2>3, <3>3, StatesExist
      <4>. QED BY <2>5, <3>4, <4>1, InStep
    <3>. QED BY <2>1, <2>3, <3>2, <3>5 DEF i
  <2>6. CASE c = Bunker!Quote
    <3>1. Escaped(c) = <<c, c>> /\ Len(Escaped(c)) = 2
      BY <2>6 DEF Escaped
    <3>2. off[k + 1] = a + 2 /\ a + 2 <= Len(E) /\ E[a + 1] = c /\ E[a + 2] = c
      BY <2>2, <3>1
    <3>. DEFINE i == o + (a + 1)
    <3>3. /\ i \in 1..Len(t) /\ i - 1 = o + a /\ a + 1 \in 1..Len(E)
          /\ i + 1 \in 1..Len(t) /\ i + 1 = o + (a + 2) /\ a + 2 \in 1..Len(E) /\ (i + 1) - 1 = i /\ i < Len(t)
      BY <1>1, <2>2, <3>2
    <3>4. t[i] = c /\ t[i + 1] = c
      BY <2>4, <3>2, <3>3
    <3>. HIDE DEF i
    <3>5. States(t)[i] = Doubled(r, w, Append(f, c))
      <4>1. States(t)[i] = Bunker!Step(t, In(r, w, f), i)
        BY <2>3, <3>3, StatesExist
      <4>. QED BY <2>6, <3>3, <3>4, <4>1, InStep
    <3>6. States(t)[i + 1] = In(r, w, Append(f, c))
      BY <3>3, <3>5, StatesExist, DoubledStep
    <3>. QED BY <2>1, <2>3, <3>2, <3>3, <3>6
  <2>. QED BY <2>5, <2>6
<1>. HIDE DEF P
<1>7. n \in P
  BY <1>1, <1>5, <1>6, Induct
<1>8. SubSeq(cell, 1, n) = cell
  BY Grow DEF n
<1>. QED BY <1>4, <1>7, <1>8 DEF P

\* One text followed by another.
Follow(a, b, c) == a \in Seq(Chars) /\ b \in Seq(Chars) /\ c = a \o b

\* What is said of a text that holds two others in a row, or a join.
LEMMA OccursConcat ==
    ASSUME NEW t, NEW o, NEW a, NEW b, NEW c, Follow(a, b, c), Occurs(t, o, c)
    PROVE  Occurs(t, o, a) /\ Occurs(t, o + Len(a), b) /\ Len(c) = Len(a) + Len(b)
<1>. DEFINE p == Len(a)  q == Len(b)  m == Len(t)
<1>1. /\ Len(c) = p + q /\ p \in Nat /\ q \in Nat
      /\ \A k \in 1..p : c[k] = a[k]
      /\ \A k \in 1..q : c[p + k] = b[k]
  BY Concat DEF Follow
<1>2. o \in Nat /\ o + (p + q) <= m /\ m \in Nat /\ \A k \in 1..(p + q) : t[o + k] = c[k]
  BY <1>1 DEF Occurs
<1>3. Len(a) = p /\ Len(b) = q /\ Len(t) = m
  OBVIOUS
<1>. HIDE DEF p, q, m
<1>4. p \in Nat /\ q \in Nat /\ o \in Nat /\ m \in Nat /\ o + (p + q) <= m
  BY <1>1, <1>2
<1>5. o + p <= m /\ (o + p) + q <= m /\ o + p \in Nat
  BY <1>4
<1>6. \A k \in 1..p : k \in 1..(p + q)
  BY <1>4
<1>7. \A k \in 1..q : p + k \in 1..(p + q) /\ (o + p) + k = o + (p + k)
  BY <1>4
<1>8. Occurs(t, o, a)
  BY <1>1, <1>2, <1>3, <1>5, <1>6 DEF Occurs, Follow
<1>9. Occurs(t, o + p, b)
  <2>1. \A k \in 1..q : t[(o + p) + k] = b[k]
    BY <1>1, <1>2, <1>7
  <2>2. b \in Seq(Chars)
    BY DEF Follow
  <2>. QED BY <1>3, <1>4, <1>5, <2>1, <2>2 DEF Occurs
<1>. QED BY <1>1, <1>3, <1>8, <1>9

LEMMA OccursPiece ==
    ASSUME NEW t, NEW o, NEW F, Occurs(t, o, F), NEW seqs \in Seq(Seq(Chars)), NEW off, Layout(seqs, F, off),
           NEW i \in 1..Len(seqs)
    PROVE  Occurs(t, o + off[i - 1], seqs[i])
<1>. DEFINE p == off[i - 1]  q == Len(seqs[i])  m == Len(t)
<1>1. seqs[i] \in Seq(Chars) /\ Len(seqs) \in Nat
  BY ElementOfSeq, LenProperties
<1>2. p \in Nat /\ q \in Nat /\ off[i] = p + q /\ off[i] <= Len(F) /\ \A k \in 1..q : F[p + k] = seqs[i][k]
  <2>1. i - 1 \in 0..Len(seqs)
    BY <1>1
  <2>. QED BY <1>1, <2>1, LenProperties DEF Layout
<1>3. o \in Nat /\ Len(F) \in Nat /\ o + Len(F) <= m /\ m \in Nat /\ \A k \in 1..Len(F) : t[o + k] = F[k]
  BY DEF Occurs
<1>4. Len(seqs[i]) = q /\ Len(t) = m /\ off[i - 1] = p
  OBVIOUS
<1>. HIDE DEF p, q, m
<1>5. o + p \in Nat /\ (o + p) + q <= m
  BY <1>2, <1>3
<1>6. \A k \in 1..q : p + k \in 1..Len(F) /\ (o + p) + k = o + (p + k)
  BY <1>2, <1>3
<1>. QED BY <1>1, <1>2, <1>3, <1>4, <1>5, <1>6 DEF Occurs

\* A cell is a text, quoted or not.
LEMMA CellType ==
    ASSUME NEW cell \in Seq(Chars), NEW always
    PROVE  /\ Bunker!Escape(cell) \in Seq(Chars) /\ Bunker!Cell(cell, always) \in Seq(Chars)
           /\ <<Bunker!Quote>> \in Seq(Chars) /\ <<Bunker!Quote>> \o Bunker!Escape(cell) \in Seq(Chars)
<1>. DEFINE seqs == [i \in DOMAIN cell |-> Escaped(cell[i])]
<1>1. Len(cell) \in Nat /\ DOMAIN cell = 1..Len(cell) /\ \A i \in 1..Len(cell) : cell[i] \in Chars
  BY LenProperties, ElementOfSeq
<1>2. \A T : \A c, d \in T : <<c>> \in Seq(T) /\ <<c, d>> \in Seq(T)
  OBVIOUS
<1>3. Bunker!Quote \in Chars
  BY DEF Chars
<1>4. seqs \in Seq(Seq(Chars))
  <2>1. \A i \in 1..Len(cell) : Escaped(cell[i]) \in Seq(Chars)
    BY <1>1, <1>2, <1>3 DEF Escaped
  <2>2. seqs = [i \in 1..Len(cell) |-> Escaped(cell[i])]
    BY <1>1
  <2>. QED BY <1>1, <2>1, <2>2, IsASeq
<1>5. Bunker!Escape(cell) \in Seq(Chars)
  <2>1. Bunker!Escape(cell) = Bunker!FlattenSeq(seqs)
    BY DEF Bunker!Escape, Escaped
  <2>. QED BY <1>4, <2>1, Pieces
<1>6. <<Bunker!Quote>> \in Seq(Chars)
  BY <1>2, <1>3
<1>7. <<Bunker!Quote>> \o Bunker!Escape(cell) \in Seq(Chars)
  BY <1>5, <1>6, ConcatProperties
<1>8. <<Bunker!Quote>> \o Bunker!Escape(cell) \o <<Bunker!Quote>> \in Seq(Chars)
  BY <1>6, <1>7, ConcatProperties
<1>. QED BY <1>5, <1>6, <1>7, <1>8 DEF Bunker!Cell

\* The text of a quoted cell, and where its quotes are.
LEMMA BetweenQuotes ==
    ASSUME NEW t, NEW o, NEW Q, NEW E, NEW U, NEW C, Follow(Q, E, U), Follow(U, Q, C),
           Len(Q) = 1, Q[1] = Bunker!Quote, Occurs(t, o, C)
    PROVE  /\ Occurs(t, o + 1, E) /\ o \in Nat /\ Len(E) \in Nat /\ Len(t) \in Nat
           /\ o + (Len(E) + 2) <= Len(t) /\ Len(C) = Len(E) + 2
           /\ t[o + 1] = Bunker!Quote /\ t[o + (Len(E) + 2)] = Bunker!Quote
<1>2. Occurs(t, o, U) /\ Occurs(t, o + Len(U), Q) /\ Len(C) = Len(U) + Len(Q)
  <2>1. Occurs(t, o, U)
    BY OccursConcat
  <2>2. Occurs(t, o + Len(U), Q)
    BY OccursConcat
  <2>3. Len(C) = Len(U) + Len(Q)
    BY ConcatProperties DEF Follow
  <2>. QED BY <2>1, <2>2, <2>3
<1>3. Occurs(t, o, Q) /\ Occurs(t, o + Len(Q), E) /\ Len(U) = Len(Q) + Len(E)
  BY <1>2, OccursConcat
<1>. DEFINE q == Len(E)  m == Len(t)
<1>4. q \in Nat /\ m \in Nat /\ o \in Nat
  BY <1>3 DEF Occurs
<1>5. Len(U) = 1 + q /\ Len(C) = (1 + q) + 1
  BY <1>2, <1>3
<1>6. t[o + 1] = Bunker!Quote /\ t[(o + (1 + q)) + 1] = Bunker!Quote /\ (o + (1 + q)) + 1 <= m
  BY <1>2, <1>3, <1>5 DEF Occurs
<1>7. Occurs(t, o + 1, E) /\ Len(E) = q /\ Len(t) = m
  BY <1>3
<1>. HIDE DEF q, m
<1>8. (o + (1 + q)) + 1 = o + (q + 2) /\ (1 + q) + 1 = q + 2
  BY <1>4
<1>. QED BY <1>4, <1>5, <1>6, <1>7, <1>8

\* A cell, as long as no quote follows it.
LEMMA CellRead ==
    ASSUME NEW t \in Seq(Chars), NEW o, NEW cell \in Seq(Chars), NEW always, NEW C, C = Bunker!Cell(cell, always),
           NEW e, Spans(t, o, e, C), NoQuote(t, e), NEW r, NEW w, States(t)[o] = Out(r, w, <<>>)
    PROVE  States(t)[e] = Out(r, w, cell)
<1>. DEFINE special == {Bunker!Quote, Bunker!Comma, Bunker!CR, Bunker!LF}
            E == Bunker!Escape(cell)
            Q == <<Bunker!Quote>>
<1>0. Occurs(t, o, C) /\ e = o + Len(C)
  BY DEF Spans
<1>1. CASE ~(always \/ Bunker!ToSet(cell) \cap special # {})
  <2>1. C = cell /\ Bunker!ToSet(cell) \cap special = {}
    BY <1>1 DEF Bunker!Cell
  <2>2. \A k \in 1..Len(cell) : cell[k] \notin special
    BY <2>1, LenProperties DEF Bunker!ToSet
  <2>. QED BY <1>0, <2>1, <2>2, PlainRead
<1>2. CASE always \/ Bunker!ToSet(cell) \cap special # {}
  <2>1. C = (Q \o E) \o Q
    BY <1>2 DEF Bunker!Cell
  <2>2. E \in Seq(Chars) /\ Q \in Seq(Chars) /\ Q \o E \in Seq(Chars) /\ Len(Q) = 1 /\ Q[1] = Bunker!Quote
    BY CellType
  <2>. HIDE DEF E, Q
  <2>. DEFINE q == Len(E)  m == Len(t)  i == o + 1  j == o + (q + 2)
  <2>3. /\ Occurs(t, o + 1, E) /\ o \in Nat /\ q \in Nat /\ m \in Nat /\ o + (q + 2) <= m /\ Len(C) = q + 2
        /\ t[o + 1] = Bunker!Quote /\ t[o + (q + 2)] = Bunker!Quote
    <3>1. Follow(Q, E, Q \o E) /\ Follow(Q \o E, Q, C)
      BY <2>1, <2>2 DEF Follow
    <3>. QED BY <1>0, <2>2, <3>1, BetweenQuotes
  <2>6. Len(t) = m /\ Len(E) = q
    OBVIOUS
  <2>. HIDE DEF q, m
  <2>7. i \in 1..m /\ i - 1 = o /\ j \in 1..m /\ j - 1 = i + q /\ t[i] = Bunker!Quote /\ t[j] = Bunker!Quote
    BY <2>3
  <2>. HIDE DEF i, j
  <2>8. States(t)[i] = In(r, w, <<>>)
    BY <2>6, <2>7, StatesExist, OutStep
  <2>9. States(t)[i + q] = In(r, w, cell)
    <3>1. Occurs(t, i, E) /\ E = Bunker!Escape(cell)
      BY <2>3 DEF i, E
    <3>. QED BY <2>6, <2>8, <3>1, EscapedRead
  <2>10. (IF j < Len(t) THEN t[j + 1] ELSE Bunker!LF) # Bunker!Quote
    <3>1. NoQuote(t, j)
      BY <1>0, <2>3 DEF j
    <3>. QED BY <3>1 DEF NoQuote, Bunker!LF, Bunker!Quote
  <2>11. States(t)[j] = Bunker!Step(t, In(r, w, cell), j)
    BY <2>6, <2>7, <2>9, StatesExist
  <2>12. States(t)[j] = Out(r, w, cell)
    BY <2>7, <2>10, <2>11, InStep
  <2>. QED BY <1>0, <2>3, <2>12 DEF j
<1>. QED BY <1>1, <1>2

\* A cell and what ends it.
LEMMA SeparatedRead ==
    ASSUME NEW t \in Seq(Chars), NEW o, NEW cell \in Seq(Chars), NEW always, NEW C, C = Bunker!Cell(cell, always),
           NEW sep, NEW piece, Follow(C, sep, piece), NEW e, Spans(t, o, e, piece),
           NEW r, NEW w, States(t)[o] = Out(r, w, <<>>)
    PROVE  /\ sep = <<Bunker!Comma>> => States(t)[e] = Out(r, Append(w, cell), <<>>)
           /\ sep = <<>> /\ NoQuote(t, e) => States(t)[e] = Out(r, w, cell)
<1>0. Occurs(t, o, piece) /\ e = o + Len(piece)
  BY DEF Spans
<1>. DEFINE q == Len(C)  m == Len(t)  mid == o + q
<1>1. Occurs(t, o, C) /\ Occurs(t, mid, sep)
  BY <1>0, OccursConcat
<1>2. Len(piece) = q + Len(sep)
  BY ConcatProperties DEF Follow
<1>3. q \in Nat /\ o \in Nat /\ m \in Nat
  BY <1>1 DEF Occurs
<1>4. Spans(t, o, mid, C)
  BY <1>1 DEF Spans
<1>41. ASSUME NoQuote(t, mid) PROVE States(t)[mid] = Out(r, w, cell)
  <2>. HIDE DEF q, m, mid
  <2>. QED BY <1>4, <1>41, CellRead
<1>5. ASSUME sep = <<Bunker!Comma>> PROVE States(t)[e] = Out(r, Append(w, cell), <<>>)
  <2>1. Len(sep) = 1 /\ sep[1] = Bunker!Comma
    BY <1>5
  <2>2. Len(piece) = q + 1 /\ Len(t) = m
    BY <1>2, <2>1
  <2>3. t[mid + 1] = Bunker!Comma /\ mid + 1 <= m
    BY <1>1, <2>1 DEF Occurs
  <2>. HIDE DEF q, m
  <2>4. e = mid + 1 /\ e \in 1..m /\ e - 1 = mid
    BY <1>0, <1>3, <2>2, <2>3
  <2>. HIDE DEF mid
  <2>5. NoQuote(t, mid)
    BY <2>3 DEF NoQuote, Bunker!Comma, Bunker!Quote
  <2>6. States(t)[mid] = Out(r, w, cell)
    BY <1>41, <2>5
  <2>7. States(t)[e] = Bunker!Step(t, Out(r, w, cell), e)
    BY <2>2, <2>4, <2>6, StatesExist
  <2>. QED BY <2>3, <2>4, <2>7, OutStep
<1>6. ASSUME sep = <<>>, NoQuote(t, e) PROVE States(t)[e] = Out(r, w, cell)
  <2>1. Len(sep) = 0
    BY <1>6
  <2>2. mid = e
    BY <1>0, <1>2, <1>3, <2>1
  <2>. HIDE DEF q, m, mid
  <2>3. NoQuote(t, mid)
    BY <1>6, <2>2
  <2>. QED BY <1>41, <2>2, <2>3
<1>. QED BY <1>5, <1>6

\* A function on 1..n is a sequence.
LEMMA IsSequence ==
    ASSUME NEW n \in Nat, NEW S, NEW s, s = [i \in 1..n |-> s[i]], \A i \in 1..n : s[i] \in S
    PROVE  s \in Seq(S) /\ Len(s) = n
<1>1. s \in [1..n -> S]
  OBVIOUS
<1>. QED BY <1>1

\* The pieces of a line.
Separator(row, i) == IF i < Len(row) THEN <<Bunker!Comma>> ELSE <<>>
Separated(row, always) == [i \in DOMAIN row |-> Bunker!Cell(row[i], always) \o Separator(row, i)]

LEMMA LineType ==
    ASSUME NEW row \in Seq(Seq(Chars)), NEW always
    PROVE  /\ Separated(row, always) \in Seq(Seq(Chars)) /\ Len(Separated(row, always)) = Len(row)
           /\ Bunker!Line(row, always) = Bunker!FlattenSeq(Separated(row, always))
           /\ Bunker!Line(row, always) \in Seq(Chars)
           /\ \A i \in 1..Len(row) :
                /\ row[i] \in Seq(Chars)
                /\ Follow(Bunker!Cell(row[i], always), Separator(row, i), Separated(row, always)[i])
<1>. DEFINE n == Len(row)  seqs == Separated(row, always)
<1>1. n \in Nat /\ DOMAIN row = 1..n /\ \A i \in 1..n : row[i] \in Seq(Chars)
  BY LenProperties, ElementOfSeq
<1>2. ASSUME NEW i \in 1..n
      PROVE  Follow(Bunker!Cell(row[i], always), Separator(row, i), seqs[i]) /\ seqs[i] \in Seq(Chars)
  <2>1. Bunker!Cell(row[i], always) \in Seq(Chars)
    BY <1>1, CellType
  <2>2. Separator(row, i) \in Seq(Chars)
    <3>1. \A T : <<>> \in Seq(T) /\ \A c \in T : <<c>> \in Seq(T)
      OBVIOUS
    <3>2. Bunker!Comma \in Chars
      BY DEF Chars
    <3>. QED BY <3>1, <3>2 DEF Separator
  <2>3. seqs[i] = Bunker!Cell(row[i], always) \o Separator(row, i)
    BY <1>1 DEF Separated
  <2>. QED BY <2>1, <2>2, <2>3, ConcatProperties DEF Follow
<1>3. seqs \in Seq(Seq(Chars)) /\ Len(seqs) = n
  <2>1. seqs = [i \in 1..n |-> seqs[i]]
    BY <1>1 DEF Separated
  <2>2. \A i \in 1..n : seqs[i] \in Seq(Chars)
    BY <1>2
  <2>. HIDE DEF seqs, n
  <2>. QED BY <1>1, <2>1, <2>2, IsSequence
<1>4. Bunker!Line(row, always) = Bunker!FlattenSeq(seqs)
  BY DEF Bunker!Line, Separated, Separator
<1>5. Bunker!Line(row, always) \in Seq(Chars)
  <2>. HIDE DEF seqs
  <2>. QED BY <1>3, <1>4, Pieces
<1>. QED BY <1>1, <1>2, <1>3, <1>4, <1>5

\* A line, as long as no quote follows it: all of its cells but the last are in
\* the row, and that one is in the field.
LEMMA LineRead ==
    ASSUME NEW t \in Seq(Chars), NEW o, NEW row \in Seq(Seq(Chars)), row # <<>>, NEW always,
           NEW L, L = Bunker!Line(row, always), NEW e, Spans(t, o, e, L), NoQuote(t, e),
           NEW r, States(t)[o] = Out(r, <<>>, <<>>)
    PROVE  States(t)[e] = Out(r, Bunker!Front(row), Bunker!Last(row))
<1>. DEFINE n == Len(row)  seqs == Separated(row, always)
<1>0. Occurs(t, o, L) /\ e = o + Len(L)
  BY DEF Spans
<1>1. n \in Nat /\ n # 0 /\ o \in Nat
  BY <1>0, LenProperties, EmptySeq DEF Occurs
<1>2. /\ seqs \in Seq(Seq(Chars)) /\ Len(seqs) = n /\ L = Bunker!FlattenSeq(seqs)
      /\ \A i \in 1..n : row[i] \in Seq(Chars) /\ Follow(Bunker!Cell(row[i], always), Separator(row, i), seqs[i])
  BY LineType
<1>. HIDE DEF seqs
<1>3. PICK off : Layout(seqs, L, off)
  BY <1>2, Pieces
<1>4. /\ off \in [0..n -> Nat] /\ off[0] = 0 /\ off[n] = Len(L)
      /\ \A i \in 1..n : off[i] = off[i - 1] + Len(seqs[i])
  BY <1>2, <1>3 DEF Layout
<1>. DEFINE stop == [i \in 0..n |-> o + off[i]]
<1>5. stop[0] = o /\ stop[n] = e
  <2>. HIDE DEF n
  <2>1. 0 \in 0..n /\ n \in 0..n /\ o + 0 = o
    BY <1>1
  <2>. QED BY <1>0, <1>4, <2>1
<1>6. ASSUME NEW i \in 1..n PROVE Spans(t, stop[i - 1], stop[i], seqs[i])
  <2>1. i - 1 \in 0..n /\ i \in 0..n /\ i \in 1..Len(seqs)
    BY <1>1, <1>2
  <2>2. stop[i - 1] = o + off[i - 1] /\ stop[i] = o + off[i]
    BY <2>1
  <2>. HIDE DEF stop, n
  <2>3. Occurs(t, stop[i - 1], seqs[i])
    BY <1>0, <1>2, <1>3, <2>1, <2>2, OccursPiece
  <2>4. Len(seqs[i]) \in Nat /\ off[i - 1] \in Nat /\ off[i] = off[i - 1] + Len(seqs[i])
    BY <1>4, <2>1, <2>3 DEF Occurs
  <2>5. stop[i] = stop[i - 1] + Len(seqs[i])
    BY <1>1, <2>2, <2>4
  <2>. QED BY <2>3, <2>5 DEF Spans
<1>. HIDE DEF stop
<1>. DEFINE P == {k \in 0..(n - 1) : States(t)[stop[k]] = Out(r, SubSeq(row, 1, k), <<>>)}
<1>7. 0 \in P
  <2>1. SubSeq(row, 1, 0) = <<>> /\ 0 \in 0..(n - 1)
    BY <1>1, Grow
  <2>2. States(t)[stop[0]] = Out(r, SubSeq(row, 1, 0), <<>>)
    BY <1>5, <2>1
  <2>. QED BY <2>1, <2>2
<1>8. ASSUME NEW k \in 0..((n - 1) - 1), k \in P PROVE k + 1 \in P
  <2>1. k + 1 \in 1..n /\ (k + 1) - 1 = k /\ k \in 0..(n - 1) /\ k + 1 \in 0..(n - 1) /\ k + 1 < n
    BY <1>1
  <2>2. Separator(row, k + 1) = <<Bunker!Comma>>
    BY <2>1 DEF Separator
  <2>3. Spans(t, stop[k], stop[k + 1], seqs[k + 1])
    BY <1>6, <2>1
  <2>4. States(t)[stop[k]] = Out(r, SubSeq(row, 1, k), <<>>)
    BY <1>8
  <2>5. row[k + 1] \in Seq(Chars) /\ Follow(Bunker!Cell(row[k + 1], always), <<Bunker!Comma>>, seqs[k + 1])
    BY <1>2, <2>1, <2>2
  <2>6. States(t)[stop[k + 1]] = Out(r, Append(SubSeq(row, 1, k), row[k + 1]), <<>>)
    <3>. DEFINE cell == row[k + 1]  C == Bunker!Cell(cell, always)  w == SubSeq(row, 1, k)  e1 == stop[k + 1]  o1 == stop[k]
                piece == seqs[k + 1]  sep == <<Bunker!Comma>>
    <3>1. cell \in Seq(Chars) /\ Follow(C, sep, piece) /\ Spans(t, o1, e1, piece) /\ States(t)[o1] = Out(r, w, <<>>)
      BY <2>3, <2>4, <2>5
    <3>2. C = Bunker!Cell(cell, always) /\ sep = <<Bunker!Comma>>
      OBVIOUS
    <3>. HIDE DEF cell, C, w, e1, o1, piece, sep
    <3>3. States(t)[e1] = Out(r, Append(w, cell), <<>>)
      BY <3>1, <3>2, SeparatedRead
    <3>. QED BY <3>3 DEF cell, w, e1
  <2>7. SubSeq(row, 1, k + 1) = Append(SubSeq(row, 1, k), row[k + 1])
    BY <2>1, Grow
  <2>. QED BY <2>1, <2>6, <2>7
<1>. HIDE DEF P
<1>9. n - 1 \in P
  <2>1. n - 1 \in Nat
    BY <1>1
  <2>. HIDE DEF n
  <2>. QED BY <1>7, <1>8, <2>1, Induct
<1>10. States(t)[stop[n]] = Out(r, SubSeq(row, 1, n - 1), row[n])
  <2>1. n \in 1..n
    BY <1>1
  <2>2. Separator(row, n) = <<>>
    BY <1>1 DEF Separator
  <2>3. Spans(t, stop[n - 1], stop[n], seqs[n])
    BY <1>6, <2>1
  <2>4. States(t)[stop[n - 1]] = Out(r, SubSeq(row, 1, n - 1), <<>>)
    BY <1>9 DEF P
  <2>5. row[n] \in Seq(Chars) /\ Follow(Bunker!Cell(row[n], always), <<>>, seqs[n])
    BY <1>2, <2>1, <2>2
  <2>6. NoQuote(t, stop[n])
    BY <1>5
  <2>. HIDE DEF n
  <2>. DEFINE cell == row[n]  C == Bunker!Cell(cell, always)  w == SubSeq(row, 1, n - 1)  e1 == stop[n]  o1 == stop[n - 1]
              piece == seqs[n]  sep == <<>>
  <2>7. cell \in Seq(Chars) /\ Follow(C, sep, piece) /\ Spans(t, o1, e1, piece) /\ States(t)[o1] = Out(r, w, <<>>)
    BY <2>3, <2>4, <2>5
  <2>8. C = Bunker!Cell(cell, always) /\ sep = <<>> /\ NoQuote(t, e1)
    BY <2>6
  <2>. HIDE DEF cell, C, w, e1, o1, piece, sep
  <2>9. States(t)[e1] = Out(r, w, cell)
    BY <2>7, <2>8, SeparatedRead
  <2>. QED BY <2>9 DEF cell, w, e1
<1>. QED BY <1>5, <1>10 DEF Bunker!Front, Bunker!Last

LineEnds == {<<Bunker!LF>>, <<Bunker!CR, Bunker!LF>>}

\* The text holds a line and what ends it, and the parser is at the line.
AtLine(t, o, e, row, always, eol, piece, r) ==
    /\ t \in Seq(Chars) /\ row \in Seq(Seq(Chars)) /\ row # <<>>
    /\ Follow(Bunker!Line(row, always), eol, piece) /\ Spans(t, o, e, piece)
    /\ States(t)[o] = Out(r, <<>>, <<>>)

LEMMA EndedRead ==
    ASSUME NEW t, NEW o, NEW e, NEW row, NEW always, NEW eol, NEW piece, NEW r,
           AtLine(t, o, e, row, always, eol, piece, r)
    PROVE  /\ eol \in LineEnds => States(t)[e] = Out(Append(r, row), <<>>, <<>>)
           /\ eol = <<>> /\ NoQuote(t, e) => States(t)[e] = Out(r, Bunker!Front(row), Bunker!Last(row))
<1>. DEFINE L == Bunker!Line(row, always)
<1>0. /\ t \in Seq(Chars) /\ row \in Seq(Seq(Chars)) /\ row # <<>> /\ L = Bunker!Line(row, always)
      /\ Follow(L, eol, piece) /\ Spans(t, o, e, piece) /\ States(t)[o] = Out(r, <<>>, <<>>)
  BY DEF AtLine
<1>. HIDE DEF L
<1>. DEFINE q == Len(L)  m == Len(t)  mid == o + q  front == Bunker!Front(row)  final == Bunker!Last(row)
<1>1. Occurs(t, o, piece) /\ e = o + Len(piece)
  BY <1>0 DEF Spans
<1>2. Occurs(t, o, L) /\ Occurs(t, mid, eol)
  BY <1>0, <1>1, OccursConcat
<1>3. Len(piece) = q + Len(eol)
  BY <1>0, ConcatProperties DEF Follow
<1>4. q \in Nat /\ o \in Nat /\ m \in Nat
  BY <1>2 DEF Occurs
<1>5. Spans(t, o, mid, L)
  BY <1>2 DEF Spans
<1>6. ASSUME NoQuote(t, mid) PROVE States(t)[mid] = Out(r, front, final)
  <2>. HIDE DEF q, m, mid
  <2>1. States(t)[mid] = Out(r, Bunker!Front(row), Bunker!Last(row))
    BY <1>0, <1>5, <1>6, LineRead
  <2>. QED BY <2>1
<1>7. Append(front, final) = row
  <2>1. Len(row) \in Nat /\ Len(row) # 0
    BY <1>0, LenProperties, EmptySeq
  <2>2. Len(row) - 1 \in 0..(Len(row) - 1) /\ (Len(row) - 1) + 1 = Len(row)
    BY <2>1
  <2>. QED BY <1>0, <2>2, Grow DEF Bunker!Front, Bunker!Last
<1>. HIDE DEF front, final
<1>8. ASSUME eol = <<Bunker!LF>> PROVE States(t)[e] = Out(Append(r, row), <<>>, <<>>)
  <2>1. Len(eol) = 1 /\ eol[1] = Bunker!LF
    BY <1>8
  <2>2. Len(piece) = q + 1 /\ Len(t) = m
    BY <1>3, <2>1
  <2>3. t[mid + 1] = Bunker!LF /\ mid + 1 <= m
    BY <1>2, <2>1 DEF Occurs
  <2>. HIDE DEF q, m
  <2>4. e = mid + 1 /\ e \in 1..m /\ e - 1 = mid
    BY <1>1, <1>4, <2>2, <2>3
  <2>. HIDE DEF mid
  <2>5. NoQuote(t, mid)
    BY <2>3 DEF NoQuote, Bunker!LF, Bunker!Quote
  <2>6. States(t)[mid] = Out(r, front, final)
    BY <1>6, <2>5
  <2>7. States(t)[e] = Bunker!Step(t, Out(r, front, final), e)
    BY <2>2, <2>4, <2>6, <1>0, StatesExist
  <2>8. States(t)[e] = Out(Append(r, Append(front, final)), <<>>, <<>>)
    BY <2>3, <2>4, <2>7, OutStep
  <2>. QED BY <1>7, <2>8
<1>9. ASSUME eol = <<Bunker!CR, Bunker!LF>> PROVE States(t)[e] = Out(Append(r, row), <<>>, <<>>)
  <2>1. Len(eol) = 2 /\ eol[1] = Bunker!CR /\ eol[2] = Bunker!LF
    BY <1>9
  <2>2. Len(piece) = q + 2 /\ Len(t) = m
    BY <1>3, <2>1
  <2>3. t[mid + 1] = Bunker!CR /\ t[mid + 2] = Bunker!LF /\ mid + 2 <= m
    BY <1>2, <2>1 DEF Occurs
  <2>. HIDE DEF q, m
  <2>. DEFINE h == mid + 1
  <2>4. /\ e = mid + 2 /\ e \in 1..m /\ e - 1 = h /\ h \in 1..m /\ h - 1 = mid
    BY <1>1, <1>4, <2>2, <2>3
  <2>5. NoQuote(t, mid)
    BY <2>3 DEF NoQuote, Bunker!CR, Bunker!Quote
  <2>6. t[h] = Bunker!CR /\ t[e] = Bunker!LF
    BY <2>3, <2>4
  <2>. HIDE DEF mid, h
  <2>7. States(t)[mid] = Out(r, front, final)
    BY <1>6, <2>5
  <2>8. States(t)[h] = Bunker!Step(t, Out(r, front, final), h)
    BY <2>2, <2>4, <2>7, <1>0, StatesExist
  <2>9. States(t)[h] = Out(r, front, final)
    BY <2>6, <2>8, OutStep
  <2>10. States(t)[e] = Bunker!Step(t, Out(r, front, final), e)
    BY <2>2, <2>4, <2>9, <1>0, StatesExist
  <2>11. States(t)[e] = Out(Append(r, Append(front, final)), <<>>, <<>>)
    BY <2>6, <2>10, OutStep
  <2>. QED BY <1>7, <2>11
<1>10. ASSUME eol = <<>>, NoQuote(t, e) PROVE States(t)[e] = Out(r, front, final)
  <2>1. Len(eol) = 0
    BY <1>10
  <2>2. mid = e
    BY <1>1, <1>3, <1>4, <2>1
  <2>. HIDE DEF q, m, mid
  <2>3. NoQuote(t, mid)
    BY <1>10, <2>2
  <2>. QED BY <1>6, <2>2, <2>3
<1>. QED BY <1>8, <1>9, <1>10 DEF front, final, LineEnds

\* The pieces of a file.
Ending(grid, form, i) == IF i < Len(grid) \/ form.last THEN form.eol ELSE <<>>
Ended(grid, form) == [i \in DOMAIN grid |-> Bunker!Line(grid[i], form.quotes) \o Ending(grid, form, i)]

LEMMA FileType ==
    ASSUME NEW grid \in Seq(Seq(Seq(Chars))), NEW form, form.eol \in LineEnds
    PROVE  /\ Ended(grid, form) \in Seq(Seq(Chars)) /\ Len(Ended(grid, form)) = Len(grid)
           /\ Bunker!FlattenSeq(Ended(grid, form)) \in Seq(Chars)
           /\ \A i \in 1..Len(grid) :
                /\ grid[i] \in Seq(Seq(Chars))
                /\ Follow(Bunker!Line(grid[i], form.quotes), Ending(grid, form, i), Ended(grid, form)[i])
<1>. DEFINE n == Len(grid)  seqs == Ended(grid, form)
<1>1. n \in Nat /\ DOMAIN grid = 1..n /\ \A i \in 1..n : grid[i] \in Seq(Seq(Chars))
  BY LenProperties, ElementOfSeq
<1>2. ASSUME NEW i \in 1..n
      PROVE  Follow(Bunker!Line(grid[i], form.quotes), Ending(grid, form, i), seqs[i]) /\ seqs[i] \in Seq(Chars)
  <2>1. Bunker!Line(grid[i], form.quotes) \in Seq(Chars)
    BY <1>1, LineType
  <2>2. Ending(grid, form, i) \in Seq(Chars)
    <3>1. \A T : <<>> \in Seq(T) /\ \A c, d \in T : <<c>> \in Seq(T) /\ <<c, d>> \in Seq(T)
      OBVIOUS
    <3>2. Bunker!CR \in Chars /\ Bunker!LF \in Chars
      BY DEF Chars
    <3>. QED BY <3>1, <3>2 DEF Ending, LineEnds
  <2>3. seqs[i] = Bunker!Line(grid[i], form.quotes) \o Ending(grid, form, i)
    BY <1>1 DEF Ended
  <2>. QED BY <2>1, <2>2, <2>3, ConcatProperties DEF Follow
<1>3. seqs \in Seq(Seq(Chars)) /\ Len(seqs) = n
  <2>1. seqs = [i \in 1..n |-> seqs[i]]
    BY <1>1 DEF Ended
  <2>2. \A i \in 1..n : seqs[i] \in Seq(Chars)
    BY <1>2
  <2>. HIDE DEF seqs, n
  <2>. QED BY <1>1, <2>1, <2>2, IsSequence
<1>4. Bunker!FlattenSeq(seqs) \in Seq(Chars)
  <2>. HIDE DEF seqs
  <2>. QED BY <1>3, Pieces
<1>. QED BY <1>1, <1>2, <1>3, <1>4

\* The parser at the end of a file.
LEMMA FileRead ==
    ASSUME NEW grid \in Seq(Seq(Seq(Chars))), \A i \in 1..Len(grid) : grid[i] # <<>>,
           NEW form, form.eol \in LineEnds,
           NEW t, t = Bunker!FlattenSeq(Ended(grid, form)), NEW row, row = grid[Len(grid)]
    PROVE  /\ t \in Seq(Chars)
           /\ Len(grid) = 0 \/ form.last => States(t)[Len(t)] = Out(grid, <<>>, <<>>)
           /\ Len(grid) # 0 /\ ~form.last =>
                States(t)[Len(t)] = Out(SubSeq(grid, 1, Len(grid) - 1), Bunker!Front(row), Bunker!Last(row))
<1>. DEFINE n == Len(grid)  seqs == Ended(grid, form)
<1>1. n \in Nat
  BY LenProperties
<1>2. /\ seqs \in Seq(Seq(Chars)) /\ Len(seqs) = n /\ t = Bunker!FlattenSeq(seqs)
      /\ \A i \in 1..n : grid[i] \in Seq(Seq(Chars))
                         /\ Follow(Bunker!Line(grid[i], form.quotes), Ending(grid, form, i), seqs[i])
  BY FileType
<1>. HIDE DEF seqs
<1>3. t \in Seq(Chars) /\ Len(t) \in Nat
  BY <1>2, Pieces, LenProperties
<1>4. PICK stop : Layout(seqs, t, stop)
  BY <1>2, Pieces
<1>5. stop \in [0..n -> Nat] /\ stop[0] = 0 /\ stop[n] = Len(t) /\ \A i \in 1..n : stop[i] = stop[i - 1] + Len(seqs[i])
  BY <1>2, <1>4 DEF Layout
<1>6. ASSUME NEW i \in 1..n PROVE Spans(t, stop[i - 1], stop[i], seqs[i])
  <2>1. Occurs(t, 0, t)
    BY <1>3 DEF Occurs
  <2>2. i - 1 \in 0..n /\ i \in 1..Len(seqs)
    BY <1>1, <1>2
  <2>. HIDE DEF n
  <2>3. stop[i - 1] \in Nat /\ 0 + stop[i - 1] = stop[i - 1]
    <3>1. stop[i - 1] \in Nat
      BY <1>5, <2>2
    <3>2. \A x \in Nat : 0 + x = x
      OBVIOUS
    <3>. QED BY <3>1, <3>2
  <2>4. Occurs(t, stop[i - 1], seqs[i])
    BY <1>2, <1>4, <2>1, <2>2, <2>3, OccursPiece
  <2>. QED BY <1>5, <2>4 DEF Spans
<1>7. States(t)[stop[0]] = Out(SubSeq(grid, 1, 0), <<>>, <<>>)
  <2>1. SubSeq(grid, 1, 0) = <<>> /\ States(t)[0] = Bunker!Start
    BY <1>3, Grow, StatesExist
  <2>. QED BY <1>5, <2>1 DEF Bunker!Start, Out
<1>8. ASSUME NEW k \in 0..(n - 1), k + 1 < n \/ form.last,
             States(t)[stop[k]] = Out(SubSeq(grid, 1, k), <<>>, <<>>)
      PROVE  States(t)[stop[k + 1]] = Out(SubSeq(grid, 1, k + 1), <<>>, <<>>)
  <2>1. k + 1 \in 1..n /\ (k + 1) - 1 = k
    BY <1>1
  <2>2. Ending(grid, form, k + 1) \in LineEnds
    BY <1>8 DEF Ending
  <2>. DEFINE row1 == grid[k + 1]  eol == Ending(grid, form, k + 1)
              piece == seqs[k + 1]  o == stop[k]  e == stop[k + 1]  r == SubSeq(grid, 1, k)
  <2>3. AtLine(t, o, e, row1, form.quotes, eol, piece, r)
    BY <1>2, <1>3, <1>6, <1>8, <2>1 DEF AtLine
  <2>4. SubSeq(grid, 1, k + 1) = Append(r, row1)
    BY Grow
  <2>. HIDE DEF row1, eol, piece, o, e, r
  <2>5. States(t)[e] = Out(Append(r, row1), <<>>, <<>>)
    BY <2>2, <2>3, EndedRead DEF eol
  <2>. QED BY <2>4, <2>5 DEF e
<1>9. ASSUME NEW N \in 0..n, N < n \/ form.last
      PROVE  States(t)[stop[N]] = Out(SubSeq(grid, 1, N), <<>>, <<>>)
  <2>. DEFINE P == {k \in 0..N : States(t)[stop[k]] = Out(SubSeq(grid, 1, k), <<>>, <<>>)}
  <2>1. 0 \in P
    BY <1>1, <1>7
  <2>2. ASSUME NEW k \in 0..(N - 1), k \in P PROVE k + 1 \in P
    <3>1. k \in 0..(n - 1) /\ (k + 1 < n \/ form.last) /\ k + 1 \in 0..N
      BY <1>1, <1>9
    <3>. QED BY <1>8, <2>2, <3>1
  <2>3. N \in Nat
    BY <1>1
  <2>. HIDE DEF P
  <2>4. N \in P
    BY <2>1, <2>2, <2>3, Induct
  <2>. QED BY <2>4 DEF P
<1>10. ASSUME n = 0 \/ form.last PROVE States(t)[stop[n]] = Out(grid, <<>>, <<>>)
  <2>1. SubSeq(grid, 1, n) = grid /\ n \in 0..n
    BY <1>1, Grow
  <2>2. CASE n = 0
    BY <1>7, <2>1, <2>2
  <2>3. CASE form.last
    BY <1>9, <2>1, <2>3
  <2>. QED BY <1>10, <2>2, <2>3
<1>11. ASSUME n # 0, ~form.last
       PROVE  States(t)[stop[n]] = Out(SubSeq(grid, 1, n - 1), Bunker!Front(row), Bunker!Last(row))
  <2>1. n \in 1..n /\ n - 1 \in 0..n /\ n - 1 < n
    BY <1>1, <1>11
  <2>2. Ending(grid, form, n) = <<>>
    BY <1>1, <1>11 DEF Ending
  <2>. DEFINE piece == seqs[n]  o == stop[n - 1]  e == stop[n]
              r == SubSeq(grid, 1, n - 1)  eol == <<>>
  <2>3. States(t)[o] = Out(r, <<>>, <<>>)
    BY <1>9, <2>1
  <2>4. AtLine(t, o, e, row, form.quotes, eol, piece, r)
    BY <1>2, <1>3, <1>6, <2>1, <2>2, <2>3 DEF AtLine
  <2>5. NoQuote(t, e)
    BY <1>3, <1>5 DEF NoQuote
  <2>6. eol = <<>>
    OBVIOUS
  <2>. HIDE DEF piece, o, e, r, eol
  <2>7. States(t)[e] = Out(r, Bunker!Front(row), Bunker!Last(row))
    BY <2>4, <2>5, <2>6, EndedRead
  <2>. QED BY <2>7 DEF e, r
<1>. QED BY <1>3, <1>5, <1>10, <1>11

\* A text that does not begin with a BOM.
Clean(s) == s # <<>> => s[1] # Bunker!BOM

LEMMA CleanFollow ==
    ASSUME NEW a, NEW b, NEW c, Follow(a, b, c), Clean(a), a = <<>> => Clean(b)
    PROVE  Clean(c)
<1>1. a \in Seq(Chars) /\ b \in Seq(Chars) /\ c = a \o b
  BY DEF Follow
<1>2. CASE a = <<>>
  <2>1. c = b
    BY <1>1, <1>2, ConcatEmptySeq
  <2>. QED BY <1>2, <2>1
<1>3. CASE a # <<>>
  <2>1. Len(a) \in Nat /\ Len(a) # 0
    BY <1>1, <1>3, LenProperties, EmptySeq
  <2>2. 1 \in 1..Len(a)
    BY <2>1
  <2>3. c[1] = a[1]
    BY <1>1, <2>2, Concat
  <2>. QED BY <1>3, <2>3 DEF Clean
<1>. QED BY <1>2, <1>3

\* A join begins as its first piece does.
LEMMA CleanJoin ==
    ASSUME NEW seqs \in Seq(Seq(Chars)), Len(seqs) # 0 => Clean(seqs[1]) /\ (seqs[1] = <<>> => Len(seqs) = 1)
    PROVE  Clean(Bunker!FlattenSeq(seqs))
<1>. DEFINE n == Len(seqs)
<1>1. n \in Nat /\ \A i \in 1..n : seqs[i] \in Seq(Chars)
  BY LenProperties, ElementOfSeq
<1>2. PICK pre \in [0..n -> Seq(Chars)] :
         /\ pre[0] = <<>> /\ pre[n] = Bunker!FlattenSeq(seqs)
         /\ \A i \in 1..n : pre[i] = pre[i - 1] \o seqs[i]
  BY Joints
<1>. DEFINE P == {k \in 0..n : Clean(pre[k]) /\ (k = 0 \/ k = n \/ pre[k] # <<>>)}
<1>3. 0 \in P
  BY <1>1, <1>2 DEF Clean
<1>4. ASSUME NEW k \in 0..(n - 1), k \in P PROVE k + 1 \in P
  <2>1. k + 1 \in 1..n /\ (k + 1) - 1 = k /\ k \in 0..n /\ k + 1 \in 0..n /\ n # 0 /\ k # n
    BY <1>1
  <2>2. /\ pre[k] \in Seq(Chars) /\ seqs[k + 1] \in Seq(Chars) /\ pre[k + 1] = pre[k] \o seqs[k + 1]
        /\ Clean(pre[k]) /\ (k # 0 => pre[k] # <<>>)
    BY <1>1, <1>2, <1>4, <2>1
  <2>. DEFINE a == pre[k]  b == seqs[k + 1]  c == pre[k + 1]
  <2>3. k = 0 => a = <<>> /\ Clean(b) /\ (b = <<>> => k + 1 = n)
    BY <1>2, <2>1
  <2>4. Follow(a, b, c) /\ Clean(a) /\ (k # 0 => a # <<>>) /\ c = a \o b /\ a \in Seq(Chars) /\ b \in Seq(Chars)
    BY <2>2 DEF Follow
  <2>. HIDE DEF a, b, c, n
  <2>5. Clean(c)
    BY <2>3, <2>4, CleanFollow
  <2>6. k + 1 = n \/ c # <<>>
    <3>1. CASE k = 0
      BY <2>3, <2>4, <3>1, ConcatEmptySeq
    <3>2. CASE k # 0
      <4>1. Len(a) \in Nat /\ Len(a) # 0 /\ Len(b) \in Nat
        BY <2>4, <3>2, LenProperties, EmptySeq
      <4>2. Len(c) = Len(a) + Len(b)
        BY <2>4, ConcatProperties
      <4>3. Len(c) # 0
        BY <4>1, <4>2
      <4>4. Len(<<>>) = 0
        OBVIOUS
      <4>. QED BY <4>3, <4>4
    <3>. QED BY <3>1, <3>2
  <2>. QED BY <2>1, <2>5, <2>6 DEF c
<1>. HIDE DEF P
<1>5. n \in P
  <2>. HIDE DEF n
  <2>. QED BY <1>1, <1>3, <1>4, Induct
<1>. QED BY <1>2, <1>5 DEF P

LEMMA CleanCell ==
    ASSUME NEW cell \in Seq(Chars), Clean(cell), NEW always
    PROVE  Clean(Bunker!Cell(cell, always))
<1>. DEFINE Q == <<Bunker!Quote>>  E == Bunker!Escape(cell)  U == Q \o E  C == U \o Q
<1>1. E \in Seq(Chars) /\ Q \in Seq(Chars) /\ U \in Seq(Chars) /\ Q # <<>> /\ Q[1] = Bunker!Quote
  BY CellType
<1>2. Follow(Q, E, U) /\ Follow(U, Q, C)
  BY <1>1 DEF Follow
<1>3. Clean(Q)
  BY <1>1 DEF Clean, Bunker!Quote, Bunker!BOM
<1>4. Bunker!Cell(cell, always) \in {C, cell}
  BY DEF Bunker!Cell
<1>. HIDE DEF Q, E, U, C
<1>5. Clean(U)
  BY <1>1, <1>2, <1>3, CleanFollow
<1>6. Clean(C)
  BY <1>2, <1>3, <1>5, CleanFollow
<1>. QED BY <1>4, <1>6

LEMMA EmptyFollow == ASSUME NEW a, NEW b, Follow(a, b, <<>>) PROVE b = <<>>
<1>1. a \in Seq(Chars) /\ b \in Seq(Chars) /\ <<>> = a \o b
  BY DEF Follow
<1>2. Len(a \o b) = Len(a) + Len(b) /\ Len(a) \in Nat /\ Len(b) \in Nat
  BY <1>1, ConcatProperties, LenProperties
<1>3. Len(a \o b) = 0
  BY <1>1
<1>4. Len(b) = 0
  BY <1>2, <1>3
<1>. QED BY <1>1, <1>4, EmptySeq

LEMMA CleanFile ==
    ASSUME NEW grid \in Seq(Seq(Seq(Chars))), NEW form, form.eol \in LineEnds,
           Len(grid) # 0 => grid[1] # <<>> /\ Clean(grid[1][1])
    PROVE  Clean(Bunker!FlattenSeq(Ended(grid, form)))
<1>1. ASSUME NEW row \in Seq(Seq(Chars)), row # <<>>, Clean(row[1]), NEW always
      PROVE  Clean(Bunker!Line(row, always))
  <2>. DEFINE seqs == Separated(row, always)
  <2>1. /\ seqs \in Seq(Seq(Chars)) /\ Len(seqs) = Len(row) /\ Bunker!Line(row, always) = Bunker!FlattenSeq(seqs)
        /\ \A j \in 1..Len(row) : row[j] \in Seq(Chars)
                                  /\ Follow(Bunker!Cell(row[j], always), Separator(row, j), seqs[j])
    BY LineType
  <2>2. Len(row) \in Nat /\ Len(row) # 0 /\ 1 \in 1..Len(row)
    BY <1>1, LenProperties, EmptySeq
  <2>. HIDE DEF seqs
  <2>3. Follow(Bunker!Cell(row[1], always), Separator(row, 1), seqs[1]) /\ Clean(Bunker!Cell(row[1], always))
    BY <1>1, <2>1, <2>2, CleanCell
  <2>4. Clean(Separator(row, 1))
    <3>1. Separator(row, 1) # <<>> => Separator(row, 1) = <<Bunker!Comma>>
      BY DEF Separator
    <3>2. <<Bunker!Comma>>[1] = Bunker!Comma
      OBVIOUS
    <3>. QED BY <3>1, <3>2 DEF Clean, Bunker!Comma, Bunker!BOM
  <2>5. Clean(seqs[1])
    BY <2>3, <2>4, CleanFollow
  <2>6. ASSUME seqs[1] = <<>> PROVE Len(seqs) = 1
    <3>1. Separator(row, 1) = <<>>
      BY <2>3, <2>6, EmptyFollow
    <3>2. ~(1 < Len(row))
      <4>1. <<Bunker!Comma>> # <<>>
        OBVIOUS
      <4>. QED BY <3>1, <4>1 DEF Separator
    <3>. QED BY <2>1, <2>2, <3>2
  <2>. QED BY <2>1, <2>5, <2>6, CleanJoin
<1>. DEFINE seqs == Ended(grid, form)
<1>2. /\ seqs \in Seq(Seq(Chars)) /\ Len(seqs) = Len(grid)
      /\ \A i \in 1..Len(grid) : grid[i] \in Seq(Seq(Chars))
             /\ Follow(Bunker!Line(grid[i], form.quotes), Ending(grid, form, i), seqs[i])
  BY FileType
<1>. HIDE DEF seqs
<1>3. ASSUME Len(grid) # 0 PROVE Clean(seqs[1]) /\ (seqs[1] = <<>> => Len(seqs) = 1)
  <2>1. Len(grid) \in Nat /\ 1 \in 1..Len(grid)
    BY <1>3, LenProperties
  <2>2. Follow(Bunker!Line(grid[1], form.quotes), Ending(grid, form, 1), seqs[1]) /\ Clean(Bunker!Line(grid[1], form.quotes))
    BY <1>1, <1>2, <1>3, <2>1
  <2>3. Ending(grid, form, 1) \in {<<>>, <<Bunker!LF>>, <<Bunker!CR, Bunker!LF>>}
    BY DEF Ending, LineEnds
  <2>4. Clean(Ending(grid, form, 1))
    <3>1. <<Bunker!LF>>[1] = Bunker!LF /\ <<Bunker!CR, Bunker!LF>>[1] = Bunker!CR
      OBVIOUS
    <3>. QED BY <2>3, <3>1 DEF Clean, Bunker!CR, Bunker!LF, Bunker!BOM
  <2>5. ASSUME seqs[1] = <<>> PROVE Len(seqs) = 1
    <3>1. Ending(grid, form, 1) = <<>>
      BY <2>2, <2>5, EmptyFollow
    <3>2. ~(1 < Len(grid))
      <4>1. <<Bunker!LF>> # <<>> /\ <<Bunker!CR, Bunker!LF>> # <<>>
        OBVIOUS
      <4>. QED BY <3>1, <4>1 DEF Ending, LineEnds
    <3>. QED BY <1>2, <1>3, <2>1, <3>2
  <2>. QED BY <2>2, <2>4, <2>5, CleanFollow
<1>4. Clean(Bunker!FlattenSeq(seqs))
  BY <1>2, <1>3, CleanJoin
<1>. QED BY <1>4 DEF seqs

\* A blank line shows nothing.
Shown(row) == IF Bunker!BlankLine(row) THEN <<>> ELSE <<row>>

LEMMA VisibleType ==
    ASSUME NEW S, NEW lines \in Seq(S)
    PROVE  LET seqs == [i \in DOMAIN lines |-> Shown(lines[i])] IN
           /\ seqs \in Seq(Seq(S)) /\ Len(seqs) = Len(lines) /\ Bunker!Visible(lines) = Bunker!FlattenSeq(seqs)
           /\ Bunker!Visible(lines) \in Seq(S)
           /\ \A i \in 1..Len(lines) : seqs[i] = Shown(lines[i])
<1>. DEFINE n == Len(lines)  seqs == [i \in DOMAIN lines |-> Shown(lines[i])]
<1>1. n \in Nat /\ DOMAIN lines = 1..n /\ \A i \in 1..n : lines[i] \in S
  BY LenProperties, ElementOfSeq
<1>2. \A T : <<>> \in Seq(T) /\ \A c \in T : <<c>> \in Seq(T)
  OBVIOUS
<1>3. \A i \in 1..n : seqs[i] = Shown(lines[i]) /\ seqs[i] \in Seq(S)
  BY <1>1, <1>2 DEF Shown
<1>4. seqs = [i \in 1..n |-> seqs[i]]
  BY <1>1
<1>5. Bunker!Visible(lines) = Bunker!FlattenSeq(seqs)
  BY DEF Bunker!Visible, Shown
<1>. HIDE DEF seqs, n
<1>6. seqs \in Seq(Seq(S)) /\ Len(seqs) = n
  BY <1>1, <1>3, <1>4, IsSequence
<1>7. Bunker!Visible(lines) \in Seq(S)
  BY <1>5, <1>6, Pieces
<1>. QED BY <1>3, <1>5, <1>6, <1>7 DEF seqs, n

LEMMA JoinNothing ==
    ASSUME NEW S, NEW seqs \in Seq(Seq(S)), NEW more \in Seq(Seq(S)), Len(more) = Len(seqs) + 1,
           \A i \in 1..Len(seqs) : more[i] = seqs[i], more[Len(seqs) + 1] = <<>>
    PROVE  Bunker!FlattenSeq(more) = Bunker!FlattenSeq(seqs)
<1>. DEFINE n == Len(seqs)  longer == Len(more)
<1>1. n \in Nat /\ longer = n + 1
  BY LenProperties
<1>2. PICK pre \in [0..n -> Seq(S)] :
         /\ pre[0] = <<>> /\ pre[n] = Bunker!FlattenSeq(seqs)
         /\ \A i \in 1..n : pre[i] = pre[i - 1] \o seqs[i]
  BY Joints
<1>3. PICK ext \in [0..Len(more) -> Seq(S)] :
         /\ ext[0] = <<>> /\ ext[Len(more)] = Bunker!FlattenSeq(more)
         /\ \A i \in 1..Len(more) : ext[i] = ext[i - 1] \o more[i]
  BY Joints
<1>. DEFINE P == {k \in 0..n : ext[k] = pre[k]}
<1>4. 0 \in P
  BY <1>1, <1>2, <1>3
<1>5. ASSUME NEW k \in 0..(n - 1), k \in P PROVE k + 1 \in P
  <2>1. k + 1 \in 1..n /\ (k + 1) - 1 = k /\ k + 1 \in 0..n /\ k + 1 \in 1..longer
    <3>1. k \in 0..(n - 1)
      OBVIOUS
    <3>. HIDE DEF n, longer
    <3>. QED BY ONLY <1>1, <3>1
  <2>2. pre[k + 1] = pre[k] \o seqs[k + 1] /\ ext[k + 1] = ext[k] \o more[k + 1] /\ more[k + 1] = seqs[k + 1]
    BY <1>2, <1>3, <2>1
  <2>. QED BY <1>5, <2>1, <2>2
<1>. HIDE DEF P
<1>6. n \in P
  <2>. HIDE DEF n
  <2>. QED BY <1>1, <1>4, <1>5, Induct
<1>7. ext[n + 1] = ext[n] \o <<>> /\ ext[n] \in Seq(S)
  <2>1. n + 1 \in 1..Len(more) /\ (n + 1) - 1 = n /\ n \in 0..Len(more)
    BY <1>1
  <2>. QED BY <1>3, <2>1
<1>8. ext[n + 1] = ext[n]
  BY <1>7, ConcatEmptySeq
<1>. QED BY <1>2, <1>3, <1>6, <1>8 DEF P

LEMMA VisibleBlank ==
    ASSUME NEW S, NEW lines \in Seq(S), NEW row \in S, Bunker!BlankLine(row)
    PROVE  Bunker!Visible(Append(lines, row)) = Bunker!Visible(lines)
<1>. DEFINE n == Len(lines)  longer == Append(lines, row)
            seqs == [i \in DOMAIN lines |-> Shown(lines[i])]
            more == [i \in DOMAIN longer |-> Shown(longer[i])]
<1>1. n \in Nat /\ longer \in Seq(S) /\ Len(longer) = n + 1 /\ longer[n + 1] = row
      /\ \A i \in 1..n : longer[i] = lines[i]
  BY LenProperties, AppendProperties
<1>2. /\ seqs \in Seq(Seq(S)) /\ Len(seqs) = n /\ Bunker!Visible(lines) = Bunker!FlattenSeq(seqs)
      /\ \A i \in 1..n : seqs[i] = Shown(lines[i])
  BY VisibleType
<1>. HIDE DEF longer
<1>3. /\ more \in Seq(Seq(S)) /\ Len(more) = Len(longer) /\ Bunker!Visible(longer) = Bunker!FlattenSeq(more)
      /\ \A i \in 1..Len(longer) : more[i] = Shown(longer[i])
  BY <1>1, VisibleType
<1>. HIDE DEF seqs, more
<1>4. more[n + 1] = <<>>
  <2>1. n + 1 \in 1..Len(longer)
    BY <1>1
  <2>. QED BY <1>1, <1>3, <2>1 DEF Shown
<1>5. \A i \in 1..n : more[i] = seqs[i]
  <2>1. \A i \in 1..n : i \in 1..Len(longer)
    BY <1>1
  <2>. QED BY <1>1, <1>2, <1>3, <2>1
<1>6. Bunker!FlattenSeq(more) = Bunker!FlattenSeq(seqs)
  BY <1>1, <1>2, <1>3, <1>4, <1>5, JoinNothing
<1>. QED BY <1>2, <1>3, <1>6 DEF longer

\* What a spreadsheet wrote is read back, but for the blank lines.
LEMMA ReadBack ==
    ASSUME NEW grid \in Seq(Seq(Seq(Chars))), \A i \in 1..Len(grid) : grid[i] # <<>>,
           Len(grid) # 0 => Clean(grid[1][1]),
           NEW form, form.eol \in LineEnds
    PROVE  Bunker!parseCsv(Bunker!Write(grid, form)) = Bunker!Visible(grid)
<1>. DEFINE n == Len(grid)  F == Bunker!FlattenSeq(Ended(grid, form))  row == grid[n]
            text == Bunker!Write(grid, form)
            body == IF text # <<>> /\ text[1] = Bunker!BOM THEN Tail(text) ELSE text
            end == States(F)[Len(F)]
            all == IF end.field # <<>> \/ end.row # <<>> THEN Bunker!EndRow(end) ELSE end
<1>1. n \in Nat
  BY LenProperties
<1>2. F \in Seq(Chars) /\ Clean(F)
  <2>1. n # 0 => 1 \in 1..n
    BY <1>1
  <2>. QED BY <2>1, FileType, CleanFile
<1>3. body = F
  <2>1. text = (IF form.bom THEN <<Bunker!BOM>> ELSE <<>>) \o F
    BY DEF Bunker!Write, Ended, Ending
  <2>. HIDE DEF F, text
  <2>2. CASE form.bom
    <3>1. text = <<Bunker!BOM>> \o F
      BY <2>1, <2>2
    <3>2. text # <<>> /\ text[1] = Bunker!BOM /\ Tail(text) = F
      BY <1>2, <3>1
    <3>. QED BY <3>2
  <2>3. CASE ~form.bom
    <3>1. text = F
      BY <1>2, <2>1, <2>3, ConcatEmptySeq
    <3>. QED BY <1>2, <3>1 DEF Clean
  <2>. QED BY <2>2, <2>3
<1>4. Bunker!parseCsv(text) = Bunker!Visible(all.rows)
  <2>1. Bunker!parseCsv(text) =
             LET end1 == States(body)[Len(body)]
                 all1 == IF end1.field # <<>> \/ end1.row # <<>> THEN Bunker!EndRow(end1) ELSE end1
             IN  Bunker!Visible(all1.rows)
    BY ParseIs
  <2>. HIDE DEF body, F, text
  <2>. QED BY <1>3, <2>1
<1>5. CASE n = 0 \/ form.last
  <2>1. end = Out(grid, <<>>, <<>>)
    BY <1>5, FileRead
  <2>2. all.rows = grid
    BY <2>1 DEF Out
  <2>. QED BY <1>4, <2>2
<1>6. CASE n # 0 /\ ~form.last
  <2>. DEFINE before == SubSeq(grid, 1, n - 1)
  <2>1. end = Out(before, Bunker!Front(row), Bunker!Last(row))
    BY <1>6, FileRead
  <2>2. n \in 1..n /\ n - 1 \in 0..(n - 1) /\ (n - 1) + 1 = n
    BY <1>1, <1>6
  <2>3. row \in Seq(Seq(Chars)) /\ row # <<>> /\ before \in Seq(Seq(Seq(Chars)))
    <3>1. \A i \in 1..(n - 1) : grid[i] \in Seq(Seq(Chars))
      BY <1>1, ElementOfSeq
    <3>. QED BY <2>2, <3>1, ElementOfSeq, SubSeqProperties
  <2>4. grid = Append(before, row)
    BY <2>2, Grow
  <2>5. Append(Bunker!Front(row), Bunker!Last(row)) = row
    <3>1. Len(row) \in Nat /\ Len(row) # 0
      BY <2>3, LenProperties, EmptySeq
    <3>2. Len(row) - 1 \in 0..(Len(row) - 1) /\ (Len(row) - 1) + 1 = Len(row)
      BY <3>1
    <3>. HIDE DEF row
    <3>. QED BY <2>3, <3>2, Grow DEF Bunker!Front, Bunker!Last
  <2>6. CASE Bunker!Last(row) # <<>> \/ Bunker!Front(row) # <<>>
    <3>. HIDE DEF before, row, end
    <3>1. all = Bunker!EndRow(end)
      BY <2>1, <2>6 DEF Out
    <3>2. all.rows = Append(before, Append(Bunker!Front(row), Bunker!Last(row)))
      BY <2>1, <3>1 DEF Out, Bunker!EndRow, Bunker!EndField
    <3>. QED BY <1>4, <2>4, <2>5, <3>2
  <2>7. CASE Bunker!Last(row) = <<>> /\ Bunker!Front(row) = <<>>
    <3>1. all.rows = before
      <4>. HIDE DEF before, row, end
      <4>. QED BY <2>1, <2>7 DEF Out
    <3>2. row = <<<<>>>>
      <4>. HIDE DEF row
      <4>1. Append(<<>>, <<>>) = <<<<>>>>
        OBVIOUS
      <4>. QED BY <2>5, <2>7, <4>1
    <3>3. Bunker!BlankLine(row)
      <4>1. Len(<<<<>>>>) = 1 /\ <<<<>>>>[1] = <<>>
        OBVIOUS
      <4>2. Bunker!ToSet(<<>>) = {}
        BY DEF Bunker!ToSet
      <4>. HIDE DEF row
      <4>. QED BY <3>2, <4>1, <4>2 DEF Bunker!BlankLine, Bunker!IsBlank
    <3>. HIDE DEF before, row
    <3>4. Bunker!Visible(Append(before, row)) = Bunker!Visible(before)
      BY <2>3, <3>3, VisibleBlank
    <3>. QED BY <1>4, <2>4, <3>1, <3>4
  <2>. QED BY <2>6, <2>7
<1>. QED BY <1>5, <1>6

-----------------------------------------------------------------------------
(* The bunker import: rows, errors and records *)

LEMMA SameBunkerCount ==
    ASSUME NEW S
    PROVE  Bunker!Cardinality(S) = Cardinality(S) /\ Bunker!IsFiniteSet(S) = IsFiniteSet(S)
BY DEF Bunker!Cardinality, Cardinality, Bunker!IsFiniteSet, IsFiniteSet

\* Each element of a set of lines once, in some order.
LEMMA InSomeOrder ==
    ASSUME NEW S \in SUBSET Nat, IsFiniteSet(S), NEW s, s = Bunker!SetToSeq(S)
    PROVE  /\ s \in Seq(Nat) /\ Len(s) = Cardinality(S) /\ \A i \in DOMAIN s : s[i] \in S
           /\ \A i, j \in DOMAIN s : s[i] = s[j] => i = j
<1>. DEFINE n == Cardinality(S)
<1>1. n \in Nat /\ ExistsBijection(1..n, S)
  BY FS_CardinalityType
<1>2. PICK f \in [1..n -> S] : Bunker!IsInjective(f)
  BY <1>1 DEF ExistsBijection, Bijection, Injection, IsInjective, Bunker!IsInjective
<1>3. s = CHOOSE g \in [1..n -> S] : Bunker!IsInjective(g)
  BY SameBunkerCount DEF Bunker!SetToSeq
<1>. HIDE DEF n
<1>4. s \in [1..n -> S] /\ Bunker!IsInjective(s)
  BY <1>2, <1>3
<1>5. s \in Seq(Nat) /\ Len(s) = n /\ DOMAIN s = 1..n
  <2>1. s = [i \in 1..n |-> s[i]] /\ \A i \in 1..n : s[i] \in Nat
    BY <1>4
  <2>. QED BY <1>1, <1>4, <2>1, IsSequence
<1>6. \A i, j \in DOMAIN s : s[i] = s[j] => i = j
  BY <1>4 DEF Bunker!IsInjective
<1>. QED BY <1>4, <1>5, <1>6 DEF n

\* Rows of different lines.
Distinct(R) == \A r, q \in R : r.row = q.row => r = q

\* As many lines as rows, and as many records.
LEMMA LinesCount ==
    ASSUME NEW R, IsFiniteSet(R), Distinct(R)
    PROVE  IsFiniteSet(Bunker!Lines(R)) /\ Cardinality(Bunker!Lines(R)) = Cardinality(R)
<1>. DEFINE f == [r \in R |-> r.row]
<1>1. f \in Bijection(R, Bunker!Lines(R))
  BY DEF Distinct, Bunker!Lines, Bijection, Injection, Surjection, IsInjective
<1>2. ExistsBijection(R, Bunker!Lines(R))
  BY <1>1 DEF ExistsBijection
<1>. QED BY <1>2, FS_Bijection

RecordsOf(u, R) == {[imo |-> r.imo, upload |-> u, row |-> r.row] : r \in R}

LEMMA RecordsCount ==
    ASSUME NEW R, IsFiniteSet(R), Distinct(R), NEW u
    PROVE  Cardinality(RecordsOf(u, R)) = Cardinality(R)
<1>. DEFINE f == [r \in R |-> [imo |-> r.imo, upload |-> u, row |-> r.row]]
<1>1. f \in Bijection(R, RecordsOf(u, R))
  BY DEF Distinct, RecordsOf, Bijection, Injection, Surjection, IsInjective
<1>2. ExistsBijection(R, RecordsOf(u, R))
  BY <1>1 DEF ExistsBijection
<1>. QED BY <1>2, FS_Bijection

\* The rows and errors of a request: each data row is one of them, under its line.
Filed(p) ==
    /\ p = [rows |-> p.rows, errors |-> p.errors, total |-> p.total]
    /\ IsFiniteSet(p.rows) /\ Distinct(p.rows) /\ \A r \in p.rows : r.row \in Nat
    /\ p.errors \in Seq(Nat)
    /\ \A i, j \in DOMAIN p.errors : p.errors[i] = p.errors[j] => i = j
    /\ \A r \in p.rows : \A i \in DOMAIN p.errors : p.errors[i] # r.row
    /\ Cardinality(p.rows) + Len(p.errors) = p.total

LEMMA NothingIsFiled == Filed(Bunker!Nothing)
<1>1. IsFiniteSet({}) /\ Cardinality({}) = 0
  BY FS_EmptySet
<1>2. <<>> \in Seq(Nat) /\ Len(<<>>) = 0 /\ DOMAIN <<>> = {}
  OBVIOUS
<1>. QED BY <1>1, <1>2 DEF Filed, Bunker!Nothing, Distinct

LEMMA ParsedIsFiled ==
    ASSUME NEW grid, Len(grid) \in Nat
    PROVE  Filed(Bunker!parseBunkerCsv(grid))
<1>. DEFINE kept == {j \in 2..Len(grid) : ~Bunker!AllBlank(grid[j])}
            datum(i) == [row    |-> i,
                         imo    |-> Bunker!Trimmed(Bunker!At(Bunker!Header(grid), grid[i], Bunker!ImoColumn)),
                         figure |-> Bunker!Trimmed(Bunker!At(Bunker!Header(grid), grid[i], Bunker!FigureColumn))]
            data == {datum(i) : i \in kept}
            good == {r \in data : Bunker!Valid(r)}
            bad == {r \in data : ~Bunker!Valid(r)}
            p == Bunker!parseBunkerCsv(grid)
<1>1. p = [rows |-> good, errors |-> Bunker!SetToSeq(Bunker!Lines(bad)), total |-> Cardinality(data)]
  BY SameBunkerCount DEF Bunker!parseBunkerCsv
<1>2. IsFiniteSet(kept) /\ kept \subseteq Nat
  <2>1. IsFiniteSet(2..Len(grid))
    BY FS_Interval
  <2>2. kept \in SUBSET (2..Len(grid)) /\ kept \subseteq Nat
    OBVIOUS
  <2>3. IsFiniteSet(kept)
    <3>. HIDE DEF kept
    <3>. QED BY <2>1, <2>2, FS_Subset
  <2>. QED BY <2>2, <2>3
<1>3. \A r \in data : r.row \in Nat
  <2>. HIDE DEF kept
  <2>. QED BY <1>2
<1>4. IsFiniteSet(data)
  <2>. DEFINE f == [i \in kept |-> datum(i)]
  <2>1. f \in Surjection(kept, data)
    BY DEF Surjection
  <2>. HIDE DEF f, kept, data
  <2>. QED BY <1>2, <2>1, FS_Surjection
<1>5. Distinct(data)
  <2>. HIDE DEF kept
  <2>. QED BY DEF Distinct
<1>. HIDE DEF data, p
<1>6. IsFiniteSet(good) /\ IsFiniteSet(bad) /\ Distinct(good) /\ Distinct(bad)
  BY <1>4, <1>5, FS_Subset DEF Distinct
<1>7. Cardinality(good) + Cardinality(bad) = Cardinality(data) /\ Cardinality(good) \in Nat /\ Cardinality(bad) \in Nat
  <2>1. Cardinality(data \ good) = Cardinality(data) - Cardinality(data \cap good)
    BY <1>4, FS_Difference
  <2>2. data \ good = bad /\ data \cap good = good
    OBVIOUS
  <2>3. Cardinality(data) \in Nat /\ Cardinality(good) \in Nat /\ Cardinality(bad) \in Nat
    BY <1>4, <1>6, FS_CardinalityType
  <2>. DEFINE a == Cardinality(good)  b == Cardinality(bad)  c == Cardinality(data)
  <2>4. b = c - a /\ a \in Nat /\ b \in Nat /\ c \in Nat
    BY <2>1, <2>2, <2>3
  <2>. HIDE DEF a, b, c
  <2>5. a + b = c
    BY <2>4
  <2>. QED BY <2>3, <2>5 DEF a, b, c
<1>8. \A r \in good : r \in data /\ r \notin bad
  OBVIOUS
<1>9. \A r \in bad : r \in data
  OBVIOUS
<1>. DEFINE errors == Bunker!SetToSeq(Bunker!Lines(bad))
<1>. HIDE DEF good, bad, errors
<1>10. IsFiniteSet(Bunker!Lines(bad)) /\ Cardinality(Bunker!Lines(bad)) = Cardinality(bad)
  BY <1>6, LinesCount
<1>11. Bunker!Lines(bad) \in SUBSET Nat
  BY <1>3, <1>9 DEF Bunker!Lines
<1>12. /\ errors \in Seq(Nat) /\ Len(errors) = Cardinality(bad) /\ \A i \in DOMAIN errors : errors[i] \in Bunker!Lines(bad)
       /\ \A i, j \in DOMAIN errors : errors[i] = errors[j] => i = j
  BY <1>10, <1>11, InSomeOrder DEF errors
<1>13. ASSUME NEW r \in good, NEW i \in DOMAIN errors PROVE errors[i] # r.row
  <2>1. PICK e \in bad : errors[i] = e.row
    BY <1>12 DEF Bunker!Lines
  <2>. QED BY <1>5, <1>8, <1>9, <2>1 DEF Distinct
<1>14. \A r \in good : r.row \in Nat
  BY <1>3, <1>8
<1>15. p.rows = good /\ p.errors = errors /\ p.total = Cardinality(data) /\ p = [rows |-> good, errors |-> errors, total |-> Cardinality(data)]
  BY <1>1 DEF errors
<1>. QED BY <1>6, <1>7, <1>12, <1>13, <1>14, <1>15 DEF Filed, p

LEMMA StrangersAreFiled ==
    ASSUME NEW p, Filed(p), NEW S \in SUBSET p.rows,
           NEW q,
           q = [rows |-> p.rows \ S, errors |-> p.errors \o Bunker!SetToSeq(Bunker!Lines(S)), total |-> p.total]
    PROVE  Filed(q) /\ q.rows = p.rows \ S
<1>. DEFINE R == p.rows  kept == p.rows \ S  old == p.errors  new == Bunker!SetToSeq(Bunker!Lines(S))  all == old \o new
<1>1. /\ p = [rows |-> R, errors |-> old, total |-> p.total] /\ IsFiniteSet(R) /\ Distinct(R)
      /\ (\A r \in R : r.row \in Nat) /\ old \in Seq(Nat)
      /\ (\A i, j \in DOMAIN old : old[i] = old[j] => i = j)
      /\ (\A r \in R : \A i \in DOMAIN old : old[i] # r.row)
      /\ Cardinality(R) + Len(old) = p.total
  BY DEF Filed
<1>2. q = [rows |-> kept, errors |-> all, total |-> p.total]
  OBVIOUS
<1>. HIDE DEF R, old, new
<1>3. S \subseteq R /\ kept = R \ S
  BY DEF R
<1>. HIDE DEF kept, all
<1>4. IsFiniteSet(S) /\ IsFiniteSet(kept) /\ Distinct(S) /\ Distinct(kept)
  BY <1>1, <1>3, FS_Subset DEF Distinct
<1>5. Cardinality(kept) + Cardinality(S) = Cardinality(R) /\ Cardinality(kept) \in Nat /\ Cardinality(S) \in Nat
  <2>1. Cardinality(R \ S) = Cardinality(R) - Cardinality(R \cap S)
    BY <1>1, FS_Difference
  <2>2. R \cap S = S
    BY <1>3
  <2>3. Cardinality(R) \in Nat /\ Cardinality(S) \in Nat /\ Cardinality(kept) \in Nat
    BY <1>1, <1>4, FS_CardinalityType
  <2>. DEFINE a == Cardinality(kept)  b == Cardinality(S)  c == Cardinality(R)
  <2>4. a = c - b /\ a \in Nat /\ b \in Nat /\ c \in Nat
    BY <1>3, <2>1, <2>2, <2>3
  <2>. HIDE DEF a, b, c
  <2>5. a + b = c
    BY <2>4
  <2>. QED BY <2>3, <2>5 DEF a, b, c
<1>6. IsFiniteSet(Bunker!Lines(S)) /\ Cardinality(Bunker!Lines(S)) = Cardinality(S)
  BY <1>4, LinesCount
<1>7. Bunker!Lines(S) \in SUBSET Nat
  BY <1>1, <1>3 DEF Bunker!Lines
<1>8. /\ new \in Seq(Nat) /\ Len(new) = Cardinality(S) /\ \A i \in DOMAIN new : new[i] \in Bunker!Lines(S)
      /\ \A i, j \in DOMAIN new : new[i] = new[j] => i = j
  BY <1>6, <1>7, InSomeOrder DEF new
<1>9. /\ all \in Seq(Nat) /\ Len(all) = Len(old) + Len(new) /\ Len(old) \in Nat /\ Len(new) \in Nat
      /\ DOMAIN old = 1..Len(old) /\ DOMAIN new = 1..Len(new) /\ DOMAIN all = 1..(Len(old) + Len(new))
      /\ \A i \in 1..(Len(old) + Len(new)) : all[i] = IF i <= Len(old) THEN old[i] ELSE new[i - Len(old)]
  <2>1. all \in Seq(Nat) /\ Len(all) = Len(old) + Len(new)
    <3>1. old \in Seq(Nat) /\ new \in Seq(Nat) /\ all = old \o new
      BY <1>1, <1>8 DEF all
    <3>. HIDE DEF old, new, all
    <3>. QED BY <3>1, ConcatProperties
  <2>2. \A i \in 1..(Len(old) + Len(new)) : all[i] = IF i <= Len(old) THEN old[i] ELSE new[i - Len(old)]
    <3>1. old \in Seq(Nat) /\ new \in Seq(Nat) /\ all = old \o new
      BY <1>1, <1>8 DEF all
    <3>. HIDE DEF old, new, all
    <3>. QED BY <3>1, ConcatProperties
  <2>3. Len(old) \in Nat /\ DOMAIN old = 1..Len(old) /\ Len(new) \in Nat /\ DOMAIN new = 1..Len(new)
    BY <1>1, <1>8, LenProperties
  <2>4. DOMAIN all = 1..Len(all)
    BY <2>1, LenProperties
  <2>. QED BY <2>1, <2>2, <2>3, <2>4
<1>10. ASSUME NEW i \in DOMAIN all
       PROVE  \/ i \in DOMAIN old /\ all[i] = old[i]
              \/ i - Len(old) \in DOMAIN new /\ all[i] = new[i - Len(old)] /\ i \in Int
  BY <1>9
<1>11. \A i \in DOMAIN old, j \in DOMAIN new : old[i] # new[j]
  BY <1>1, <1>3, <1>8 DEF Bunker!Lines
<1>12. ASSUME NEW i \in DOMAIN all, NEW j \in DOMAIN all, all[i] = all[j] PROVE i = j
  <2>1. CASE i \in DOMAIN old /\ all[i] = old[i]
    BY <1>1, <1>10, <1>11, <1>12, <2>1
  <2>2. CASE i - Len(old) \in DOMAIN new /\ all[i] = new[i - Len(old)] /\ i \in Int
    <3>1. j - Len(old) \in DOMAIN new /\ all[j] = new[j - Len(old)] /\ j \in Int
      BY <1>10, <1>11, <1>12, <2>2
    <3>2. i - Len(old) = j - Len(old)
      BY <1>8, <1>12, <2>2, <3>1
    <3>. QED BY <1>9, <2>2, <3>1, <3>2
  <2>. QED BY <1>10, <2>1, <2>2
<1>13. ASSUME NEW r \in kept, NEW i \in DOMAIN all PROVE all[i] # r.row
  <2>1. r \in R /\ r \notin S
    BY <1>3
  <2>2. ASSUME NEW k \in DOMAIN new PROVE new[k] # r.row
    <3>1. PICK e \in S : new[k] = e.row
      BY <1>8 DEF Bunker!Lines
    <3>. QED BY <1>1, <1>3, <2>1, <3>1 DEF Distinct
  <2>. QED BY <1>1, <1>10, <2>1, <2>2
<1>14. Cardinality(kept) + Len(all) = p.total
  BY <1>1, <1>5, <1>8, <1>9
<1>15. q.rows = kept /\ q.errors = all /\ q.total = p.total
  BY <1>2
<1>16. \A r \in kept : r.row \in Nat
  BY <1>1, <1>3
<1>. QED BY <1>2, <1>4, <1>9, <1>12, <1>13, <1>14, <1>15, <1>16 DEF Filed, kept, R

-----------------------------------------------------------------------------
(* The bunker import: what is answered is what was done *)

Of(recs, u) == {r \in recs : r.upload = u}

\* The records of the upload under way, and of those before it.
Tabled(st, p, recs, tr, u) ==
    /\ u \in Nat /\ st \in {"idle", "finding", "inserting", "auditing"}
    /\ \A r \in recs : r.upload \in Nat /\ r.upload <= u
    /\ \A t \in tr : t.upload \in Nat /\ t.upload <= u /\ (st # "idle" => t.upload < u)
    /\ st \in {"finding", "inserting"} => Of(recs, u) = {}
    /\ st = "auditing" => Of(recs, u) = RecordsOf(u, p.rows)
    /\ st \in {"inserting", "auditing"} => \A r \in p.rows : Bunker!Mine(r)

\* The rows that a sheet is meant to be imported by, what a request has of them,
\* and that the table holds them of an upload, or none.
Good(S) == {w \in Bunker!parseBunkerCsv(Bunker!Visible(S)).rows : Bunker!Mine(w)}

Whole(st, p, recs, S) ==
    /\ st = "finding" => p.rows = Bunker!parseBunkerCsv(Bunker!Visible(S)).rows
    /\ st \in {"inserting", "auditing"} => p.rows = Good(S)
    /\ \A u \in Nat : Of(recs, u) = {} \/ Of(recs, u) = RecordsOf(u, Good(S))

\* ReportIsTrue, of any values.
Honest(st, told, recs, tr, u) ==
    /\ st = "idle" /\ told.status \in {200, 201, 400} => Cardinality(Of(recs, u)) = told.imported
    /\ told.imported + Len(told.errors) = told.total
    /\ \A i, j \in DOMAIN told.errors : told.errors[i] = told.errors[j] => i = j
    /\ st = "idle" => \A r \in Of(recs, u), i \in DOMAIN told.errors : told.errors[i] # r.row
    /\ \A t \in tr : t.imported = Cardinality(Of(recs, t.upload))
    /\ \A r \in recs : FleetOfImo[r.imo] = Fleet

ImportInv ==
    /\ sheet \in Sheets /\ style \in Styles
    /\ Filed(parsed)
    /\ Tabled(stage, parsed, records, trail, uploads)
    /\ Honest(stage, summary, records, trail, uploads)
    /\ Whole(stage, parsed, records, sheet)

LEMMA HonestIsTrue == ImportInv => ReportIsTrue
<1>. SUFFICES ASSUME Honest(stage, summary, records, trail, uploads), Whole(stage, parsed, records, sheet), uploads \in Nat
              PROVE  ReportIsTrue
  BY DEF ImportInv, Tabled
<1>1. \A u : Bunker!Made(u) = Of(records, u)
  BY DEF Bunker!Made, Of
<1>2. Bunker!IsInjective(summary.errors)
  BY DEF Honest, Bunker!IsInjective
<1>3. ASSUME stage = "idle" PROVE Bunker!ToSet(summary.errors) \cap Bunker!Lines(Of(records, uploads)) = {}
  BY <1>3 DEF Honest, Bunker!ToSet, Bunker!Lines
<1>4. ASSUME NEW u \in 1..uploads PROVE Of(records, u) \in {{}, Bunker!Importable(u)}
  <2>1. u \in Nat
    BY <1>4
  <2>2. Bunker!Importable(u) = RecordsOf(u, Good(sheet))
    BY DEF Bunker!Importable, RecordsOf, Good
  <2>. QED BY <2>1, <2>2 DEF Whole
<1>. QED BY <1>1, <1>2, <1>3, <1>4, SameBunkerCount DEF Honest, ReportIsTrue, Bunker!ReportIsTrue

LEMMA BunkerMoves ==
    /\ Bunker!BunkerAssumption
    /\ Init => Bunker!Init
    /\ [Next]_vars => [Bunker!Next]_(Bunker!vars)
<1>1. Init => Bunker!Init
  BY DEF Init
<1>2. ASSUME Next PROVE [Bunker!Next]_(Bunker!vars)
  BY <1>2 DEF Next, AisStep, WeatherStep, BunkerStep, LakeStep, bunkerVars, Bunker!vars
<1>3. ASSUME UNCHANGED vars PROVE UNCHANGED Bunker!vars
  BY <1>3 DEF vars, bunkerVars, Bunker!vars
<1>. QED BY <1>1, <1>2, <1>3, FeedsAssumption

\* What the sheets and the styles may be.
LEMMA SheetIsRead ==
    ASSUME Bunker!BunkerAssumption, NEW grid \in Sheets, NEW form \in Styles
    PROVE  /\ Bunker!parseCsv(Bunker!Write(grid, form)) = Bunker!Visible(grid)
           /\ Len(Bunker!Visible(grid)) \in Nat
<1>1. grid \in Seq(Seq(Seq(STRING)) \ {<<>>})
  BY DEF Bunker!BunkerAssumption
<1>2. Len(grid) \in Nat /\ DOMAIN grid = 1..Len(grid) /\ \A i \in 1..Len(grid) : grid[i] \in Seq(Seq(STRING)) \ {<<>>}
  BY <1>1, LenProperties, ElementOfSeq
<1>3. ASSUME NEW T, NEW s \in Seq(T), NEW U, T \subseteq U PROVE s \in Seq(U)
  <2>1. Len(s) \in Nat /\ s = [i \in 1..Len(s) |-> s[i]] /\ \A i \in 1..Len(s) : s[i] \in U
    BY <1>3, LenProperties, ElementOfSeq
  <2>. QED BY <2>1, IsSequence
<1>4. Seq(STRING) \subseteq Seq(Chars)
  BY <1>3 DEF Chars
<1>5. Seq(Seq(STRING)) \ {<<>>} \subseteq Seq(Seq(Chars))
  BY <1>3, <1>4
<1>6. grid \in Seq(Seq(Seq(Chars)))
  BY <1>1, <1>3, <1>5
<1>7. Len(grid) # 0 => Clean(grid[1][1])
  <2>1. Len(grid) # 0 => grid # <<>>
    OBVIOUS
  <2>. QED BY <2>1 DEF Clean, Bunker!BunkerAssumption
<1>8. form.eol \in LineEnds
  BY DEF Bunker!BunkerAssumption, LineEnds
<1>9. \A i \in 1..Len(grid) : grid[i] # <<>>
  BY <1>2
<1>10. Bunker!parseCsv(Bunker!Write(grid, form)) = Bunker!Visible(grid)
  BY <1>6, <1>7, <1>8, <1>9, ReadBack
<1>11. Bunker!Visible(grid) \in Seq(Seq(Seq(Chars)))
  BY <1>6, VisibleType
<1>. QED BY <1>10, <1>11, LenProperties

LEMMA ImportInit == ASSUME Bunker!BunkerAssumption, Bunker!Init PROVE ImportInv
<1>1. parsed = Bunker!Nothing /\ summary = Bunker!NoSummary /\ records = {} /\ trail = {} /\ uploads = 0 /\ stage = "idle"
  BY DEF Bunker!Init
<1>2. Tabled(stage, parsed, records, trail, uploads)
  BY <1>1 DEF Tabled
<1>3. Honest(stage, summary, records, trail, uploads)
  <2>1. Len(<<>>) = 0 /\ DOMAIN <<>> = {}
    OBVIOUS
  <2>. QED BY <1>1, <2>1 DEF Honest, Bunker!NoSummary
<1>4. Whole(stage, parsed, records, sheet)
  BY <1>1 DEF Whole, Of
<1>. QED BY <1>1, <1>2, <1>3, <1>4, NothingIsFiled DEF ImportInv, Bunker!Init

\* An answer that names no row: one is kept honest by what was inserted before.
LEMMA EmptyAnswer ==
    ASSUME NEW p, NEW recs, NEW tr, NEW u, NEW st, NEW told, Tabled(st, p, recs, tr, u), Honest(st, told, recs, tr, u),
           NEW q, NEW status, status \in {200, 201, 400} => Of(recs, u) = {},
           NEW none, none = [Bunker!NoSummary EXCEPT !.status = status]
    PROVE  Tabled("idle", q, recs, tr, u) /\ Honest("idle", none, recs, tr, u)
<1>1. Tabled("idle", q, recs, tr, u)
  BY DEF Tabled
<1>2. none.status = status /\ none.imported = 0 /\ none.total = 0 /\ none.errors = <<>>
  BY DEF Bunker!NoSummary
<1>3. Len(<<>>) = 0 /\ DOMAIN <<>> = {} /\ Cardinality({}) = 0
  BY FS_EmptySet
<1>4. (\A t \in tr : t.imported = Cardinality(Of(recs, t.upload))) /\ \A r \in recs : FleetOfImo[r.imo] = Fleet
  BY DEF Honest
<1>5. status \in {200, 201, 400} => Cardinality(Of(recs, u)) = 0
  BY <1>3
<1>6. /\ none.status \in {200, 201, 400} => Cardinality(Of(recs, u)) = none.imported
      /\ none.imported + Len(none.errors) = none.total /\ DOMAIN none.errors = {}
  BY <1>2, <1>3, <1>5
<1>7. Honest("idle", none, recs, tr, u)
  BY <1>4, <1>6 DEF Honest
<1>. QED BY <1>1, <1>7

\* The answer to an import that is done.
LEMMA FullAnswer ==
    ASSUME NEW p, Filed(p), NEW recs, NEW tr, NEW u, NEW st, NEW told,
           Honest(st, told, recs, tr, u), Of(recs, u) = RecordsOf(u, p.rows), NEW status, NEW skipped,
           NEW more, more = [status |-> status, imported |-> Cardinality(p.rows), skipped |-> skipped, total |-> p.total, errors |-> p.errors]
    PROVE  Honest("idle", more, recs, tr, u)
<1>1. Cardinality(Of(recs, u)) = Cardinality(p.rows)
  BY RecordsCount DEF Filed
<1>2. \A r \in Of(recs, u), i \in DOMAIN p.errors : p.errors[i] # r.row
  BY DEF RecordsOf, Filed
<1>3. /\ Cardinality(p.rows) + Len(p.errors) = p.total
      /\ \A i, j \in DOMAIN p.errors : p.errors[i] = p.errors[j] => i = j
  BY DEF Filed
<1>4. (\A t \in tr : t.imported = Cardinality(Of(recs, t.upload))) /\ \A r \in recs : FleetOfImo[r.imo] = Fleet
  BY DEF Honest
<1>. QED BY <1>1, <1>2, <1>3, <1>4 DEF Honest

LEMMA UploadKeeps == ASSUME Bunker!BunkerAssumption, ImportInv, Bunker!Upload PROVE ImportInv'
<1>. DEFINE grid == Bunker!parseCsv(Bunker!Write(sheet, style))
<1>1. /\ stage = "idle" /\ uploads' = uploads + 1 /\ UNCHANGED <<sheet, style, records, trail>>
      /\ \/ summary' = [Bunker!NoSummary EXCEPT !.status = 400] /\ stage' = "idle" /\ parsed' = Bunker!Nothing
         \/ stage' = "finding" /\ parsed' = Bunker!parseBunkerCsv(grid) /\ UNCHANGED summary
  BY DEF Bunker!Upload, Bunker!Answer
<1>2. /\ sheet \in Sheets /\ style \in Styles
      /\ Tabled("idle", parsed, records, trail, uploads) /\ Honest("idle", summary, records, trail, uploads)
      /\ Whole("idle", parsed, records, sheet)
  BY <1>1 DEF ImportInv
<1>3. Len(grid) \in Nat /\ grid = Bunker!Visible(sheet)
  BY <1>2, SheetIsRead
<1>. HIDE DEF grid
<1>4. \A r \in records : r.upload \in Nat /\ r.upload <= uploads /\ uploads \in Nat
  BY <1>2 DEF Tabled
<1>5. Of(records, uploads') = {}
  BY <1>1, <1>4 DEF Of
<1>6. ASSUME NEW st \in {"idle", "finding"}, NEW q PROVE Tabled(st, q, records, trail, uploads')
  <2>1. uploads \in Nat /\ \A t \in trail : t.upload \in Nat /\ t.upload <= uploads
    BY <1>2 DEF Tabled
  <2>2. uploads' \in Nat /\ (\A r \in records : r.upload \in Nat /\ r.upload <= uploads')
        /\ \A t \in trail : t.upload \in Nat /\ t.upload <= uploads' /\ t.upload < uploads'
    BY <1>1, <1>4, <2>1
  <2>. QED BY <1>5, <2>2 DEF Tabled
<1>7. Honest("finding", summary, records, trail, uploads')
  BY <1>2 DEF Honest
<1>8. CASE summary' = [Bunker!NoSummary EXCEPT !.status = 400] /\ stage' = "idle" /\ parsed' = Bunker!Nothing
  <2>1. Tabled("finding", parsed, records, trail, uploads')
    BY <1>6
  <2>2. Tabled("idle", parsed', records, trail, uploads') /\ Honest("idle", summary', records, trail, uploads')
    BY <1>5, <1>7, <1>8, <2>1, EmptyAnswer
  <2>3. Whole("idle", parsed', records, sheet)
    BY <1>2 DEF Whole
  <2>. QED BY <1>1, <1>2, <1>8, <2>2, <2>3, NothingIsFiled DEF ImportInv
<1>9. CASE stage' = "finding" /\ parsed' = Bunker!parseBunkerCsv(grid) /\ UNCHANGED summary
  <2>1. Filed(parsed')
    BY <1>3, <1>9, ParsedIsFiled
  <2>2. Tabled("finding", parsed', records, trail, uploads')
    BY <1>6
  <2>3. Whole("finding", parsed', records, sheet)
    BY <1>2, <1>3, <1>9 DEF Whole
  <2>. QED BY <1>1, <1>2, <1>7, <1>9, <2>1, <2>2, <2>3 DEF ImportInv
<1>. QED BY <1>1, <1>8, <1>9

LEMMA FindKeeps == ASSUME ImportInv, Bunker!Find PROVE ImportInv'
<1>. DEFINE S == Bunker!Strangers
<1>1. /\ stage = "finding" /\ stage' = "inserting" /\ UNCHANGED <<sheet, style, uploads, summary, records, trail>>
      /\ parsed' = [parsed EXCEPT !.rows = @ \ S, !.errors = @ \o Bunker!SetToSeq(Bunker!Lines(S))]
  BY DEF Bunker!Find
<1>2. /\ sheet \in Sheets /\ style \in Styles /\ Filed(parsed)
      /\ Tabled("finding", parsed, records, trail, uploads) /\ Honest("finding", summary, records, trail, uploads)
      /\ Whole("finding", parsed, records, sheet)
  BY <1>1 DEF ImportInv
<1>3. S \in SUBSET parsed.rows /\ parsed.rows \ S = {r \in parsed.rows : Bunker!Mine(r)}
  BY DEF Bunker!Strangers
<1>. HIDE DEF S
<1>4. parsed' = [rows |-> parsed.rows \ S, errors |-> parsed.errors \o Bunker!SetToSeq(Bunker!Lines(S)), total |-> parsed.total]
  BY <1>1, <1>2 DEF Filed
<1>5. Filed(parsed') /\ parsed'.rows = parsed.rows \ S
  BY <1>2, <1>3, <1>4, StrangersAreFiled
<1>6. Tabled("inserting", parsed', records, trail, uploads)
  BY <1>2, <1>3, <1>5 DEF Tabled
<1>7. Honest("inserting", summary, records, trail, uploads)
  BY <1>2 DEF Honest
<1>8. Whole("inserting", parsed', records, sheet)
  BY <1>2, <1>3, <1>5 DEF Whole, Good
<1>. QED BY <1>1, <1>2, <1>5, <1>6, <1>7, <1>8 DEF ImportInv

LEMMA InsertKeeps == ASSUME ImportInv, Bunker!Insert PROVE ImportInv'
<1>. DEFINE new == RecordsOf(uploads, parsed.rows)
<1>1. /\ stage = "inserting" /\ records' = records \cup new /\ UNCHANGED <<sheet, style, uploads, trail>>
      /\ \/ stage' = "auditing" /\ UNCHANGED <<parsed, summary>>
         \/ stage' = "idle" /\ parsed' = Bunker!Nothing /\ summary' = Bunker!Summary
         \/ stage' = "idle" /\ parsed' = Bunker!Nothing /\ summary' = [Bunker!NoSummary EXCEPT !.status = 500]
  BY DEF Bunker!Insert, Bunker!Failure, Bunker!Answer, RecordsOf
<1>2. /\ sheet \in Sheets /\ style \in Styles /\ Filed(parsed)
      /\ Tabled("inserting", parsed, records, trail, uploads) /\ Honest("inserting", summary, records, trail, uploads)
      /\ Whole("inserting", parsed, records, sheet)
  BY <1>1 DEF ImportInv
<1>3. /\ uploads \in Nat /\ (\A r \in records : r.upload \in Nat /\ r.upload <= uploads)
      /\ (\A t \in trail : t.upload \in Nat /\ t.upload < uploads) /\ Of(records, uploads) = {}
      /\ \A r \in parsed.rows : Bunker!Mine(r)
  BY <1>2 DEF Tabled
<1>4. \A r \in new : r.upload = uploads /\ FleetOfImo[r.imo] = Fleet
  BY <1>3 DEF RecordsOf, Bunker!Mine
<1>. HIDE DEF new
<1>5. Of(records', uploads) = new
  BY <1>1, <1>3, <1>4 DEF Of
<1>6. ASSUME NEW u \in Nat, u < uploads PROVE Of(records', u) = Of(records, u)
  BY <1>1, <1>3, <1>4, <1>6 DEF Of
<1>7. Tabled("auditing", parsed, records', trail, uploads)
  <2>1. \A r \in records' : r.upload \in Nat /\ r.upload <= uploads
    BY <1>1, <1>3, <1>4
  <2>2. \A t \in trail : t.upload <= uploads
    BY <1>3
  <2>. QED BY <1>3, <1>5, <2>1, <2>2 DEF Tabled, new
<1>8. Honest("auditing", summary, records', trail, uploads)
  <2>1. \A t \in trail : t.imported = Cardinality(Of(records', t.upload))
    BY <1>2, <1>3, <1>6 DEF Honest
  <2>2. \A r \in records' : FleetOfImo[r.imo] = Fleet
    BY <1>1, <1>2, <1>4 DEF Honest
  <2>. QED BY <1>2, <2>1, <2>2 DEF Honest
<1>9. Whole("auditing", parsed, records', sheet)
  <2>1. \A u \in Nat : u = uploads \/ Of(records', u) = Of(records, u)
    BY <1>1, <1>4 DEF Of
  <2>2. parsed.rows = Good(sheet)
    BY <1>2 DEF Whole
  <2>. QED BY <1>2, <1>5, <2>1, <2>2 DEF Whole, new
<1>10. \A q : Whole("idle", q, records', sheet)
  BY <1>9 DEF Whole
<1>11. CASE stage' = "auditing" /\ UNCHANGED <<parsed, summary>>
  BY <1>1, <1>2, <1>7, <1>8, <1>11, <1>9 DEF ImportInv
<1>12. CASE stage' = "idle" /\ parsed' = Bunker!Nothing /\ summary' = Bunker!Summary
  <2>1. Tabled("idle", parsed', records', trail, uploads)
    BY <1>7 DEF Tabled
  <2>2. Honest("idle", summary', records', trail, uploads)
    <3>1. \E status, skipped : summary' = [status |-> status, imported |-> Cardinality(parsed.rows), skipped |-> skipped,
                                           total |-> parsed.total, errors |-> parsed.errors]
      BY <1>12, SameBunkerCount DEF Bunker!Summary, Bunker!Imported
    <3>. QED BY <1>2, <1>5, <1>8, <3>1, FullAnswer DEF new
  <2>. QED BY <1>1, <1>2, <1>12, <1>10, <2>1, <2>2, NothingIsFiled DEF ImportInv
<1>13. CASE stage' = "idle" /\ parsed' = Bunker!Nothing /\ summary' = [Bunker!NoSummary EXCEPT !.status = 500]
  <2>1. Tabled("idle", parsed', records', trail, uploads) /\ Honest("idle", summary', records', trail, uploads)
    BY <1>7, <1>8, <1>13, EmptyAnswer
  <2>. QED BY <1>1, <1>2, <1>13, <1>10, <2>1, NothingIsFiled DEF ImportInv
<1>. QED BY <1>1, <1>11, <1>12, <1>13

LEMMA AuditKeeps == ASSUME ImportInv, Bunker!Audit PROVE ImportInv'
<1>. DEFINE mark == [upload |-> uploads, imported |-> Cardinality(parsed.rows)]
<1>1. /\ stage = "auditing" /\ stage' = "idle" /\ parsed' = Bunker!Nothing /\ summary' = Bunker!Summary
      /\ trail' \in {trail, trail \cup {mark}} /\ UNCHANGED <<sheet, style, uploads, records>>
  BY SameBunkerCount DEF Bunker!Audit, Bunker!Answer, Bunker!Imported
<1>2. /\ sheet \in Sheets /\ style \in Styles /\ Filed(parsed)
      /\ Tabled("auditing", parsed, records, trail, uploads) /\ Honest("auditing", summary, records, trail, uploads)
      /\ Whole("auditing", parsed, records, sheet)
  BY <1>1 DEF ImportInv
<1>3. /\ uploads \in Nat /\ Of(records, uploads) = RecordsOf(uploads, parsed.rows)
      /\ Cardinality(Of(records, uploads)) = Cardinality(parsed.rows)
  BY <1>2, RecordsCount DEF Tabled, Filed
<1>4. mark.upload = uploads /\ mark.imported = Cardinality(parsed.rows)
  OBVIOUS
<1>. HIDE DEF mark
<1>5. Tabled("idle", parsed', records, trail', uploads)
  BY <1>1, <1>2, <1>3, <1>4 DEF Tabled
<1>6. Honest("auditing", summary, records, trail', uploads)
  BY <1>1, <1>2, <1>3, <1>4 DEF Honest
<1>7. Honest("idle", summary', records, trail', uploads)
  <2>1. \E status, skipped : summary' = [status |-> status, imported |-> Cardinality(parsed.rows), skipped |-> skipped,
                                         total |-> parsed.total, errors |-> parsed.errors]
    BY <1>1, SameBunkerCount DEF Bunker!Summary, Bunker!Imported
  <2>. QED BY <1>2, <1>3, <1>6, <2>1, FullAnswer
<1>8. Whole("idle", parsed', records, sheet)
  BY <1>2 DEF Whole
<1>. QED BY <1>1, <1>2, <1>5, <1>7, <1>8, NothingIsFiled DEF ImportInv

LEMMA ImportKeeps == ASSUME Bunker!BunkerAssumption, ImportInv, [Bunker!Next]_(Bunker!vars) PROVE ImportInv'
<1>1. CASE Bunker!Upload
  BY <1>1, UploadKeeps
<1>2. CASE Bunker!Find
  BY <1>2, FindKeeps
<1>3. CASE Bunker!Insert
  BY <1>3, InsertKeeps
<1>4. CASE Bunker!Audit
  BY <1>4, AuditKeeps
<1>5. CASE Bunker!Fails \/ Bunker!CutOff
  <2>1. PICK status : /\ stage' = "idle" /\ parsed' = Bunker!Nothing
                      /\ summary' = [Bunker!NoSummary EXCEPT !.status = status]
                      /\ UNCHANGED <<sheet, style, uploads, records, trail>>
                      /\ status # 0 => status = 500 /\ stage \in {"finding", "inserting"}
    <3>1. Bunker!NoSummary = [Bunker!NoSummary EXCEPT !.status = 0]
      BY DEF Bunker!NoSummary
    <3>. QED BY <1>5, <3>1 DEF Bunker!Fails, Bunker!CutOff, Bunker!Failure, Bunker!Answer
  <2>2. Tabled(stage, parsed, records, trail, uploads) /\ Honest(stage, summary, records, trail, uploads)
    BY DEF ImportInv
  <2>3. status \in {200, 201, 400} => Of(records, uploads) = {}
    BY <2>1
  <2>5. Whole("idle", parsed', records, sheet)
    BY DEF ImportInv, Whole
  <2>4. Tabled("idle", parsed', records, trail, uploads) /\ Honest("idle", summary', records, trail, uploads)
    <3>. DEFINE none == [Bunker!NoSummary EXCEPT !.status = status]
    <3>1. Tabled("idle", parsed', records, trail, uploads) /\ Honest("idle", none, records, trail, uploads)
      BY ONLY <2>2, <2>3, EmptyAnswer
    <3>. QED BY <2>1, <3>1
  <2>. QED BY <2>1, <2>4, <2>5, NothingIsFiled DEF ImportInv
<1>6. CASE UNCHANGED Bunker!vars
  BY <1>6 DEF ImportInv, Bunker!vars
<1>. QED BY <1>1, <1>2, <1>3, <1>4, <1>5, <1>6 DEF Bunker!Next

\* What holds of an import, whatever is uploaded, however often, and whatever fails.
THEOREM ImportInductive == Spec => []ImportInv
<1>1. Init => ImportInv
  BY BunkerMoves, ImportInit
<1>2. ImportInv /\ [Next]_vars => ImportInv'
  BY BunkerMoves, ImportKeeps
<1>. QED BY <1>1, <1>2, PTL DEF Spec

\* Reading back what a spreadsheet wrote, in any of its styles, gives the cells of
\* any sheet, but for blank lines (csv.ts:1-9).
THEOREM FilesAreReadBack == Spec => []RoundTrip
<1>1. ImportInv => RoundTrip
  BY BunkerMoves, SheetIsRead DEF ImportInv, RoundTrip, Bunker!RoundTrip
<1>. QED BY <1>1, ImportInductive, PTL

\* An import's answer is what it did: each data row is imported or named by exactly
\* one error, only the caller's vessels got records, the audit trail counts what the
\* table holds of an upload, and of an upload that failed or was cut off the table
\* holds every row or none (imports.ts:30-57, bunkerImport.ts:114-173).
THEOREM ReportsAreTrue == Spec => []ReportIsTrue
<1>1. ImportInv => ReportIsTrue
  BY HonestIsTrue DEF ImportInv
<1>. QED BY <1>1, ImportInductive, PTL
=============================================================================
