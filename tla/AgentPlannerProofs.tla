-------------------------- MODULE AgentPlannerProofs --------------------------
(***************************************************************************)
(* Proofs about the agent's run and the panel that shows it, for any       *)
(* tools, any number of steps and any fleet: the conversation stays one    *)
(* the API accepts (Conversation), the events tell the trace               *)
(* (EventsTellTrace), the turns stay within the limit (WithinBudget), and  *)
(* the panel shows a prefix of the trace and ends with the trace of the    *)
(* plan (ReconciledUnlessFallback).  Then about the reader of the stream   *)
(* that carries the events, for any payloads: they arrive whole, in order  *)
(* and once, however the body is cut (ReadsTheBody).                       *)
(***************************************************************************)
EXTENDS Panels, SequenceTheorems, FiniteSetTheorems, WellFoundedInduction, TLAPS

CallIds == Nat \X Nat
Plans == [made : {TRUE}, calls : Seq(Planner!Calls), steps : Nat, fallback : BOOLEAN, incomplete : BOOLEAN]
Events == [type : {"model"}, step : Nat] \cup [type : {"tool"}, index : Nat, call : Planner!Calls]
          \cup [type : {"done"}, plan : Plans]
Messages == [role : {"assistant", "results"}, ids : Seq(CallIds)]

Types ==
    /\ phase \in {"ready", "model", "tools", "done"}
    /\ step \in Nat
    /\ todo \in Seq([id : CallIds, tool : Tools])
    /\ results \in Seq(CallIds)
    /\ messages \in Seq(Messages)
    /\ trace \in Seq(Planner!Calls)
    /\ events \in Seq(Events)

\* An assistant turn is followed by the results of exactly its calls.
TurnAnswered(list, i) ==
    list[i].role = "assistant" => i < Len(list) /\ list[i + 1] = [role |-> "results", ids |-> list[i].ids]

\* While tools run, the last turn waits for the results of the rest.
Waits(list, done, left) ==
    LET final == list[Len(list)]
    IN  /\ Len(list) > 0 /\ final.role = "assistant"
        /\ Len(final.ids) = Len(done) + Len(left)
        /\ \A i \in 1..Len(done) : done[i] = final.ids[i]
        /\ \A i \in 1..Len(left) : left[i].id = final.ids[Len(done) + i]

TalkInv ==
    /\ phase = "ready" => messages = <<>>
    /\ phase = "model" => \A i \in 1..Len(messages) : TurnAnswered(messages, i)
    /\ phase = "tools" => /\ \A i \in 1..Len(messages) - 1 : TurnAnswered(messages, i)
                          /\ Waits(messages, results, todo)

\* How many calls the first k events tell of.
Tally(f, seen, calls) ==
    /\ f \in [0..Len(seen) -> 0..Len(calls)]
    /\ f[0] = 0 /\ f[Len(seen)] = Len(calls)
    /\ \A k \in 1..Len(seen) : f[k] = IF seen[k].type = "tool" THEN f[k - 1] + 1 ELSE f[k - 1]
    /\ \A k \in 1..Len(seen) : seen[k].type = "tool" => seen[k].call = calls[f[k]]

\* The panel has shown the calls of the events it read, unless it was left.
Shows(f) ==
    /\ client = "reading" \/ shown # <<>> => Len(shown) = f[read]
    /\ \A i \in 1..Len(shown) : shown[i] = trace[i]

PanelInv ==
    /\ client \in {"idle", "reading", "ended"}
    /\ read \in 0..Len(events)
    /\ shown \in Seq(Planner!Calls)
    /\ client = "idle" => shown = <<>> /\ read = 0
    /\ \E f \in [0..Len(events) -> 0..Len(trace)] : Tally(f, events, trace) /\ Shows(f)

DoneInv ==
    \A k \in 1..Len(events) :
        events[k].type = "done" => k = Len(events) /\ phase = "done" /\ (plan.fallback \/ plan.calls = trace)

IInv == Types /\ TalkInv /\ PanelInv /\ DoneInv

-----------------------------------------------------------------------------
(* Sequences *)

\* What Append leaves and adds.
LEMMA Appended ==
    ASSUME NEW S, NEW s \in Seq(S), NEW e \in S
    PROVE  /\ Append(s, e) \in Seq(S) /\ Len(Append(s, e)) = Len(s) + 1 /\ Len(s) \in Nat
           /\ Append(s, e)[Len(s) + 1] = e
           /\ \A i \in 1..Len(s) : Append(s, e)[i] = s[i]
OBVIOUS

\* An event brings a call, or none.
Brings(e, calls, more) ==
    \/ e.type # "tool" /\ more = calls
    \/ e.type = "tool" /\ more = Append(calls, e.call)

\* One more event extends the count of calls by one entry.
LEMMA TallyMoves ==
    ASSUME NEW seen \in Seq(Events), NEW calls \in Seq(Planner!Calls), NEW f, Tally(f, seen, calls),
           NEW e \in Events, NEW more \in Seq(Planner!Calls), Brings(e, calls, more)
    PROVE  \E g \in [0..Len(seen) + 1 -> 0..Len(more)] :
             Tally(g, Append(seen, e), more) /\ \A k \in 0..Len(seen) : g[k] = f[k]
<1>. DEFINE n == Len(seen)
            then == Append(seen, e)
            g == [k \in 0..n + 1 |-> IF k <= n THEN f[k] ELSE Len(more)]
<1>1. /\ n \in Nat /\ then \in Seq(Events) /\ Len(then) = n + 1 /\ then[n + 1] = e
      /\ \A k \in 1..n : then[k] = seen[k]
  BY Appended
<1>2. /\ Len(calls) \in Nat /\ Len(more) \in Nat
      /\ Len(more) = IF e.type = "tool" THEN Len(calls) + 1 ELSE Len(calls)
      /\ \A i \in 1..Len(calls) : more[i] = calls[i]
      /\ e.type = "tool" => more[Len(more)] = e.call
  <2>1. CASE e.type # "tool" /\ more = calls
    BY <2>1
  <2>2. CASE e.type = "tool" /\ more = Append(calls, e.call)
    <3>1. e.call \in Planner!Calls
      BY <2>2 DEF Events
    <3>. QED BY <2>2, <3>1, Appended
  <2>. QED BY <2>1, <2>2 DEF Brings
<1>3. /\ f \in [0..n -> 0..Len(calls)] /\ f[0] = 0 /\ f[n] = Len(calls)
      /\ \A k \in 1..n : f[k] = IF seen[k].type = "tool" THEN f[k - 1] + 1 ELSE f[k - 1]
      /\ \A k \in 1..n : seen[k].type = "tool" => seen[k].call = calls[f[k]]
  BY DEF Tally
<1>. HIDE DEF n, then
<1>4. /\ g \in [0..n + 1 -> 0..Len(more)]
      /\ \A k \in 0..n : g[k] = f[k]
      /\ g[n + 1] = Len(more)
  BY <1>1, <1>2, <1>3
<1>. HIDE DEF g
<1>5. ASSUME NEW k \in 1..n + 1
      PROVE  /\ g[k] = IF then[k].type = "tool" THEN g[k - 1] + 1 ELSE g[k - 1]
             /\ then[k].type = "tool" => then[k].call = more[g[k]]
  <2>1. CASE k \in 1..n
    <3>1. k - 1 \in 0..n /\ k \in 0..n /\ then[k] = seen[k]
      BY <1>1, <2>1
    <3>2. g[k] = f[k] /\ g[k - 1] = f[k - 1]
      BY <1>4, <3>1
    <3>3. seen[k].type = "tool" => f[k] \in 1..Len(calls)
      <4>1. f[k] \in 0..Len(calls) /\ f[k - 1] \in 0..Len(calls) /\ Len(calls) \in Nat
        BY <1>2, <1>3, <3>1
      <4>2. seen[k].type = "tool" => f[k] = f[k - 1] + 1
        BY <1>3, <2>1
      <4>. QED BY <4>1, <4>2
    <3>. QED BY <1>2, <1>3, <2>1, <3>1, <3>2, <3>3
  <2>2. CASE k = n + 1
    <3>1. g[k] = Len(more) /\ g[k - 1] = Len(calls) /\ then[k] = e
      BY <1>1, <1>3, <1>4, <2>2
    <3>. QED BY <1>2, <3>1
  <2>. QED BY <1>1, <2>1, <2>2
<1>6. Tally(g, then, more)
  BY <1>1, <1>3, <1>4, <1>5 DEF Tally
<1>. QED BY <1>4, <1>6 DEF n, then

-----------------------------------------------------------------------------
(* What an event does to the panel's part of the invariant *)

\* The run emits an event; the panel is as it was, or starts to read.
Emits(e) ==
    /\ events' = Append(events, e)
    /\ Brings(e, trace, trace')
    /\ UNCHANGED <<read, shown>>
    /\ client' = client \/ (client = "idle" /\ client' = "reading")

\* The panel still shows the calls of the events it has read when one more is emitted.
LEMMA PanelMoves ==
    ASSUME Types, PanelInv, NEW e \in Events, Emits(e)
    PROVE  PanelInv' /\ events' \in Seq(Events) /\ trace' \in Seq(Planner!Calls)
<1>1. PICK f \in [0..Len(events) -> 0..Len(trace)] : Tally(f, events, trace) /\ Shows(f)
  BY DEF PanelInv
<1>2. trace' \in Seq(Planner!Calls) /\ Len(trace) \in Nat /\ Len(trace') >= Len(trace)
      /\ \A i \in 1..Len(trace) : trace'[i] = trace[i]
  <2>1. CASE e.type # "tool" /\ trace' = trace
    BY <2>1 DEF Types
  <2>2. CASE e.type = "tool" /\ trace' = Append(trace, e.call)
    <3>1. e.call \in Planner!Calls
      BY <2>2 DEF Events
    <3>. QED BY <2>2, <3>1, Appended DEF Types
  <2>. QED BY <2>1, <2>2 DEF Emits, Brings
<1>3. events' \in Seq(Events) /\ Len(events') = Len(events) + 1 /\ Len(events) \in Nat
  BY Appended DEF Emits, Types
<1>4. PICK g \in [0..Len(events) + 1 -> 0..Len(trace')] :
        Tally(g, events', trace') /\ \A k \in 0..Len(events) : g[k] = f[k]
  <2>1. \E g \in [0..Len(events) + 1 -> 0..Len(trace')] :
          Tally(g, Append(events, e), trace') /\ \A k \in 0..Len(events) : g[k] = f[k]
    <3>1. Brings(e, trace, trace')
      BY DEF Emits
    <3>2. events \in Seq(Events) /\ trace \in Seq(Planner!Calls)
      BY DEF Types
    <3>3. Tally(f, events, trace) /\ trace' \in Seq(Planner!Calls)
      BY <1>1, <1>2
    <3>. QED BY <3>1, <3>2, <3>3, TallyMoves, SMTT(60)
  <2>. QED BY <2>1 DEF Emits
<1>5. /\ read \in 0..Len(events) /\ shown \in Seq(Planner!Calls) /\ Len(shown) \in Nat
      /\ client = "idle" => shown = <<>> /\ read = 0
  BY DEF PanelInv
<1>6. Shows(g)'
  <2>1. client' = "reading" \/ shown' # <<>> => Len(shown') = g[read']
    <3>1. CASE client = "reading" \/ shown # <<>>
      <4>1. Len(shown) = f[read] /\ g[read] = f[read]
        BY <1>1, <1>4, <1>5, <3>1 DEF Shows
      <4>. QED BY <4>1 DEF Emits
    <3>2. CASE client = "idle"
      <4>1. g[0] = 0 /\ shown' = <<>> /\ read' = 0
        BY <1>4, <1>5, <3>2 DEF Tally, Emits
      <4>. QED BY <4>1
    <3>3. CASE client' # "reading" /\ shown = <<>>
      BY <3>3 DEF Emits
    <3>. QED BY <3>1, <3>2, <3>3 DEF Emits
  <2>2. ASSUME NEW i \in 1..Len(shown) PROVE shown[i] = trace'[i]
    <3>1. shown # <<>>
      BY <1>5, <2>2
    <3>2. Len(shown) = f[read] /\ f[read] \in 0..Len(trace)
      BY <1>1, <1>5, <3>1 DEF Shows
    <3>3. i \in 1..Len(trace)
      BY <1>2, <2>2, <3>2
    <3>. QED BY <1>1, <1>2, <2>2, <3>3 DEF Shows
  <2>. QED BY <2>1, <2>2 DEF Shows, Emits
<1>7. \E h \in [0..Len(events') -> 0..Len(trace')] : Tally(h, events', trace') /\ Shows(h)'
  BY <1>3, <1>4, <1>6
<1>. QED BY <1>2, <1>3, <1>5, <1>7 DEF PanelInv, Emits

\* No event follows the plan, and the plan has the whole trace or is the fallback.
LEMMA DoneMoves ==
    ASSUME Types, DoneInv, phase # "done", NEW e \in Events, events' = Append(events, e),
           e.type = "done" => phase' = "done" /\ (plan'.fallback \/ plan'.calls = trace')
    PROVE  DoneInv'
<1>1. /\ Len(events') = Len(events) + 1 /\ Len(events) \in Nat /\ events'[Len(events) + 1] = e
      /\ \A k \in 1..Len(events) : events'[k] = events[k]
  BY Appended DEF Types
<1>2. SUFFICES ASSUME NEW k \in 1..Len(events) + 1, events'[k].type = "done"
               PROVE  k = Len(events) + 1 /\ phase' = "done" /\ (plan'.fallback \/ plan'.calls = trace')
  BY <1>1 DEF DoneInv
<1>3. CASE k \in 1..Len(events)
  BY <1>1, <1>2, <1>3 DEF DoneInv
<1>4. CASE k = Len(events) + 1
  BY <1>1, <1>2, <1>4
<1>. QED BY <1>1, <1>2, <1>3, <1>4

-----------------------------------------------------------------------------
(* The steps of the run *)

ModelEvent(n) == [type |-> "model", step |-> n]

\* The run begins, and the panel reads.
LEMMA StartRunIInv == ASSUME Planner!AgentAssumption, IInv, Planner!StartRun PROVE IInv'
<1>1. ModelEvent(1) \in Events /\ ModelEvent(1).type = "model"
  BY DEF ModelEvent, Events
<1>2. /\ events' = Append(events, ModelEvent(1)) /\ phase = "ready" /\ phase' = "model" /\ step' = 1
      /\ client = "idle" /\ client' = "reading"
      /\ UNCHANGED <<todo, results, messages, trace, plan, read, shown>>
  BY DEF Planner!StartRun, Planner!Run, Planner!BeginStep, ModelEvent
<1>3. PanelInv' /\ events' \in Seq(Events)
  BY <1>1, <1>2, PanelMoves DEF IInv, Emits, Brings
<1>4. DoneInv'
  BY <1>1, <1>2, DoneMoves DEF IInv
<1>5. TalkInv'
  BY <1>2 DEF IInv, TalkInv
<1>. QED BY <1>2, <1>3, <1>4, <1>5 DEF IInv, Types

\* A turn with calls: they wait for their results.
LEMMA ModelCallsToolsIInv ==
    ASSUME IInv, NEW n \in 1..MaxBlocks, MaxBlocks \in Nat, NEW tools \in [1..n -> Tools], Planner!ModelCallsTools(tools),
           UNCHANGED <<client, read, shown>>
    PROVE  IInv'
<1>. DEFINE ids == [i \in 1..Len(tools) |-> <<step, i>>]
            turn == [role |-> "assistant", ids |-> ids]
<1>1. n \in Nat /\ tools \in Seq(Tools) /\ Len(tools) = n
  OBVIOUS
<1>2. /\ phase = "model" /\ phase' = "tools" /\ todo' = Planner!Blocks(tools) /\ results' = <<>>
      /\ messages' = Append(messages, turn)
      /\ UNCHANGED <<step, trace, events, plan>>
  BY DEF Planner!ModelCallsTools
<1>3. ids \in Seq(CallIds) /\ Len(ids) = n /\ \A i \in 1..n : ids[i] = <<step, i>>
  BY <1>1 DEF IInv, Types, CallIds
<1>4. /\ Planner!Blocks(tools) \in Seq([id : CallIds, tool : Tools]) /\ Len(Planner!Blocks(tools)) = n
      /\ \A i \in 1..n : Planner!Blocks(tools)[i].id = <<step, i>>
  BY <1>1 DEF Planner!Blocks, IInv, Types, CallIds
<1>. HIDE DEF ids
<1>5. turn \in Messages /\ turn.role = "assistant" /\ turn.ids = ids
  BY <1>3 DEF Messages
<1>. HIDE DEF turn
<1>6. /\ messages' \in Seq(Messages) /\ Len(messages') = Len(messages) + 1 /\ Len(messages) \in Nat
      /\ messages'[Len(messages) + 1] = turn
      /\ \A i \in 1..Len(messages) : messages'[i] = messages[i]
  BY <1>2, <1>5, Appended DEF IInv, Types
<1>7. Types'
  BY <1>2, <1>4, <1>6 DEF IInv, Types
<1>8. \A i \in 1..Len(messages) : TurnAnswered(messages', i)
  <2>1. SUFFICES ASSUME NEW i \in 1..Len(messages) PROVE TurnAnswered(messages', i)
    OBVIOUS
  <2>2. TurnAnswered(messages, i)
    BY <1>2 DEF IInv, TalkInv
  <2>3. CASE i = Len(messages)
    BY <1>6, <2>2, <2>3 DEF TurnAnswered
  <2>4. CASE i < Len(messages)
    <3>1. i + 1 \in 1..Len(messages)
      BY <1>6, <2>4
    <3>. QED BY <1>6, <2>2, <3>1 DEF TurnAnswered
  <2>. QED BY <1>6, <2>3, <2>4
<1>9. Waits(messages', results', todo')
  <2>1. /\ Len(messages') > 0 /\ messages'[Len(messages')] = turn
        /\ Len(results') = 0 /\ Len(todo') = n
    BY <1>2, <1>4, <1>6
  <2>2. ASSUME NEW i \in 1..n PROVE todo'[i].id = ids[0 + i]
    <3>1. 0 + i = i
      BY <1>1
    <3>. QED BY <1>2, <1>3, <1>4, <3>1
  <2>. QED BY <1>1, <1>3, <1>5, <2>1, <2>2 DEF Waits
<1>10. TalkInv'
  <2>1. Len(messages') - 1 = Len(messages)
    BY <1>6
  <2>. QED BY <1>2, <1>8, <1>9, <2>1 DEF TalkInv
<1>11. PanelInv' /\ DoneInv'
  BY <1>2 DEF IInv, PanelInv, Tally, Shows, DoneInv
<1>. QED BY <1>7, <1>10, <1>11 DEF IInv

\* The end of a run: the plan tells the trace, unless the model failed.
LEMMA FinishIInv ==
    ASSUME IInv, NEW calls \in Seq(Planner!Calls), NEW steps \in Nat, NEW fallback \in BOOLEAN, NEW incomplete \in BOOLEAN,
           Planner!Finish(Planner!Plan(calls, steps, fallback, incomplete)), phase # "done", fallback \/ calls = trace,
           messages' \in Seq(Messages), UNCHANGED <<step, todo, results, trace, client, read, shown>>
    PROVE  IInv'
<1>. DEFINE p == Planner!Plan(calls, steps, fallback, incomplete)
            e == [type |-> "done", plan |-> p]
<1>1. p \in Plans /\ p.fallback = fallback /\ p.calls = calls
  BY DEF Planner!Plan, Plans
<1>2. e \in Events /\ e.type = "done"
  BY <1>1 DEF Events
<1>3. phase' = "done" /\ plan' = p /\ events' = Append(events, e)
  BY DEF Planner!Finish
<1>. HIDE DEF p, e
<1>4. PanelInv' /\ events' \in Seq(Events)
  BY <1>2, <1>3, PanelMoves DEF IInv, Emits, Brings
<1>5. DoneInv'
  BY <1>1, <1>2, <1>3, DoneMoves DEF IInv
<1>6. TalkInv'
  BY <1>3 DEF TalkInv
<1>. QED BY <1>3, <1>4, <1>5, <1>6 DEF IInv, Types

\* The model answers or fails: the run is over.
LEMMA ModelEndsIInv ==
    ASSUME Planner!AgentAssumption, IInv, Planner!ModelAnswers \/ Planner!ModelFails, UNCHANGED <<client, read, shown>>
    PROVE  IInv'
<1>1. CASE Planner!ModelAnswers
  <2>1. [role |-> "assistant", ids |-> <<>>] \in Messages
    BY DEF Messages
  <2>2. messages' \in Seq(Messages)
    BY <1>1, <2>1 DEF Planner!ModelAnswers, IInv, Types
  <2>. QED BY <1>1, <2>2, FinishIInv DEF Planner!ModelAnswers, IInv, Types
<1>2. CASE Planner!ModelFails
  <2>1. PICK calls \in Planner!DeterministicCalls : Planner!Finish(Planner!Plan(calls, 0, TRUE, FALSE))
    BY <1>2 DEF Planner!ModelFails
  <2>2. calls \in Seq(Planner!Calls)
    <3>. DEFINE good(tool) == [tool |-> tool, ok |-> TRUE]
    <3>1. good("compute_fuel") \in Planner!Calls /\ good("get_route_info") \in Planner!Calls
      BY DEF Planner!Calls, Planner!AgentAssumption
    <3>2. calls = <<good("compute_fuel")>> \/ calls = <<good("get_route_info"), good("compute_fuel")>>
      BY <2>1 DEF Planner!DeterministicCalls
    <3>. DEFINE fuel == good("compute_fuel")
                route == good("get_route_info")
    <3>. HIDE DEF fuel, route
    <3>3. fuel \in Planner!Calls /\ route \in Planner!Calls /\ (calls = <<fuel>> \/ calls = <<route, fuel>>)
      BY <3>1, <3>2 DEF fuel, route
    <3>4. <<fuel>> \in Seq(Planner!Calls)
      BY <3>3
    <3>5. <<route, fuel>> \in Seq(Planner!Calls)
      BY <3>3
    <3>. QED BY <3>3, <3>4, <3>5
  <2>. QED BY <1>2, <2>1, <2>2, FinishIInv DEF Planner!ModelFails, IInv, Types
<1>. QED BY <1>1, <1>2

\* One tool: its result is the next one its turn waits for.
LEMMA ExecToolIInv ==
    ASSUME IInv, NEW ok \in BOOLEAN, Planner!ExecTool(ok), UNCHANGED <<client, read, shown>>
    PROVE  IInv'
<1>. DEFINE head == todo[1]
            c == [tool |-> head.tool, ok |-> ok]
            e == [type |-> "tool", index |-> Len(trace) + 1, call |-> c]
            final == messages[Len(messages)]
<1>1. /\ phase = "tools" /\ todo # <<>> /\ Head(todo) = head
      /\ trace' = Append(trace, c) /\ events' = Append(events, e)
      /\ todo' = Tail(todo) /\ results' = Append(results, head.id)
      /\ UNCHANGED <<phase, step, messages, plan>>
  BY DEF Planner!ExecTool
<1>2. /\ head \in [id : CallIds, tool : Tools]
      /\ Len(todo) \in Nat \ {0} /\ Tail(todo) \in Seq([id : CallIds, tool : Tools])
      /\ Len(Tail(todo)) = Len(todo) - 1
      /\ \A i \in 1..Len(todo) - 1 : Tail(todo)[i] = todo[i + 1]
  <2>. DEFINE Block == [id : CallIds, tool : Tools]
  <2>1. todo \in Seq(Block) /\ todo # <<>>
    BY <1>1 DEF IInv, Types
  <2>. HIDE DEF Block, head
  <2>2. /\ Head(todo) \in Block /\ Tail(todo) \in Seq(Block) /\ Len(Tail(todo)) = Len(todo) - 1
        /\ \A i \in 1..Len(Tail(todo)) : Tail(todo)[i] = todo[i + 1]
    BY <2>1, HeadTailProperties
  <2>3. Len(todo) \in Nat \ {0}
    BY <2>1
  <2>. QED BY <1>1, <2>2, <2>3 DEF Block
<1>3. c \in Planner!Calls /\ head.id \in CallIds
  BY <1>2 DEF Planner!Calls
<1>4. e \in Events /\ e.type = "tool" /\ e.call = c
  BY <1>3 DEF Events, IInv, Types
<1>. HIDE DEF head, c, e
<1>5. PanelInv' /\ events' \in Seq(Events) /\ trace' \in Seq(Planner!Calls)
  BY <1>1, <1>4, PanelMoves DEF IInv, Emits, Brings
<1>6. DoneInv'
  BY <1>1, <1>4, DoneMoves DEF IInv
<1>7. /\ results' \in Seq(CallIds) /\ Len(results') = Len(results) + 1 /\ Len(results) \in Nat
      /\ results'[Len(results) + 1] = head.id
      /\ \A i \in 1..Len(results) : results'[i] = results[i]
  BY <1>1, <1>3, Appended DEF IInv, Types
<1>8. Waits(messages, results', Tail(todo))
  <2>1. /\ Len(messages) > 0 /\ final.role = "assistant"
        /\ Len(final.ids) = Len(results) + Len(todo)
        /\ \A i \in 1..Len(results) : results[i] = final.ids[i]
        /\ \A i \in 1..Len(todo) : todo[i].id = final.ids[Len(results) + i]
    BY <1>1 DEF IInv, TalkInv, Waits
  <2>. HIDE DEF final
  <2>2. Len(final.ids) = Len(results') + Len(Tail(todo))
    BY <1>2, <1>7, <2>1
  <2>3. ASSUME NEW i \in 1..Len(results') PROVE results'[i] = final.ids[i]
    <3>1. CASE i \in 1..Len(results)
      BY <1>7, <2>1, <3>1
    <3>2. CASE i = Len(results) + 1
      <4>1. 1 \in 1..Len(todo) /\ todo[1].id = final.ids[Len(results) + 1]
        BY <1>2, <2>1
      <4>. QED BY <1>7, <3>2, <4>1 DEF head
    <3>. QED BY <1>7, <3>1, <3>2
  <2>4. ASSUME NEW i \in 1..Len(Tail(todo)) PROVE Tail(todo)[i].id = final.ids[Len(results') + i]
    <3>1. /\ i + 1 \in 1..Len(todo) /\ Tail(todo)[i] = todo[i + 1]
          /\ Len(results) + (i + 1) = Len(results') + i
      BY <1>2, <1>7
    <3>2. todo[i + 1].id = final.ids[Len(results) + (i + 1)]
      BY <2>1, <3>1
    <3>. QED BY <3>1, <3>2
  <2>. QED BY <2>1, <2>2, <2>3, <2>4 DEF Waits, final
<1>9. TalkInv'
  BY <1>1, <1>8 DEF IInv, TalkInv
<1>. QED BY <1>1, <1>2, <1>5, <1>6, <1>7, <1>9 DEF IInv, Types

\* The results follow their turn, and the loop goes on or is over.
LEMMA TurnEndsIInv ==
    ASSUME Planner!AgentAssumption, IInv, Planner!TurnEnds, UNCHANGED <<client, read, shown>>
    PROVE  IInv'
<1>. DEFINE n == Len(messages)
            answer == [role |-> "results", ids |-> results]
<1>1. /\ phase = "tools" /\ todo = <<>> /\ messages' = Append(messages, answer)
      /\ UNCHANGED <<todo, results, trace>>
  BY DEF Planner!TurnEnds
<1>2. answer \in Messages /\ answer.role = "results" /\ answer.ids = results
  BY DEF Messages, IInv, Types
<1>3. /\ messages' \in Seq(Messages) /\ Len(messages') = n + 1 /\ n \in Nat
      /\ messages'[n + 1] = answer
      /\ \A i \in 1..n : messages'[i] = messages[i]
  BY <1>1, <1>2, Appended DEF IInv, Types
<1>4. n > 0 /\ messages[n].role = "assistant" /\ messages[n].ids = results
  <2>1. /\ n > 0 /\ messages[n].role = "assistant" /\ Len(messages[n].ids) = Len(results)
        /\ \A i \in 1..Len(results) : results[i] = messages[n].ids[i]
    BY <1>1 DEF IInv, Types, TalkInv, Waits
  <2>2. messages[n].ids \in Seq(CallIds) /\ results \in Seq(CallIds)
    <3>1. messages[n] \in Messages
      BY <2>1 DEF IInv, Types
    <3>. QED BY <3>1 DEF Messages, IInv, Types
  <2>. QED BY <2>1, <2>2, SeqEqual
<1>5. \A i \in 1..Len(messages') : TurnAnswered(messages', i)
  <2>1. CASE n \in Nat
    <3>1. ASSUME NEW i \in 1..n - 1 PROVE TurnAnswered(messages', i)
      <4>1. TurnAnswered(messages, i) /\ i \in 1..n /\ i + 1 \in 1..n
        BY <1>1, <1>3 DEF IInv, TalkInv
      <4>. QED BY <1>3, <4>1 DEF TurnAnswered
    <3>2. TurnAnswered(messages', n)
      <4>1. n \in 1..n /\ n < n + 1
        BY <1>3, <1>4
      <4>. QED BY <1>3, <1>4, <4>1 DEF TurnAnswered
    <3>3. TurnAnswered(messages', n + 1)
      BY <1>2, <1>3 DEF TurnAnswered
    <3>. QED BY <1>3, <3>1, <3>2, <3>3
  <2>. QED BY <1>3, <2>1
<1>. HIDE DEF answer
<1>6. CASE step < MaxSteps /\ Planner!BeginStep(step + 1, events) /\ UNCHANGED plan
  <2>1. ModelEvent(step + 1) \in Events /\ ModelEvent(step + 1).type = "model"
    BY DEF ModelEvent, Events, IInv, Types
  <2>2. events' = Append(events, ModelEvent(step + 1)) /\ phase' = "model" /\ step' = step + 1
    BY <1>6 DEF Planner!BeginStep, ModelEvent
  <2>3. PanelInv' /\ events' \in Seq(Events)
    BY <1>1, <2>1, <2>2, PanelMoves DEF IInv, Emits, Brings
  <2>4. DoneInv'
    BY <1>1, <2>1, <2>2, DoneMoves DEF IInv
  <2>5. TalkInv'
    BY <1>5, <2>2 DEF TalkInv
  <2>. QED BY <1>1, <1>3, <2>2, <2>3, <2>4, <2>5 DEF IInv, Types
<1>7. CASE Planner!Finish(Planner!Plan(trace, MaxSteps, FALSE, TRUE)) /\ UNCHANGED step
  BY <1>1, <1>3, <1>7, FinishIInv DEF Planner!AgentAssumption, IInv, Types
<1>. QED BY <1>6, <1>7 DEF Planner!TurnEnds

-----------------------------------------------------------------------------
(* The steps of the panel *)

\* The panel reads the next event.
LEMMA ReceiveIInv == ASSUME IInv, Planner!Receive PROVE IInv'
<1>. DEFINE event == events[read + 1]
<1>1. /\ client = "reading" /\ read < Len(events) /\ read' = read + 1
      /\ UNCHANGED Planner!server
      /\ \/ event.type # "tool" /\ shown' = shown
         \/ event.type = "tool" /\ shown' = Append(shown, event.call)
      /\ client' \in {"reading", "ended"}
  BY DEF Planner!Receive
<1>2. /\ read \in 0..Len(events) /\ Len(events) \in Nat /\ read + 1 \in 1..Len(events)
      /\ shown \in Seq(Planner!Calls) /\ Len(trace) \in Nat
  BY <1>1 DEF IInv, PanelInv, Types
<1>3. event \in Events
  BY <1>2 DEF IInv, Types
<1>4. PICK f \in [0..Len(events) -> 0..Len(trace)] : Tally(f, events, trace) /\ Shows(f)
  BY DEF IInv, PanelInv
<1>5. /\ f[read + 1] = IF event.type = "tool" THEN f[read] + 1 ELSE f[read]
      /\ event.type = "tool" => event.call = trace[f[read + 1]]
      /\ f[read] \in 0..Len(trace)
  <2>1. (read + 1) - 1 = read /\ read \in 0..Len(events)
    BY <1>2
  <2>. QED BY <1>2, <1>4, <2>1 DEF Tally
<1>6. Len(shown) = f[read] /\ \A i \in 1..Len(shown) : shown[i] = trace[i]
  BY <1>1, <1>4 DEF Shows
<1>. HIDE DEF event
<1>7. /\ shown' \in Seq(Planner!Calls) /\ Len(shown') = f[read + 1]
      /\ \A i \in 1..Len(shown') : shown'[i] = trace[i]
  <2>1. CASE event.type # "tool" /\ shown' = shown
    BY <1>2, <1>5, <1>6, <2>1
  <2>2. CASE event.type = "tool" /\ shown' = Append(shown, event.call)
    <3>1. event.call \in Planner!Calls
      BY <1>3, <2>2 DEF Events
    <3>2. /\ shown' \in Seq(Planner!Calls) /\ Len(shown') = Len(shown) + 1 /\ Len(shown) \in Nat
          /\ shown'[Len(shown) + 1] = event.call
          /\ \A i \in 1..Len(shown) : shown'[i] = shown[i]
      BY <1>2, <2>2, <3>1, Appended
    <3>. QED BY <1>5, <1>6, <2>2, <3>2
  <2>. QED BY <1>1, <2>1, <2>2
<1>8. PanelInv'
  <2>1. UNCHANGED <<events, trace>> /\ read' \in 0..Len(events)
    BY <1>1, <1>2 DEF Planner!server
  <2>2. Shows(f)'
    BY <1>1, <1>7, <2>1 DEF Shows
  <2>3. \E g \in [0..Len(events) -> 0..Len(trace)] : Tally(g, events, trace) /\ Shows(g)'
    BY <1>4, <2>2
  <2>. QED BY <1>1, <1>7, <2>1, <2>3 DEF PanelInv
<1>. QED BY <1>1, <1>8 DEF IInv, Types, TalkInv, Waits, TurnAnswered, DoneInv, Planner!server

\* The panel stops, is left, or another vessel is selected.
LEMMA LookAwayIInv ==
    ASSUME IInv, Planner!Stop \/ Planner!Leave \/ \E v \in Ships : Planner!SelectVessel(v)
    PROVE  IInv'
<1>1. /\ UNCHANGED <<Planner!server, read>>
      /\ client' = client \/ client' = "ended"
      /\ shown' = shown \/ (shown' = <<>> /\ client' = "ended")
  BY DEF Planner!Stop, Planner!Leave, Planner!SelectVessel
<1>2. PanelInv'
  <2>1. PICK f \in [0..Len(events) -> 0..Len(trace)] : Tally(f, events, trace) /\ Shows(f)
    BY DEF IInv, PanelInv
  <2>2. Shows(f)'
    BY <1>1, <2>1 DEF Shows, Planner!server
  <2>3. UNCHANGED <<events, trace, read>>
    BY <1>1 DEF Planner!server
  <2>4. \E g \in [0..Len(events) -> 0..Len(trace)] : Tally(g, events, trace) /\ Shows(g)'
    BY <2>1, <2>2
  <2>5. /\ client' \in {"idle", "reading", "ended"}
        /\ shown' \in Seq(Planner!Calls)
        /\ client' = "idle" => shown' = <<>> /\ read' = 0
    <3>1. <<>> \in Seq(Planner!Calls)
      OBVIOUS
    <3>. QED BY <1>1, <2>3, <3>1 DEF IInv, PanelInv
  <2>6. read' \in 0..Len(events')
    BY <2>3 DEF IInv, PanelInv
  <2>. QED BY <2>3, <2>4, <2>5, <2>6 DEF PanelInv
<1>. QED BY <1>1, <1>2 DEF IInv, Types, TalkInv, Waits, TurnAnswered, DoneInv, Planner!server

-----------------------------------------------------------------------------
(* The theorems *)

\* Initially nothing was called, emitted or shown.
LEMMA InitIInv == ASSUME Planner!Init PROVE IInv
<1>1. /\ phase = "ready" /\ step = 0 /\ todo = <<>> /\ results = <<>> /\ messages = <<>> /\ trace = <<>> /\ events = <<>>
      /\ client = "idle" /\ read = 0 /\ shown = <<>>
  BY DEF Planner!Init, Planner!ServerInit
<1>2. Types
  BY <1>1 DEF Types
<1>3. PanelInv
  <2>. DEFINE f == [k \in 0..0 |-> 0]
  <2>1. f \in [0..Len(events) -> 0..Len(trace)] /\ Tally(f, events, trace) /\ Shows(f)
    BY <1>1 DEF Tally, Shows
  <2>. QED BY <1>1, <2>1 DEF PanelInv
<1>. QED BY <1>1, <1>2, <1>3 DEF IInv, TalkInv, DoneInv

\* Every step of the run and of the panel keeps the invariant.
LEMMA NextIInv == ASSUME Planner!AgentAssumption, IInv, [Planner!Next]_(Planner!vars) PROVE IInv'
<1>1. CASE Planner!ServerWorks
  <2>1. UNCHANGED <<client, read, shown>> /\ MaxBlocks \in Nat
    BY <1>1 DEF Planner!ServerWorks, Planner!AgentAssumption
  <2>2. CASE \E n \in 1..MaxBlocks : \E tools \in [1..n -> Tools] : Planner!ModelCallsTools(tools)
    BY <2>1, <2>2, ModelCallsToolsIInv
  <2>3. CASE Planner!ModelAnswers \/ Planner!ModelFails \/ Planner!TurnEnds
    BY <2>1, <2>3, ModelEndsIInv, TurnEndsIInv
  <2>4. CASE \E ok \in BOOLEAN : Planner!ExecTool(ok)
    BY <2>1, <2>4, ExecToolIInv
  <2>. QED BY <1>1, <2>2, <2>3, <2>4 DEF Planner!ServerWorks, Planner!ServerStep
<1>2. CASE Planner!StartRun \/ Planner!Receive \/ Planner!Stop \/ Planner!Leave \/ \E v \in Ships : Planner!SelectVessel(v)
  BY <1>2, StartRunIInv, ReceiveIInv, LookAwayIInv
<1>3. CASE UNCHANGED Planner!vars
  BY <1>3 DEF IInv, Types, TalkInv, Waits, TurnAnswered, PanelInv, Tally, Shows, DoneInv, Planner!vars,
              Planner!server, Planner!panel
<1>. QED BY <1>1, <1>2, <1>3 DEF Planner!Next

\* In a behaviour of the panels the planner moves as it does alone, or rests
\* while a chat may select another vessel.
LEMMA PlannerMoves ==
    ASSUME [Next]_vars
    PROVE  [Planner!Next]_(Planner!vars) \/ UNCHANGED plannerVars
<1>1. CASE PlannerStep(Planner!Next)
  BY <1>1 DEF PlannerStep
<1>2. CASE ReaderStep(Reader!Next) \/ ChatStep(Chat!Next) \/ PageStep(PageNext) \/ TableStep(Table!Next)
  BY <1>2 DEF ReaderStep, ChatStep, PageStep, TableStep
<1>3. CASE UNCHANGED vars
  BY <1>3 DEF vars
<1>. QED BY <1>1, <1>2, <1>3 DEF Next

\* The invariant, however the model calls tools, whichever fail, and whatever
\* the panel does meanwhile.
THEOREM Inductive == Spec => []IInv
<1>1. Init => IInv
  <2>1. Init => Planner!Init
    BY DEF Init
  <2>. QED BY <2>1, InitIInv
<1>2. IInv /\ [Next]_vars => IInv'
  <2>1. SUFFICES ASSUME IInv, [Next]_vars PROVE IInv'
    OBVIOUS
  <2>2. CASE [Planner!Next]_(Planner!vars)
    BY <2>1, <2>2, NextIInv, PanelsAssumption
  <2>3. CASE UNCHANGED plannerVars
    BY <2>1, <2>3 DEF plannerVars, serverVars, IInv, Types, TalkInv, Waits, TurnAnswered, PanelInv, Tally, Shows, DoneInv
  <2>. QED BY <2>1, <2>2, <2>3, PlannerMoves
<1>. QED BY <1>1, <1>2, PTL DEF Spec

\* The model is only ever called with a conversation in which every tool call
\* has its result.
THEOREM AcceptedConversation == Spec => []Conversation
<1>1. IInv => Conversation
  <2>1. SUFFICES ASSUME IInv, phase = "model", NEW i \in DOMAIN messages, messages[i].role = "assistant"
                 PROVE  i < Len(messages) /\ messages[i + 1] = [role |-> "results", ids |-> messages[i].ids]
    BY DEF Conversation, Planner!Conversation
  <2>2. i \in 1..Len(messages)
    BY <2>1 DEF IInv, Types
  <2>. QED BY <2>1, <2>2 DEF IInv, TalkInv, TurnAnswered
<1>. QED BY <1>1, Inductive, PTL

\* What the panel has shown is a prefix of the trace, and is the plan's calls when
\* the plan has come, unless it is the fallback.
THEOREM Reconciled == Spec => []ReconciledUnlessFallback
<1>1. ASSUME IInv PROVE ReconciledUnlessFallback
  <2>1. PICK f \in [0..Len(events) -> 0..Len(trace)] : Tally(f, events, trace) /\ Shows(f)
    BY <1>1 DEF IInv, PanelInv
  <2>2. /\ shown \in Seq(Planner!Calls) /\ trace \in Seq(Planner!Calls) /\ read \in 0..Len(events)
        /\ Len(shown) \in Nat /\ Len(trace) \in Nat /\ Len(events) \in Nat
        /\ \A i \in 1..Len(shown) : shown[i] = trace[i]
    BY <1>1, <2>1 DEF IInv, PanelInv, Types, Shows
  <2>3. Len(shown) <= Len(trace)
    <3>1. CASE shown = <<>>
      BY <2>2, <3>1
    <3>2. CASE shown # <<>>
      BY <2>1, <2>2, <3>2 DEF Shows
    <3>. QED BY <3>1, <3>2
  <2>4. Planner!IsPrefix(shown, trace)
    <3>1. \A i \in 1..Len(shown) : shown[i] \in Planner!Calls /\ trace[i] \in Planner!Calls
      BY <2>2, <2>3
    <3>2. /\ SubSeq(shown, 1, Len(shown)) \in Seq(Planner!Calls) /\ SubSeq(trace, 1, Len(shown)) \in Seq(Planner!Calls)
          /\ Len(SubSeq(shown, 1, Len(shown))) = Len(shown) /\ Len(SubSeq(trace, 1, Len(shown))) = Len(shown)
          /\ \A i \in 1..Len(shown) : SubSeq(shown, 1, Len(shown))[i] = shown[i] /\ SubSeq(trace, 1, Len(shown))[i] = trace[i]
      BY <2>2, <2>3
    <3>3. SubSeq(shown, 1, Len(shown)) = SubSeq(trace, 1, Len(shown))
      BY <2>2, <3>2, SeqEqual
    <3>. QED BY <2>3, <3>3 DEF Planner!IsPrefix
  <2>5. ASSUME read > 0, events[read].type = "done", shown # <<>> PROVE plan.fallback \/ plan.calls = shown
    <3>1. read = Len(events) /\ (plan.fallback \/ plan.calls = trace)
      BY <1>1, <2>2, <2>5 DEF IInv, DoneInv
    <3>2. Len(shown) = Len(trace)
      BY <2>1, <2>5, <3>1 DEF Shows, Tally
    <3>3. shown = trace
      BY <2>2, <3>2, SeqEqual
    <3>. QED BY <3>1, <3>3
  <2>. QED BY <2>4, <2>5 DEF ReconciledUnlessFallback, Planner!ReconciledUnlessFallback
<1>2. IInv => ReconciledUnlessFallback
  BY <1>1
<1>. QED BY <1>2, Inductive, PTL
-----------------------------------------------------------------------------
(* Counting events and turns *)

\* Where a list has an element of T.
Places(list, T) == {i \in 1..Len(list) : list[i] \in T}

ModelEvents == {e \in Events : e.type = "model"}
ToolEvents == {e \in Events : e.type = "tool"}
Answers == {m \in Messages : m.role = "results"}

\* The n-th tool event is about the n-th call.
ToldInv ==
    /\ Cardinality(Places(events, ToolEvents)) = Len(trace)
    /\ \A k \in 1..Len(events) :
         events[k].type = "tool" =>
             LET n == Cardinality(Planner!Told(k)) IN n \in 1..Len(trace) /\ events[k].index = n /\ events[k].call = trace[n]

\* The counter of the loop counts the calls of the model, and every turn but the
\* one under way was answered.
BudgetInv ==
    /\ step <= MaxSteps
    /\ Cardinality(Places(events, ModelEvents)) = step
    /\ phase = "ready" => step = 0 /\ messages = <<>>
    /\ phase \in {"model", "tools"} => Cardinality(Places(messages, Answers)) = step - 1
    /\ phase # "done" => plan = Planner!NoPlan
    /\ plan.made /\ plan.incomplete => Cardinality(Places(messages, Answers)) = MaxSteps

CountInv == ToldInv /\ BudgetInv

\* The count the run's module takes is the one the theorems are about.
LEMMA SameCount == ASSUME NEW S PROVE Planner!Cardinality(S) = Cardinality(S)
BY DEF Planner!Cardinality, Cardinality, Planner!IsFiniteSet, IsFiniteSet

\* The places of a list are finitely many.
LEMMA PlacesFinite ==
    ASSUME NEW S, NEW s \in Seq(S), NEW T
    PROVE  IsFiniteSet(Places(s, T)) /\ Cardinality(Places(s, T)) \in Nat
<1>1. Len(s) \in Nat /\ IsFiniteSet(1..Len(s))
  BY FS_Interval
<1>2. Places(s, T) \in SUBSET (1..Len(s))
  BY DEF Places
<1>. QED BY <1>1, <1>2, FS_Subset, FS_CardinalityType

\* One more element is one more place, or none.
LEMMA PlacesAppended ==
    ASSUME NEW S, NEW s \in Seq(S), NEW e \in S, NEW T
    PROVE  Cardinality(Places(Append(s, e), T)) = Cardinality(Places(s, T)) + IF e \in T THEN 1 ELSE 0
<1>. DEFINE n == Len(s)
<1>1. /\ n \in Nat /\ Len(Append(s, e)) = n + 1 /\ Append(s, e)[n + 1] = e
      /\ \A i \in 1..n : Append(s, e)[i] = s[i]
  BY Appended
<1>2. Places(Append(s, e), T) = Places(s, T) \cup (IF e \in T THEN {n + 1} ELSE {})
  BY <1>1 DEF Places
<1>3. n + 1 \notin Places(s, T)
  BY <1>1 DEF Places
<1>4. IsFiniteSet(Places(s, T)) /\ Cardinality(Places(s, T)) \in Nat
  BY PlacesFinite
<1>5. CASE e \in T
  BY <1>2, <1>3, <1>4, <1>5, FS_AddElement
<1>6. CASE e \notin T
  BY <1>2, <1>4, <1>6
<1>. QED BY <1>5, <1>6

\* Every tool event still tells its call when one more event, of whatever kind,
\* is emitted.
LEMMA ToldMoves ==
    ASSUME Types, ToldInv, NEW e \in Events, events' = Append(events, e), trace' \in Seq(Planner!Calls),
           Brings(e, trace, trace'), e.type = "tool" => e.index = Len(trace')
    PROVE  ToldInv'
<1>. DEFINE told == Cardinality(Places(events, ToolEvents))
<1>0. PICK n \in Nat : n = Len(events)
  BY DEF Types
<1>1. /\ events' \in Seq(Events) /\ Len(events') = n + 1 /\ events'[n + 1] = e
      /\ \A i \in 1..n : events'[i] = events[i]
  BY <1>0, Appended DEF Types
<1>2. e \in ToolEvents <=> e.type = "tool"
  BY DEF ToolEvents
<1>3. Cardinality(Places(events', ToolEvents)) = told + IF e.type = "tool" THEN 1 ELSE 0
  BY <1>2, PlacesAppended DEF Types
<1>4. /\ Len(trace) \in Nat
      /\ Len(trace') = Len(trace) + IF e.type = "tool" THEN 1 ELSE 0
      /\ \A i \in 1..Len(trace) : trace'[i] = trace[i]
      /\ e.type = "tool" => trace'[Len(trace')] = e.call
  <2>1. CASE e.type # "tool" /\ trace' = trace
    BY <2>1 DEF Types
  <2>2. CASE e.type = "tool" /\ trace' = Append(trace, e.call)
    <3>1. e.call \in Planner!Calls
      BY <2>2 DEF Events
    <3>. QED BY <2>2, <3>1, Appended DEF Types
  <2>. QED BY <2>1, <2>2 DEF Brings
<1>5. told = Len(trace)
  BY DEF ToldInv
<1>6. \A k \in 1..n : Planner!Told(k)' = Planner!Told(k)
  BY <1>1 DEF Planner!Told
<1>7. Planner!Told(n + 1)' = Places(events', ToolEvents)
  <2>1. \A i \in 1..n + 1 : events'[i] \in Events
    BY <1>1
  <2>. QED BY <1>1, <2>1 DEF Planner!Told, Places, ToolEvents
<1>8. ASSUME NEW k \in 1..n + 1, events'[k].type = "tool"
      PROVE  LET m == Cardinality(Planner!Told(k)')
             IN  m \in 1..Len(trace') /\ events'[k].index = m /\ events'[k].call = trace'[m]
  <2>1. CASE k \in 1..n
    BY <1>0, <1>1, <1>4, <1>6, <1>8, <2>1 DEF ToldInv
  <2>2. CASE k = n + 1
    BY <1>1, <1>3, <1>4, <1>5, <1>7, <1>8, <2>2
  <2>. QED BY <1>1, <2>1, <2>2
<1>. QED BY <1>0, <1>1, <1>3, <1>4, <1>5, <1>8 DEF ToldInv

\* A step that leaves the run alone leaves the counts alone.
LEMMA CountRests == ASSUME CountInv, UNCHANGED serverVars PROVE CountInv'
BY DEF CountInv, ToldInv, BudgetInv, Places, Planner!Told, serverVars

\* What is appended to a list of messages is one.
LEMMA LastIsIn == ASSUME NEW S, NEW s \in Seq(S), NEW e, Append(s, e) \in Seq(S) PROVE e \in S
<1>1. Len(Append(s, e)) = Len(s) + 1 /\ Append(s, e)[Len(s) + 1] = e /\ Len(s) \in Nat
  OBVIOUS
<1>. QED BY <1>1

\* An event of another kind than "model" leaves the count of model calls.
LEMMA ModelEventsMove ==
    ASSUME Types, NEW e \in Events, events' = Append(events, e)
    PROVE  Cardinality(Places(events', ModelEvents)) =
             Cardinality(Places(events, ModelEvents)) + IF e.type = "model" THEN 1 ELSE 0
<1>1. e \in ModelEvents <=> e.type = "model"
  BY DEF ModelEvents
<1>. QED BY <1>1, PlacesAppended DEF Types

\* A message of another role than "results" leaves the count of answered turns.
LEMMA AnswersMove ==
    ASSUME Types, Types', NEW m, messages' = Append(messages, m)
    PROVE  Cardinality(Places(messages', Answers)) =
             Cardinality(Places(messages, Answers)) + IF m.role = "results" THEN 1 ELSE 0
<1>1. m \in Messages
  BY LastIsIn DEF Types
<1>2. m \in Answers <=> m.role = "results"
  BY <1>1 DEF Answers
<1>. QED BY <1>1, <1>2, PlacesAppended DEF Types

\* The run begins: one call of the model.
LEMMA StartRunCounts == ASSUME Planner!AgentAssumption, IInv, CountInv, Planner!StartRun PROVE CountInv'
<1>1. ModelEvent(1) \in Events /\ ModelEvent(1).type = "model"
  BY DEF ModelEvent, Events
<1>2. /\ events' = Append(events, ModelEvent(1)) /\ phase = "ready" /\ phase' = "model" /\ step' = 1
      /\ UNCHANGED <<todo, results, messages, trace, plan>>
  BY DEF Planner!StartRun, Planner!Run, Planner!BeginStep, ModelEvent
<1>3. ToldInv'
  BY <1>1, <1>2, ToldMoves DEF IInv, Types, CountInv, Brings
<1>4. Cardinality(Places(events', ModelEvents)) = 0 + 1
  BY <1>1, <1>2, ModelEventsMove DEF IInv, CountInv, BudgetInv
<1>5. messages' = <<>> /\ Places(messages', Answers) = {}
  BY <1>2 DEF CountInv, BudgetInv, Places
<1>6. Cardinality(Places(messages', Answers)) = 0
  BY <1>5, FS_EmptySet
<1>7. plan = Planner!NoPlan /\ ~Planner!NoPlan.made
  BY <1>2 DEF CountInv, BudgetInv, Planner!NoPlan
<1>8. ~plan'.made /\ plan' = Planner!NoPlan
  BY <1>2, <1>7
<1>9. 1 <= MaxSteps
  BY DEF Planner!AgentAssumption
<1>10. BudgetInv'
  BY <1>2, <1>4, <1>6, <1>8, <1>9 DEF BudgetInv
<1>. QED BY <1>3, <1>10 DEF CountInv

\* The model calls tools: a turn to be answered.
LEMMA ModelCallsToolsCounts ==
    ASSUME IInv, IInv', CountInv, NEW tools, Planner!ModelCallsTools(tools) PROVE CountInv'
<1>. DEFINE m == [role |-> "assistant", ids |-> [i \in 1..Len(tools) |-> <<step, i>>]]
<1>1. /\ phase = "model" /\ phase' = "tools" /\ messages' = Append(messages, m) /\ m.role = "assistant"
      /\ UNCHANGED <<step, trace, events, plan>>
  BY DEF Planner!ModelCallsTools
<1>. HIDE DEF m
<1>2. Cardinality(Places(messages', Answers)) = Cardinality(Places(messages, Answers)) + 0
  BY <1>1, AnswersMove DEF IInv
<1>3. ToldInv'
  BY <1>1 DEF CountInv, ToldInv, Places, Planner!Told
<1>4. step \in Nat /\ Cardinality(Places(messages, Answers)) = step - 1
  BY <1>1 DEF IInv, Types, CountInv, BudgetInv
<1>5. ~plan'.made /\ plan' = Planner!NoPlan
  BY <1>1 DEF CountInv, BudgetInv, Planner!NoPlan
<1>6. Places(events', ModelEvents) = Places(events, ModelEvents)
  BY <1>1 DEF Places
<1>7. BudgetInv'
  BY <1>1, <1>2, <1>4, <1>5, <1>6 DEF CountInv, BudgetInv
<1>. QED BY <1>3, <1>7 DEF CountInv

\* The model answers or fails: no more calls.
LEMMA ModelEndsCounts ==
    ASSUME IInv, IInv', CountInv, Planner!ModelAnswers \/ Planner!ModelFails PROVE CountInv'
<1>1. PICK p : Planner!Finish(p) /\ p.made /\ ~p.incomplete
  <2>1. CASE Planner!ModelAnswers
    <3>. DEFINE p == Planner!Plan(trace, step, FALSE, FALSE)
    <3>1. Planner!Finish(p) /\ p.made /\ ~p.incomplete
      BY <2>1 DEF Planner!ModelAnswers, Planner!Plan
    <3>. QED BY <3>1
  <2>2. CASE Planner!ModelFails
    <3>1. PICK calls \in Planner!DeterministicCalls : Planner!Finish(Planner!Plan(calls, 0, TRUE, FALSE))
      BY <2>2 DEF Planner!ModelFails
    <3>2. Planner!Plan(calls, 0, TRUE, FALSE).made /\ ~Planner!Plan(calls, 0, TRUE, FALSE).incomplete
      BY DEF Planner!Plan
    <3>. QED BY <3>1, <3>2
  <2>. QED BY <2>1, <2>2
<1>. DEFINE e == [type |-> "done", plan |-> p]
<1>2. /\ phase = "model" /\ phase' = "done" /\ plan' = p /\ events' = Append(events, e)
      /\ UNCHANGED <<step, trace>>
  BY <1>1 DEF Planner!ModelAnswers, Planner!ModelFails, Planner!Finish
<1>3. e \in Events /\ e.type = "done"
  BY <1>2, LastIsIn DEF IInv, Types
<1>. HIDE DEF e
<1>4. ToldInv'
  BY <1>2, <1>3, ToldMoves DEF IInv, Types, CountInv, Brings
<1>5. Cardinality(Places(events', ModelEvents)) = step
  BY <1>2, <1>3, ModelEventsMove DEF IInv, Types, CountInv, BudgetInv
<1>6. BudgetInv'
  BY <1>1, <1>2, <1>5 DEF CountInv, BudgetInv
<1>. QED BY <1>4, <1>6 DEF CountInv

\* A tool is executed: its event has the number of its call.
LEMMA ExecToolCounts == ASSUME IInv, IInv', CountInv, NEW ok \in BOOLEAN, Planner!ExecTool(ok) PROVE CountInv'
<1>. DEFINE c == [tool |-> Head(todo).tool, ok |-> ok]
            e == [type |-> "tool", index |-> Len(trace) + 1, call |-> c]
<1>1. /\ phase = "tools" /\ trace' = Append(trace, c) /\ events' = Append(events, e)
      /\ UNCHANGED <<phase, step, messages, plan>>
  BY DEF Planner!ExecTool
<1>2. e \in Events /\ e.type = "tool" /\ e.call = c /\ c \in Planner!Calls /\ e.index = Len(trace) + 1
  BY <1>1, LastIsIn DEF IInv, Types
<1>. HIDE DEF c, e
<1>3. trace' \in Seq(Planner!Calls) /\ Len(trace') = Len(trace) + 1
  BY <1>1, <1>2, Appended DEF IInv, Types
<1>4. ToldInv'
  BY <1>1, <1>2, <1>3, ToldMoves DEF IInv, CountInv, Brings
<1>5. Cardinality(Places(events', ModelEvents)) = step
  BY <1>1, <1>2, ModelEventsMove DEF IInv, Types, CountInv, BudgetInv
<1>6. BudgetInv'
  BY <1>1, <1>5 DEF CountInv, BudgetInv, Planner!NoPlan, Places
<1>. QED BY <1>4, <1>6 DEF CountInv

\* A turn is answered, and the model is called again only below the limit.
LEMMA TurnEndsCounts == ASSUME Planner!AgentAssumption, IInv, IInv', CountInv, Planner!TurnEnds PROVE CountInv'
<1>. DEFINE m == [role |-> "results", ids |-> results]
<1>1. /\ phase = "tools" /\ messages' = Append(messages, m) /\ m.role = "results" /\ trace' = trace
  BY DEF Planner!TurnEnds
<1>. HIDE DEF m
<1>2. step \in Nat /\ MaxSteps \in Nat /\ step <= MaxSteps
  BY DEF IInv, Types, CountInv, BudgetInv, Planner!AgentAssumption
<1>3. Cardinality(Places(messages', Answers)) = step
  BY <1>1, <1>2, AnswersMove DEF IInv, CountInv, BudgetInv
<1>4. CASE step < MaxSteps /\ Planner!BeginStep(step + 1, events) /\ UNCHANGED plan
  <2>1. /\ phase' = "model" /\ step' = step + 1 /\ events' = Append(events, ModelEvent(step + 1))
    BY <1>4 DEF Planner!BeginStep, ModelEvent
  <2>2. ModelEvent(step + 1) \in Events /\ ModelEvent(step + 1).type = "model"
    BY <1>2 DEF ModelEvent, Events
  <2>3. ToldInv'
    BY <1>1, <2>1, <2>2, ToldMoves DEF IInv, Types, CountInv, Brings
  <2>4. Cardinality(Places(events', ModelEvents)) = step + 1
    BY <2>1, <2>2, ModelEventsMove DEF IInv, CountInv, BudgetInv
  <2>5. BudgetInv'
    BY <1>1, <1>2, <1>3, <1>4, <2>1, <2>4 DEF CountInv, BudgetInv, Planner!NoPlan
  <2>. QED BY <2>3, <2>5 DEF CountInv
<1>5. CASE step = MaxSteps /\ Planner!Finish(Planner!Plan(trace, MaxSteps, FALSE, TRUE)) /\ UNCHANGED step
  <2>. DEFINE e == [type |-> "done", plan |-> Planner!Plan(trace, MaxSteps, FALSE, TRUE)]
  <2>1. phase' = "done" /\ events' = Append(events, e)
    BY <1>5 DEF Planner!Finish
  <2>2. e \in Events /\ e.type = "done"
    BY <2>1, LastIsIn DEF IInv, Types
  <2>. HIDE DEF e
  <2>3. ToldInv'
    BY <1>1, <2>1, <2>2, ToldMoves DEF IInv, Types, CountInv, Brings
  <2>4. Cardinality(Places(events', ModelEvents)) = step
    BY <1>2, <2>1, <2>2, ModelEventsMove DEF IInv, CountInv, BudgetInv
  <2>5. BudgetInv'
    BY <1>2, <1>3, <1>5, <2>1, <2>4 DEF CountInv, BudgetInv
  <2>. QED BY <2>3, <2>5 DEF CountInv
<1>6. ~(step < MaxSteps) => step = MaxSteps
  BY <1>2
<1>. QED BY <1>4, <1>5, <1>6 DEF Planner!TurnEnds

\* The counts, through every behaviour.
THEOREM Counted == Spec => []CountInv
<1>1. Init => CountInv
  <2>1. SUFFICES ASSUME Init PROVE CountInv
    OBVIOUS
  <2>2. /\ phase = "ready" /\ step = 0 /\ messages = <<>> /\ trace = <<>> /\ events = <<>> /\ plan = Planner!NoPlan
    BY <2>1 DEF Init, Planner!Init, Planner!ServerInit
  <2>3. Places(events, ToolEvents) = {} /\ Places(events, ModelEvents) = {}
    BY <2>2 DEF Places
  <2>4. 0 <= MaxSteps
    BY PanelsAssumption DEF Planner!AgentAssumption
  <2>5. ~plan.made
    BY <2>2 DEF Planner!NoPlan
  <2>6. ToldInv
    BY <2>2, <2>3, FS_EmptySet DEF ToldInv
  <2>7. BudgetInv
    BY <2>2, <2>3, <2>4, <2>5, FS_EmptySet DEF BudgetInv
  <2>. QED BY <2>6, <2>7 DEF CountInv
<1>2. IInv /\ IInv' /\ CountInv /\ [Next]_vars => CountInv'
  <2>1. SUFFICES ASSUME IInv, IInv', CountInv, [Next]_vars PROVE CountInv'
    OBVIOUS
  <2>2. Planner!AgentAssumption
    BY PanelsAssumption
  <2>3. CASE UNCHANGED serverVars
    BY <2>1, <2>3, CountRests
  <2>4. CASE Planner!ServerStep
    <3>1. CASE \E n \in 1..MaxBlocks : \E tools \in [1..n -> Tools] : Planner!ModelCallsTools(tools)
      BY <2>1, <3>1, ModelCallsToolsCounts
    <3>2. CASE Planner!ModelAnswers \/ Planner!ModelFails
      BY <2>1, <3>2, ModelEndsCounts
    <3>3. CASE Planner!TurnEnds
      BY <2>1, <2>2, <3>3, TurnEndsCounts
    <3>4. CASE \E ok \in BOOLEAN : Planner!ExecTool(ok)
      BY <2>1, <3>4, ExecToolCounts
    <3>. QED BY <2>4, <3>1, <3>2, <3>3, <3>4 DEF Planner!ServerStep
  <2>5. CASE Planner!StartRun
    BY <2>1, <2>2, <2>5, StartRunCounts
  <2>6. CASE Planner!Receive \/ Planner!Stop \/ Planner!Leave \/ \E v \in Ships : Planner!SelectVessel(v)
    <3>1. UNCHANGED serverVars
      BY <2>6 DEF Planner!Receive, Planner!Stop, Planner!Leave, Planner!SelectVessel, Planner!server, serverVars
    <3>. QED BY <2>3, <3>1
  <2>7. CASE UNCHANGED Planner!vars \/ UNCHANGED plannerVars
    BY <2>3, <2>7 DEF Planner!vars, Planner!server, serverVars, plannerVars
  <2>. QED BY <2>1, <2>4, <2>5, <2>6, <2>7, PlannerMoves DEF Planner!Next, Planner!ServerWorks
<1>. QED BY <1>1, <1>2, Inductive, PTL DEF Spec

\* The progress a listener saw is the trace, whatever turns the calls were made in.
THEOREM EventsTell == Spec => []EventsTellTrace
<1>1. IInv /\ CountInv => EventsTellTrace
  <2>1. SUFFICES ASSUME IInv, CountInv PROVE EventsTellTrace
    OBVIOUS
  <2>2. events \in Seq(Events)
    BY <2>1 DEF IInv, Types
  <2>3. Planner!Told(Len(events)) = Places(events, ToolEvents)
    <3>1. \A i \in 1..Len(events) : events[i] \in Events
      BY <2>2
    <3>. QED BY <3>1 DEF Planner!Told, Places, ToolEvents
  <2>4. DOMAIN events = 1..Len(events)
    BY <2>2
  <2>. QED BY <2>1, <2>3, <2>4, SameCount DEF CountInv, ToldInv, EventsTellTrace, Planner!EventsTellTrace
<1>. QED BY <1>1, Inductive, Counted, PTL

\* No more than MAX_STEPS calls of the model are paid for, and only a plan whose
\* every turn called tools is called incomplete.
THEOREM BudgetKept == Spec => []WithinBudget
<1>1. IInv /\ CountInv => WithinBudget
  <2>1. SUFFICES ASSUME IInv, CountInv PROVE WithinBudget
    OBVIOUS
  <2>2. /\ events \in Seq(Events) /\ DOMAIN events = 1..Len(events)
        /\ messages \in Seq(Messages) /\ DOMAIN messages = 1..Len(messages)
    BY <2>1 DEF IInv, Types
  <2>3. {i \in DOMAIN events : events[i].type = "model"} = Places(events, ModelEvents)
    <3>1. \A i \in 1..Len(events) : events[i] \in Events
      BY <2>2
    <3>. QED BY <2>2, <3>1 DEF Places, ModelEvents
  <2>4. {i \in DOMAIN messages : messages[i].role = "results"} = Places(messages, Answers)
    <3>1. \A i \in 1..Len(messages) : messages[i] \in Messages
      BY <2>2
    <3>. QED BY <2>2, <3>1 DEF Places, Answers
  <2>. QED BY <2>1, <2>3, <2>4, SameCount DEF CountInv, BudgetInv, WithinBudget, Planner!WithinBudget
<1>. QED BY <1>1, Inductive, Counted, PTL

-----------------------------------------------------------------------------
(* The stream: joins of characters *)

\* Induction, over the set of the numbers a claim holds of.
LEMMA Induct ==
    ASSUME NEW Good, NEW n \in Nat, 0 \in Good, \A k \in 0..(n - 1) : k \in Good => k + 1 \in Good
    PROVE  0..n \subseteq Good /\ n \in Good
<1>. DEFINE missed == {k \in Nat : k \in 0..n /\ k \notin Good}
<1>1. ASSUME missed # {} PROVE FALSE
  <2>1. PICK k \in missed : \A m \in missed : ~ (<<m, k>> \in OpToRel(<, Nat))
    BY <1>1, NatLessThanWellFounded, WFMin
  <2>2. k \in 0..n /\ k \notin Good
    BY <2>1, Zenon
  <2>3. k - 1 \in 0..(n - 1) /\ k - 1 \in Nat /\ k \in Nat /\ k - 1 < k /\ (k - 1) + 1 = k /\ k - 1 \in 0..n
    BY <2>2
  <2>4. k - 1 \notin missed
    BY <2>1, <2>3 DEF OpToRel
  <2>. QED BY <2>2, <2>3, <2>4
<1>2. 0..n \subseteq Good
  BY <1>1
<1>. QED BY <1>2

\* The library's join of a sequence of sequences: what is joined up to each of them.
Joins(seqs, n, g) == g = [i \in 1..n |-> IF i = 1 THEN seqs[i] ELSE g[i - 1] \o seqs[i]]

Joined(seqs) == CHOOSE g : Joins(seqs, Len(seqs), g)

LEMMA FlattenIs ==
    ASSUME NEW seqs
    PROVE  Reader!FlattenSeq(seqs) = IF Len(seqs) = 0 THEN seqs ELSE Joined(seqs)[Len(seqs)]
BY DEF Reader!FlattenSeq, Joined, Joins

LEMMA JoinedExists ==
    ASSUME NEW S, NEW seqs \in Seq(Seq(S))
    PROVE  Joins(seqs, Len(seqs), Joined(seqs))
<1>. DEFINE N == Len(seqs)
            Good == {n \in 0..N : \E g : Joins(seqs, n, g)}
<1>1. N \in Nat
  BY LenProperties
<1>2. 0 \in Good
  <2>1. Joins(seqs, 0, [i \in 1..0 |-> seqs[1]])
    BY DEF Joins
  <2>. QED BY <1>1, <2>1
<1>3. ASSUME NEW n \in 0..(N - 1), n \in Good PROVE n + 1 \in Good
  <2>1. PICK g : Joins(seqs, n, g)
    BY <1>3
  <2>. DEFINE h == [i \in 1..(n + 1) |-> IF i = 1 THEN seqs[i] ELSE g[i - 1] \o seqs[i]]
  <2>2. ASSUME NEW i \in 1..n PROVE h[i] = g[i]
    <3>1. g[i] = IF i = 1 THEN seqs[i] ELSE g[i - 1] \o seqs[i]
      BY <2>1 DEF Joins
    <3>. QED BY <1>1, <3>1
  <2>3. ASSUME NEW i \in 1..(n + 1) PROVE h[i] = IF i = 1 THEN seqs[i] ELSE h[i - 1] \o seqs[i]
    <3>1. i # 1 => h[i - 1] = g[i - 1]
      <4>1. i # 1 => i - 1 \in 1..n
        BY <1>1
      <4>. QED BY <2>2, <4>1
    <3>2. h[i] = IF i = 1 THEN seqs[i] ELSE g[i - 1] \o seqs[i]
      OBVIOUS
    <3>. HIDE DEF h
    <3>. QED BY <3>1, <3>2
  <2>4. Joins(seqs, n + 1, h)
    BY <2>3 DEF Joins
  <2>. QED BY <1>1, <2>4
<1>. HIDE DEF Good
<1>4. N \in Good
  <2>1. \A n \in 0..(N - 1) : n \in Good => n + 1 \in Good
    BY <1>3
  <2>. HIDE DEF N
  <2>. QED BY <1>1, <1>2, <2>1, Induct
<1>. QED BY <1>4 DEF Good, Joined

LEMMA Concat ==
    ASSUME NEW S, NEW a \in Seq(S), NEW b \in Seq(S)
    PROVE  /\ a \o b \in Seq(S) /\ Len(a \o b) = Len(a) + Len(b) /\ Len(a) \in Nat /\ Len(b) \in Nat
           /\ \A k \in 1..Len(a) : (a \o b)[k] = a[k]
           /\ \A k \in 1..Len(b) : (a \o b)[Len(a) + k] = b[k]
<1>1. Len(a) \in Nat /\ Len(b) \in Nat
  BY LenProperties
<1>2. a \o b \in Seq(S) /\ Len(a \o b) = Len(a) + Len(b)
  BY ConcatProperties
<1>3. \A i \in 1..(Len(a) + Len(b)) : (a \o b)[i] = IF i <= Len(a) THEN a[i] ELSE b[i - Len(a)]
  BY ConcatProperties
<1>4. ASSUME NEW k \in 1..Len(b) PROVE (a \o b)[Len(a) + k] = b[k]
  <2>1. Len(a) + k \in 1..(Len(a) + Len(b)) /\ ~(Len(a) + k <= Len(a)) /\ (Len(a) + k) - Len(a) = k
    BY <1>1
  <2>. QED BY <1>3, <2>1
<1>. QED BY <1>1, <1>2, <1>3, <1>4

\* What is joined after each piece.
LEMMA Joints ==
    ASSUME NEW S, NEW seqs \in Seq(Seq(S))
    PROVE  \E pre \in [0..Len(seqs) -> Seq(S)] :
             /\ pre[0] = <<>> /\ pre[Len(seqs)] = Reader!FlattenSeq(seqs)
             /\ \A i \in 1..Len(seqs) : pre[i] = pre[i - 1] \o seqs[i]
<1>. DEFINE n == Len(seqs)
            pre == [i \in 0..n |-> IF i = 0 THEN <<>> ELSE Joined(seqs)[i]]
<1>1. n \in Nat /\ DOMAIN seqs = 1..n /\ \A i \in 1..n : seqs[i] \in Seq(S)
  BY LenProperties, ElementOfSeq
<1>2. pre[0] = <<>> /\ DOMAIN pre = 0..n
  BY <1>1
<1>3. ASSUME NEW i \in 1..n PROVE pre[i] = IF i = 1 THEN seqs[i] ELSE pre[i - 1] \o seqs[i]
  <2>1. pre[i] = Joined(seqs)[i]
    BY <1>1
  <2>2. i # 1 => pre[i - 1] = Joined(seqs)[i - 1]
    BY <1>1
  <2>3. Joined(seqs)[i] = IF i = 1 THEN seqs[i] ELSE Joined(seqs)[i - 1] \o seqs[i]
    <3>1. Joins(seqs, n, Joined(seqs))
      BY JoinedExists
    <3>. QED BY <3>1 DEF Joins
  <2>. HIDE DEF pre
  <2>. QED BY <2>1, <2>2, <2>3
<1>4. pre[n] = Reader!FlattenSeq(seqs)
  <2>1. CASE n = 0
    <3>1. seqs = <<>>
      BY <2>1, EmptySeq
    <3>. QED BY <2>1, <3>1, <1>2, FlattenIs
  <2>2. CASE n # 0
    BY <2>2, <1>1, FlattenIs
  <2>. QED BY <2>1, <2>2
<1>. HIDE DEF pre
<1>5. ASSUME NEW i \in 1..n, pre[i - 1] \in Seq(S) PROVE pre[i] = pre[i - 1] \o seqs[i] /\ pre[i] \in Seq(S)
  <2>1. CASE i = 1
    <3>1. pre[i - 1] = <<>> /\ pre[i] = seqs[i] /\ seqs[i] \in Seq(S)
      BY <1>1, <1>2, <1>3, <2>1
    <3>2. <<>> \o seqs[i] = seqs[i]
      BY <3>1, ConcatEmptySeq
    <3>. QED BY <3>1, <3>2
  <2>2. CASE i # 1
    <3>1. pre[i] = pre[i - 1] \o seqs[i] /\ seqs[i] \in Seq(S)
      BY <1>1, <1>3, <2>2
    <3>. QED BY <3>1, <1>5, ConcatProperties
  <2>. QED BY <2>1, <2>2
<1>6. \A i \in 0..n : pre[i] \in Seq(S)
  <2>. DEFINE Good == {i \in 0..n : pre[i] \in Seq(S)}
  <2>1. 0 \in Good
    <3>1. <<>> \in Seq(S)
      OBVIOUS
    <3>2. 0 \in 0..n /\ pre[0] \in Seq(S)
      BY <1>1, <1>2, <3>1
    <3>. QED BY <3>2
  <2>2. ASSUME NEW i \in 0..(n - 1), i \in Good PROVE i + 1 \in Good
    <3>1. i + 1 \in 1..n /\ i + 1 \in 0..n /\ (i + 1) - 1 = i
      BY <1>1
    <3>. QED BY <1>5, <2>2, <3>1
  <2>. HIDE DEF Good
  <2>3. 0..n \subseteq Good
    BY <1>1, <2>1, <2>2, Induct
  <2>. QED BY <2>3 DEF Good
<1>7. pre \in [0..n -> Seq(S)]
  <2>1. pre = [i \in 0..n |-> pre[i]]
    BY <1>2 DEF pre
  <2>. QED BY <1>6, <2>1
<1>8. \A i \in 1..n : i - 1 \in 0..n
  BY <1>1
<1>9. \A i \in 1..n : pre[i] = pre[i - 1] \o seqs[i]
  BY <1>5, <1>6, <1>8
<1>. QED BY <1>2, <1>4, <1>7, <1>9

\* What is joined up to each of some texts.
Grows(seqs, n, p) == p[0] = <<>> /\ \A i \in 1..n : p[i] = p[i - 1] \o seqs[i]

\* The same texts so far.
SameUpTo(seqs, more, n) == \A i \in 1..n : seqs[i] = more[i]

LEMMA OneJoin ==
    ASSUME NEW seqs, NEW more, NEW n \in Nat, NEW p, NEW q, Grows(seqs, n, p), Grows(more, n, q),
           SameUpTo(seqs, more, n)
    PROVE  p[n] = q[n]
<1>. DEFINE Good == {i \in 0..n : p[i] = q[i]}
<1>1. 0 \in Good
  BY SMT DEF Grows
<1>2. ASSUME NEW i \in 0..(n - 1), i \in Good PROVE i + 1 \in Good
  <2>1. i + 1 \in 1..n /\ i + 1 \in 0..n /\ (i + 1) - 1 = i
    BY SMT
  <2>2. p[i] = q[i]
    BY <1>2
  <2>3. p[i + 1] = p[(i + 1) - 1] \o seqs[i + 1] /\ q[i + 1] = q[(i + 1) - 1] \o more[i + 1]
    BY <2>1 DEF Grows
  <2>5. seqs[i + 1] = more[i + 1]
    BY <2>1 DEF SameUpTo
  <2>4. p[i + 1] = q[i + 1]
    BY <2>1, <2>2, <2>3, <2>5
  <2>. QED BY <2>1, <2>4
<1>. HIDE DEF Good
<1>3. n \in Good
  BY <1>1, <1>2, Induct
<1>. QED BY <1>3 DEF Good

LEMMA JoinGrows ==
    ASSUME NEW S, NEW seqs \in Seq(Seq(S)), NEW n, n = Len(seqs)
    PROVE  \E p \in [0..n -> Seq(S)] : p[n] = Reader!FlattenSeq(seqs) /\ Grows(seqs, n, p)
<1>1. PICK p \in [0..n -> Seq(S)] : /\ p[0] = <<>> /\ p[n] = Reader!FlattenSeq(seqs)
                                   /\ \A i \in 1..n : p[i] = p[i - 1] \o seqs[i]
  BY Joints
<1>2. Grows(seqs, n, p)
  BY <1>1 DEF Grows
<1>. QED BY <1>1, <1>2

Three(S, u, v, w) == u \in Seq(S) /\ v \in Seq(S) /\ w \in Seq(S)

LEMMA Regrouped == ASSUME NEW S, NEW u, NEW v, NEW w, Three(S, u, v, w) PROVE (u \o v) \o w = u \o (v \o w)
BY ConcatAssociative DEF Three

\* A join of two sequences is the joins of both.
LEMMA JoinOfTwo ==
    ASSUME NEW S, NEW a \in Seq(Seq(S)), NEW b \in Seq(Seq(S))
    PROVE  Reader!FlattenSeq(a \o b) = Reader!FlattenSeq(a) \o Reader!FlattenSeq(b)
<1>. DEFINE ab == a \o b  m == Len(a)  n == Len(b)
<1>1. /\ ab \in Seq(Seq(S)) /\ Len(ab) = m + n /\ m \in Nat /\ n \in Nat
      /\ \A k \in 1..m : ab[k] = a[k]
      /\ \A k \in 1..n : ab[m + k] = b[k]
  BY Concat
<1>2. \A k \in 1..n : b[k] \in Seq(S)
  BY ElementOfSeq, LenProperties
<1>. HIDE DEF ab
<1>3. PICK p \in [0..(m + n) -> Seq(S)] : p[m + n] = Reader!FlattenSeq(ab) /\ Grows(ab, m + n, p)
  <2>. HIDE DEF m, n
  <2>. QED BY <1>1, JoinGrows
<1>4. PICK q \in [0..m -> Seq(S)] : q[m] = Reader!FlattenSeq(a) /\ Grows(a, m, q)
  BY JoinGrows
<1>5. PICK r \in [0..n -> Seq(S)] : r[n] = Reader!FlattenSeq(b) /\ Grows(b, n, r)
  BY JoinGrows
<1>. HIDE DEF m, n
<1>0. m \in Nat /\ n \in Nat
  BY <1>1
<1>6. p[m] = q[m]
  <2>1. Grows(ab, m, p)
    <3>1. \A i \in 1..m : i \in 1..(m + n)
      BY <1>0
    <3>. QED BY <1>3, <3>1 DEF Grows
  <2>2. SameUpTo(ab, a, m)
    BY <1>1 DEF SameUpTo
  <2>3. Grows(a, m, q)
    BY <1>4
  <2>. QED BY <1>0, <2>1, <2>2, <2>3, OneJoin
<1>7. q[m] \in Seq(S)
  <2>1. m \in 0..m
    BY <1>0
  <2>. QED BY <1>4, <2>1
<1>. DEFINE Good == {j \in 0..n : p[m + j] = q[m] \o r[j]}
<1>8. 0 \in Good
  <2>1. m + 0 = m /\ 0 \in 0..n
    BY <1>0
  <2>2. q[m] \o <<>> = q[m]
    BY <1>7, ConcatEmptySeq
  <2>3. r[0] = <<>>
    BY <1>5 DEF Grows
  <2>4. p[m + 0] = q[m] \o r[0]
    BY <1>6, <2>1, <2>2, <2>3
  <2>. QED BY <2>1, <2>4
<1>9. ASSUME NEW j \in 0..(n - 1), j \in Good PROVE j + 1 \in Good
  <2>1. /\ j + 1 \in 1..n /\ j + 1 \in 0..n
        /\ m + (j + 1) \in 1..(m + n) /\ (m + (j + 1)) - 1 = m + j
    BY <1>0
  <2>2. p[m + (j + 1)] = p[m + j] \o b[j + 1]
    <3>1. p[m + (j + 1)] = p[(m + (j + 1)) - 1] \o ab[m + (j + 1)]
      BY <1>3, <2>1 DEF Grows
    <3>. QED BY <1>1, <2>1, <3>1
  <2>3. p[m + j] = q[m] \o r[j]
    BY <1>9
  <2>4. (q[m] \o r[j]) \o b[j + 1] = q[m] \o r[j + 1]
    <3>1. r[j + 1] = r[j] \o b[j + 1]
      <4>1. r[j + 1] = r[(j + 1) - 1] \o b[j + 1]
        BY <1>5, <2>1 DEF Grows
      <4>2. (j + 1) - 1 = j
        BY <2>1
      <4>. QED BY <4>1, <4>2
    <3>2. PICK u, v, w : u = q[m] /\ v = r[j] /\ w = b[j + 1]
      OBVIOUS
    <3>3. Three(S, u, v, w)
      <4>1. j \in 0..n
        BY <1>0
      <4>. QED BY <1>2, <1>5, <1>7, <2>1, <3>2, <4>1 DEF Three
    <3>4. (u \o v) \o w = u \o (v \o w)
      BY ONLY <3>3, Regrouped
    <3>. QED BY <3>1, <3>2, <3>4
  <2>5. p[m + (j + 1)] = q[m] \o r[j + 1]
    BY <2>2, <2>3, <2>4
  <2>. QED BY <2>1, <2>5
<1>. HIDE DEF Good
<1>10. n \in Good
  BY <1>0, <1>8, <1>9, Induct
<1>11. p[m + n] = q[m] \o r[n]
  BY <1>10 DEF Good
<1>. QED BY <1>3, <1>4, <1>5, <1>11 DEF ab

\* The join of one text, and of none.
LEMMA JoinOfOne == ASSUME NEW S, NEW x \in Seq(S) PROVE Reader!FlattenSeq(<<x>>) = x
<1>. DEFINE one == <<x>>
<1>1. one \in Seq(Seq(S)) /\ Len(one) = 1 /\ one[1] = x
  OBVIOUS
<1>. HIDE DEF one
<1>2. Joins(one, 1, Joined(one))
  BY <1>1, JoinedExists
<1>3. Joined(one)[1] = x
  BY <1>1, <1>2 DEF Joins
<1>4. Reader!FlattenSeq(one) = IF Len(one) = 0 THEN one ELSE Joined(one)[Len(one)]
  BY FlattenIs
<1>5. Reader!FlattenSeq(one) = x
  BY <1>1, <1>3, <1>4
<1>. QED BY <1>5 DEF one

LEMMA JoinOfNone == Reader!FlattenSeq(<<>>) = <<>>
BY FlattenIs

\* A join has the elements of what is joined.
LEMMA JoinIsSeq == ASSUME NEW S, NEW seqs \in Seq(Seq(S)) PROVE Reader!FlattenSeq(seqs) \in Seq(S)
<1>1. PICK p \in [0..Len(seqs) -> Seq(S)] : p[Len(seqs)] = Reader!FlattenSeq(seqs)
  BY Joints
<1>2. Len(seqs) \in 0..Len(seqs)
  BY LenProperties
<1>. QED BY <1>1, <1>2

-----------------------------------------------------------------------------
(* The stream: bytes and characters *)

\* The bytes and characters of bodies.
Letters == STRING \cup {"data:", "[DONE]", Reader!Brace, Reader!NL, Reader!Hi, Reader!Lo, Reader!Wide, Reader!Broken}

\* The character at a byte, if one begins or breaks there.
CharAt(t, i) ==
    CASE t[i] = Reader!Hi -> IF i < Len(t) /\ t[i + 1] = Reader!Lo THEN <<Reader!Wide>> ELSE <<Reader!Broken>>
      [] t[i] = Reader!Lo -> IF i > 1 /\ t[i - 1] = Reader!Hi THEN <<>> ELSE <<Reader!Broken>>
      [] OTHER -> <<t[i]>>

CharsOf(t) == [i \in 1..Len(t) |-> CharAt(t, i)]

LEMMA DecodedIs == ASSUME NEW t PROVE Reader!Decoded(t) = Reader!FlattenSeq(CharsOf(t))
BY DEF Reader!Decoded, CharsOf, CharAt

\* The characters of plain bytes are they, or those that stand for halves.
LEMMA CharsAre ==
    ASSUME NEW S, NEW t \in Seq(Letters), Reader!Wide \in S, Reader!Broken \in S,
           \A i \in 1..Len(t) : t[i] \in S \cup {Reader!Hi, Reader!Lo}
    PROVE  CharsOf(t) \in Seq(Seq(S)) /\ Len(CharsOf(t)) = Len(t)
<1>0. <<>> \in Seq(S) /\ <<Reader!Wide>> \in Seq(S) /\ <<Reader!Broken>> \in Seq(S)
  OBVIOUS
<1>1. ASSUME NEW i \in 1..Len(t) PROVE CharAt(t, i) \in Seq(S)
  <2>1. PICK c : c = t[i]
    OBVIOUS
  <2>2. CASE c = Reader!Hi
    <3>1. CharAt(t, i) = <<Reader!Wide>> \/ CharAt(t, i) = <<Reader!Broken>>
      BY <2>1, <2>2 DEF CharAt, Reader!Hi, Reader!Lo
    <3>. QED BY <1>0, <3>1
  <2>3. CASE c = Reader!Lo
    <3>1. CharAt(t, i) = <<>> \/ CharAt(t, i) = <<Reader!Broken>>
      BY <2>1, <2>3 DEF CharAt, Reader!Hi, Reader!Lo
    <3>. QED BY <1>0, <3>1
  <2>4. CASE c # Reader!Hi /\ c # Reader!Lo
    <3>1. CharAt(t, i) = <<c>> /\ c \in S
      BY <2>1, <2>4 DEF CharAt
    <3>. QED BY <3>1
  <2>. QED BY <2>2, <2>3, <2>4
<1>2. Len(t) \in Nat
  BY LenProperties
<1>3. CharsOf(t) \in [1..Len(t) -> Seq(S)]
  BY <1>1 DEF CharsOf
<1>. QED BY <1>2, <1>3

LEMMA DecodedAre ==
    ASSUME NEW S, NEW t \in Seq(Letters), Reader!Wide \in S, Reader!Broken \in S,
           \A i \in 1..Len(t) : t[i] \in S \cup {Reader!Hi, Reader!Lo}
    PROVE  Reader!Decoded(t) \in Seq(S)
<1>1. CharsOf(t) \in Seq(Seq(S))
  BY CharsAre
<1>. QED BY <1>1, DecodedIs, JoinIsSeq

LEMMA DecodedType == ASSUME NEW t \in Seq(Letters) PROVE Reader!Decoded(t) \in Seq(Letters)
<1>1. Reader!Wide \in Letters /\ Reader!Broken \in Letters
  BY DEF Letters
<1>2. \A i \in 1..Len(t) : t[i] \in Letters
  BY ElementOfSeq
<1>. QED BY <1>1, <1>2, DecodedAre

\* A cut that parts no pair of halves.
Apart(a, b) ==
    /\ a \in Seq(Letters) /\ b \in Seq(Letters)
    /\ a = <<>> \/ b = <<>> \/ a[Len(a)] # Reader!Hi \/ b[1] # Reader!Lo

LEMMA CharsApart == ASSUME NEW a, NEW b, Apart(a, b) PROVE CharsOf(a \o b) = CharsOf(a) \o CharsOf(b)
<1>. DEFINE ab == a \o b  m == Len(a)  n == Len(b)
<1>1. /\ ab \in Seq(Letters) /\ Len(ab) = m + n /\ m \in Nat /\ n \in Nat
      /\ \A k \in 1..m : ab[k] = a[k]
      /\ \A k \in 1..n : ab[m + k] = b[k]
  BY Concat DEF Apart
<1>2. (m > 0 /\ n > 0) => (a[m] # Reader!Hi \/ b[1] # Reader!Lo)
  BY DEF Apart
<1>. DEFINE u == CharsOf(a)  v == CharsOf(b)
<1>3. /\ u \in Seq(Seq(Letters)) /\ v \in Seq(Seq(Letters)) /\ Len(u) = m /\ Len(v) = n
      /\ \A i \in 1..m : u[i] = CharAt(a, i)
      /\ \A i \in 1..n : v[i] = CharAt(b, i)
  <2>1. /\ Reader!Wide \in Letters /\ Reader!Broken \in Letters
        /\ \A i \in 1..Len(a) : a[i] \in Letters
        /\ \A i \in 1..Len(b) : b[i] \in Letters
    BY ElementOfSeq DEF Letters, Apart
  <2>2. u \in Seq(Seq(Letters)) /\ Len(u) = m /\ v \in Seq(Seq(Letters)) /\ Len(v) = n
    BY <2>1, CharsAre DEF Apart
  <2>. QED BY <2>2 DEF CharsOf
<1>. HIDE DEF ab, u, v
<1>4. /\ u \o v \in Seq(Seq(Letters)) /\ Len(u \o v) = m + n
      /\ \A k \in 1..m : (u \o v)[k] = u[k]
      /\ \A k \in 1..n : (u \o v)[m + k] = v[k]
  <2>1. u \in Seq(Seq(Letters)) /\ v \in Seq(Seq(Letters)) /\ Len(u) = m /\ Len(v) = n
    BY <1>3
  <2>2. /\ u \o v \in Seq(Seq(Letters)) /\ Len(u \o v) = Len(u) + Len(v)
        /\ \A k \in 1..Len(u) : (u \o v)[k] = u[k]
        /\ \A k \in 1..Len(v) : (u \o v)[Len(u) + k] = v[k]
    <3>1. u \in Seq(Seq(Letters)) /\ v \in Seq(Seq(Letters))
      BY <2>1
    <3>. QED BY ONLY <3>1, Concat
  <2>. QED BY <2>1, <2>2
<1>5. CharsOf(ab) = [i \in 1..(m + n) |-> CharAt(ab, i)]
  BY <1>1 DEF CharsOf
<1>6. Len(ab) = m + n /\ Len(a) = m /\ Len(b) = n
  BY <1>1
<1>. HIDE DEF m, n
<1>7. ASSUME NEW i \in 1..m PROVE CharAt(ab, i) = CharAt(a, i)
  <2>1. ab[i] = a[i]
    BY <1>1
  <2>2. i < m => ab[i + 1] = a[i + 1]
    BY <1>1
  <2>3. i > 1 => ab[i - 1] = a[i - 1]
    BY <1>1
  <2>4. i = m /\ n > 0 => ab[i + 1] = b[1]
    BY <1>1
  <2>5. a[i] = Reader!Hi => ((i < m + n /\ ab[i + 1] = Reader!Lo) <=> (i < m /\ a[i + 1] = Reader!Lo))
    <3>1. CASE i < m
      BY <1>1, <2>2, <3>1
    <3>2. CASE i = m
      BY <1>1, <1>2, <2>4, <3>2
    <3>. QED BY <1>1, <3>1, <3>2
  <2>. QED BY <1>6, <2>1, <2>3, <2>5 DEF CharAt
<1>8. ASSUME NEW i \in 1..n PROVE CharAt(ab, m + i) = CharAt(b, i)
  <2>1. ab[m + i] = b[i]
    BY <1>1
  <2>2. (m + i < m + n <=> i < n) /\ (i < n => ab[(m + i) + 1] = b[i + 1])
    <3>1. (m + i) + 1 = m + (i + 1) /\ (m + i < m + n <=> i < n) /\ (i < n => i + 1 \in 1..n)
      BY <1>1
    <3>. QED BY <1>1, <3>1
  <2>3. i > 1 => ab[(m + i) - 1] = b[i - 1] /\ m + i > 1
    <3>1. i > 1 => (m + i) - 1 = m + (i - 1) /\ i - 1 \in 1..n /\ m + i > 1
      BY <1>1
    <3>. QED BY <1>1, <3>1
  <2>4. i = 1 /\ m + i > 1 => ab[(m + i) - 1] = a[m] /\ m > 0
    <3>1. i = 1 /\ m + i > 1 => (m + i) - 1 = m /\ m \in 1..m /\ m > 0
      BY <1>1
    <3>. QED BY <1>1, <3>1
  <2>5. b[i] = Reader!Lo => ((m + i > 1 /\ ab[(m + i) - 1] = Reader!Hi) <=> (i > 1 /\ b[i - 1] = Reader!Hi))
    <3>1. CASE i > 1
      BY <2>3, <3>1
    <3>2. CASE i = 1
      BY <1>1, <1>2, <2>4, <3>2
    <3>. QED BY <1>1, <3>1, <3>2
  <2>. QED BY <1>6, <2>1, <2>2, <2>5 DEF CharAt
<1>9. ASSUME NEW i \in 1..(m + n) PROVE CharAt(ab, i) = (u \o v)[i]
  <2>1. CASE i <= m
    <3>1. i \in 1..m
      BY <2>1
    <3>. QED BY <1>3, <1>4, <1>7, <3>1
  <2>2. CASE ~(i <= m)
    <3>1. PICK k : k = i - m
      OBVIOUS
    <3>2. k \in 1..n /\ i = m + k
      BY <1>1, <2>2, <3>1
    <3>. QED BY <1>3, <1>4, <1>8, <3>2
  <2>. QED BY <2>1, <2>2
<1>10. u \o v = [i \in 1..(m + n) |-> (u \o v)[i]]
  <2>. DEFINE w == u \o v
  <2>1. w \in Seq(Seq(Letters)) /\ Len(w) = m + n
    BY <1>4
  <2>. HIDE DEF w
  <2>2. w = [i \in 1..(m + n) |-> w[i]]
    BY <2>1
  <2>. QED BY <2>2 DEF w
<1>11. CharsOf(ab) = u \o v
  BY <1>5, <1>9, <1>10
<1>. QED BY <1>11 DEF ab, u, v

\* Bytes can be decoded on both sides of a cut that parts no pair.
LEMMA DecodedApart ==
    ASSUME NEW a, NEW b, Apart(a, b) PROVE Reader!Decoded(a \o b) = Reader!Decoded(a) \o Reader!Decoded(b)
<1>. DEFINE u == CharsOf(a)  v == CharsOf(b)
<1>1. u \in Seq(Seq(Letters)) /\ v \in Seq(Seq(Letters))
  <2>1. /\ Reader!Wide \in Letters /\ Reader!Broken \in Letters
        /\ \A i \in 1..Len(a) : a[i] \in Letters
        /\ \A i \in 1..Len(b) : b[i] \in Letters
    BY ElementOfSeq DEF Letters, Apart
  <2>. QED BY <2>1, CharsAre DEF Apart
<1>2. CharsOf(a \o b) = u \o v
  BY CharsApart
<1>. HIDE DEF u, v
<1>3. Reader!FlattenSeq(u \o v) = Reader!FlattenSeq(u) \o Reader!FlattenSeq(v)
  BY <1>1, JoinOfTwo
<1>. QED BY <1>2, <1>3, DecodedIs DEF u, v

\* Single bytes and none.
LEMMA DecodedOne ==
    ASSUME NEW c \in Letters \ {Reader!Hi, Reader!Lo} PROVE Reader!Decoded(<<c>>) = <<c>>
<1>. DEFINE t == <<c>>
<1>1. Len(t) = 1 /\ t[1] = c
  OBVIOUS
<1>. HIDE DEF t
<1>2. CharAt(t, 1) = <<c>>
  BY <1>1 DEF CharAt
<1>3. CharsOf(t) = [i \in 1..1 |-> <<c>>]
  BY <1>1, <1>2 DEF CharsOf
<1>4. CharsOf(t) = << <<c>> >>
  BY <1>3
<1>5. <<c>> \in Seq(Letters)
  OBVIOUS
<1>6. Reader!FlattenSeq(<< <<c>> >>) = <<c>>
  BY <1>5, JoinOfOne
<1>7. Reader!Decoded(t) = <<c>>
  BY <1>4, <1>6, DecodedIs
<1>. QED BY <1>7 DEF t

LEMMA DecodedHalf == Reader!Decoded(<<Reader!Hi>>) = <<Reader!Broken>>
<1>. DEFINE t == <<Reader!Hi>>
<1>1. Len(t) = 1 /\ t[1] = Reader!Hi
  OBVIOUS
<1>. HIDE DEF t
<1>2. CharAt(t, 1) = <<Reader!Broken>>
  BY <1>1 DEF CharAt
<1>3. CharsOf(t) = [i \in 1..1 |-> <<Reader!Broken>>]
  BY <1>1, <1>2 DEF CharsOf
<1>4. CharsOf(t) = << <<Reader!Broken>> >>
  BY <1>3
<1>5. <<Reader!Broken>> \in Seq(Letters)
  BY DEF Letters
<1>6. Reader!FlattenSeq(<< <<Reader!Broken>> >>) = <<Reader!Broken>>
  BY <1>5, JoinOfOne
<1>7. Reader!Decoded(t) = <<Reader!Broken>>
  BY <1>4, <1>6, DecodedIs
<1>. QED BY <1>7 DEF t

LEMMA DecodedNone == Reader!Decoded(<<>>) = <<>>
<1>1. CharsOf(<<>>) = <<>>
  BY DEF CharsOf
<1>. QED BY <1>1, DecodedIs, JoinOfNone

-----------------------------------------------------------------------------
(* The stream: the payloads and the body *)

\* A text grows by one element.
LEMMA Grow ==
    ASSUME NEW S, NEW u \in Seq(S)
    PROVE  /\ SubSeq(u, 1, 0) = <<>> /\ SubSeq(u, 1, Len(u)) = u
           /\ \A k \in 0..(Len(u) - 1) : SubSeq(u, 1, k + 1) = Append(SubSeq(u, 1, k), u[k + 1])
<1>1. Len(u) \in Nat
  BY LenProperties
<1>2. SubSeq(u, 1, 0) = <<>> /\ SubSeq(u, 1, Len(u)) = u
  BY SubSeqEmpty, SubSeqFull
<1>3. ASSUME NEW k \in 0..(Len(u) - 1) PROVE SubSeq(u, 1, k + 1) = Append(SubSeq(u, 1, k), u[k + 1])
  <2>1. 1 \in 1..Len(u) /\ k + 1 \in 1..Len(u) /\ (k + 1) - 1 = k /\ k \in Int /\ \A i \in 1..k : i \in 1..Len(u)
    BY <1>1
  <2>2. SubSeq(u, 1, k + 1) = SubSeq(u, 1, (k + 1) - 1) \o <<u[k + 1]>>
    BY <2>1, SubSeqRecursiveSecond
  <2>3. SubSeq(u, 1, k) \in Seq(S) /\ u[k + 1] \in S
    <3>1. \A i \in 1..k : u[i] \in S
      BY <2>1, ElementOfSeq
    <3>. QED BY <2>1, <3>1, SubSeqProperties, ElementOfSeq
  <2>. QED BY <2>1, <2>2, <2>3, AppendIsConcat
<1>. QED BY <1>2, <1>3

\* A payload as it is sent: without a line break, and closed by its last byte only.
Payload(f) ==
    /\ f \in Seq(Letters) /\ Len(f) \in Nat /\ Len(f) > 0 /\ f[1] # "[DONE]"
    /\ \A i \in 1..Len(f) : f[i] # Reader!NL /\ (f[i] = Reader!Brace <=> i = Len(f))

\* A payload that was decoded, in a frame of its own: n characters.
Closed(p, n) ==
    /\ p \in Seq(Letters) /\ Len(p) = n /\ n \in Nat /\ n > 0 /\ p[n] = Reader!Brace /\ p[1] # "[DONE]"
    /\ \A i \in 1..n : p[i] # Reader!NL /\ (p[i] = Reader!Brace => i = n)

LEMMA PayloadsAre ==
    ASSUME Reader!SseAssumption
    PROVE  /\ Len(Frames) \in Nat /\ DOMAIN Frames = 1..Len(Frames)
           /\ \A k \in 1..Len(Frames) : Payload(Frames[k])
<1>1. Frames \in Seq(Seq(STRING) \ {<<>>}) /\ Len(Frames) \in Nat /\ DOMAIN Frames = 1..Len(Frames)
  BY LenProperties DEF Reader!SseAssumption
<1>2. ASSUME NEW k \in 1..Len(Frames) PROVE Payload(Frames[k])
  <2>1. PICK f : f = Frames[k]
    OBVIOUS
  <2>2. f \in Seq(STRING) /\ f # <<>>
    BY <1>1, <2>1, ElementOfSeq
  <2>3. /\ \A j \in DOMAIN f : f[j] = Reader!Brace <=> j = Len(f)
        /\ Reader!NL \notin Reader!ToSet(f) /\ f[1] # Reader!Done[1]
    BY <1>1, <2>1 DEF Reader!SseAssumption
  <2>4. STRING \subseteq Letters
    BY DEF Letters
  <2>5. f \in Seq(Letters) /\ Len(f) \in Nat /\ DOMAIN f = 1..Len(f)
    BY <2>2, <2>4, SeqMonotonic, LenProperties
  <2>6. Len(f) > 0
    <3>1. Len(f) # 0
      BY <2>2, EmptySeq
    <3>. QED BY <2>5, <3>1
  <2>7. Reader!Done[1] = "[DONE]"
    BY DEF Reader!Done
  <2>8. \A i \in DOMAIN f : f[i] # Reader!NL
    BY <2>3 DEF Reader!ToSet
  <2>. QED BY <2>1, <2>3, <2>5, <2>6, <2>7, <2>8 DEF Payload
<1>. QED BY <1>1, <1>2

\* A text of one, and what follows it.
LEMMA OneThen ==
    ASSUME NEW S, NEW c \in S, NEW q \in Seq(S)
    PROVE  /\ <<c>> \o q \in Seq(S) /\ Len(<<c>> \o q) = 1 + Len(q) /\ Len(q) \in Nat
           /\ (<<c>> \o q)[1] = c /\ \A i \in 1..Len(q) : (<<c>> \o q)[1 + i] = q[i]
<1>. DEFINE u == <<c>>
<1>1. u \in Seq(S) /\ Len(u) = 1 /\ u[1] = c
  OBVIOUS
<1>. HIDE DEF u
<1>2. u \o q \in Seq(S) /\ Len(u \o q) = 1 + Len(q) /\ Len(q) \in Nat /\ (u \o q)[1] = c
      /\ \A i \in 1..Len(q) : (u \o q)[1 + i] = q[i]
  <2>1. /\ u \o q \in Seq(S) /\ Len(u \o q) = Len(u) + Len(q) /\ Len(q) \in Nat
        /\ \A i \in 1..Len(u) : (u \o q)[i] = u[i]
        /\ \A i \in 1..Len(q) : (u \o q)[Len(u) + i] = q[i]
    <3>1. u \in Seq(S) /\ q \in Seq(S)
      BY <1>1
    <3>. QED BY ONLY <3>1, Concat
  <2>. QED BY <1>1, <2>1
<1>. QED BY <1>2 DEF u

\* What is put in front of a last character.
LEMMA ThenOne ==
    ASSUME NEW S, NEW q \in Seq(S), NEW c \in S, NEW m, m = Len(q)
    PROVE  /\ q \o <<c>> \in Seq(S) /\ Len(q \o <<c>>) = m + 1 /\ m \in Nat
           /\ (q \o <<c>>)[m + 1] = c /\ \A i \in 1..m : (q \o <<c>>)[i] = q[i]
<1>. DEFINE u == <<c>>
<1>1. u \in Seq(S) /\ Len(u) = 1 /\ u[1] = c /\ 1 \in 1..1
  OBVIOUS
<1>. HIDE DEF u
<1>2. q \o u \in Seq(S) /\ Len(q \o u) = m + 1 /\ m \in Nat /\ (q \o u)[m + 1] = c
      /\ \A i \in 1..m : (q \o u)[i] = q[i]
  <2>1. /\ q \o u \in Seq(S) /\ Len(q \o u) = Len(q) + Len(u) /\ Len(q) \in Nat
        /\ \A i \in 1..Len(q) : (q \o u)[i] = q[i]
        /\ \A i \in 1..Len(u) : (q \o u)[Len(q) + i] = u[i]
    <3>1. u \in Seq(S) /\ q \in Seq(S)
      BY <1>1
    <3>. QED BY ONLY <3>1, Concat
  <2>. QED BY <1>1, <2>1
<1>. QED BY <1>2 DEF u

\* A text is what comes before its last character, and that.
Before(S, f, n, g) ==
    g \in Seq(S) /\ f = g \o <<f[n]>> /\ Len(g) = n - 1 /\ f[n] \in S /\ \A i \in 1..(n - 1) : g[i] = f[i]

LEMMA LastApart ==
    ASSUME NEW S, NEW f \in Seq(S), NEW n, n = Len(f), n > 0, NEW g, g = SubSeq(f, 1, n - 1)
    PROVE  Before(S, f, n, g)
<1>1. n \in Nat
  BY LenProperties
<1>2. \A i \in 1..n : f[i] \in S
  BY ElementOfSeq
<1>3. \A i \in 1..(n - 1) : f[i] \in S
  BY <1>1, <1>2
<1>4. 1 \in Int /\ n - 1 \in Int /\ n \in 1..n /\ 1 \in 1..n
  BY <1>1
<1>5. g \in Seq(S) /\ Len(g) = (IF 1 <= n - 1 THEN (n - 1) - 1 + 1 ELSE 0) /\ \A i \in 1..((n - 1) - 1 + 1) : g[i] = f[1 + i - 1]
  BY <1>3, <1>4, SubSeqProperties
<1>6. f = g \o <<f[n]>>
  BY <1>4, SubSeqRecursiveSecond, SubSeqFull
<1>7. Len(g) = n - 1 /\ \A i \in 1..(n - 1) : g[i] = f[i]
  BY <1>1, <1>5
<1>8. f[n] \in S
  BY <1>2, <1>4
<1>. QED BY <1>5, <1>6, <1>7, <1>8 DEF Before

\* And what comes after its first.
LEMMA FirstApart ==
    ASSUME NEW S, NEW f \in Seq(S), NEW n, n = Len(f), n > 0
    PROVE  \E g \in Seq(S) : f = <<f[1]>> \o g /\ Len(g) = n - 1 /\ f[1] \in S /\ \A i \in 1..(n - 1) : g[i] = f[i + 1]
<1>1. n \in Nat
  BY LenProperties
<1>2. \A i \in 1..n : f[i] \in S
  BY ElementOfSeq
<1>3. f # <<>>
  BY EmptySeq
<1>4. PICK g : g = Tail(f)
  OBVIOUS
<1>5. g \in Seq(S) /\ Len(g) = n - 1 /\ f = <<f[1]>> \o g /\ \A i \in 1..Len(g) : g[i] = f[i + 1]
  BY <1>3, <1>4, HeadTailProperties
<1>6. f[1] \in S
  BY <1>1, <1>2
<1>. QED BY <1>5, <1>6

\* The first character of some bytes.
LEMMA DecodedFirst ==
    ASSUME NEW t \in Seq(Letters), Len(t) > 0
    PROVE  Len(Reader!Decoded(t)) # 0 /\ Reader!Decoded(t)[1] \in {t[1], Reader!Wide, Reader!Broken}
<1>1. PICK c : CharAt(t, 1) = <<c>> /\ c \in {t[1], Reader!Wide, Reader!Broken}
  BY DEF CharAt, Reader!Hi, Reader!Lo
<1>2. PICK n, f : n = Len(t) /\ f = CharsOf(t)
  OBVIOUS
<1>3. f \in Seq(Seq(Letters)) /\ Len(f) = n /\ n > 0 /\ n \in Nat /\ \A i \in 1..n : f[i] = CharAt(t, i)
  <2>1. Reader!Wide \in Letters /\ Reader!Broken \in Letters /\ \A i \in 1..Len(t) : t[i] \in Letters
    BY ElementOfSeq DEF Letters
  <2>2. f \in Seq(Seq(Letters)) /\ Len(f) = n
    BY <1>2, <2>1, CharsAre
  <2>. QED BY <1>2, <2>2, LenProperties DEF CharsOf
<1>4. f[1] = <<c>>
  BY <1>1, <1>3
<1>5. PICK v \in Seq(Seq(Letters)) : f = <<f[1]>> \o v /\ f[1] \in Seq(Letters)
  BY ONLY <1>3, FirstApart
<1>6. c \in Letters
  <2>1. t[1] \in Letters
    BY <1>2, <1>3, ElementOfSeq
  <2>. QED BY <1>1, <2>1 DEF Letters
<1>7. PICK u : u = <<f[1]>>
  OBVIOUS
<1>8. u \in Seq(Seq(Letters)) /\ Reader!FlattenSeq(u) = f[1]
  BY <1>5, <1>7, JoinOfOne
<1>9. Reader!FlattenSeq(u \o v) = Reader!FlattenSeq(u) \o Reader!FlattenSeq(v)
  BY ONLY <1>5, <1>8, JoinOfTwo
<1>10. PICK q : q = Reader!FlattenSeq(v) /\ q \in Seq(Letters)
  BY <1>5, JoinIsSeq
<1>11. Reader!Decoded(t) = <<c>> \o q
  BY <1>2, <1>4, <1>5, <1>7, <1>8, <1>9, <1>10, DecodedIs
<1>12. (<<c>> \o q)[1] = c /\ Len(<<c>> \o q) = 1 + Len(q) /\ Len(q) \in Nat
  BY ONLY <1>6, <1>10, OneThen
<1>. QED BY <1>1, <1>11, <1>12

\* Every payload is closed when it has been decoded.
LEMMA PayloadClosed ==
    ASSUME NEW f, Payload(f) PROVE Closed(Reader!Decoded(f), Len(Reader!Decoded(f)))
<1>1. PICK n : n = Len(f)
  OBVIOUS
<1>2. /\ f \in Seq(Letters) /\ n \in Nat /\ n > 0 /\ f[1] # "[DONE]"
      /\ \A i \in 1..n : f[i] # Reader!NL /\ (f[i] = Reader!Brace <=> i = n)
  BY <1>1 DEF Payload
<1>3. n \in 1..n /\ f[n] = Reader!Brace
  BY <1>2
<1>4. PICK g \in Seq(Letters) : f = g \o <<f[n]>> /\ Len(g) = n - 1 /\ \A i \in 1..(n - 1) : g[i] = f[i]
  <2>1. f \in Seq(Letters) /\ n > 0
    BY <1>2
  <2>2. PICK g : g = SubSeq(f, 1, n - 1)
    OBVIOUS
  <2>3. Before(Letters, f, n, g)
    BY ONLY <1>1, <2>1, <2>2, LastApart
  <2>. QED BY <2>3 DEF Before
<1>5. PICK e : e = <<Reader!Brace>>
  OBVIOUS
<1>6. e \in Seq(Letters) /\ e # <<>> /\ e[1] = Reader!Brace /\ Reader!Decoded(e) = e
  <2>1. Reader!Brace \in Letters \ {Reader!Hi, Reader!Lo}
    BY DEF Letters, Reader!Hi, Reader!Lo, Reader!Brace
  <2>. QED BY <1>5, <2>1, DecodedOne
<1>7. Apart(g, e)
  <2>1. e[1] # Reader!Lo
    BY <1>6 DEF Reader!Lo, Reader!Brace
  <2>2. g \in Seq(Letters) /\ e \in Seq(Letters)
    BY <1>4, <1>6
  <2>. QED BY <2>1, <2>2 DEF Apart
<1>8. Reader!Decoded(f) = Reader!Decoded(g) \o e
  <2>1. f = g \o e
    BY <1>3, <1>4, <1>5
  <2>2. Reader!Decoded(g \o e) = Reader!Decoded(g) \o Reader!Decoded(e)
    BY ONLY <1>7, DecodedApart
  <2>. QED BY <1>6, <2>1, <2>2
<1>. DEFINE Inner == Letters \ {Reader!NL, Reader!Brace}
<1>9. Reader!Decoded(g) \in Seq(Inner)
  <2>1. Reader!Wide \in Inner /\ Reader!Broken \in Inner
    BY DEF Letters, Reader!NL, Reader!Wide, Reader!Broken, Reader!Brace
  <2>2. ASSUME NEW i \in 1..(n - 1) PROVE g[i] \in Inner \cup {Reader!Hi, Reader!Lo}
    <3>1. i \in 1..n /\ i # n
      BY <1>2
    <3>2. g[i] = f[i] /\ f[i] # Reader!NL /\ f[i] # Reader!Brace /\ f[i] \in Letters
      BY <1>1, <1>2, <1>4, <3>1, ElementOfSeq
    <3>. QED BY <3>2
  <2>3. \A i \in 1..Len(g) : g[i] \in Inner \cup {Reader!Hi, Reader!Lo}
    BY <1>4, <2>2
  <2>. HIDE DEF Inner
  <2>. QED BY ONLY <1>4, <2>1, <2>3, DecodedAre
<1>10. PICK q, m : q = Reader!Decoded(g) /\ q \in Seq(Inner) /\ m = Len(q)
  BY <1>9
<1>11. /\ q \in Seq(Letters) /\ m \in Nat
       /\ \A i \in 1..m : q[i] # Reader!NL /\ q[i] # Reader!Brace
  <2>1. m \in Nat /\ \A i \in 1..m : q[i] \in Inner
    BY <1>10, ElementOfSeq, LenProperties
  <2>2. q \in Seq(Letters)
    BY <1>10, SeqMonotonic
  <2>. QED BY <2>1, <2>2
<1>12. PICK p : p = q \o <<Reader!Brace>>
  OBVIOUS
<1>13. p \in Seq(Letters) /\ Len(p) = m + 1 /\ p[m + 1] = Reader!Brace /\ \A i \in 1..m : p[i] = q[i]
  <2>1. Reader!Brace \in Letters /\ m = Len(q) /\ q \in Seq(Letters)
    BY <1>10, <1>11 DEF Letters
  <2>. QED BY ONLY <2>1, <1>12, ThenOne
<1>14. Reader!Decoded(f) = p
  BY <1>5, <1>8, <1>10, <1>12
<1>15. p[1] # "[DONE]"
  <2>1. p[1] \in {f[1], Reader!Wide, Reader!Broken}
    BY <1>1, <1>2, <1>14, DecodedFirst
  <2>. QED BY <1>2, <2>1 DEF Reader!Wide, Reader!Broken
<1>16. PICK j : j = m + 1
  OBVIOUS
<1>17. \A i \in 1..j : p[i] # Reader!NL /\ (p[i] = Reader!Brace => i = j)
  BY <1>11, <1>13, <1>16 DEF Reader!NL, Reader!Brace
<1>18. Closed(p, j)
  BY <1>11, <1>13, <1>15, <1>16, <1>17 DEF Closed
<1>. QED BY <1>13, <1>14, <1>16, <1>18

-----------------------------------------------------------------------------
(* The stream: the body and where its frames are *)

\* The frame of p, of n characters, stands in w after o characters.
Framed(p, n, w, o) ==
    /\ w[o + 1] = "data:"
    /\ \A i \in 1..n : w[(o + 1) + i] = p[i]
    /\ w[(o + n) + 2] = Reader!NL /\ w[(o + n) + 3] = Reader!NL

LEMMA Twice == ASSUME NEW c PROVE <<c>> \o <<c>> = <<c, c>>
<1>. DEFINE u == <<c>> \o <<c>>  v == <<c, c>>
<1>1. u \in Seq({c}) /\ Len(u) = 2 /\ u[1] = c /\ u[2] = c
  OBVIOUS
<1>2. v \in Seq({c}) /\ Len(v) = 2 /\ v[1] = c /\ v[2] = c
  OBVIOUS
<1>. HIDE DEF u, v
<1>3. \A i \in 1..2 : u[i] = v[i]
  BY <1>1, <1>2
<1>4. u = v
  BY <1>1, <1>2, <1>3, SeqEqual
<1>. QED BY <1>4 DEF u, v

\* What ends a frame, and its characters.
LEMMA TwoBreaks ==
    /\ <<Reader!NL, Reader!NL>> \in Seq(Letters) /\ Len(<<Reader!NL, Reader!NL>>) = 2
    /\ Reader!Decoded(<<Reader!NL, Reader!NL>>) = <<Reader!NL, Reader!NL>>
<1>1. Reader!NL \in Letters
  BY DEF Letters
<1>2. <<Reader!NL, Reader!NL>> \in Seq(Letters) /\ Len(<<Reader!NL, Reader!NL>>) = 2
  BY <1>1
<1>3. <<Reader!NL>> \o <<Reader!NL>> = <<Reader!NL, Reader!NL>>
  BY Twice
<1>4. PICK e, g : e = <<Reader!NL>> /\ g = <<Reader!NL>>
  OBVIOUS
<1>5. e \in Seq(Letters) /\ g \in Seq(Letters) /\ g[1] = Reader!NL
  BY <1>1, <1>4
<1>6. Reader!Decoded(e) = e /\ Reader!Decoded(g) = g
  BY <1>1, <1>4, DecodedOne DEF Reader!NL, Reader!Hi, Reader!Lo
<1>7. Apart(e, g)
  BY <1>5 DEF Apart, Reader!NL, Reader!Lo
<1>8. Reader!Decoded(e \o g) = Reader!Decoded(e) \o Reader!Decoded(g)
  BY ONLY <1>7, DecodedApart
<1>9. e \o g = <<Reader!NL, Reader!NL>>
  BY <1>3, <1>4
<1>. QED BY <1>2, <1>6, <1>8, <1>9

LEMMA FrameIs ==
    ASSUME NEW p \in Seq(Letters), NEW n, n = Len(p)
    PROVE  /\ Reader!Frame(p) \in Seq(Letters) /\ Len(Reader!Frame(p)) = n + 3 /\ n \in Nat
           /\ Framed(p, n, Reader!Frame(p), 0)
<1>1. "data:" \in Letters /\ Reader!NL \in Letters
  BY DEF Letters
<1>2. PICK u : u = <<"data:">> \o p
  OBVIOUS
<1>3. u \in Seq(Letters) /\ Len(u) = 1 + n /\ n \in Nat /\ u[1] = "data:" /\ \A i \in 1..n : u[1 + i] = p[i]
  BY ONLY <1>1, <1>2, p \in Seq(Letters), n = Len(p), OneThen
<1>4. PICK e : e = <<Reader!NL, Reader!NL>>
  OBVIOUS
<1>5. e \in Seq(Letters) /\ Len(e) = 2 /\ e[1] = Reader!NL /\ e[2] = Reader!NL
  BY <1>1, <1>4
<1>6. PICK w : w = u \o e
  OBVIOUS
<1>7. /\ w \in Seq(Letters) /\ Len(w) = Len(u) + 2
      /\ \A i \in 1..Len(u) : w[i] = u[i]
      /\ \A i \in 1..2 : w[Len(u) + i] = e[i]
  <2>1. u \in Seq(Letters) /\ e \in Seq(Letters)
    BY <1>3, <1>5
  <2>2. /\ u \o e \in Seq(Letters) /\ Len(u \o e) = Len(u) + Len(e)
        /\ \A i \in 1..Len(u) : (u \o e)[i] = u[i]
        /\ \A i \in 1..Len(e) : (u \o e)[Len(u) + i] = e[i]
    BY ONLY <2>1, Concat
  <2>. QED BY <1>5, <1>6, <2>2
<1>8. Len(w) = n + 3 /\ w[1] = "data:"
  BY <1>3, <1>7
<1>9. ASSUME NEW i \in 1..n PROVE w[(0 + 1) + i] = p[i]
  <2>1. 1 + i \in 1..Len(u) /\ (0 + 1) + i = 1 + i
    BY <1>3
  <2>. QED BY <1>3, <1>7, <2>1
<1>10. w[(0 + n) + 2] = Reader!NL /\ w[(0 + n) + 3] = Reader!NL
  <2>1. (0 + n) + 2 = Len(u) + 1 /\ (0 + n) + 3 = Len(u) + 2 /\ 1 \in 1..2 /\ 2 \in 1..2
    BY <1>3
  <2>. QED BY <1>5, <1>7, <2>1
<1>11. w = Reader!Frame(p)
  BY <1>2, <1>4, <1>6 DEF Reader!Frame
<1>12. 0 + 1 = 1
  OBVIOUS
<1>. QED BY <1>3, <1>7, <1>8, <1>9, <1>10, <1>11, <1>12 DEF Framed

\* A frame of bytes is decoded to the frame of their characters.
LEMMA FrameDecoded ==
    ASSUME NEW f \in Seq(Letters) PROVE Reader!Decoded(Reader!Frame(f)) = Reader!Frame(Reader!Decoded(f))
<1>1. PICK d : d = <<"data:">>
  OBVIOUS
<1>2. d \in Seq(Letters) /\ Len(d) = 1 /\ d[1] = "data:" /\ Reader!Decoded(d) = d
  BY <1>1, DecodedOne DEF Letters, Reader!Hi, Reader!Lo
<1>3. Apart(d, f)
  BY <1>2 DEF Apart, Reader!Hi
<1>4. PICK e : e = <<Reader!NL, Reader!NL>>
  OBVIOUS
<1>5. e \in Seq(Letters) /\ e[1] = Reader!NL /\ Reader!Decoded(e) = e
  BY <1>4, TwoBreaks
<1>6. PICK u : u = d \o f
  OBVIOUS
<1>7. u \in Seq(Letters)
  BY ONLY <1>2, <1>6, f \in Seq(Letters), ConcatProperties
<1>8. Apart(u, e)
  BY <1>5, <1>7 DEF Apart, Reader!NL, Reader!Lo
<1>9. Reader!Decoded(u) = d \o Reader!Decoded(f)
  BY <1>2, <1>3, <1>6, DecodedApart
<1>10. Reader!Decoded(u \o e) = Reader!Decoded(u) \o e
  BY <1>5, <1>8, DecodedApart
<1>. QED BY <1>1, <1>4, <1>6, <1>9, <1>10 DEF Reader!Frame

\* A text w that is u, of m characters, and the frame of p, of n.
Longer(u, m, p, n, w) ==
    u \in Seq(Letters) /\ p \in Seq(Letters) /\ m = Len(u) /\ n = Len(p) /\ w = u \o Reader!Frame(p)

LEMMA AddFrame ==
    ASSUME NEW u, NEW p, NEW m, NEW n, NEW w, Longer(u, m, p, n, w)
    PROVE  /\ w \in Seq(Letters) /\ Len(w) = m + (n + 3) /\ m \in Nat /\ n \in Nat
           /\ Framed(p, n, w, m) /\ \A i \in 1..m : w[i] = u[i]
<1>1. PICK f : f = Reader!Frame(p)
  OBVIOUS
<1>2. f \in Seq(Letters) /\ Len(f) = n + 3 /\ n \in Nat /\ Framed(p, n, f, 0)
  BY <1>1, FrameIs DEF Longer
<1>3. /\ w \in Seq(Letters) /\ Len(w) = m + Len(f) /\ m \in Nat
      /\ \A i \in 1..m : w[i] = u[i]
      /\ \A i \in 1..Len(f) : w[m + i] = f[i]
  <2>1. u \in Seq(Letters) /\ f \in Seq(Letters) /\ w = u \o f /\ m = Len(u)
    BY <1>1, <1>2 DEF Longer
  <2>. QED BY ONLY <2>1, Concat
<1>4. \A i \in 1..(n + 3) : w[m + i] = f[i]
  BY <1>2, <1>3
<1>5. f[1] = "data:" /\ f[n + 2] = Reader!NL /\ f[n + 3] = Reader!NL
  <2>1. 0 + 1 = 1 /\ (0 + n) + 2 = n + 2 /\ (0 + n) + 3 = n + 3
    BY <1>2
  <2>. QED BY <1>2, <2>1 DEF Framed
<1>6. \A i \in 1..n : f[1 + i] = p[i]
  <2>1. \A i \in 1..n : (0 + 1) + i = 1 + i
    BY <1>2
  <2>. QED BY <1>2, <2>1 DEF Framed
<1>7. w[m + 1] = "data:"
  <2>1. 1 \in 1..(n + 3)
    BY <1>2
  <2>. QED BY <1>4, <1>5, <2>1
<1>8. ASSUME NEW i \in 1..n PROVE w[(m + 1) + i] = p[i]
  <2>1. 1 + i \in 1..(n + 3) /\ (m + 1) + i = m + (1 + i)
    BY <1>2, <1>3
  <2>. QED BY <1>4, <1>6, <2>1
<1>9. w[(m + n) + 2] = Reader!NL /\ w[(m + n) + 3] = Reader!NL
  <2>1. n + 2 \in 1..(n + 3) /\ n + 3 \in 1..(n + 3) /\ (m + n) + 2 = m + (n + 2) /\ (m + n) + 3 = m + (n + 3)
    BY <1>2, <1>3
  <2>. QED BY <1>4, <1>5, <2>1
<1>. QED BY <1>2, <1>3, <1>7, <1>8, <1>9 DEF Framed

\* A frame stays where it is when a text grows.
LEMMA StillFramed ==
    ASSUME NEW p, NEW n \in Nat, NEW u, NEW w, NEW o \in Nat, NEW m \in Nat, (o + n) + 3 <= m,
           \A i \in 1..m : w[i] = u[i], Framed(p, n, u, o)
    PROVE  Framed(p, n, w, o)
<1>1. o + 1 \in 1..m /\ (o + n) + 2 \in 1..m /\ (o + n) + 3 \in 1..m /\ \A i \in 1..n : (o + 1) + i \in 1..m
  OBVIOUS
<1>. QED BY <1>1 DEF Framed

Whole(k) == Reader!Decoded(Frames[k])

\* The text w has the frames of the payloads one after the other, after off[0],
\* off[1], ... characters, and then that of [DONE].
Spells(w, off, n) ==
    /\ w \in Seq(Letters) /\ off \in [0..n -> Nat] /\ off[0] = 0
    /\ \A k \in 1..n : Framed(Whole(k), Len(Whole(k)), w, off[k - 1]) /\ off[k] = (off[k - 1] + Len(Whole(k))) + 3
    /\ Framed(Reader!Done, 1, w, off[n]) /\ Len(w) = off[n] + 4

LEMMA BodySpelled == Reader!SseAssumption => \E off : Spells(Reader!Decoded(Reader!Body), off, Len(Frames))
<1>. SUFFICES ASSUME Reader!SseAssumption PROVE \E off : Spells(Reader!Decoded(Reader!Body), off, Len(Frames))
  OBVIOUS
<1>1. PICK n, F : n = Len(Frames) /\ F = [i \in DOMAIN Frames |-> Reader!Frame(Frames[i])]
  OBVIOUS
<1>2. n \in Nat /\ DOMAIN Frames = 1..n /\ \A k \in 1..n : Payload(Frames[k]) /\ Frames[k] \in Seq(Letters)
  BY <1>1, PayloadsAre DEF Payload
<1>3. \A k \in 1..n : F[k] = Reader!Frame(Frames[k]) /\ F[k] \in Seq(Letters)
  BY <1>1, <1>2, FrameIs
<1>4. F \in Seq(Seq(Letters)) /\ Len(F) = n
  <2>1. F \in [1..n -> Seq(Letters)]
    BY <1>1, <1>2, <1>3
  <2>. QED BY <1>2, <2>1
<1>5. PICK pre \in [0..n -> Seq(Letters)] :
        /\ pre[0] = <<>> /\ pre[n] = Reader!FlattenSeq(F)
        /\ \A i \in 1..n : pre[i] = pre[i - 1] \o F[i]
  BY <1>4, Joints
<1>6. PICK w : w = [i \in 0..n |-> Reader!Decoded(pre[i])]
  OBVIOUS
<1>7. \A i \in 0..n : w[i] = Reader!Decoded(pre[i]) /\ w[i] \in Seq(Letters) /\ pre[i] \in Seq(Letters)
  BY <1>5, <1>6, DecodedType
<1>8. PICK off : off = [i \in 0..n |-> Len(w[i])]
  OBVIOUS
<1>9. off \in [0..n -> Nat] /\ \A i \in 0..n : off[i] = Len(w[i]) /\ off[i] \in Nat
  BY <1>7, <1>8, LenProperties
<1>10. ASSUME NEW f \in Seq(Letters), NEW a \in Seq(Letters)
       PROVE  Reader!Decoded(a \o Reader!Frame(f)) = Reader!Decoded(a) \o Reader!Frame(Reader!Decoded(f))
  <2>1. PICK b : b = Reader!Frame(f)
    OBVIOUS
  <2>2. b \in Seq(Letters) /\ b[1] = "data:"
    <3>1. b \in Seq(Letters) /\ Framed(f, Len(f), b, 0) /\ 0 + 1 = 1
      BY <2>1, FrameIs
    <3>. QED BY <3>1 DEF Framed
  <2>3. Apart(a, b)
    BY <2>2 DEF Apart, Reader!Lo
  <2>. QED BY <2>1, <2>3, DecodedApart, FrameDecoded
<1>11. \A k \in 1..n : Whole(k) \in Seq(Letters) /\ Len(Whole(k)) \in Nat
  BY <1>2, DecodedType, LenProperties DEF Whole
<1>12. ASSUME NEW k \in 1..n
       PROVE  /\ Framed(Whole(k), Len(Whole(k)), w[k], off[k - 1]) /\ off[k] = (off[k - 1] + Len(Whole(k))) + 3
              /\ \A i \in 1..off[k - 1] : w[k][i] = w[k - 1][i]
  <2>1. k \in 0..n /\ k - 1 \in 0..n
    BY <1>2
  <2>2. PICK a, x, s, m, l : a = pre[k - 1] /\ x = w[k - 1] /\ s = Whole(k) /\ m = off[k - 1] /\ l = Len(s)
    OBVIOUS
  <2>3. a \in Seq(Letters) /\ x = Reader!Decoded(a) /\ x \in Seq(Letters) /\ m = Len(x) /\ m \in Nat
    BY <1>7, <1>9, <2>1, <2>2
  <2>4. s \in Seq(Letters) /\ l \in Nat
    BY <1>11, <2>2
  <2>5. w[k] = x \o Reader!Frame(s)
    <3>1. w[k] = Reader!Decoded(a \o Reader!Frame(Frames[k]))
      BY <1>3, <1>5, <1>7, <2>1, <2>2
    <3>2. Reader!Decoded(a \o Reader!Frame(Frames[k])) = Reader!Decoded(a) \o Reader!Frame(Reader!Decoded(Frames[k]))
      BY <1>2, <1>10, <2>3
    <3>. QED BY <2>2, <2>3, <3>1, <3>2 DEF Whole
  <2>6. PICK y : y = w[k]
    OBVIOUS
  <2>7. /\ Len(y) = m + (l + 3) /\ Framed(s, l, y, m) /\ \A i \in 1..m : y[i] = x[i]
    <3>1. Longer(x, m, s, l, y)
      BY <2>2, <2>3, <2>4, <2>5, <2>6 DEF Longer
    <3>. QED BY ONLY <3>1, AddFrame
  <2>8. m + (l + 3) = (m + l) + 3
    BY <2>3, <2>4
  <2>9. off[k] = Len(y)
    BY <1>9, <2>1, <2>6
  <2>. QED BY <2>2, <2>6, <2>7, <2>8, <2>9
<1>. DEFINE Good == {i \in 0..n : \A k \in 1..i : /\ Framed(Whole(k), Len(Whole(k)), w[i], off[k - 1])
                                                  /\ off[k] <= off[i]}
<1>13. 0 \in Good
  BY <1>2
<1>14. ASSUME NEW i \in 0..(n - 1), i \in Good PROVE i + 1 \in Good
  <2>1. PICK j : j = i + 1
    OBVIOUS
  <2>2. j \in 1..n /\ j \in 0..n /\ j - 1 = i /\ i \in 0..n /\ i \in Nat
    BY <1>2, <2>1
  <2>3. off[i] \in Nat /\ off[j] \in Nat /\ off[i] <= off[j] /\ \A x \in 1..off[i] : w[j][x] = w[i][x]
    <3>1. PICK a, b, l : a = off[i] /\ b = off[j] /\ l = Len(Whole(j))
      OBVIOUS
    <3>2. a \in Nat /\ b = (a + l) + 3 /\ l \in Nat
      BY <1>9, <1>11, <1>12, <2>2, <3>1
    <3>3. b \in Nat /\ a <= b
      BY <3>2
    <3>. QED BY <1>12, <2>2, <3>1, <3>2, <3>3
  <2>4. ASSUME NEW k \in 1..j PROVE Framed(Whole(k), Len(Whole(k)), w[j], off[k - 1]) /\ off[k] <= off[j]
    <3>1. CASE k = j
      BY <1>12, <2>2, <2>3, <3>1
    <3>2. CASE k # j
      <4>1. k \in 1..i /\ k \in 1..n /\ k \in 0..n /\ k - 1 \in 0..n
        BY <1>2, <2>1, <2>2, <3>2
      <4>2. Framed(Whole(k), Len(Whole(k)), w[i], off[k - 1]) /\ off[k] <= off[i]
        BY <1>14, <4>1
      <4>3. PICK s, l, o, z : s = Whole(k) /\ l = Len(s) /\ o = off[k - 1] /\ z = off[k]
        OBVIOUS
      <4>4. l \in Nat /\ o \in Nat /\ z = (o + l) + 3 /\ z \in Nat
        BY <1>9, <1>11, <1>12, <4>1, <4>3
      <4>5. (o + l) + 3 <= off[i]
        BY <4>2, <4>3, <4>4
      <4>6. Framed(s, l, w[j], o)
        <5>1. Framed(s, l, w[i], o)
          BY <4>2, <4>3
        <5>. QED BY <2>3, <4>4, <4>5, <5>1, StillFramed
      <4>7. off[k] <= off[j]
        BY <2>3, <4>2, <4>3, <4>4
      <4>. QED BY <4>3, <4>6, <4>7
    <3>. QED BY <3>1, <3>2
  <2>. QED BY <2>1, <2>2, <2>4
<1>. HIDE DEF Good
<1>15. n \in Good
  BY <1>2, <1>13, <1>14, Induct
<1>16. PICK W : W = Reader!Decoded(Reader!Body)
  OBVIOUS
<1>17. n \in 0..n /\ 0 \in 0..n
  BY <1>2
<1>18. Reader!Done \in Seq(Letters) /\ Len(Reader!Done) = 1 /\ Reader!Decoded(Reader!Done) = Reader!Done
  BY DecodedOne DEF Letters, Reader!Done, Reader!Hi, Reader!Lo
<1>19. W = w[n] \o Reader!Frame(Reader!Done)
  <2>1. Reader!Body = pre[n] \o Reader!Frame(Reader!Done)
    BY <1>1, <1>5 DEF Reader!Body
  <2>2. pre[n] \in Seq(Letters) /\ w[n] = Reader!Decoded(pre[n])
    BY <1>7, <1>17
  <2>. QED BY <1>10, <1>16, <1>18, <2>1, <2>2
<1>20. W \in Seq(Letters) /\ Len(W) = off[n] + 4 /\ Framed(Reader!Done, 1, W, off[n]) /\ \A i \in 1..off[n] : W[i] = w[n][i]
  <2>1. PICK m, x, d : m = off[n] /\ x = w[n] /\ d = Reader!Done
    OBVIOUS
  <2>2. Longer(x, m, d, 1, W)
    BY <1>7, <1>9, <1>17, <1>18, <1>19, <2>1 DEF Longer
  <2>3. W \in Seq(Letters) /\ Len(W) = m + (1 + 3) /\ Framed(d, 1, W, m) /\ \A i \in 1..m : W[i] = x[i]
    BY ONLY <2>2, AddFrame
  <2>4. 1 + 3 = 4
    OBVIOUS
  <2>. QED BY <2>1, <2>3, <2>4
<1>21. ASSUME NEW k \in 1..n
       PROVE  Framed(Whole(k), Len(Whole(k)), W, off[k - 1]) /\ off[k] = (off[k - 1] + Len(Whole(k))) + 3
  <2>1. Framed(Whole(k), Len(Whole(k)), w[n], off[k - 1]) /\ off[k] <= off[n]
    BY <1>15 DEF Good
  <2>2. off[k] = (off[k - 1] + Len(Whole(k))) + 3
    BY <1>12
  <2>3. off[n] \in Nat /\ off[k - 1] \in Nat /\ Len(Whole(k)) \in Nat
    <3>1. k - 1 \in 0..n
      BY <1>2
    <3>. QED BY <1>9, <1>11, <1>17, <3>1
  <2>. QED BY <1>20, <2>1, <2>2, <2>3, StillFramed
<1>22. off[0] = 0
  <2>1. w[0] = <<>>
    BY <1>5, <1>7, <1>17, DecodedNone
  <2>2. off[0] = Len(w[0])
    BY <1>9, <1>17
  <2>. QED BY <2>1, <2>2, EmptySeq
<1>23. Spells(W, off, n)
  BY <1>9, <1>20, <1>21, <1>22 DEF Spells
<1>. QED BY <1>1, <1>16, <1>23

-----------------------------------------------------------------------------
(* The stream: frames leave the buffer *)

Breaks(b) == {i \in 1..(Len(b) - 1) : b[i] = Reader!NL /\ b[i + 1] = Reader!NL}

Smallest(m, S) == m \in S /\ \A i \in S : m <= i

LEMMA MinIs == ASSUME NEW S \in SUBSET Int, NEW m, Smallest(m, S) PROVE Reader!Min(S) = m
<1>1. \A x \in S : (\A i \in S : x <= i) => x = m
  BY DEF Smallest
<1>. QED BY <1>1 DEF Reader!Min, Smallest

\* The first m characters of a text, and the others.
LEMMA Cut ==
    ASSUME NEW S, NEW b \in Seq(S), NEW m \in 0..Len(b)
    PROVE  /\ SubSeq(b, 1, m) \in Seq(S) /\ Len(SubSeq(b, 1, m)) = m
           /\ \A i \in 1..m : SubSeq(b, 1, m)[i] = b[i]
           /\ SubSeq(b, m + 1, Len(b)) \in Seq(S) /\ Len(SubSeq(b, m + 1, Len(b))) = Len(b) - m
           /\ \A i \in 1..(Len(b) - m) : SubSeq(b, m + 1, Len(b))[i] = b[m + i]
<1>1. PICK n : n = Len(b)
  OBVIOUS
<1>2. n \in Nat /\ m \in Nat /\ m <= n /\ \A i \in 1..n : b[i] \in S
  BY <1>1, ElementOfSeq, LenProperties
<1>3. PICK u : u = SubSeq(b, 1, m)
  OBVIOUS
<1>4. /\ u \in Seq(S) /\ Len(u) = (IF 1 <= m THEN m - 1 + 1 ELSE 0)
      /\ \A i \in 1..(m - 1 + 1) : u[i] = b[1 + i - 1]
  <2>1. 1 \in Int /\ m \in Int /\ \A i \in 1..m : b[i] \in S
    BY <1>2
  <2>. QED BY <1>3, <2>1, SubSeqProperties
<1>5. Len(u) = m /\ \A i \in 1..m : u[i] = b[i]
  BY <1>2, <1>4
<1>6. PICK v, k : v = SubSeq(b, m + 1, n) /\ k = m + 1
  OBVIOUS
<1>7. /\ v \in Seq(S) /\ Len(v) = (IF k <= n THEN n - k + 1 ELSE 0)
      /\ \A i \in 1..(n - k + 1) : v[i] = b[k + i - 1]
  <2>1. k \in Int /\ n \in Int /\ \A i \in k..n : b[i] \in S
    BY <1>2, <1>6
  <2>. QED BY <1>6, <2>1, SubSeqProperties
<1>8. Len(v) = n - m
  BY <1>2, <1>6, <1>7
<1>9. ASSUME NEW i \in 1..(n - m) PROVE v[i] = b[m + i]
  <2>1. i \in 1..(n - k + 1) /\ k + i - 1 = m + i
    BY <1>2, <1>6
  <2>. QED BY <1>7, <2>1
<1>. QED BY <1>1, <1>3, <1>4, <1>5, <1>6, <1>7, <1>8, <1>9

\* They are the whole.
LEMMA CutRejoins ==
    ASSUME NEW S, NEW b \in Seq(S), NEW m \in 0..Len(b), NEW u, NEW v,
           u = SubSeq(b, 1, m), v = SubSeq(b, m + 1, Len(b))
    PROVE  b = u \o v
<1>1. u \in Seq(S) /\ Len(u) = m /\ (\A i \in 1..m : u[i] = b[i])
  BY Cut
<1>2. PICK n, k : n = Len(b) /\ k = Len(v)
  OBVIOUS
<1>3. v \in Seq(S) /\ k = n - m /\ \A i \in 1..(n - m) : v[i] = b[m + i]
  BY <1>2, Cut
<1>4. n \in Nat /\ m \in Nat /\ m + k = n
  BY <1>2, <1>3, LenProperties
<1>5. PICK w : w = u \o v
  OBVIOUS
<1>6. w \in Seq(S) /\ Len(w) = m + k /\ (\A i \in 1..m : w[i] = u[i]) /\ \A i \in 1..k : w[m + i] = v[i]
  <2>0. u \in Seq(S) /\ v \in Seq(S)
    BY <1>1, <1>3
  <2>1. /\ w \in Seq(S) /\ Len(w) = Len(u) + Len(v) /\ (\A i \in 1..Len(u) : w[i] = u[i])
        /\ \A i \in 1..Len(v) : w[Len(u) + i] = v[i]
    BY ONLY <1>5, <2>0, Concat
  <2>. QED BY <1>1, <1>2, <2>1
<1>7. ASSUME NEW i \in 1..n PROVE b[i] = w[i]
  <2>1. CASE i <= m
    <3>1. i \in 1..m
      BY <1>4, <2>1
    <3>. QED BY <1>1, <1>6, <3>1
  <2>2. CASE ~(i <= m)
    <3>1. PICK j : j = i - m
      OBVIOUS
    <3>2. j \in 1..k /\ j \in 1..(n - m) /\ i = m + j
      BY <1>3, <1>4, <2>2, <3>1
    <3>. QED BY <1>3, <1>6, <3>2
  <2>. QED BY <2>1, <2>2
<1>8. Len(w) = Len(b)
  BY <1>2, <1>4, <1>6
<1>9. \A i \in 1..Len(b) : b[i] = w[i]
  BY <1>2, <1>7
<1>10. b = w
  BY ONLY <1>6, <1>8, <1>9, b \in Seq(S), SeqEqual
<1>. QED BY <1>5, <1>10

\* A text without line breaks at its ends, or none at all, stays as it is.
LEMMA TrimmedKeeps ==
    ASSUME NEW u \in Seq(Letters), NEW n, n = Len(u), n > 0 => u[1] # Reader!NL /\ u[n] # Reader!NL
    PROVE  Reader!Trimmed(u) = u
<1>. DEFINE inner == {i \in DOMAIN u : u[i] # Reader!NL}
<1>1. n \in Nat /\ DOMAIN u = 1..n
  BY LenProperties
<1>2. CASE n = 0
  <2>1. u = <<>>
    BY <1>2, EmptySeq
  <2>2. inner = {}
    BY <1>1, <1>2
  <2>. QED BY <2>1, <2>2 DEF Reader!Trimmed
<1>3. CASE n # 0
  <2>1. 1 \in inner /\ n \in inner /\ inner \in SUBSET Int /\ \A i \in inner : 1 <= i /\ i <= n
    BY <1>1, <1>3
  <2>. HIDE DEF inner
  <2>2. Reader!Min(inner) = 1
    BY <2>1, MinIs DEF Smallest
  <2>3. Reader!Max(inner) = n
    <3>1. n \in inner /\ (\A y \in inner : n >= y) /\ \A x \in inner : (\A y \in inner : x >= y) => x = n
      BY <2>1
    <3>. QED BY <3>1 DEF Reader!Max
  <2>4. inner # {}
    BY <2>1
  <2>5. SubSeq(u, 1, n) = u
    BY SubSeqFull
  <2>6. Reader!Trimmed(u) = SubSeq(u, Reader!Min(inner), Reader!Max(inner))
    BY <2>4 DEF Reader!Trimmed, inner
  <2>. QED BY <2>2, <2>3, <2>5, <2>6
<1>. QED BY <1>2, <1>3

Text == Reader!Decoded(Reader!Body)

\* A payload p of l characters in its frame, o characters into the text; or [DONE].
Piece(p, l, o) ==
    /\ p \in Seq(Letters) /\ Len(p) = l /\ l \in Nat /\ l > 0
    /\ Framed(p, l, Text, o)
    /\ o \in Nat /\ Len(Text) \in Nat /\ (o + l) + 3 <= Len(Text)
    /\ \A i \in 1..l : p[i] # Reader!NL /\ (p[i] = Reader!Brace => i = l)
    /\ (p = Reader!Done /\ l = 1) \/ (p[1] # "[DONE]" /\ p[l] = Reader!Brace)

\* The buffer b begins as the text after o characters does, for t of them.
Agrees(b, o, t) == t \in Nat /\ t <= Len(b) /\ o + t <= Len(Text) /\ \A i \in 1..t : b[i] = Text[o + i]

\* What there is of the frame of a piece in the buffer.
LEMMA InFrame ==
    ASSUME NEW p, NEW l, NEW o, Piece(p, l, o), NEW b, NEW t, Agrees(b, o, t)
    PROVE  /\ t > 0 => b[1] = "data:"
           /\ \A i \in 1..l : 1 + i <= t => b[1 + i] = p[i]
           /\ l + 2 <= t => b[l + 2] = Reader!NL
           /\ l + 3 <= t => b[l + 3] = Reader!NL
           /\ \A i \in 1..(l + 1) : i <= t => b[i] # Reader!NL
<1>1. l \in Nat /\ o \in Nat /\ t \in Nat /\ \A i \in 1..t : b[i] = Text[o + i]
  BY DEF Piece, Agrees
<1>2. /\ Text[o + 1] = "data:" /\ \A i \in 1..l : Text[(o + 1) + i] = p[i]
      /\ Text[(o + l) + 2] = Reader!NL /\ Text[(o + l) + 3] = Reader!NL
  BY DEF Piece, Framed
<1>3. t > 0 => b[1] = "data:"
  BY <1>1, <1>2
<1>4. ASSUME NEW i \in 1..l, 1 + i <= t PROVE b[1 + i] = p[i]
  <2>1. 1 + i \in 1..t /\ o + (1 + i) = (o + 1) + i
    BY <1>1, <1>4
  <2>. QED BY <1>1, <1>2, <2>1
<1>5. l + 2 <= t => b[l + 2] = Reader!NL
  <2>1. l + 2 <= t => l + 2 \in 1..t /\ o + (l + 2) = (o + l) + 2
    BY <1>1
  <2>. QED BY <1>1, <1>2, <2>1
<1>6. l + 3 <= t => b[l + 3] = Reader!NL
  <2>1. l + 3 <= t => l + 3 \in 1..t /\ o + (l + 3) = (o + l) + 3
    BY <1>1
  <2>. QED BY <1>1, <1>2, <2>1
<1>7. ASSUME NEW i \in 1..(l + 1), i <= t PROVE b[i] # Reader!NL
  <2>1. CASE i = 1
    <3>1. "data:" # Reader!NL
      BY DEF Reader!NL
    <3>. QED BY <1>1, <1>3, <1>7, <2>1, <3>1
  <2>2. CASE i # 1
    <3>1. PICK j : j = i - 1
      OBVIOUS
    <3>2. j \in 1..l /\ i = 1 + j
      BY <1>1, <2>2, <3>1
    <3>3. p[j] # Reader!NL
      BY <3>2 DEF Piece
    <3>. QED BY <1>4, <1>7, <3>2, <3>3
  <2>. QED BY <2>1, <2>2
<1>. QED BY <1>3, <1>4, <1>5, <1>6, <1>7

\* The first break of a text: what drainFrames takes out, and what it leaves.
FirstBreak(b, m) ==
    /\ m \in Nat /\ m > 0 /\ m + 1 <= Len(b) /\ b[m] = Reader!NL /\ b[m + 1] = Reader!NL
    /\ \A i \in 1..(m - 1) : ~(b[i] = Reader!NL /\ b[i + 1] = Reader!NL)

LEMMA FirstFound ==
    ASSUME NEW b \in Seq(Letters), NEW m, FirstBreak(b, m)
    PROVE  Reader!Min(Breaks(b)) = m /\ Breaks(b) # {}
<1>1. Len(b) \in Nat /\ m \in Nat /\ m > 0 /\ m + 1 <= Len(b)
  BY LenProperties DEF FirstBreak
<1>2. m \in Breaks(b)
  BY <1>1 DEF Breaks, FirstBreak
<1>3. ASSUME NEW i \in Breaks(b) PROVE m <= i /\ i \in Int
  <2>1. i \in 1..(Len(b) - 1) /\ b[i] = Reader!NL /\ b[i + 1] = Reader!NL
    BY DEF Breaks
  <2>2. i \in Nat /\ i >= 1
    BY <1>1, <2>1
  <2>3. i \notin 1..(m - 1)
    BY <2>1 DEF FirstBreak
  <2>. QED BY <1>1, <2>2, <2>3
<1>4. Breaks(b) \in SUBSET Int /\ Smallest(m, Breaks(b))
  BY <1>2, <1>3 DEF Smallest
<1>. QED BY <1>2, <1>4, MinIs

\* A text of "data:" and p.
Carries(q, p, l) == q \in Seq(Letters) /\ Len(q) = 1 + l /\ q[1] = "data:" /\ \A i \in 1..l : q[1 + i] = p[i]

LEMMA Carried ==
    ASSUME NEW q, NEW p \in Seq(Letters), NEW l \in Nat, Len(p) = l, Carries(q, p, l)
    PROVE  q # <<>> /\ Tail(q) = p
<1>1. PICK n : n = 1 + l
  OBVIOUS
<1>2. q \in Seq(Letters) /\ Len(q) = n /\ n > 0 /\ n - 1 = l
  BY <1>1 DEF Carries
<1>3. q # <<>>
  BY <1>2, EmptySeq
<1>4. PICK g : g = Tail(q)
  OBVIOUS
<1>5. g \in Seq(Letters) /\ Len(g) = Len(q) - 1 /\ \A i \in 1..Len(g) : g[i] = q[i + 1]
  BY <1>2, <1>3, <1>4, HeadTailProperties
<1>6. Len(g) = l
  BY <1>2, <1>5
<1>7. ASSUME NEW i \in 1..l PROVE g[i] = p[i]
  <2>1. i + 1 = 1 + i
    OBVIOUS
  <2>. QED BY <1>5, <1>6, <2>1 DEF Carries
<1>8. g = p
  BY <1>5, <1>6, <1>7, SeqEqual
<1>. QED BY <1>3, <1>4, <1>8

\* The texts b and then r are the text after o characters.
Remains(b, r, o) ==
    /\ b \in Seq(Letters) /\ r \in Seq(Letters) /\ (o + Len(b)) + Len(r) = Len(Text)
    /\ \A i \in 1..Len(b) : b[i] = Text[o + i]
    /\ \A i \in 1..Len(r) : r[i] = Text[(o + Len(b)) + i]

\* While the body is read, the first break is that of the whole frame.
LEMMA FrameLeaves ==
    ASSUME NEW p, NEW l, NEW o, Piece(p, l, o), NEW b, NEW r, Remains(b, r, o), Breaks(b) # {}
    PROVE  \E m : /\ FirstBreak(b, m) /\ Carries(SubSeq(b, 1, m - 1), p, l)
                  /\ Remains(SubSeq(b, m + 2, Len(b)), r, (o + l) + 3)
<1>1. PICK n : n = Len(b)
  OBVIOUS
<1>2. /\ b \in Seq(Letters) /\ r \in Seq(Letters) /\ n \in Nat /\ Len(r) \in Nat /\ (o + n) + Len(r) = Len(Text)
      /\ \A i \in 1..n : b[i] = Text[o + i]
      /\ \A i \in 1..Len(r) : r[i] = Text[(o + n) + i]
  BY <1>1, LenProperties DEF Remains
<1>3. l \in Nat /\ l > 0 /\ o \in Nat /\ (o + l) + 3 <= Len(Text) /\ Len(Text) \in Nat
  BY DEF Piece
<1>4. Agrees(b, o, n)
  BY <1>1, <1>2, <1>3 DEF Agrees
<1>5. /\ n > 0 => b[1] = "data:"
      /\ \A i \in 1..l : 1 + i <= n => b[1 + i] = p[i]
      /\ l + 2 <= n => b[l + 2] = Reader!NL
      /\ l + 3 <= n => b[l + 3] = Reader!NL
      /\ \A i \in 1..(l + 1) : i <= n => b[i] # Reader!NL
  BY <1>4, InFrame
<1>6. l + 3 <= n
  <2>1. PICK i \in Breaks(b) : TRUE
    OBVIOUS
  <2>2. i \in 1..(n - 1) /\ b[i] = Reader!NL
    BY <1>1, <2>1 DEF Breaks
  <2>3. i \notin 1..(l + 1)
    BY <1>2, <1>5, <2>2
  <2>. QED BY <1>2, <1>3, <2>2, <2>3
<1>7. PICK m : m = l + 2
  OBVIOUS
<1>8. l \in Nat /\ n \in Nat /\ o \in Nat /\ l > 0 /\ l + 3 <= n /\ m = l + 2
  BY <1>2, <1>3, <1>6, <1>7
<1>9. FirstBreak(b, m)
  <2>1. m \in Nat /\ m > 0 /\ m + 1 <= n /\ m + 1 = l + 3 /\ \A i \in 1..(m - 1) : i \in 1..(l + 1) /\ i <= n
    BY ONLY <1>8
  <2>. QED BY <1>1, <1>5, <1>8, <2>1 DEF FirstBreak
<1>10. Carries(SubSeq(b, 1, m - 1), p, l)
  <2>1. PICK q, j : q = SubSeq(b, 1, m - 1) /\ j = m - 1
    OBVIOUS
  <2>2. j = m - 1
    BY <2>1
  <2>3. j \in 0..n /\ j = 1 + l /\ 1 \in 1..j /\ \A i \in 1..l : 1 + i \in 1..j /\ 1 + i <= n
    BY ONLY <1>8, <2>2
  <2>4. q \in Seq(Letters) /\ Len(q) = j /\ \A i \in 1..j : q[i] = b[i]
    BY <1>1, <1>2, <2>1, <2>3, Cut
  <2>5. q[1] = "data:" /\ \A i \in 1..l : q[1 + i] = p[i]
    BY <1>5, <1>8, <2>3, <2>4
  <2>. QED BY <2>1, <2>3, <2>4, <2>5 DEF Carries
<1>11. Remains(SubSeq(b, m + 2, n), r, (o + l) + 3)
  <2>1. PICK v, j, w : v = SubSeq(b, j + 1, n) /\ j = l + 3 /\ w = (o + l) + 3
    OBVIOUS
  <2>2. j = l + 3 /\ w = (o + l) + 3
    BY <2>1
  <2>3. j \in 0..n /\ m + 2 = j + 1 /\ j \in Nat /\ w = o + j /\ w \in Nat
    BY ONLY <1>8, <2>2
  <2>4. v \in Seq(Letters) /\ Len(v) = n - j /\ \A i \in 1..(n - j) : v[i] = b[j + i]
    <3>1. b \in Seq(Letters) /\ n = Len(b) /\ j \in 0..n /\ v = SubSeq(b, j + 1, n)
      BY <1>1, <1>2, <2>1, <2>3
    <3>. QED BY ONLY <3>1, Cut
  <2>5. w + Len(v) = o + n
    BY <1>2, <1>3, <2>3, <2>4
  <2>6. ASSUME NEW i \in 1..(n - j) PROVE v[i] = Text[w + i]
    <3>1. j + i \in 1..n /\ o + (j + i) = w + i
      BY <1>2, <1>3, <2>3
    <3>. QED BY <1>2, <2>4, <3>1
  <2>7. Remains(v, r, w)
    BY <1>2, <2>4, <2>5, <2>6 DEF Remains
  <2>. QED BY <2>1, <2>3, <2>7
<1>. QED BY <1>1, <1>9, <1>10, <1>11

\* What the end of a body leaves in the buffer: some of the text, perhaps half a
\* character, and a boundary.
Torn(b, o) ==
    /\ b \in Seq(Letters)
    /\ \E t : /\ Agrees(b, o, t) /\ \A i \in 1..(t - 1) : ~(b[i] = Reader!NL /\ b[i + 1] = Reader!NL)
              /\ Len(b) = t + 2 \/ (Len(b) = t + 3 /\ b[t + 1] = Reader!Broken)
              /\ b[Len(b) - 1] = Reader!NL /\ b[Len(b)] = Reader!NL

Few(b) == b \in Seq(Letters) /\ Len(b) <= 1

\* A frame that is not to be delivered, and does not end the read.
Skipped(q) == q = <<>> \/ q[1] # "data:" \/ (~Reader!Parses(Tail(q)) /\ Tail(q) # Reader!Done)

\* Then what leaves is the whole frame or nothing to be delivered, and that is all.
LEMMA RemnantLeaves ==
    ASSUME NEW p, NEW l, NEW o, Piece(p, l, o), NEW b, Torn(b, o)
    PROVE  \E m : /\ FirstBreak(b, m) /\ Reader!Trimmed(SubSeq(b, 1, m - 1)) = SubSeq(b, 1, m - 1)
                  /\ Carries(SubSeq(b, 1, m - 1), p, l) \/ Skipped(SubSeq(b, 1, m - 1))
                  /\ Few(SubSeq(b, m + 2, Len(b)))
<1>1. PICK n : n = Len(b)
  OBVIOUS
<1>2. PICK t : /\ Agrees(b, o, t) /\ \A i \in 1..(t - 1) : ~(b[i] = Reader!NL /\ b[i + 1] = Reader!NL)
               /\ n = t + 2 \/ (n = t + 3 /\ b[t + 1] = Reader!Broken)
               /\ b[n - 1] = Reader!NL /\ b[n] = Reader!NL
  BY <1>1 DEF Torn
<1>3. b \in Seq(Letters) /\ n \in Nat /\ t \in Nat
  BY <1>1, <1>2, LenProperties DEF Torn, Agrees
<1>4. /\ l \in Nat /\ l > 0 /\ p \in Seq(Letters) /\ Len(p) = l
      /\ \A i \in 1..l : p[i] # Reader!NL /\ (p[i] = Reader!Brace => i = l)
      /\ (p = Reader!Done /\ l = 1) \/ (p[1] # "[DONE]" /\ p[l] = Reader!Brace)
  BY DEF Piece
<1>5. /\ t > 0 => b[1] = "data:"
      /\ \A i \in 1..l : 1 + i <= t => b[1 + i] = p[i]
      /\ l + 2 <= t => b[l + 2] = Reader!NL
      /\ l + 3 <= t => b[l + 3] = Reader!NL
      /\ \A i \in 1..(l + 1) : i <= t => b[i] # Reader!NL
  BY <1>2, InFrame
<1>6. t <= l + 2
  <2>1. ASSUME l + 3 <= t PROVE FALSE
    <3>1. b[l + 2] = Reader!NL /\ b[l + 3] = Reader!NL /\ l + 2 \in 1..(t - 1) /\ (l + 2) + 1 = l + 3
      BY <1>3, <1>4, <1>5, <2>1
    <3>. QED BY <1>2, <3>1
  <2>. QED BY <1>3, <1>4, <2>1
\* The frame is the first j characters, and Few are left, when these are few.
<1>7. ASSUME NEW j \in Nat, j + 2 <= n, n <= j + 3,
             \A i \in 1..j : ~(b[i] = Reader!NL /\ b[i + 1] = Reader!NL),
             b[j + 1] = Reader!NL, b[j + 2] = Reader!NL,
             j > 0 => b[1] # Reader!NL /\ b[j] # Reader!NL,
             \A q : q \in Seq(Letters) /\ Len(q) = j /\ (\A i \in 1..j : q[i] = b[i]) =>
                      Carries(q, p, l) \/ Skipped(q)
      PROVE  \E m : /\ FirstBreak(b, m) /\ Reader!Trimmed(SubSeq(b, 1, m - 1)) = SubSeq(b, 1, m - 1)
                    /\ Carries(SubSeq(b, 1, m - 1), p, l) \/ Skipped(SubSeq(b, 1, m - 1))
                    /\ Few(SubSeq(b, m + 2, n))
  <2>1. PICK m, q, k, v : m = j + 1 /\ q = SubSeq(b, 1, j) /\ k = j + 2 /\ v = SubSeq(b, k + 1, n)
    OBVIOUS
  <2>2. m \in Nat /\ m > 0 /\ m + 1 <= n /\ m + 1 = j + 2 /\ m - 1 = j /\ j \in 0..n /\ k \in 0..n /\ k + 1 = m + 2
    BY <1>3, <1>7, <2>1
  <2>3. FirstBreak(b, m)
    BY <1>1, <1>7, <2>1, <2>2 DEF FirstBreak
  <2>4. q \in Seq(Letters) /\ Len(q) = j /\ \A i \in 1..j : q[i] = b[i]
    BY <1>1, <1>3, <2>1, <2>2, Cut
  <2>5. Carries(q, p, l) \/ Skipped(q)
    BY <1>7, <2>4
  <2>6. Reader!Trimmed(q) = q
    <3>1. j > 0 => q[1] # Reader!NL /\ q[j] # Reader!NL
      <4>1. j > 0 => 1 \in 1..j /\ j \in 1..j
        BY <1>7
      <4>. QED BY <1>7, <2>4, <4>1
    <3>. QED BY <2>4, <3>1, TrimmedKeeps
  <2>7. v \in Seq(Letters) /\ Len(v) = n - k
    BY <1>1, <1>3, <2>1, <2>2, Cut
  <2>8. Few(v)
    BY <1>3, <1>7, <2>1, <2>7 DEF Few
  <2>. QED BY <2>1, <2>2, <2>3, <2>5, <2>6, <2>8
<1>8. "data:" # Reader!NL /\ Reader!Broken # Reader!NL /\ Reader!Broken # "data:" /\ Reader!Broken # Reader!Brace
      /\ Reader!Broken # "[DONE]"
  BY DEF Reader!NL, Reader!Broken, Reader!Brace
\* What follows "data:" is no payload and not [DONE].
<1>9. ASSUME NEW q \in Seq(Letters), NEW k \in Nat, Len(q) = 1 + k,
             k > 0 => q[1 + k] # Reader!Brace, k = 1 => q[2] # "[DONE]"
      PROVE  Skipped(q)
  <2>1. PICK g : g = Tail(q)
    OBVIOUS
  <2>2. q # <<>>
    BY <1>9, EmptySeq
  <2>3. g \in Seq(Letters) /\ Len(g) = Len(q) - 1 /\ \A i \in 1..Len(g) : g[i] = q[i + 1]
    BY <2>1, <2>2, HeadTailProperties
  <2>4. Len(g) = k
    BY <1>9, <2>3
  <2>5. ~Reader!Parses(g)
    <3>1. CASE k = 0
      <4>1. g = <<>>
        BY <2>3, <2>4, <3>1, EmptySeq
      <4>. QED BY <4>1 DEF Reader!Parses
    <3>2. CASE k # 0
      <4>1. k \in 1..k /\ k > 0 /\ k + 1 = 1 + k
        BY <3>2
      <4>2. g[k] = q[1 + k]
        BY <2>3, <2>4, <4>1
      <4>3. Reader!Last(g) = g[k]
        BY <2>4 DEF Reader!Last
      <4>. QED BY <1>9, <4>1, <4>2, <4>3 DEF Reader!Parses
    <3>. QED BY <3>1, <3>2
  <2>6. g # Reader!Done
    <3>1. ASSUME g = Reader!Done PROVE FALSE
      <4>1. Len(g) = 1 /\ g[1] = "[DONE]"
        BY <3>1 DEF Reader!Done
      <4>2. k = 1 /\ g[1] = q[1 + 1] /\ 1 + 1 = 2
        BY <2>3, <2>4, <4>1
      <4>. QED BY <1>9, <4>1, <4>2
    <3>. QED BY <3>1
  <2>. QED BY <2>1, <2>5, <2>6 DEF Skipped
<1>10. CASE n = t + 2 /\ t = 0
  <2>1. \A q : q \in Seq(Letters) /\ Len(q) = 0 => Skipped(q)
    BY EmptySeq DEF Skipped
  <2>2. n - 1 = 0 + 1 /\ n = 0 + 2 /\ 0 \in Nat
    BY <1>10
  <2>. QED BY <1>1, <1>2, <1>7, <2>1, <2>2
<1>11. CASE n = t + 2 /\ t > 0 /\ t <= l + 1
  <2>1. n - 1 = t + 1 /\ n = t + 2 /\ 1 \in 1..(l + 1) /\ t \in 1..(l + 1) /\ 1 <= t
    BY <1>3, <1>4, <1>11
  <2>2. b[1] # Reader!NL /\ b[t] # Reader!NL
    BY <1>3, <1>5, <2>1
  <2>3. ASSUME NEW i \in 1..t PROVE ~(b[i] = Reader!NL /\ b[i + 1] = Reader!NL)
    <3>1. i \in 1..(l + 1) /\ i <= t
      BY <1>3, <1>4, <1>11
    <3>. QED BY <1>5, <3>1
  <2>4. ASSUME NEW q, q \in Seq(Letters), Len(q) = t, \A i \in 1..t : q[i] = b[i]
        PROVE  Carries(q, p, l) \/ Skipped(q)
    <3>1. q[1] = "data:" /\ \A i \in 1..l : 1 + i <= t => q[1 + i] = p[i]
      <4>1. 1 \in 1..t /\ \A i \in 1..l : 1 + i <= t => 1 + i \in 1..t
        BY <1>3, <1>4, <1>11
      <4>. QED BY <1>5, <1>11, <2>4, <4>1
    <3>2. CASE t = l + 1
      <4>1. t = 1 + l /\ \A i \in 1..l : 1 + i <= t
        BY <1>3, <1>4, <3>2
      <4>. QED BY <2>4, <3>1, <4>1 DEF Carries
    <3>3. CASE t # l + 1
      <4>1. PICK k : k = t - 1
        OBVIOUS
      <4>2. k \in Nat /\ t = 1 + k /\ k < l /\ (k > 0 => k \in 1..l /\ 1 + k <= t)
        BY <1>3, <1>4, <1>11, <3>3, <4>1
      <4>3. k > 0 => q[1 + k] # Reader!Brace
        BY <1>4, <3>1, <4>2
      <4>4. k = 1 => q[2] # "[DONE]"
        <5>1. k = 1 => q[2] = p[1] /\ l # 1
          <6>1. 1 + 1 = 2 /\ 1 \in 1..l
            BY <1>4
          <6>. QED BY <3>1, <4>2, <6>1
        <5>. QED BY <1>4, <5>1
      <4>. QED BY <1>9, <2>4, <4>2, <4>3, <4>4
    <3>. QED BY <3>2, <3>3
  <2>5. t + 2 <= n /\ n <= t + 3 /\ b[t + 1] = Reader!NL /\ b[t + 2] = Reader!NL
    BY <1>2, <1>3, <2>1
  <2>. QED BY <1>1, <1>3, <1>7, <2>2, <2>3, <2>4, <2>5
<1>12. CASE n = t + 2 /\ t = l + 2
  <2>1. PICK j : j = l + 1
    OBVIOUS
  <2>2. j \in Nat /\ j + 2 <= n /\ n <= j + 3 /\ j + 1 = l + 2 /\ n - 1 = j + 2 /\ 1 \in 1..(l + 1) /\ j \in 1..(l + 1) /\ 1 <= t /\ j <= t
        /\ l + 2 <= t
    BY <1>3, <1>4, <1>12, <2>1
  <2>3. b[1] # Reader!NL /\ b[j] # Reader!NL /\ b[j + 1] = Reader!NL /\ b[j + 2] = Reader!NL
    <3>1. b[n - 1] = Reader!NL
      BY <1>2
    <3>2. b[j + 2] = Reader!NL
      BY <2>2, <3>1
    <3>. QED BY <1>5, <2>2, <3>2
  <2>4. ASSUME NEW i \in 1..j PROVE ~(b[i] = Reader!NL /\ b[i + 1] = Reader!NL)
    <3>1. i \in 1..(l + 1) /\ i <= t
      BY <1>3, <1>4, <2>1, <2>2
    <3>. QED BY <1>5, <3>1
  <2>5. ASSUME NEW q, q \in Seq(Letters), Len(q) = j, \A i \in 1..j : q[i] = b[i]
        PROVE  Carries(q, p, l) \/ Skipped(q)
    <3>1. j = 1 + l /\ 1 \in 1..j /\ t > 0 /\ \A i \in 1..l : 1 + i <= t /\ 1 + i \in 1..j
      BY <1>3, <1>4, <1>12, <2>1
    <3>. QED BY <1>5, <2>5, <3>1 DEF Carries
  <2>. QED BY <1>1, <1>7, <2>2, <2>3, <2>4, <2>5
<1>13. CASE n = t + 3 /\ b[t + 1] = Reader!Broken
  <2>1. PICK j : j = t + 1
    OBVIOUS
  <2>2. j \in Nat /\ j + 2 <= n /\ n <= j + 3 /\ n - 1 = j + 1 /\ n = j + 2 /\ j = 1 + t /\ 1 \in 1..j /\ j \in 1..j
    BY <1>3, <1>13, <2>1
  <2>3. b[j + 1] = Reader!NL /\ b[j + 2] = Reader!NL /\ b[j] = Reader!Broken
    <3>1. b[n - 1] = Reader!NL /\ b[n] = Reader!NL
      BY <1>2
    <3>. QED BY <1>13, <2>1, <2>2, <3>1
  <2>4. b[1] # Reader!NL /\ b[j] # Reader!NL
    <3>1. t = 0 => j = 1
      BY <2>2
    <3>2. t # 0 => t > 0
      BY <1>3
    <3>. QED BY <1>5, <1>8, <2>3, <3>1, <3>2
  <2>5. ASSUME NEW i \in 1..j PROVE ~(b[i] = Reader!NL /\ b[i + 1] = Reader!NL)
    <3>1. CASE i = j
      BY <1>8, <2>3, <3>1
    <3>2. CASE i = t
      BY <1>8, <2>1, <2>3, <3>2
    <3>3. CASE i # j /\ i # t
      <4>1. i \in 1..(t - 1)
        BY <1>3, <2>1, <3>3
      <4>. QED BY <1>2, <4>1
    <3>. QED BY <3>1, <3>2, <3>3
  <2>6. ASSUME NEW q, q \in Seq(Letters), Len(q) = j, \A i \in 1..j : q[i] = b[i]
        PROVE  Carries(q, p, l) \/ Skipped(q)
    <3>1. q[1 + t] = Reader!Broken
      BY <2>2, <2>3, <2>6
    <3>2. t = 1 => q[2] = Reader!Broken
      <4>1. 1 + 1 = 2
        OBVIOUS
      <4>. QED BY <3>1, <4>1
    <3>. QED BY <1>3, <1>8, <1>9, <2>2, <2>6, <3>1, <3>2
  <2>. QED BY <1>1, <1>7, <2>2, <2>3, <2>4, <2>5, <2>6
<1>14. t = 0 \/ (t > 0 /\ t <= l + 1) \/ t = l + 2
  BY <1>3, <1>4, <1>6
<1>. QED BY <1>2, <1>10, <1>11, <1>12, <1>13, <1>14

-----------------------------------------------------------------------------
(* The stream: the reader *)

\* Where each frame of the body begins.
Off == CHOOSE off : Spells(Text, off, Len(Frames))

\* The first k payloads.
First(list, k) == list \in Seq(Seq(Letters)) /\ Len(list) = k /\ \A i \in 1..k : list[i] = Whole(i)

\* What was delivered are the first k payloads, and the buffer and what is to come
\* are the body after these; or its end, when the body was cut off.
Progress(list, b, h, r, a, k) ==
    /\ First(list, k)
    /\ a = "reading" => Remains(b, Reader!Decoded(h \o r), Off[k])
    /\ a = "flushing" => Few(b) \/ Torn(b, Off[k])
    /\ a = "done" => k = Len(Frames)

ReadInv ==
    /\ rest \in Seq(Letters) /\ held \in {<<>>, <<Reader!Hi>>}
    /\ at \in {"reading", "flushing", "end", "done"}
    /\ \E k \in 0..Len(Frames) : Progress(delivered, buffer, held, rest, at, k)

LEMMA Spelled == ASSUME Reader!SseAssumption PROVE Spells(Text, Off, Len(Frames)) /\ Len(Frames) \in Nat
<1>1. \E off : Spells(Text, off, Len(Frames))
  BY BodySpelled DEF Text
<1>. QED BY <1>1, PayloadsAre DEF Off

\* The piece that is next.
LEMMA NextPiece ==
    ASSUME Reader!SseAssumption, NEW k \in 0..Len(Frames)
    PROVE  \E p, l : /\ Piece(p, l, Off[k])
                     /\ k < Len(Frames) => /\ p = Whole(k + 1) /\ Off[k + 1] = (Off[k] + l) + 3
                                           /\ p[1] # "[DONE]" /\ p[l] = Reader!Brace
                     /\ k = Len(Frames) => p = Reader!Done /\ l = 1
<1>1. PICK n : n = Len(Frames)
  OBVIOUS
<1>2. n \in Nat /\ k \in 0..n
  BY <1>1, Spelled
<1>3. /\ Text \in Seq(Letters) /\ Off \in [0..n -> Nat]
      /\ \A i \in 1..n : Framed(Whole(i), Len(Whole(i)), Text, Off[i - 1]) /\ Off[i] = (Off[i - 1] + Len(Whole(i))) + 3
      /\ Framed(Reader!Done, 1, Text, Off[n]) /\ Len(Text) = Off[n] + 4
  BY <1>1, Spelled DEF Spells
<1>4. Off[k] \in Nat /\ Off[n] \in Nat /\ Len(Text) \in Nat
  BY <1>2, <1>3, LenProperties
<1>5. CASE k = n
  <2>1. /\ Reader!Done \in Seq(Letters) /\ Len(Reader!Done) = 1 /\ Reader!Done[1] = "[DONE]"
    BY DEF Letters, Reader!Done
  <2>2. "[DONE]" # Reader!NL /\ "[DONE]" # Reader!Brace
    BY DEF Reader!NL, Reader!Brace
  <2>3. (Off[n] + 1) + 3 <= Len(Text)
    BY <1>3, <1>4
  <2>4. Piece(Reader!Done, 1, Off[n])
    BY <1>3, <1>4, <2>1, <2>2, <2>3 DEF Piece
  <2>. QED BY <1>1, <1>4, <1>5, <2>4
<1>6. CASE k # n
  <2>1. PICK j, p, l : j = k + 1 /\ p = Whole(j) /\ l = Len(p)
    OBVIOUS
  <2>2. j \in 1..n /\ j - 1 = k /\ j \in 0..n
    BY <1>2, <1>6, <2>1
  <2>3. Payload(Frames[j])
    BY <1>1, <2>2, PayloadsAre
  <2>4. Closed(p, l)
    BY <2>1, <2>3, PayloadClosed DEF Whole
  <2>5. Framed(p, l, Text, Off[k]) /\ Off[j] = (Off[k] + l) + 3
    BY <1>3, <2>1, <2>2
  <2>6. \A i \in 0..n : i \in Nat /\ Off[i] \in Nat
    BY <1>2, <1>3
  <2>. DEFINE Good == {i \in 0..(n - j) : Off[j] <= Off[j + i]}
  <2>7. 0 \in Good
    <3>1. j + 0 = j /\ 0 \in 0..(n - j)
      BY <1>2, <2>2
    <3>2. Off[j] \in Nat
      BY <2>2, <2>6
    <3>. QED BY <3>1, <3>2
  <2>8. ASSUME NEW i \in 0..((n - j) - 1), i \in Good PROVE i + 1 \in Good
    <3>1. PICK x : x = j + i
      OBVIOUS
    <3>2. x \in 0..n /\ x + 1 \in 1..n /\ x + 1 \in 0..n /\ (x + 1) - 1 = x /\ j + (i + 1) = x + 1 /\ i + 1 \in 0..(n - j)
      BY <1>2, <2>2, <3>1
    <3>3. PICK a, c, s, z : a = Off[x] /\ c = Off[x + 1] /\ s = Len(Whole(x + 1)) /\ z = Off[j]
      OBVIOUS
    <3>4. a \in Nat /\ c \in Nat /\ z \in Nat /\ c = (a + s) + 3 /\ z <= a
      BY <1>3, <2>2, <2>6, <2>8, <3>1, <3>2, <3>3
    <3>5. s \in Nat
      <4>1. Payload(Frames[x + 1])
        BY <1>1, <3>2, PayloadsAre
      <4>2. Closed(Whole(x + 1), s)
        BY <3>3, <4>1, PayloadClosed DEF Whole
      <4>. QED BY <4>2 DEF Closed
    <3>6. z <= c
      BY <3>4, <3>5
    <3>. QED BY <3>2, <3>3, <3>6
  <2>. HIDE DEF Good
  <2>9. n - j \in Good
    <3>1. n - j \in Nat
      BY <1>2, <2>2
    <3>2. PICK d : d = n - j
      OBVIOUS
    <3>. QED BY <2>7, <2>8, <3>1, <3>2, Induct
  <2>10. Off[j] <= Off[n]
    <3>1. j + (n - j) = n
      BY <1>2, <2>2
    <3>. QED BY <2>9, <3>1 DEF Good
  <2>11. (Off[k] + l) + 3 <= Len(Text)
    BY <1>3, <1>4, <2>2, <2>5, <2>6, <2>10
  <2>12. Piece(p, l, Off[k])
    BY <1>4, <2>4, <2>5, <2>11 DEF Piece, Closed
  <2>13. p[1] # "[DONE]" /\ p[l] = Reader!Brace
    BY <2>4 DEF Closed
  <2>. QED BY <1>1, <1>6, <2>1, <2>5, <2>12, <2>13
<1>. QED BY <1>5, <1>6

\* One more payload.
LEMMA OneMore ==
    ASSUME NEW list, NEW k \in Nat, First(list, k), Whole(k + 1) \in Seq(Letters)
    PROVE  First(Append(list, Whole(k + 1)), k + 1)
<1>1. PICK s, u : s = Whole(k + 1) /\ u = Append(list, s)
  OBVIOUS
<1>2. list \in Seq(Seq(Letters)) /\ Len(list) = k /\ s \in Seq(Letters) /\ \A i \in 1..k : list[i] = Whole(i)
  BY <1>1 DEF First
<1>3. /\ u \in Seq(Seq(Letters)) /\ Len(u) = k + 1
      /\ \A i \in 1..k : u[i] = list[i]
      /\ u[k + 1] = s
  BY <1>1, <1>2, AppendProperties
<1>4. ASSUME NEW i \in 1..(k + 1) PROVE u[i] = Whole(i)
  <2>1. i \in 1..k \/ i = k + 1
    OBVIOUS
  <2>. QED BY <1>1, <1>2, <1>3, <2>1
<1>. QED BY <1>1, <1>3, <1>4 DEF First

\* Text that moves from what is to come to the buffer.
LEMMA Moved ==
    ASSUME NEW b, NEW d, NEW r, NEW o \in Nat, Three(Letters, b, d, r), Remains(b, d \o r, o)
    PROVE  Remains(b \o d, r, o)
<1>1. PICK n, m, k : n = Len(b) /\ m = Len(d) /\ k = Len(r)
  OBVIOUS
<1>2. n \in Nat /\ m \in Nat /\ k \in Nat
  BY <1>1, LenProperties DEF Three
<1>3. PICK u, v : u = b \o d /\ v = d \o r
  OBVIOUS
<1>4. u \in Seq(Letters) /\ Len(u) = n + m /\ (\A i \in 1..n : u[i] = b[i]) /\ \A i \in 1..m : u[n + i] = d[i]
  <2>1. b \in Seq(Letters) /\ d \in Seq(Letters)
    BY DEF Three
  <2>. QED BY ONLY <1>1, <1>3, <2>1, Concat
<1>5. v \in Seq(Letters) /\ Len(v) = m + k /\ (\A i \in 1..m : v[i] = d[i]) /\ \A i \in 1..k : v[m + i] = r[i]
  <2>1. d \in Seq(Letters) /\ r \in Seq(Letters)
    BY DEF Three
  <2>. QED BY ONLY <1>1, <1>3, <2>1, Concat
<1>6. /\ (o + n) + (m + k) = Len(Text) /\ \A i \in 1..n : b[i] = Text[o + i]
      /\ \A i \in 1..(m + k) : v[i] = Text[(o + n) + i]
  BY <1>1, <1>3, <1>5 DEF Remains
<1>7. ASSUME NEW i \in 1..(n + m) PROVE u[i] = Text[o + i]
  <2>1. CASE i <= n
    <3>1. i \in 1..n
      BY <1>2, <2>1
    <3>. QED BY <1>4, <1>6, <3>1
  <2>2. CASE ~(i <= n)
    <3>1. PICK j : j = i - n
      OBVIOUS
    <3>2. j \in 1..m /\ j \in 1..(m + k) /\ i = n + j /\ (o + n) + j = o + (n + j)
      BY <1>2, <2>2, <3>1
    <3>. QED BY <1>4, <1>5, <1>6, <3>2
  <2>. QED BY <2>1, <2>2
<1>8. ASSUME NEW i \in 1..k PROVE r[i] = Text[(o + (n + m)) + i]
  <2>1. m + i \in 1..(m + k) /\ (o + n) + (m + i) = (o + (n + m)) + i
    BY <1>2
  <2>. QED BY <1>5, <1>6, <2>1
<1>9. (o + (n + m)) + k = Len(Text)
  BY <1>2, <1>6
<1>10. r \in Seq(Letters)
  BY DEF Three
<1>. QED BY <1>1, <1>3, <1>4, <1>7, <1>8, <1>9, <1>10 DEF Remains

\* A chunk c of n bytes after the byte h that was held, and z to come.
Chunk(h, c, z, n, all) ==
    /\ h \in {<<>>, <<Reader!Hi>>} /\ c \in Seq(Letters) /\ z \in Seq(Letters) /\ n = Len(c) /\ n > 0
    /\ all = h \o c

\* The bytes t are decoded, and those in more are held.
Splits(h, c, z, t, more) ==
    /\ Reader!Decoded(h \o (c \o z)) = Reader!Decoded(t) \o Reader!Decoded(more \o z)
    /\ t \in Seq(Letters) /\ more \o z \in Seq(Letters)

\* A chunk is decoded whole but for a first half at its end.
LEMMA ChunkDecoded ==
    ASSUME NEW h, NEW c, NEW z, NEW n, NEW all, Chunk(h, c, z, n, all)
    PROVE  IF Reader!Last(all) = Reader!Hi
           THEN Splits(h, c, z, Reader!Front(all), <<Reader!Hi>>)
           ELSE Splits(h, c, z, all, <<>>)
<1>0. /\ h \in {<<>>, <<Reader!Hi>>} /\ c \in Seq(Letters) /\ z \in Seq(Letters) /\ n = Len(c) /\ n > 0
      /\ all = h \o c
  BY DEF Chunk
<1>1. Reader!Hi \in Letters /\ Reader!Hi # Reader!Lo
  BY DEF Letters, Reader!Hi, Reader!Lo
<1>2. h \in Seq(Letters) /\ <<Reader!Hi>> \in Seq(Letters) /\ <<>> \o z = z
  <2>1. <<>> \in Seq(Letters) /\ <<Reader!Hi>> \in Seq(Letters)
    BY <1>1
  <2>2. <<>> \o z = z
    BY <1>0, ConcatEmptySeq
  <2>. QED BY <1>0, <2>1, <2>2
<1>3. all \in Seq(Letters) /\ Len(all) = Len(h) + n /\ Len(h) \in Nat /\ n \in Nat
  <2>1. h \in Seq(Letters) /\ c \in Seq(Letters)
    BY <1>0, <1>2
  <2>2. n = Len(c) /\ all = h \o c
    BY <1>0
  <2>. QED BY ONLY <2>1, <2>2, Concat
<1>4. all \o z = h \o (c \o z)
  <2>1. Three(Letters, h, c, z)
    BY <1>0, <1>2 DEF Three
  <2>. QED BY <1>0, <2>1, Regrouped
<1>5. PICK m : m = Len(all)
  OBVIOUS
<1>6. m \in Nat /\ m > 0 /\ Reader!Last(all) = all[m]
  BY <1>0, <1>3, <1>5 DEF Reader!Last
<1>7. CASE all[m] # Reader!Hi
  <2>1. Apart(all, z)
    BY <1>0, <1>3, <1>5, <1>7 DEF Apart
  <2>2. Reader!Decoded(all \o z) = Reader!Decoded(all) \o Reader!Decoded(z)
    BY ONLY <2>1, DecodedApart
  <2>. QED BY <1>0, <1>2, <1>3, <1>4, <1>6, <1>7, <2>2 DEF Splits
<1>8. CASE all[m] = Reader!Hi
  <2>1. PICK g, e : g = SubSeq(all, 1, m - 1) /\ e = <<Reader!Hi>>
    OBVIOUS
  <2>2. Reader!Front(all) = g
    BY <1>5, <2>1 DEF Reader!Front
  <2>3. Before(Letters, all, m, g)
    BY ONLY <1>3, <1>5, <1>6, <2>1, LastApart
  <2>4. g \in Seq(Letters) /\ all = g \o e
    BY <1>8, <2>1, <2>3 DEF Before
  <2>5. PICK y : y = e \o z
    OBVIOUS
  <2>6. y \in Seq(Letters) /\ y[1] = Reader!Hi
    <3>0. z \in Seq(Letters)
      BY <1>0
    <3>1. y \in Seq(Letters) /\ y[1] = Reader!Hi
      BY ONLY <1>1, <3>0, <2>1, <2>5, OneThen
    <3>. QED BY <3>1
  <2>7. Apart(g, y)
    BY <1>1, <2>4, <2>6 DEF Apart
  <2>8. Reader!Decoded(g \o y) = Reader!Decoded(g) \o Reader!Decoded(y)
    BY ONLY <2>7, DecodedApart
  <2>9. (g \o e) \o z = g \o (e \o z)
    <3>1. Three(Letters, g, e, z)
      BY <1>0, <1>2, <2>1, <2>4 DEF Three
    <3>. QED BY ONLY <3>1, Regrouped
  <2>10. Reader!Decoded(h \o (c \o z)) = Reader!Decoded(g) \o Reader!Decoded(y)
    BY <1>4, <2>4, <2>5, <2>8, <2>9
  <2>. QED BY <1>6, <1>8, <2>1, <2>2, <2>4, <2>5, <2>6, <2>10 DEF Splits
<1>. QED BY <1>7, <1>8

LEMMA BodyTyped == ASSUME Reader!SseAssumption PROVE Reader!Body \in Seq(Letters)
<1>1. PICK n, F : n = Len(Frames) /\ F = [i \in DOMAIN Frames |-> Reader!Frame(Frames[i])]
  OBVIOUS
<1>2. n \in Nat /\ DOMAIN Frames = 1..n /\ \A k \in 1..n : Frames[k] \in Seq(Letters)
  BY <1>1, PayloadsAre DEF Payload
<1>3. \A k \in 1..n : F[k] = Reader!Frame(Frames[k]) /\ F[k] \in Seq(Letters)
  BY <1>1, <1>2, FrameIs
<1>4. F \in Seq(Seq(Letters))
  <2>1. F \in [1..n -> Seq(Letters)]
    BY <1>1, <1>2, <1>3
  <2>. QED BY <1>2, <2>1
<1>5. PICK x, y : x = Reader!FlattenSeq(F) /\ y = Reader!Frame(Reader!Done)
  OBVIOUS
<1>6. x \in Seq(Letters) /\ y \in Seq(Letters)
  <2>1. Reader!Done \in Seq(Letters)
    BY DEF Letters, Reader!Done
  <2>. QED BY <1>4, <1>5, <2>1, JoinIsSeq, FrameIs
<1>7. Reader!Body = x \o y
  BY <1>1, <1>5 DEF Reader!Body
<1>8. x \o y \in Seq(Letters)
  BY ONLY <1>6, Concat
<1>. QED BY <1>7, <1>8

LEMMA InitReads == ASSUME Reader!SseAssumption, Reader!Init PROVE ReadInv
<1>1. Text \in Seq(Letters) /\ Off[0] = 0 /\ Len(Frames) \in Nat
  BY Spelled DEF Spells
<1>2. /\ rest \in Seq(Letters) /\ held = <<>> /\ buffer = <<>> /\ delivered = <<>> /\ at = "reading"
      /\ Reader!Decoded(rest) = Text
  BY BodyTyped DEF Reader!Init, Text
<1>3. Remains(<<>>, Text, 0)
  <2>1. Len(<<>>) = 0 /\ <<>> \in Seq(Letters) /\ Len(Text) \in Nat
    BY <1>1, LenProperties
  <2>2. (0 + 0) + Len(Text) = Len(Text) /\ \A i \in 1..Len(Text) : (0 + 0) + i = i
    BY <2>1
  <2>. QED BY <1>1, <2>1, <2>2 DEF Remains
<1>4. First(<<>>, 0)
  BY DEF First
<1>5. held \o rest = rest
  <2>1. <<>> \o rest = rest
    BY <1>2, ConcatEmptySeq
  <2>. QED BY <1>2, <2>1
<1>6. Progress(delivered, buffer, held, rest, at, 0)
  BY <1>1, <1>2, <1>3, <1>4, <1>5 DEF Progress
<1>7. 0 \in 0..Len(Frames)
  BY <1>1
<1>. QED BY <1>2, <1>6, <1>7 DEF ReadInv

LEMMA ReadReads == ASSUME Reader!SseAssumption, ReadInv, Reader!Read PROVE ReadInv'
<1>1. PICK k \in 0..Len(Frames) : Progress(delivered, buffer, held, rest, at, k)
  BY DEF ReadInv
<1>2. /\ rest \in Seq(Letters) /\ held \in {<<>>, <<Reader!Hi>>} /\ at = "reading"
      /\ First(delivered, k) /\ Remains(buffer, Reader!Decoded(held \o rest), Off[k])
  BY <1>1 DEF ReadInv, Progress, Reader!Read
<1>3. PICK m \in 1..Len(rest) :
        Reader!Decode(SubSeq(rest, 1, m)) /\ rest' = SubSeq(rest, m + 1, Len(rest)) /\ delivered' = delivered /\ at' = at
  BY DEF Reader!Read
<1>4. PICK c, z : c = SubSeq(rest, 1, m) /\ z = SubSeq(rest, m + 1, Len(rest))
  OBVIOUS
<1>5. Len(rest) \in Nat /\ m \in 0..Len(rest) /\ m > 0 /\ m \in Nat
  BY <1>2, LenProperties
<1>6. c \in Seq(Letters) /\ z \in Seq(Letters) /\ Len(c) = m
  BY ONLY <1>2, <1>4, <1>5, Cut
<1>7. rest = c \o z
  BY <1>2, <1>4, <1>5, <1>6, CutRejoins
<1>8. PICK all : all = held \o c
  OBVIOUS
<1>9. Off[k] \in Nat
  BY Spelled DEF Spells
<1>10. buffer \in Seq(Letters)
  BY <1>2 DEF Remains
<1>11. IF Reader!Last(all) = Reader!Hi
       THEN held' = <<Reader!Hi>> /\ buffer' = buffer \o Reader!Decoded(Reader!Front(all))
       ELSE held' = <<>> /\ buffer' = buffer \o Reader!Decoded(all)
  BY <1>3, <1>4, <1>8 DEF Reader!Decode
<1>12. PICK now, later :
         /\ held' \in {<<>>, <<Reader!Hi>>} /\ buffer' = buffer \o Reader!Decoded(now) /\ later = held' \o z
         /\ Reader!Decoded(held \o rest) = Reader!Decoded(now) \o Reader!Decoded(later)
         /\ now \in Seq(Letters) /\ later \in Seq(Letters)
  <2>1. PICK h : h = held
    OBVIOUS
  <2>2. Chunk(h, c, z, m, all)
    BY <1>2, <1>5, <1>6, <1>8, <2>1 DEF Chunk
  <2>3. IF Reader!Last(all) = Reader!Hi
        THEN Splits(h, c, z, Reader!Front(all), <<Reader!Hi>>)
        ELSE Splits(h, c, z, all, <<>>)
    BY ONLY <2>2, ChunkDecoded
  <2>4. CASE Reader!Last(all) = Reader!Hi
    BY <1>7, <1>11, <2>1, <2>3, <2>4 DEF Splits
  <2>5. CASE Reader!Last(all) # Reader!Hi
    BY <1>7, <1>11, <2>1, <2>3, <2>5 DEF Splits
  <2>. QED BY <2>4, <2>5
<1>13. PICK d, r : d = Reader!Decoded(now) /\ r = Reader!Decoded(later)
  OBVIOUS
<1>14. Remains(buffer \o d, r, Off[k])
  <2>1. d \in Seq(Letters) /\ r \in Seq(Letters)
    BY <1>12, <1>13, DecodedType
  <2>2. Three(Letters, buffer, d, r)
    BY <1>10, <2>1 DEF Three
  <2>3. Remains(buffer, d \o r, Off[k])
    BY <1>2, <1>12, <1>13
  <2>. QED BY ONLY <1>9, <2>2, <2>3, Moved
<1>15. Remains(buffer', Reader!Decoded(held' \o rest'), Off[k])
  BY <1>3, <1>4, <1>12, <1>13, <1>14
<1>16. Progress(delivered', buffer', held', rest', at', k)
  BY <1>2, <1>3, <1>15 DEF Progress
<1>. QED BY <1>2, <1>3, <1>4, <1>6, <1>12, <1>16 DEF ReadInv

LEMMA EndReads == ASSUME Reader!SseAssumption, ReadInv, Reader!End PROVE ReadInv'
<1>1. PICK k \in 0..Len(Frames) : Progress(delivered, buffer, held, rest, at, k)
  BY DEF ReadInv
<1>2. PICK r : r = Reader!Decoded(held \o rest)
  OBVIOUS
<1>3. /\ held \in {<<>>, <<Reader!Hi>>} /\ First(delivered, k) /\ Remains(buffer, r, Off[k])
      /\ Breaks(buffer) = {} /\ rest' = <<>> /\ held' = <<>> /\ at' = "flushing" /\ delivered' = delivered
  BY <1>1, <1>2 DEF ReadInv, Progress, Reader!End, Reader!Separators, Breaks
<1>4. PICK o, t, e, d, u, w :
        /\ o = Off[k] /\ t = Len(buffer) /\ e = <<Reader!NL, Reader!NL>>
        /\ d = Reader!Decoded(held) /\ u = buffer \o d /\ w = u \o e
  OBVIOUS
<1>5. buffer' = w
  BY <1>4 DEF Reader!End
<1>6. o \in Nat /\ Len(Text) \in Nat
  <2>1. Off[k] \in Nat /\ Text \in Seq(Letters)
    BY Spelled DEF Spells
  <2>. QED BY <1>4, <2>1, LenProperties
<1>7. /\ buffer \in Seq(Letters) /\ (o + t) + Len(r) = Len(Text) /\ r \in Seq(Letters)
      /\ \A i \in 1..t : buffer[i] = Text[o + i]
  BY <1>3, <1>4 DEF Remains
<1>8. t \in Nat /\ Len(r) \in Nat
  BY <1>4, <1>7, LenProperties
<1>9. d \in Seq(Letters) /\ (Len(d) = 0 \/ (Len(d) = 1 /\ d[1] = Reader!Broken))
  <2>1. d = <<>> \/ d = <<Reader!Broken>>
    BY <1>3, <1>4, DecodedNone, DecodedHalf
  <2>2. <<>> \in Seq(Letters) /\ <<Reader!Broken>> \in Seq(Letters)
    BY DEF Letters
  <2>3. CASE d = <<>>
    BY <2>2, <2>3
  <2>4. CASE d = <<Reader!Broken>>
    BY <2>2, <2>4
  <2>. QED BY <2>1, <2>3, <2>4
<1>10. /\ u \in Seq(Letters) /\ Len(u) = t + Len(d)
       /\ (\A i \in 1..t : u[i] = buffer[i]) /\ \A i \in 1..Len(d) : u[t + i] = d[i]
  BY ONLY <1>4, <1>7, <1>9, Concat
<1>11. e \in Seq(Letters) /\ Len(e) = 2 /\ e[1] = Reader!NL /\ e[2] = Reader!NL
  BY <1>4, TwoBreaks
<1>12. PICK s : s = Len(u)
  OBVIOUS
<1>13. /\ w \in Seq(Letters) /\ Len(w) = s + 2
       /\ (\A i \in 1..s : w[i] = u[i]) /\ \A i \in 1..2 : w[s + i] = e[i]
  <2>1. /\ w \in Seq(Letters) /\ Len(w) = Len(u) + Len(e)
        /\ (\A i \in 1..Len(u) : w[i] = u[i]) /\ \A i \in 1..Len(e) : w[Len(u) + i] = e[i]
    BY ONLY <1>4, <1>10, <1>11, Concat
  <2>. QED BY <1>11, <1>12, <2>1
<1>14. s = t \/ (s = t + 1 /\ u[t + 1] = Reader!Broken)
  <2>1. 1 \in 1..1
    OBVIOUS
  <2>. QED BY <1>8, <1>9, <1>10, <1>12, <2>1
<1>15. s \in Nat /\ t <= s /\ (s + 2) - 1 = s + 1
  BY <1>8, <1>14
<1>16. Agrees(w, o, t)
  <2>1. \A i \in 1..t : i \in 1..s
    BY <1>8, <1>15
  <2>2. \A i \in 1..t : w[i] = Text[o + i]
    BY <1>7, <1>10, <1>13, <2>1
  <2>3. t <= Len(w) /\ o + t <= Len(Text)
    BY <1>6, <1>7, <1>8, <1>13, <1>15
  <2>. QED BY <1>8, <2>2, <2>3 DEF Agrees
<1>17. ASSUME NEW i \in 1..(t - 1) PROVE ~(w[i] = Reader!NL /\ w[i + 1] = Reader!NL)
  <2>1. i \in 1..t /\ i + 1 \in 1..t /\ i \in 1..s /\ i + 1 \in 1..s
    BY <1>8, <1>15
  <2>2. w[i] = buffer[i] /\ w[i + 1] = buffer[i + 1]
    BY <1>10, <1>13, <2>1
  <2>3. i \notin Breaks(buffer)
    BY <1>3
  <2>. QED BY <1>4, <2>2, <2>3 DEF Breaks
<1>18. w[Len(w) - 1] = Reader!NL /\ w[Len(w)] = Reader!NL
  <2>1. 1 \in 1..2 /\ 2 \in 1..2
    OBVIOUS
  <2>. QED BY <1>11, <1>13, <1>15, <2>1
<1>19. Len(w) = t + 2 \/ (Len(w) = t + 3 /\ w[t + 1] = Reader!Broken)
  <2>1. s = t + 1 => t + 1 \in 1..s /\ s + 2 = t + 3
    BY <1>8
  <2>. QED BY <1>13, <1>14, <2>1
<1>20. Torn(w, o)
  BY <1>13, <1>16, <1>17, <1>18, <1>19 DEF Torn
<1>21. Progress(delivered', buffer', held', rest', at', k)
  BY <1>3, <1>4, <1>5, <1>20 DEF Progress
<1>22. rest' \in Seq(Letters)
  BY <1>3
<1>. QED BY <1>3, <1>21, <1>22 DEF ReadInv

\* A piece that leaves the buffer is delivered, and [DONE] is not.
LEMMA PieceLeaves ==
    ASSUME NEW p, NEW l, NEW o, Piece(p, l, o), NEW q, Carries(q, p, l)
    PROVE  /\ Reader!Trimmed(q) = q /\ q # <<>> /\ q[1] = "data:" /\ Tail(q) = p
           /\ Reader!Parses(p) <=> p # Reader!Done
<1>1. /\ p \in Seq(Letters) /\ Len(p) = l /\ l \in Nat /\ l > 0
      /\ \A i \in 1..l : p[i] # Reader!NL /\ (p[i] = Reader!Brace => i = l)
      /\ (p = Reader!Done /\ l = 1) \/ (p[1] # "[DONE]" /\ p[l] = Reader!Brace)
  BY DEF Piece
<1>2. q \in Seq(Letters) /\ Len(q) = 1 + l /\ q[1] = "data:" /\ \A i \in 1..l : q[1 + i] = p[i]
  BY DEF Carries
<1>3. q # <<>> /\ Tail(q) = p
  BY ONLY <1>1, Carries(q, p, l), Carried
<1>4. Reader!Trimmed(q) = q
  <2>1. PICK n : n = Len(q)
    OBVIOUS
  <2>2. l \in 1..l /\ n = 1 + l
    BY <1>1, <1>2, <2>1
  <2>3. q[n] # Reader!NL
    BY <1>1, <1>2, <2>2
  <2>4. n > 0 => q[1] # Reader!NL /\ q[n] # Reader!NL
    BY <1>2, <2>3 DEF Reader!NL
  <2>. QED BY ONLY <1>2, <2>1, <2>4, TrimmedKeeps
<1>5. Reader!Done[1] = "[DONE]" /\ "[DONE]" # Reader!Brace
  BY DEF Reader!Done, Reader!Brace
<1>6. p # <<>> /\ Reader!Last(p) = p[l]
  BY <1>1 DEF Reader!Last
<1>7. CASE p = Reader!Done
  <2>1. l = 1
    <3>1. Len(Reader!Done) = 1
      BY DEF Reader!Done
    <3>. QED BY <1>1, <1>7, <3>1
  <2>. QED BY <1>2, <1>3, <1>4, <1>5, <1>6, <1>7, <2>1 DEF Reader!Parses
<1>8. CASE p # Reader!Done
  BY <1>1, <1>2, <1>3, <1>4, <1>6, <1>8 DEF Reader!Parses
<1>. QED BY <1>7, <1>8

\* What a frame does to what was delivered, and to the state of the read.
Handled(frame, a, list, a1, list1) ==
    LET isData == frame # <<>> /\ frame[1] = "data:"
    IN  /\ a1 = IF isData /\ Tail(frame) = Reader!Done THEN "done" ELSE a
        /\ list1 = IF isData /\ Reader!Parses(Tail(frame)) THEN Append(list, Tail(frame)) ELSE list

\* The piece that is next is the next payload, or [DONE] after all of them.
LEMMA PieceHandled ==
    ASSUME Reader!SseAssumption, NEW k \in 0..Len(Frames), NEW p, NEW l, Piece(p, l, Off[k]),
           k < Len(Frames) => /\ p = Whole(k + 1) /\ Off[k + 1] = (Off[k] + l) + 3
                              /\ p[1] # "[DONE]" /\ p[l] = Reader!Brace,
           k = Len(Frames) => p = Reader!Done /\ l = 1,
           NEW q, Carries(q, p, l), NEW a, NEW list, First(list, k), NEW a1, NEW list1,
           Handled(Reader!Trimmed(q), a, list, a1, list1)
    PROVE  \/ a1 = "done" /\ k = Len(Frames) /\ First(list1, k)
           \/ a1 = a /\ k + 1 \in 0..Len(Frames) /\ First(list1, k + 1) /\ Off[k + 1] = (Off[k] + l) + 3
<1>1. /\ Reader!Trimmed(q) = q /\ q # <<>> /\ q[1] = "data:" /\ Tail(q) = p
      /\ Reader!Parses(p) <=> p # Reader!Done
  BY PieceLeaves
<1>2. a1 = (IF p = Reader!Done THEN "done" ELSE a) /\ list1 = IF p # Reader!Done THEN Append(list, p) ELSE list
  BY <1>1 DEF Handled
<1>3. PICK n : n = Len(Frames)
  OBVIOUS
<1>4. n \in Nat /\ k \in 0..n
  BY <1>3, PayloadsAre
<1>5. CASE k = n
  BY <1>2, <1>3, <1>5
<1>6. CASE k # n
  <2>1. k < n /\ k + 1 \in 0..n /\ k \in Nat
    BY <1>4, <1>6
  <2>2. p = Whole(k + 1) /\ Off[k + 1] = (Off[k] + l) + 3 /\ p[1] # "[DONE]"
    BY <1>3, <2>1
  <2>3. Reader!Done[1] = "[DONE]"
    BY DEF Reader!Done
  <2>4. p # Reader!Done
    BY <2>2, <2>3
  <2>5. p \in Seq(Letters)
    BY DEF Piece
  <2>6. First(Append(list, p), k + 1)
    <3>1. PICK j : j = k + 1
      OBVIOUS
    <3>2. First(Append(list, Whole(k + 1)), k + 1)
      BY <2>1, <2>2, <2>5, OneMore
    <3>. QED BY <2>2, <3>2
  <2>. QED BY <1>2, <1>3, <2>1, <2>2, <2>4, <2>6
<1>. QED BY <1>5, <1>6

\* A frame that is skipped changes nothing.
LEMMA SkippedHandled ==
    ASSUME NEW q, Reader!Trimmed(q) = q, Skipped(q), NEW a, NEW list, NEW a1, NEW list1,
           Handled(Reader!Trimmed(q), a, list, a1, list1)
    PROVE  a1 = a /\ list1 = list
BY DEF Skipped, Handled

LEMMA DrainFrameReads == ASSUME Reader!SseAssumption, ReadInv, Reader!DrainFrame PROVE ReadInv'
<1>1. PICK k \in 0..Len(Frames) : Progress(delivered, buffer, held, rest, at, k)
  BY DEF ReadInv
<1>2. PICK p, l : /\ Piece(p, l, Off[k])
                  /\ k < Len(Frames) => /\ p = Whole(k + 1) /\ Off[k + 1] = (Off[k] + l) + 3
                                        /\ p[1] # "[DONE]" /\ p[l] = Reader!Brace
                  /\ k = Len(Frames) => p = Reader!Done /\ l = 1
  BY NextPiece
<1>3. /\ at \in {"reading", "flushing"} /\ Breaks(buffer) # {} /\ rest' = rest /\ held' = held
      /\ rest \in Seq(Letters) /\ held \in {<<>>, <<Reader!Hi>>} /\ First(delivered, k)
      /\ at = "reading" => Remains(buffer, Reader!Decoded(held \o rest), Off[k])
      /\ at = "flushing" => Few(buffer) \/ Torn(buffer, Off[k])
  BY <1>1 DEF ReadInv, Progress, Reader!DrainFrame, Reader!Separators, Breaks
<1>4. PICK m : m = Reader!Min(Breaks(buffer))
  OBVIOUS
<1>5. PICK q, b1 : q = SubSeq(buffer, 1, m - 1) /\ b1 = SubSeq(buffer, m + 2, Len(buffer))
  OBVIOUS
<1>6. buffer' = b1 /\ Handled(Reader!Trimmed(q), at, delivered, at', delivered')
  BY <1>4, <1>5 DEF Reader!DrainFrame, Reader!Separators, Breaks, Handled
<1>7. CASE at = "reading"
  <2>1. PICK r : r = Reader!Decoded(held \o rest)
    OBVIOUS
  <2>2. Remains(buffer, r, Off[k])
    BY <1>3, <1>7, <2>1
  <2>3. PICK j : /\ FirstBreak(buffer, j) /\ Carries(SubSeq(buffer, 1, j - 1), p, l)
                 /\ Remains(SubSeq(buffer, j + 2, Len(buffer)), r, (Off[k] + l) + 3)
    BY <1>2, <1>3, <2>2, FrameLeaves
  <2>4. j = m
    <3>1. buffer \in Seq(Letters)
      BY <2>2 DEF Remains
    <3>. QED BY <1>4, <2>3, <3>1, FirstFound
  <2>5. Carries(q, p, l) /\ Remains(b1, r, (Off[k] + l) + 3)
    BY <1>5, <2>3, <2>4
  <2>6. \/ at' = "done" /\ k = Len(Frames) /\ First(delivered', k)
        \/ at' = at /\ k + 1 \in 0..Len(Frames) /\ First(delivered', k + 1) /\ Off[k + 1] = (Off[k] + l) + 3
    BY <1>2, <1>3, <1>6, <2>5, PieceHandled
  <2>7. CASE at' = "done" /\ k = Len(Frames) /\ First(delivered', k)
    <3>1. Progress(delivered', buffer', held', rest', at', k)
      BY <2>7 DEF Progress
    <3>. QED BY <1>3, <2>7, <3>1 DEF ReadInv
  <2>8. CASE at' = at /\ k + 1 \in 0..Len(Frames) /\ First(delivered', k + 1) /\ Off[k + 1] = (Off[k] + l) + 3
    <3>1. Progress(delivered', buffer', held', rest', at', k + 1)
      BY <1>3, <1>6, <1>7, <2>1, <2>5, <2>8 DEF Progress
    <3>. QED BY <1>3, <2>8, <3>1 DEF ReadInv
  <2>. QED BY <2>6, <2>7, <2>8
<1>8. CASE at = "flushing"
  <2>1. ~Few(buffer)
    <3>1. ASSUME Few(buffer) PROVE FALSE
      <4>1. Len(buffer) \in Nat /\ Len(buffer) <= 1
        BY <3>1, LenProperties DEF Few
      <4>2. Breaks(buffer) = {}
        BY <4>1 DEF Breaks
      <4>. QED BY <1>3, <4>2
    <3>. QED BY <3>1
  <2>2. Torn(buffer, Off[k])
    BY <1>3, <1>8, <2>1
  <2>3. PICK j : /\ FirstBreak(buffer, j)
                 /\ Reader!Trimmed(SubSeq(buffer, 1, j - 1)) = SubSeq(buffer, 1, j - 1)
                 /\ Carries(SubSeq(buffer, 1, j - 1), p, l) \/ Skipped(SubSeq(buffer, 1, j - 1))
                 /\ Few(SubSeq(buffer, j + 2, Len(buffer)))
    BY <1>2, <2>2, RemnantLeaves
  <2>4. j = m
    <3>1. buffer \in Seq(Letters)
      BY <2>2 DEF Torn
    <3>. QED BY <1>4, <2>3, <3>1, FirstFound
  <2>5. Reader!Trimmed(q) = q /\ (Carries(q, p, l) \/ Skipped(q)) /\ Few(b1)
    BY <1>5, <2>3, <2>4
  <2>6. CASE Carries(q, p, l)
    <3>1. \/ at' = "done" /\ k = Len(Frames) /\ First(delivered', k)
          \/ at' = at /\ k + 1 \in 0..Len(Frames) /\ First(delivered', k + 1) /\ Off[k + 1] = (Off[k] + l) + 3
      BY <1>2, <1>3, <1>6, <2>6, PieceHandled
    <3>2. CASE at' = "done" /\ k = Len(Frames) /\ First(delivered', k)
      <4>1. Progress(delivered', buffer', held', rest', at', k)
        BY <3>2 DEF Progress
      <4>. QED BY <1>3, <3>2, <4>1 DEF ReadInv
    <3>3. CASE at' = at /\ k + 1 \in 0..Len(Frames) /\ First(delivered', k + 1)
      <4>1. Progress(delivered', buffer', held', rest', at', k + 1)
        BY <1>6, <1>8, <2>5, <3>3 DEF Progress
      <4>. QED BY <1>3, <3>3, <4>1 DEF ReadInv
    <3>. QED BY <3>1, <3>2, <3>3
  <2>7. CASE Skipped(q)
    <3>1. at' = at /\ delivered' = delivered
      BY <1>6, <2>5, <2>7, SkippedHandled
    <3>2. Progress(delivered', buffer', held', rest', at', k)
      BY <1>3, <1>6, <1>8, <2>5, <3>1 DEF Progress
    <3>. QED BY <1>3, <3>1, <3>2 DEF ReadInv
  <2>. QED BY <2>5, <2>6, <2>7
<1>. QED BY <1>3, <1>7, <1>8

LEMMA ReturnReads == ASSUME ReadInv, Reader!Return PROVE ReadInv'
<1>1. PICK k \in 0..Len(Frames) : Progress(delivered, buffer, held, rest, at, k)
  BY DEF ReadInv
<1>2. at' = "end" /\ UNCHANGED <<rest, held, buffer, delivered>>
  BY DEF Reader!Return
<1>3. Progress(delivered', buffer', held', rest', at', k)
  BY <1>1, <1>2 DEF Progress
<1>. QED BY <1>2, <1>3 DEF ReadInv

\* The reader moves on its own.
LEMMA ReaderMoves == ASSUME [Next]_vars PROVE Reader!Next \/ UNCHANGED readerVars
<1>1. CASE ReaderStep(Reader!Next)
  BY <1>1 DEF ReaderStep
<1>2. CASE ChatStep(Chat!Next) \/ PlannerStep(Planner!Next) \/ PageStep(PageNext) \/ TableStep(Table!Next)
  BY <1>2 DEF ChatStep, PlannerStep, PageStep, TableStep
<1>3. CASE UNCHANGED vars
  BY <1>3 DEF vars
<1>. QED BY <1>1, <1>2, <1>3 DEF Next

\* What was delivered are the first payloads, in order, and what the reader holds
\* with what it has not received is the rest of the body (sse.ts:28-62).
THEOREM ReaderInductive == Spec => []ReadInv
<1>1. Init => ReadInv
  BY PanelsAssumption, InitReads DEF Init
<1>2. ReadInv /\ [Next]_vars => ReadInv'
  <2>1. SUFFICES ASSUME ReadInv, [Next]_vars PROVE ReadInv'
    OBVIOUS
  <2>2. CASE Reader!Next
    BY <2>1, <2>2, PanelsAssumption, ReadReads, EndReads, DrainFrameReads, ReturnReads DEF Reader!Next
  <2>3. CASE UNCHANGED readerVars
    BY <2>1, <2>3 DEF ReadInv, readerVars
  <2>. QED BY <2>1, <2>2, <2>3, ReaderMoves
<1>. QED BY <1>1, <1>2, PTL DEF Spec

\* However the body is cut into chunks, the payloads arrive whole, unaltered, once
\* and in order, and none is missing when the sentinel is reached (sse.ts:9-15).
THEOREM BodyIsRead == Spec => []ReadsTheBody
<1>1. ReadInv => ReadsTheBody
  <2>1. SUFFICES ASSUME ReadInv PROVE ReadsTheBody
    OBVIOUS
  <2>2. PICK n, s : n = Len(Frames) /\ s = Reader!Sent
    OBVIOUS
  <2>3. PICK k \in 0..n : First(delivered, k) /\ (at = "done" => k = n)
    BY <2>1, <2>2 DEF ReadInv, Progress
  <2>4. n \in Nat /\ DOMAIN Frames = 1..n /\ \A i \in 1..n : Frames[i] \in Seq(Letters)
    BY <2>2, PanelsAssumption, PayloadsAre DEF Payload
  <2>5. s \in [1..n -> Seq(Letters)] /\ \A i \in 1..n : s[i] = Whole(i)
    BY <2>2, <2>4, DecodedType DEF Reader!Sent, Whole
  <2>6. s \in Seq(Seq(Letters)) /\ Len(s) = n
    BY <2>4, <2>5
  <2>7. delivered \in Seq(Seq(Letters)) /\ Len(delivered) = k /\ \A i \in 1..k : delivered[i] = Whole(i)
    BY <2>3 DEF First
  <2>8. PICK u : u = SubSeq(s, 1, k)
    OBVIOUS
  <2>9. u \in Seq(Seq(Letters)) /\ Len(u) = k /\ \A i \in 1..k : u[i] = s[i]
    BY <2>2, <2>6, <2>8, Cut
  <2>10. \A i \in 1..k : i \in 1..n
    BY <2>4
  <2>11. u = delivered
    <3>1. \A i \in 1..Len(u) : u[i] = delivered[i]
      BY <2>5, <2>7, <2>9, <2>10
    <3>2. Len(u) = Len(delivered)
      BY <2>7, <2>9
    <3>. QED BY ONLY <2>7, <2>9, <3>1, <3>2, SeqEqual
  <2>12. Reader!IsPrefix(delivered, s)
    BY <2>4, <2>6, <2>7, <2>8, <2>11 DEF Reader!IsPrefix
  <2>13. at = "done" => delivered = s
    BY <2>3, <2>6, <2>8, <2>11, SubSeqFull
  <2>. QED BY <2>2, <2>12, <2>13 DEF ReadsTheBody, Reader!ReadsTheBody
<1>. QED BY <1>1, ReaderInductive, PTL
=============================================================================
