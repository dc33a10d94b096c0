----------------------------- MODULE VoyageAgent -----------------------------
(***************************************************************************)
(* The agentic loop of services/voyageAgent.ts runVoyageAgent: model turns *)
(* that call tools, whose results go back into the conversation, up to     *)
(* MAX_STEPS turns; any failure of the model answers with the              *)
(* deterministic plan.  Progress events are emitted as it works.           *)
(*                                                                         *)
(* A tool's output is kept only as good or bad; prompts, ports and the     *)
(* fuel physics are left out.                                              *)
(***************************************************************************)
EXTENDS Naturals, FiniteSets, Sequences, SequencesExt

CONSTANTS
    Tools,       \* the names the model calls, unknown ones included
    MaxSteps,    \* MAX_STEPS
    MaxBlocks    \* bound: tool_use blocks in one model turn

AgentAssumption ==
    /\ MaxSteps \in Nat \ {0}
    /\ MaxBlocks \in Nat \ {0}
    /\ {"compute_fuel", "get_route_info"} \subseteq Tools

VARIABLES
    phase,     \* "ready", "model", "tools" or "done"
    step,      \* the loop's counter
    todo,      \* tool_use blocks of this turn still to be executed
    results,   \* tool_use ids answered in this turn
    messages,  \* the conversation: assistant turns and the results after them
    trace,     \* toolCalls
    events,    \* everything given to onEvent, and the final done event
    plan       \* what the run returned

server == <<phase, step, todo, results, messages, trace, events, plan>>

Calls == [tool : Tools, ok : BOOLEAN]
NoPlan == [made |-> FALSE]
Plan(calls, steps, fallback, incomplete) ==
    [made |-> TRUE, calls |-> calls, steps |-> steps, fallback |-> fallback, incomplete |-> incomplete]

\* The trace of deterministicPlan: the fuel computation, and the route when
\* both ports are known.
DeterministicCalls ==
    LET Good(tool) == [tool |-> tool, ok |-> TRUE]
    IN  {<<Good("compute_fuel")>>, <<Good("get_route_info"), Good("compute_fuel")>>}

ServerTypeOK ==
    /\ phase \in {"ready", "model", "tools", "done"}
    /\ step \in 0..MaxSteps
    /\ todo \in Seq([id : Nat \X Nat, tool : Tools])
    /\ results \in Seq(Nat \X Nat)
    /\ \A i \in DOMAIN messages : messages[i].role \in {"assistant", "results"}
    /\ trace \in Seq(Calls)
    /\ \A i \in DOMAIN events : events[i].type \in {"model", "tool", "done"}
    /\ plan.made => plan.steps \in 0..MaxSteps

ServerInit ==
    /\ phase = "ready"
    /\ step = 0
    /\ todo = <<>>
    /\ results = <<>>
    /\ messages = <<>>
    /\ trace = <<>>
    /\ events = <<>>
    /\ plan = NoPlan

-----------------------------------------------------------------------------
\* The top of the loop: count, tell the listener, call the model.
BeginStep(n, sofar) ==
    /\ phase' = "model"
    /\ step' = n
    /\ events' = Append(sofar, [type |-> "model", step |-> n])

\* The run is over: the route sends the plan as the last event.
Finish(p) ==
    /\ phase' = "done"
    /\ plan' = p
    /\ events' = Append(events, [type |-> "done", plan |-> p])

Run ==
    /\ phase = "ready"
    /\ BeginStep(1, events)
    /\ UNCHANGED <<todo, results, messages, trace, plan>>

\* The ids of a turn's blocks.
Blocks(tools) == [i \in 1..Len(tools) |-> [id |-> <<step, i>>, tool |-> tools[i]]]

\* stop_reason is tool_use.
ModelCallsTools(tools) ==
    /\ phase = "model"
    /\ phase' = "tools"
    /\ todo' = Blocks(tools)
    /\ results' = <<>>
    /\ messages' = Append(messages, [role |-> "assistant", ids |-> [i \in 1..Len(tools) |-> <<step, i>>]])
    /\ UNCHANGED <<step, trace, events, plan>>

\* Any other stop_reason: the text is the recommendation.
ModelAnswers ==
    /\ phase = "model"
    /\ Finish(Plan(trace, step, FALSE, FALSE))
    /\ messages' = Append(messages, [role |-> "assistant", ids |-> <<>>])
    /\ UNCHANGED <<step, todo, results, trace>>

\* messages.create throws (key, rate limit, timeout): the deterministic plan
\* replaces whatever was gathered.
ModelFails ==
    /\ phase = "model"
    /\ \E calls \in DeterministicCalls : Finish(Plan(calls, 0, TRUE, FALSE))
    /\ UNCHANGED <<step, todo, results, messages, trace>>

\* A tool that fails is left out of the results.
ExecTool_Skips(ok) ==
    /\ phase = "tools"
    /\ todo # <<>>
    /\ todo' = Tail(todo)
    /\ trace' = Append(trace, [tool |-> Head(todo).tool, ok |-> ok])
    /\ events' = Append(events, [type |-> "tool", index |-> Len(trace) + 1, call |-> [tool |-> Head(todo).tool, ok |-> ok]])
    /\ results' = IF ok THEN Append(results, Head(todo).id) ELSE results
    /\ UNCHANGED <<phase, step, messages, plan>>

\* The event carries the index before the push.
ExecTool_StaleIndex(ok) ==
    /\ phase = "tools"
    /\ todo # <<>>
    /\ todo' = Tail(todo)
    /\ trace' = Append(trace, [tool |-> Head(todo).tool, ok |-> ok])
    /\ events' = Append(events, [type |-> "tool", index |-> Len(trace), call |-> [tool |-> Head(todo).tool, ok |-> ok]])
    /\ results' = Append(results, Head(todo).id)
    /\ UNCHANGED <<phase, step, messages, plan>>

\* execTool and the bookkeeping after it; an error becomes an output.
ExecTool(ok) ==
    /\ phase = "tools"
    /\ todo # <<>>
    /\ LET call == [tool |-> Head(todo).tool, ok |-> ok]
       IN  /\ trace' = Append(trace, call)
           /\ events' = Append(events, [type |-> "tool", index |-> Len(trace) + 1, call |-> call])
    /\ todo' = Tail(todo)
    /\ results' = Append(results, Head(todo).id)
    /\ UNCHANGED <<phase, step, messages, plan>>

\* The loop runs once too often.
TurnEnds_OffByOne ==
    /\ phase = "tools"
    /\ todo = <<>>
    /\ messages' = Append(messages, [role |-> "results", ids |-> results])
    /\ IF step <= MaxSteps
       THEN BeginStep(step + 1, events) /\ UNCHANGED plan
       ELSE Finish(Plan(trace, MaxSteps, FALSE, TRUE)) /\ UNCHANGED step
    /\ UNCHANGED <<todo, results, trace>>

\* The results go into the conversation; the next turn, or the limit.
TurnEnds ==
    /\ phase = "tools"
    /\ todo = <<>>
    /\ messages' = Append(messages, [role |-> "results", ids |-> results])
    /\ IF step < MaxSteps
       THEN BeginStep(step + 1, events) /\ UNCHANGED plan
       ELSE Finish(Plan(trace, MaxSteps, FALSE, TRUE)) /\ UNCHANGED step
    /\ UNCHANGED <<todo, results, trace>>

ServerStep ==
    \/ \E n \in 1..MaxBlocks : \E tools \in [1..n -> Tools] : ModelCallsTools(tools)
    \/ ModelAnswers \/ ModelFails \/ TurnEnds
    \/ \E ok \in BOOLEAN : ExecTool(ok)

-----------------------------------------------------------------------------
(* Properties *)

\* Whenever the model is called, every tool_use it ever made has been answered
\* by one result, in order, in the message right after it: tools fail, are
\* unknown or throw, but the conversation stays one the API accepts.
Conversation ==
    phase = "model" =>
        \A i \in DOMAIN messages :
            messages[i].role = "assistant" =>
                /\ i < Len(messages)
                /\ messages[i + 1] = [role |-> "results", ids |-> messages[i].ids]

\* The tool events among the first k events.
Told(k) == {j \in 1..k : events[j].type = "tool"}

\* The streamed events tell the trace: the n-th tool event has index n and
\* carries the n-th call, whatever turns the calls were made in, and none is
\* missing.
EventsTellTrace ==
    /\ Cardinality(Told(Len(events))) = Len(trace)
    /\ \A k \in DOMAIN events :
         events[k].type = "tool" =>
             LET n == Cardinality(Told(k)) IN events[k].index = n /\ events[k].call = trace[n]

\* At most MAX_STEPS model calls are paid for, and a plan that hit the limit
\* says that it is incomplete.
WithinBudget ==
    /\ Cardinality({i \in DOMAIN events : events[i].type = "model"}) <= MaxSteps
    /\ plan.made /\ plan.incomplete => Cardinality({i \in DOMAIN messages : messages[i].role = "results"}) = MaxSteps
=============================================================================
