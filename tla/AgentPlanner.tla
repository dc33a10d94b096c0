----------------------------- MODULE AgentPlanner -----------------------------
(***************************************************************************)
(* The planner panel (modules/voyage/AgentPlanner.tsx) over a streamed run *)
(* of VoyageAgent: it consumes the events in order (lib/sse.ts, see        *)
(* SseReader), shows the tool calls as they come, and keeps the last       *)
(* result in a state that is persisted per vessel                          *)
(* (hooks/usePersistentVesselState.ts), while the user changes vessel,     *)
(* leaves the tab, presses Stop, or loses the connection.                  *)
(***************************************************************************)
EXTENDS VoyageAgent

CONSTANTS Vessels, NoResult

VARIABLES
    client,    \* "idle", "reading" or "ended"
    selected,  \* the vessel chosen in the top bar
    about,     \* the vessel of the run, captured by handleRun
    read,      \* events consumed so far
    shown,     \* streamedCalls
    result,    \* snapshot.result in memory: the run's vessel and calls
    stored     \* snapshot.result in localStorage, per vessel

panel == <<client, selected, about, read, shown, result, stored>>
vars == <<server, panel>>

Results == [vessel : Vessels, calls : Seq(Calls), fallback : BOOLEAN]

TypeOK ==
    /\ ServerTypeOK
    /\ client \in {"idle", "reading", "ended"}
    /\ selected \in Vessels /\ about \in Vessels
    /\ read \in 0..Len(events)
    /\ shown \in Seq(Calls)
    /\ result \in Results \cup {NoResult}
    /\ \A v \in Vessels : stored[v] \in Results \cup {NoResult}

Init ==
    /\ ServerInit
    /\ client = "idle"
    /\ selected \in Vessels
    /\ about = selected
    /\ read = 0
    /\ shown = <<>>
    /\ result = NoResult
    /\ stored = [v \in Vessels |-> NoResult]

\* setSnapshot and the effect that saves it under the selected vessel's key.
SetResult(r) ==
    /\ result' = r
    /\ stored' = [stored EXCEPT ![selected] = r]

\* handleRun: the last result is cleared and the request goes out.
StartRun ==
    /\ client = "idle"
    /\ Run
    /\ client' = "reading"
    /\ about' = selected
    /\ SetResult(NoResult)
    /\ UNCHANGED <<selected, read, shown>>

\* Calls that failed are not shown.
Receive_GoodOnly ==
    /\ client = "reading"
    /\ read < Len(events)
    /\ read' = read + 1
    /\ LET event == events[read + 1]
       IN  \/ event.type = "model" /\ UNCHANGED <<client, shown, result, stored>>
           \/ /\ event.type = "tool"
              /\ shown' = IF event.call.ok THEN Append(shown, event.call) ELSE shown
              /\ UNCHANGED <<client, result, stored>>
           \/ /\ event.type = "done"
              /\ SetResult([vessel |-> about, calls |-> event.plan.calls, fallback |-> event.plan.fallback])
              /\ client' = "ended"
              /\ UNCHANGED shown
    /\ UNCHANGED <<server, selected, about>>

\* The panel waits for a frame after the last one.
Receive_WaitsOn ==
    /\ client = "reading"
    /\ read <= Len(events)
    /\ read' = read + 1
    /\ UNCHANGED <<server, client, selected, about, shown, result, stored>>

\* onEvent for the next frame; after done comes [DONE] and the read returns.
Receive ==
    /\ client = "reading"
    /\ read < Len(events)
    /\ read' = read + 1
    /\ LET event == events[read + 1]
       IN  \/ event.type = "model" /\ UNCHANGED <<client, shown, result, stored>>
           \/ /\ event.type = "tool"
              /\ shown' = Append(shown, event.call)
              /\ UNCHANGED <<client, result, stored>>
           \/ /\ event.type = "done"
              /\ SetResult([vessel |-> about, calls |-> event.plan.calls, fallback |-> event.plan.fallback])
              /\ client' = "ended"
              /\ UNCHANGED shown
    /\ UNCHANGED <<server, selected, about>>

\* The selected vessel changes: the hook loads what is stored for it.
SelectVessel(v) ==
    /\ v # selected
    /\ selected' = v
    /\ result' = stored[v]
    /\ UNCHANGED <<server, client, about, read, shown, stored>>

\* Stop: the request is aborted; nothing tells the server's loop.
Stop ==
    /\ client = "reading"
    /\ client' = "ended"
    /\ UNCHANGED <<server, selected, about, read, shown, result, stored>>

\* The tab is left and shown again, or the connection breaks: the component
\* hydrates from storage, and what arrives later reaches no one.
Leave ==
    /\ client = "reading"
    /\ client' = "ended"
    /\ shown' = <<>>
    /\ result' = stored[selected]
    /\ UNCHANGED <<server, selected, about, read, stored>>

\* The loop on the server goes on by itself.
ServerWorks == ServerStep /\ UNCHANGED <<client, selected, about, read, shown, result, stored>>

Next ==
    \/ StartRun \/ Receive \/ Stop \/ Leave
    \/ ServerWorks
    \/ \E v \in Vessels : SelectVessel(v)

Spec == Init /\ [][Next]_vars /\ WF_vars(Receive) /\ WF_vars(ServerWorks)

-----------------------------------------------------------------------------
(* Properties *)

\* What the panel shows while a run lasts is a prefix of the server's trace,
\* and unless the run fell back, "the authoritative trace from the final event
\* (identical data, reconciled)" (AgentPlanner.tsx:177-178).
ReconciledUnlessFallback ==
    /\ IsPrefix(shown, trace)
    /\ read > 0 /\ events[read].type = "done" /\ shown # <<>> =>
            plan.fallback \/ plan.calls = shown

\* The panel stops waiting, whatever the model and the tools do.
StopsWaiting == client = "reading" ~> client = "ended"

\* "keeping a separate thread per vessel ... threads shouldn't bleed across
\* vessels" (usePersistentVesselState.ts:13-14): what is stored for a vessel
\* is about it.
SeparatePerVessel == \A v \in Vessels : stored[v] # NoResult => stored[v].vessel = v
===============================================================================
