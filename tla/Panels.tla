-------------------------------- MODULE Panels --------------------------------
(***************************************************************************)
(* The parts of the web application that show answers about a vessel: the  *)
(* reader of a streamed body, the three chats, the planner over the        *)
(* agent's run, the pages, and the table of the Angular dashboard.  They     *)
(* share no state, so a behaviour is one of any of them, with the others    *)
(* at rest.                                                                *)
(***************************************************************************)
EXTENDS Pages, Integers, FiniteSets

CONSTANTS
    Frames,
    Parts, MaxQuestions, Recent, HistoryLimit, NoCall, Hello, Notice, Reason,
    Tools, MaxSteps, MaxBlocks, NoResult,
    Terms, Blank, ParamOf, Statuses, All, Matches, PageSize, MaxTyped

VARIABLES
    part,   \* the part of this behaviour: "reader", "chat", "planner", "page" or "table"
    rest, held, buffer, delivered, at,
    ship,   \* the selected vessel of a chat or the planner
    surface, mounted, thread, store, call, asked, holed,
    phase, step, todo, results, messages, trace, events, plan,
    client, about, read, shown, result, stored,
    onTable, signedIn, box, due, settled, inFlight, rows, busy, filter, pageNo, typed

Ships == ToSet(Vessels)

Reader == INSTANCE SseReader
Chat == INSTANCE ChatPanel WITH selected <- ship, MaxAsks <- MaxQuestions
Planner == INSTANCE AgentPlanner WITH selected <- ship, Vessels <- Ships
Table == INSTANCE VesselsPage WITH mounted <- onTable, shown <- rows, loading <- busy

ASSUME PanelsAssumption ==
    /\ Reader!SseAssumption /\ Planner!AgentAssumption /\ PagesAssumption
    /\ Chat!ChatAssumption /\ Table!VesselsPageAssumption

readerVars == <<rest, held, buffer, delivered, at>>
chatVars == <<surface, mounted, thread, store, call, asked, holed>>
serverVars == <<phase, step, todo, results, messages, trace, events, plan>>
plannerVars == <<serverVars, client, about, read, shown, result, stored>>
tableVars == <<onTable, signedIn, box, due, settled, inFlight, rows, busy, filter, pageNo, typed>>

vars == <<part, ship, readerVars, chatVars, plannerVars, pageVars, tableVars>>

TypeOK == Reader!TypeOK /\ Chat!TypeOK /\ Planner!TypeOK /\ PageTypeOK /\ Table!TypeOK

\* What varies of a part at rest is fixed.
Either(p, S) == IF part = p THEN S ELSE {CHOOSE x \in S : TRUE}

Init ==
    /\ part \in {"reader", "chat", "planner", "page", "table"}
    /\ ship = Head(Vessels)    \* the chats and the planner treat all vessels alike
    /\ surface \in Either("chat", {"knowledge", "compliance", "sire"})
    /\ page \in Either("page", DOMAIN Pages)
    /\ build \in Either("page", {"production", "development"})
    /\ Reader!Init /\ Chat!Init /\ Planner!Init /\ PageInit /\ Table!Init

\* A step of one part, with the others at rest.
ReaderStep(A) == part = "reader" /\ A /\ UNCHANGED <<part, ship, chatVars, plannerVars, pageVars, tableVars>>
ChatStep(A) == part = "chat" /\ A /\ UNCHANGED <<part, readerVars, plannerVars, pageVars, tableVars>>
PlannerStep(A) == part = "planner" /\ A /\ UNCHANGED <<part, readerVars, chatVars, pageVars, tableVars>>
PageStep(A) == part = "page" /\ A /\ UNCHANGED <<part, ship, readerVars, chatVars, plannerVars, tableVars>>
TableStep(A) == part = "table" /\ A /\ UNCHANGED <<part, ship, readerVars, chatVars, plannerVars, pageVars>>

Next ==
    \/ ReaderStep(Reader!Next) \/ ChatStep(Chat!Next) \/ PlannerStep(Planner!Next)
    \/ PageStep(PageNext) \/ TableStep(Table!Next)

\* The fairness of the planner: the server works on, and what has arrived is read.
Fairness ==
    /\ WF_vars(PlannerStep(Planner!Receive))
    /\ WF_vars(PlannerStep(Planner!ServerWorks))

Spec == Init /\ [][Next]_vars /\ Fairness

-----------------------------------------------------------------------------
(* Each property is stated, with what the code says of it, in the module of its part; *)
(* ShownIsSelected and FailuresAreTold are those of Pages.                            *)

ReadsTheBody == Reader!ReadsTheBody
ThreadsStayApart == Chat!ThreadsStayApart
OneAnswer == Chat!OneAnswer
Conversation == Planner!Conversation
EventsTellTrace == Planner!EventsTellTrace
WithinBudget == Planner!WithinBudget
ReconciledUnlessFallback == Planner!ReconciledUnlessFallback
TableShowsTheTerm == Table!TableShowsTheTerm
StopsWaiting == Planner!StopsWaiting
===============================================================================
