# Formal verification of vesselAI

TLA+ modules, TLC configurations and TLAPS proofs for the parts of vesselAI in
which something can go wrong between two steps: requests over a shared
database, a replica with its limits, rooms and drain, a browser whose tabs,
accounts, vessels and network change under running code, streamed answers, and
the feeds that bring data in. Every definition is
translated from the source; `PROJECT.json` names the lines of each.

Paths are relative to the repository. `B/` stands for `backend/src/`, `F/` for
`frontend/src/`, `D/` for `data-platform/`.

## 1. The system

| Part | Code | State it keeps | Operations |
|---|---|---|---|
| Tenancy and routes | `B/lib/tenant.ts`, `B/routes/*.ts`, `B/app.ts` | none between requests; the fixture catalogue | the routes: who reaches which vessel, what is awaited, which statuses |
| Rate limiting | `B/middleware/rateLimiter.ts` | counters in each replica's memory | per address, per failed login, per user of a paid route |
| Persisted work orders | `B/routes/maintenance.ts`, `B/lib/audit.ts` | `WorkOrder`, `AuditLog` rows; one database session per request | create, list |
| Vessels | `B/routes/fleet.ts`, `B/lib/tenant.ts` | `Vessel` rows; a fixture list in each replica's memory | create, update, read with fallback |
| Accounts | `B/routes/auth.ts`, `B/middleware/auth.ts` | `User` rows; a JWT at the client, valid for 7 days | login, register, me, token check |
| Voyage agent | `B/services/voyageAgent.ts`, `B/routes/voyage.ts` | conversation, trace and step counter of a run | one run, plain or streamed |
| AI helpers and chats | `B/services/aiService.ts`, `B/routes/knowledge.ts`, `B/routes/compliance.ts` | none between requests | JSON answers, streamed answers, each with a fallback |
| AIS ingestion | `B/services/aisStream.ts`, `B/lib/aisParser.ts` | websocket, backoff, time of the last write per vessel; `VesselPosition` rows | connect, report, upsert, reconnect |
| Weather pipeline | `B/services/weatherPipeline.ts`, `B/lib/openMeteo.ts` | `WeatherObservation` rows | a sync run on a timer |
| Bunker import | `B/services/bunkerImport.ts`, `B/lib/csv.ts` | `BunkerRecord` rows | parse, validate, insert |
| Notifications, fleet sockets | `B/routes/notifications.ts`, `B/lib/fleetSockets.ts` | a list, and rooms, in each replica's memory | create, read, delete; subscribe |
| Server and worker | `B/server.ts`, `B/worker.ts` | open connections, timers | start, heartbeat, drain, exit |
| Browser sessions | `F/context/AuthContext.tsx`, `F/context/SessionDataProvider.tsx`, `F/lib/sessionData.ts`, `F/lib/queryClient.ts`, `F/lib/api.ts` | three localStorage keys, one query client per session and tab, a persisted cache in IndexedDB | login, logout, restore, storage events, 401 |
| Browser offline queue | `F/lib/offlineQueue.ts`, `F/hooks/useNetworkStatus.ts`, `F/lib/api.ts` | `vm_offline_queue` in localStorage | add, flush, replay, remove |
| Stream reader | `F/lib/sse.ts` | decoder, buffer | read, drain frames |
| Planner panel | `F/modules/voyage/AgentPlanner.tsx`, `F/hooks/usePersistentVesselState.ts` | the running request, the calls shown, one stored result per vessel | run, stop, switch vessel |
| Chat panels | `F/modules/knowledge/KnowledgeChat.tsx`, `F/modules/compliance/ComplianceChat.tsx`, `F/modules/sire/SirePage.tsx` | a thread per vessel, or per mounted tab | send, receive, stop, clear, switch vessel |
| Pages and fleet context | `F/pages/`, `F/modules/`, `F/context/FleetContext.tsx`, `F/lib/api.ts` | cached queries, page state, the selected vessel | ask, show, retry, fall back, select a vessel |
| Angular dashboard | `frontend-angular/` | its own session and vessel list | login, search, edit |
| Warehouse and its API | `D/` | bronze, silver and gold tables in one database file | load, build, query |

**How they interact.** The web clients call the API over HTTP with a JWT whose
fleet claim every ownership check trusts. Two or more API replicas share one
PostgreSQL database; some routes fall back to fixtures of their own process.
One worker (deployed with strategy Recreate) feeds positions and weather into
the same database. All tabs of a browser share localStorage and IndexedDB and
learn of each other's changes only through `storage` events, which come later.
The planner and the chats read server-sent events.

**What is hard.** A handler and its database session are separate processes: a
commit may take effect after its caller gave up. A vessel may be moved to
another fleet between a check and its use. A tab's code awaits while another
tab replaces the account. A late 401, a throttled save or a captured list of
queued writes belongs to a session that has ended. A model turn may fail after
half of its results were shown. Upserts are started and never awaited. A vessel
is switched while an answer about another is on its way, and nothing cancels it.
A replica is told to stop while handlers wait for the database it is about to
release. The hazards in `PROJECT.json` name the line of each of these, the properties that
cover it, and what is not covered yet.

**What makes each part correct**

- *Work orders*: the response tells the truth about the database; ownership
  holds at the moment of effect; the audit trail never names an order that
  does not exist; a board shows every order acknowledged before it was asked
  for, on any replica.
- *Vessels*: a vessel the database confirmed is never answered from memory; the
  audit trail names only durable rows; only an owning fleet changes or reads a vessel.
- *Sessions*: tabs agree with storage, one account's data never shows, stays or
  is saved under another's session, and no late refusal of one session ends another.
- *Offline queue*: a write is only carried out as the account that made it,
  stays queued when carrying it out fails, and stays gone once it left.
- *Agent and panel*: the conversation stays one the model API accepts, events
  and trace agree, a plan always comes back within the budget, and what is
  stored for a vessel is about it.
- *Stream reader*: chunking changes nothing.
- *AIS*: one consumer, a row per vessel that lags by less than the throttle
  window and the longest write, a stream that heals.
- *API*: answers and notifications stay in the fleet of the caller; every route
  that calls the model is counted; the pool outlives the requests it serves;
  every request ends, and so does a socket whose token has expired.
- *Chats*: a thread is about its vessel and shows what is stored; an answer is
  whole, or a notice, or an error.
- *Angular table*: the table holds the answer to what is in the search box.
- *Pages*: the service's figures are about the vessel in the heading; pages that
  promise to tell a failed request do, and put nothing of their own in its place.
- *Weather*: whatever overlapped, failed or was cut off, the latest observation of
  every point gets stored.
- *Bunker import*: a file written by a spreadsheet is read back as its cells; the
  counts are true, all of the fleet's own rows are inserted or none, and no other.
- *Warehouse*: one row per vessel and instant, none lost to a worse duplicate;
  episodes are exactly the unbroken idle runs, by the clock's minutes and to within
  a minute by its seconds; no impossible distance.

## 2. The modules

| Module | Models | Uses |
|---|---|---|
| `WorkOrderLedger` | abstract specification: a ledger with atomic, owner-checked recording and reading | – |
| `WorkOrders` | the two routes, their transactions and locks, replicas, crashes, transfers | `WorkOrderLedger` (instance, with a refinement mapping) |
| `WorkOrdersProofs` | inductive invariant, theorems, refinement proof | `WorkOrders` |
| `VesselRoutes` | create, read and update of one vessel with fallback and audit | – |
| `VesselRoutesProofs` | fixtures, audit trail, fleets | `VesselRoutes` |
| `OfflineQueue` | queue, flushes, accounts, network, server | – |
| `OfflineQueueProofs` | a write is its maker's, is kept when it fails and stays gone | `OfflineQueue` |
| `Sessions` | tabs, accounts, query clients, persistence | – |
| `SessionsProofs` | what tabs show, hold and persist, and how sessions end | `Sessions` |
| `VoyageAgent` | the loop of `runVoyageAgent` | – |
| `AgentPlanner` | the panel composed with a run | `VoyageAgent` |
| `AgentPlannerProofs` | the conversation, the events, the budget and the panel's trace; the stream reader | `Panels` |
| `SseReader` | the decoder and framing of a stream | – |
| `ChatPanel` | the three chats and the server's streamed answer | – |
| `PanelsProofs` | the chats, the pages and the Angular table | `Panels` |
| `Tenancy` | vessel lookups by fleet claim | – |
| `ApiRoutes` | every stateless handler up to its first await | `Tenancy` |
| `ApiServer` | a replica: middleware, limiters, handlers, notifications, sockets, drain | `ApiRoutes` |
| `ApiServerProofs` | own figures, the AI limit, the drain | `ApiServer` |
| `Pages` | the pages as requests, caches, fallbacks and what they show | `ApiRoutes`: the routes answer the pages |
| `VesselsPage` | the Angular table: search pipeline, filter, pages, sign-out | – |
| `Panels` | union of the reader, the chats, the planner, the pages and the Angular table | `Pages`; instances of `SseReader`, `ChatPanel`, `AgentPlanner`, `VesselsPage` |
| `AisIngestion` | websocket, throttle, upserts | – |
| `FeedsProofs` | one connection, rows that keep up; the warehouse's tables; files read back, reports that are true | `Feeds` |
| `WeatherSync` | overlapping runs, point by point | – |
| `Csv`, `BunkerImport` | the parser over characters; one upload from file to audit | `Csv` |
| `Warehouse` | load, silver and gold tables, readers | – |
| `Feeds` | union of the four ways data is brought in | instances of the four above |

Each `MC…` module gives a specification its finite sets, and the `.cfg` files
give the constants. Definitions whose name has a suffix (`Holders_PlainSelect`,
`Doubled_Unbounded`) are what the code would do with a plausible bug; they are
not used by `Next` and serve to see each property fail.

`Feeds` and `Panels` join parts that share no state: a behaviour is one of any
part, chosen initially, with the others at rest. That changes nothing for the
parts, keeps their actions and properties in modules of their own, and lets one
configuration check them all. The variables of a part at rest keep their initial
value, so the state spaces add and do not multiply.

### WorkOrders

`pc` is the place of each request's handler between two awaits, `tx` the state
of its database session. `LockOwnedVessel` is the `SELECT … FOR SHARE` with the
fleet in its WHERE clause: it returns no row, or the row with a share lock, held
until the session ends; a route that gets no row rolls back and then answers
(`Refuse`). `Reassign` (the trusted flow that moves vessels, outside
this repository's routes) is enabled only for rows nobody holds. `InsertWorkOrder`
sends the insert and the COMMIT; `ReadWorkOrders` is the `findMany` and its COMMIT,
and `RespondBoard` the answer once that has returned; `DbCommit` and `DbAbort` decide it; `CommitReturns`
is its reply, and `DbCallFails` any rejection of the transaction, a lost reply
to a commit included, answered with 503. `RecordAudit` may fail without effect on
the answer. `Crash` ends every handler of a replica while its sessions live on
until the database notices. `promised` is a history variable: the orders that
had been acknowledged when a list request arrived.

`orders` holds request identities since each create request makes one order
with an id of its own; the description, priority and dates are left out.

### VesselRoutes

`db` is the table, `fixtures` the copy in each replica. `pc` splits a handler at
its awaits: `CreateRow` and `UpdateRow` are the database's step, `WriteConfirmed`
the answer reaching the handler, and `CallFails` an answer or a connection lost on
either side of the effect. A read is `LookUp` and `FindEquipment`, two calls of
which either may fail into the fixtures. `WriteRefused` is the unique index on `imoNumber`. The
fallback runs with the catch in one step since nothing is awaited there. Of the
attributes the unique number and one other are kept: partial bodies need two.

### OfflineQueue and Sessions

Both take one synchronous piece of script for a step. `OfflineQueue` has flushes
(`run`) with the list each captured at its start, and keeps of accounts only who
is stored and whether the token is accepted; `Sessions` has the tabs, the query
client of each and the persistence, and leaves out the queue. Logins in both
clear the storage first, as `AuthContext.login` does. The events of the three
session keys are one event in `Sessions`, since they are written together and
the handler re-reads all three. A query is kept as the client that asked and
the session whose token it carried, which may differ: that is the hazard. A login
takes the id that is stored when its request is sent, another tab's perhaps;
`Lent` says that a session is in that position, and its end by the refusal of that
login is told apart from every legitimate one. `Execute` of `OfflineQueue` is the
work-order route as far as a replay sees it: carried out, or refused with 401, 429,
a 5xx or for what it asks.

### VoyageAgent, AgentPlanner, SseReader

`VoyageAgent` has the conversation as message roles with tool-use ids, the trace,
and the events as emitted. A tool's result is good or bad; an unknown name is a
name like another, which fails. `AgentPlanner` reads the events in order, as
`SseReader` shows the real reader does. The panel's result is saved by the effect
of `usePersistentVesselState` in the render that follows `setSnapshot`, which is
the same step.

`SseReader` keeps bytes as ASCII characters, the halves of a two-byte character,
and newlines; `data:` is one symbol, so a cut inside that word is not told apart
from one next to it (the buffer keeps both until a blank line). Of a payload
`SseAssumption` says what JSON ensures: its bytes are not empty, hold no line break
(they are escaped), do not begin with `[DONE]`, and only the last is the brace that
closes the whole, so that no part of it parses.

`ChatPanel` numbers the questions; a message carries the number, so that "about
another vessel" and "someone else's answer" are statements about numbers. The
effect of `usePersistentVesselState` saves in the render that follows a
`setMessages`, so the two are one step; a vessel switch reads the other thread
back. The inspector's tab keeps its thread in the component and patches its last
message. A part of an answer is written and shown in one step, since
`SseReader` shows that frames arrive whole and in order.

### ApiRoutes, ApiServer

Node runs a handler without interruption up to its first await, so `Receive` is
the whole middleware chain, the limiter counts and the handler as far as it
awaits, and `Returns` the rest. `ApiRoutes` gives each route its outcome: the
vessels whose figures the answer has, what is awaited, and the statuses the
await may end in (each handler catches what it awaits, or is wrapped). The
notifications and sockets, which keep state, are in `ApiServer`. `LookUpAddress`
and `CreateAccount` are the two database calls of a registration, which
interleave. `GET /vessels/:id`, with two awaits, is in `VesselRoutes`. A model that
fails is answered 200 like one that does not, with figures of the route's own;
`MayBeMadeUp` are the answers of which only a header tells. `Terminate`, `Release`, `Exit` and `ForceExit` are the drain: stop
accepting, wait for connections, release the pool, exit 0; or 25 seconds, or a
second signal, exit 1. `load` chooses a workload: every route is in one, routes
that do not interact are in different ones.

### Pages

A page is a record: how it queries (under a key with the vessel, in an effect, at
mount, on a button), what it asks for which vessel, which fixtures stand in for
a failure in which builds, and what clears its last result. `Select` moves the
vessel and does what the page's hooks do then; `Answered`, `Retried` and `Fails`
end a request, whose outcome is `Handle` of `ApiRoutes`: a page's answer is what
the modelled route says. What comes in an answer is `real`, or `made up` by the
service when its model failed, and no page reads the header that tells them apart;
both are `FromService`, while `fixture` and `empty` are the browser's own. `Visit`
is another page with the same cache key.

### VesselsPage

The debounce is `due`, which every keystroke sets; `Settle` is its timer, where
`distinctUntilChanged` compares and `switchMap` replaces the search under way.
Rows are kept as the term they answer, with a count per filter for the pages.

### AisIngestion, WeatherSync, BunkerImport, Warehouse

Time is in ticks, kept as ages that saturate: a timestamp is `now - age`. A pending
upsert is the age of the report it carries. `Latency` is the longest that one
takes: the code sets no limit, so the constant is any number, and in the runs it
is longer than the window, so that upserts of a vessel overlap and end in any
order. `delay` is the backoff, `sockets` and `timers` are sequences so that two
of them could exist. A restart may leave one upsert that still reaches the row.

`WeatherSync` has two runs that may overlap (the timer, a manual request, the next
timer), each settling its points one by one; `restarts` cuts them off. Rows are
pairs of point and hour, since an upsert by that key leaves one.

`Csv` is the parser's state after each character, a function on the positions of
the text; the characters are those it treats specially, and one that stands for
all others. `BunkerImport` keeps two of eight
columns, the vessel's number and one figure to validate. A row is known by its
line, so rows, records and audit entries are sets; the errors are a list in some
order, since a report counts them and names each line once. The insert is one
transaction: it may fail, or be committed and its reply lost, and both are
answered 500. `Warehouse` gives each
table as a function of the rows below it; times are seconds, of which `Minutes` is
`date_diff('minute')`, the minutes of the clock passed, and a place is a
distance along a line. Each gold table remembers the silver it was built from,
because a build may stop between two of them.

## 3. The runs

| Run | Instance | States | Asks |
|---|---|---|---|
| `work_orders` | 2 requests, 2 replicas, 1 vessel, 2 fleets | 385 k | truth of replies, audit, boards, ownership, refinement, answers |
| `vessel_routes` | 2 requests, 1 replica, 1 seeded vessel, 2 IMO numbers, 2 names, 2 fleets | 213 k | no phantom, durable audit, own fleet only |
| `api` | 2 connections, 3 vessels of 2 fleets, 3 users (one without a fleet), limits 1 and 2, 2 notifications, 10 workloads | 61 k | fleet of answers and notifications, counted model calls, drain, ends |
| `sessions` | 2 tabs, 2 accounts, 2 sessions ever made | 1.4 M | agreement, data isolation, whose refusal ends a session |
| `offline_queue` | 2 accounts, 2 writes, 2 flushes, each write carried out at most twice | 599 k | own account, failures keep the write, resurrection |
| `panels` | 5 payloads in every cut; 3 questions, 2 vessels, 2 parts; 2 model turns of 1 or 2 calls; 21 pages, 2 builds, 4 requests; 4 terms, 4 changes of the box, 2 rows a page | 381 k | completeness, threads, whole answers, conversation, events, budget, reconciliation, figures, failures, the table's term, an end to waiting |
| `feeds` | AIS: 2 vessels, window 1, latency 2, delays 1 to 3; weather: 2 points, 2 runs, 1 restart; bunker: 300 sheets in 2 styles, 2 uploads; warehouse: every track of 5 quarters of an hour and 4 mixed deliveries, 2 builds | 353 k | one stream, lag, healing; keeping up; round trip, true reports; representation, episodes, distances |

**Why the bounds are enough.** The hazards are races of two: two requests, two
tabs, two flushes, two accounts, one vessel that changes hands. In `work_orders`
a single vessel makes every pair of requests compete; with several fleets the
vessel moves between them and back. That nothing changes with more of anything
is what the proofs show for its safety properties. In `api` a limit of one paid
call is passed by the second, whichever route it takes, and two connections are
two handlers in every order; three users are an owner, a stranger and one without
a fleet. In `sessions` two sessions suffice for every "earlier session" of a
property to meet a later one, of the same account or of another. In
`offline_queue` one write carried out twice is already the repetition the code
allows, and the two flushes stand for two tabs or one tab whose network flapped.

In `panels`, two model turns are the least with an index that continues over
turns, and two calls the least with a failure in the middle of a turn. A cut of a
body forgets how it was reached, and two-byte characters at the ends and in the
middle and a payload of one byte are there. Three questions are more than
the recent messages kept, and reach the server's limit on a history. Four
requests of a page are two vessels, back, and one more; a query's three tries are
all made. Of the four terms two differ by a space only, one has no matches and
one fills three pages. In `feeds`, an upsert may take longer than the window, so reports before, at
and after the boundary occur with zero, one and more upserts under way, which end
in every order, and the delay doubles to its cap; two weather runs overlap each other and a restart; the
cells of the sheets have each special character alone and next to another; five
quarters of an hour hold two episodes of the least length and a gap between them,
and the mixed deliveries have duplicates, a corrupt copy, a teleport, midnight and
rows to refuse.

**Named bounds.** `MaxSessions` (sessions ever made), `MaxExecuted` (how often the
server carries out one write), `MaxBlocks` (calls in one model turn). `MaxSteps`
is not a bound of the model but the code's `MAX_STEPS`, made smaller. The ages of
`AisIngestion` saturate at values beyond which no property or guard tells them
apart.

The others are `MaxFeed` (notifications ever made), `MaxQuestions` and `Parts`
(questions of a chat, parts of an answer), `MaxAsks` (requests of a page),
`MaxTyped` (changes of the search box; `PageSize` is the code's, made smaller),
`MaxRestarts` and `MaxManual` (weather), `MaxUploads`, `MaxBuilds` and `LastHour`.

**Symmetry.** `sessions`, `offline_queue` and `vessel_routes` permute model values
that appear nowhere by name. Runs with liveness properties use no symmetry.

**Deadlock.** `CHECK_DEADLOCK FALSE` is set where an instance is finite and has
nothing left to do when all requests, bodies, questions, uploads or builds of its
bounds are done: `work_orders`, `vessel_routes`, `api`, `api_voyage`, `feeds` and
`panels`.

**Fairness.** `FairSpec` of `WorkOrders`: a handler's awaits end (the transaction
has a timeout, and the driver rejects calls on a lost connection), PostgreSQL
decides a commit it has received and ends sessions whose client is gone. Nothing
obliges clients, crashes, transfers or the abort of healthy sessions.
`FairSpec` of `ApiServer`: a handler's awaits end, and the drain's and a token's
timers fire. Clients, signals and windows are free.
`Fairness` of `Feeds`: for AIS the event loop runs due timers and socket
callbacks, upserts end, time passes; `SelfHeals` assumes that the provider stays
up, and that the worker is not replaced for ever. For weather the interval
elapses, a fetch ends (by its own timer if not otherwise), a worker that stopped
is started again; `KeepsUp` assumes that provider and database stay up from some
point on. Nothing obliges uploads or builds.
`Fairness` of `Panels`: the server's step (a call of the model or of a tool ends,
with an error at worst) and the delivery of frames to a planner still reading.
Nothing obliges the user to run, stop, switch or stay, nor a page's answer.
`VesselRoutes`, `OfflineQueue` and `Sessions` state safety only: no document
promises when a queued write is retried or a login answered.

### Disagreements with what the repository says

Five runs check one statement of a comment, a test or a document and find it
violated; the findings in `PROJECT.json` quote the lines.

- `offline_sign_in`: queued writes are said to replay once the same user signs in
  again; signing in deletes them first.
- `offline_rate_limit`: a write is said to be dropped only when retrying could never
  help; the limiter's 429 drops it. `FailuresKeepWrites` says what holds: no
  response, a 5xx and a 401 keep it.
- `agent_vessels`: results are said not to bleed across vessels; a switch during a
  run stores the result under the other vessel.
- `sessions_refusal`: the login page is said to show what happened; a wrong
  password reloads the page without the message.
- `api_voyage`: an answer is said to be about the vessel the request names; a
  port-agent letter takes cargo and last port from the first voyage of the fleet. The
  default itself is documented for requests that name no voyage
  (`B/routes/voyage.ts:265-267`), and the client names one to `predict-eta`.

Four properties of passing runs hold only with an exception for something the
repository says otherwise about. The model does what the code does, and the
exception is part of the property:

- `OwnRefusalsOnly`: a 401 is said not to clear a replacement session
  (`F/lib/api.test.ts:299`). A wrong password typed in one tab signs out the session
  that another tab made meanwhile, because the login's request carried that
  session's id (`F/lib/api.ts:53`, `:69`); `Lent` is that case and no other.
- `LagIsBounded`: a vessel's row is said to be its latest known position
  (`backend/prisma/schema.prisma:361`). An upsert slower than the next one puts an
  older one back; the property says how old it can be.
- `EpisodesAreRuns`: an episode is said to last at least the minimum. By the clock's
  minutes up to one less will do; the property says what the table holds by the
  clock's minutes, and how far that is from the seconds.
- `FailuresAreTold`: a handover is said to make no claim that no AI made
  (`ShiftHandover.tsx:58-61`). When the model fails the route answers 200 with a
  report of its own (`B/services/aiService.ts:144`), `createHandover` does not read
  the header that says so (`F/lib/api.ts:504-517`), and the page shows it to be
  signed like any other. The property is about requests that fail, and about what
  the browser makes up.

Read in the code while modelling, and not given a run of their own:

- A 503 says a work order was not saved, also when only the reply to the COMMIT was
  lost (`B/routes/maintenance.ts:357`). A duplicate IMO number, refused by a
  reachable database, falls back to fixtures (`B/routes/fleet.ts:111-112`, `:145`).
- Two partial updates can leave a design speed above the maximum
  (`B/schemas/index.ts:72`, documented there).
- A run that falls back replaces calls already shown (`B/services/voyageAgent.ts:352`,
  against `AgentPlanner.tsx:177-178`); Stop closes the stream but not the server's
  loop (`AgentPlanner.tsx:111-112`, `B/routes/voyage.ts:169`).
- The fleet claim of a token is trusted for its 7 days (`B/middleware/auth.ts:47`).
- The port-agent page sends the fixtures' vessel ids unmapped, which the route does
  not know (404); `F/lib/api.ts:217` asks a route the API does not have; a document
  is uploaded as multipart to a handler that reads JSON.
- The inspector's chat is not kept per vessel, and sends its whole thread: after ten
  exchanges the history is longer than the schema takes (400). A vessel switch
  during an answer leaves a hole in it, and an answer stopped before its first part
  stays as an empty turn of the history.
- CII and ETS pages do not cancel a request: a late answer replaces the newer
  vessel's figures. `ShownIsSelected` says what holds otherwise.
- On a failure, in production too, the readiness tab shows a fixture's chapters and
  the document manager its demo list. The grid's fallback, cached as a success,
  leaves the work-order form an empty catalogue. A saved report's file name has the
  vessel selected when it is saved.
- Weather: a slower, older fetch may write an observation again. Congestion counts
  positions of any age (`B/services/portCongestion.ts:78`).
- Bunker: a row number counts parsed rows, not lines (`B/services/bunkerImport.ts:32`,
  `:74`), and a repeated upload inserts its rows again. When only the reply to the
  insert was lost the answer is "Import failed" (`B/routes/imports.ts:55`) with every
  row in the table and no audit record; `ReportIsTrue` allows all rows or none there.
- When the fleet cannot be loaded in production the map and the dashboard show the
  fixtures' vessels beside an error banner (`LiveFleetMap.tsx:63`,
  `DashboardPage.tsx:182`; `F/context/FleetContext.tsx:46-48` says that production
  never presents fixtures as fleet data).
- Warehouse: a query that holds the file open keeps a job from starting
  (`D/api/main.py:149` says that it never does).
- The summary of a vessel's equipment divides by their number, which may be zero
  (`B/routes/maintenance.ts:130`).

## 4. The proofs

The theorems of eight modules hold for every value of the constants; the runs
check the same formulas on small instances. Each module states the inductive
invariant of its component, as `IInv` or as one for each group of properties that
share something, one lemma for each action or group of actions that can disturb
it, and a theorem for each property. Components checked together with others are
also proved about together: the theorems on the agent, the reader, the chats, the
pages and the table are about behaviours of `Panels`, those on AIS, the bunker import and
the warehouse about behaviours of `Feeds`, with a lemma for each part that says how
a step of the whole moves it (`PlannerMoves`, `ReaderMoves`, `ChatMoves`, `AisMoves`,
`BunkerMoves`, `LakeMoves`). A theorem that states a property some run checks names
the very definition the run's configuration names.

### Work orders

`WorkOrdersProofs` proves, for any sets of requests, replicas, vessels, fleets
and equipment, from `ConstantsAssumption` alone (the special values are not
members of the sets they are set apart from, and each equipment has a vessel):

| Theorem | Statement |
|---|---|
| `TypeCorrect` | `Spec => []TypeOK` |
| `Inductive` | `Spec => []IInv` |
| `TrueReplies` | `Spec => []RepliesAreTrue` |
| `SoundAudit` | `Spec => []AuditIsSound` |
| `CurrentBoards` | `Spec => []BoardIsCurrent` |
| `OwnedWhenItCounts` | `Spec => OwnedAtEffect` |
| `Refinement` | `Spec => ImplementsLedger` |

None of the promises is inductive alone. `RepliesAreTrue` relates a reply to the
table, and a step that answers looks at the handler's place, so the invariant
must say what each place implies of the session (`Control`) and what the session
implies of the table (`OrdersAreCommitted`). `OwnedAtEffect` needs that a session
which holds the lock is of the owning fleet although the check was earlier
(`LockedIsOwned`): true since a transfer needs an unheld row. `BoardIsCurrent`
needs that orders acknowledged at arrival stay in the table and on their vessel
(`PromisesAreKept`). `IInv` is the conjunction of these with `TypeOK` and
`AuditIsSound`. The proof has a lemma for arrivals, one for the handler's steps and one
for the database's, with a case per action; crashes and transfers are cases of
the theorem. The refinement maps a committed order to a ledger entry with the
vessel and fleet of its request and a 201 to an acknowledgement: `DbCommit` is
`Record`, `ReadWorkOrders` is `Read`, `RespondCreated` is `Acknowledge`,
`RecordAudit` is `Trail` or stutters, `Reassign` is `Transfer`, and every other
step stutters.

### The other components

| Module | Theorem | Statement | Assumes |
|---|---|---|---|
| `VesselRoutesProofs` | `TypeCorrect`, `Inductive` | `TypeOK`, `IInv` | `VesselAssumption` |
| | `NoPhantomFixture` | `[]NoPhantom` | |
| | `DurableAudit` | `[]AuditIsDurable` | |
| | `OwnFleets` | `OwnFleetOnly` (an action property) | |
| `OfflineQueueProofs` | `OwnAccount` | `[]OwnAccountOnly` | `QueueAssumption` |
| | `QueueInductive` | `[]QueueInv` | |
| | `FailuresKeep`, `StaysOut` | `FailuresKeepWrites`, `NoResurrection` (action properties) | |
| `SessionsProofs` | `Inductive` | `[]IInv` | `SessionsAssumption` |
| | `TabsAgree` | `[]ScreensAgree` | |
| | `CachesAreOwn` | `[]OwnData` | |
| | `EndsByOwnRefusal` | `OwnRefusalsOnly` (an action property) | |
| | `EndedClean`, `NoTakeover` | `EndedStaysClean`, `NoKnownTakeover` (action properties) | |
| `AgentPlannerProofs` | `Inductive`, `Counted` | `[]IInv`, `[]CountInv` | `PanelsAssumption` |
| | `AcceptedConversation` | `[]Conversation` | |
| | `Reconciled` | `[]ReconciledUnlessFallback` | |
| | `EventsTell` | `[]EventsTellTrace` | |
| | `BudgetKept` | `[]WithinBudget` | |
| | `ReaderInductive` | `[]ReadInv` | |
| | `BodyIsRead` | `[]ReadsTheBody` | |
| `PanelsProofs` | `ChatInductive`, `PagesInductive` | `[]ChatInv`, `[]PagesInv` | `PanelsAssumption` |
| | `ThreadPerVessel` | `[]ThreadsStayApart` | |
| | `OneReply` | `[]OneAnswer` | |
| | `TableRefined` | `[]TableShowsTheTerm` | |
| | `HeadingIsRight` | `[]ShownIsSelected` | |
| | `FailuresTold` | `[]FailuresAreTold` | |
| `ApiServerProofs` | `Inductive` | `[]IInv` | the assumptions of `Tenancy`, `ApiRoutes` and `ApiServer` |
| | `OwnFigures` | `OwnFleetOnly` (an action property) | |
| | `CountedCalls` | `[]ModelCallsCounted` | |
| | `HonestDrain` | `[]DrainIsHonest` | |
| `FeedsProofs` | `OneConsumer` | `[]OneStream` | `FeedsAssumption` |
| | `RowsKeepUp` | `[]LagIsBounded` | |
| | `LakeInductive` | `[]LakeInv` | |
| | `SilverRepresents` | `[]Represented` | |
| | `IdlingIsExact` | `[]EpisodesAreRuns` | |
| | `MilesArePossible` | `[]DistanceIsPossible` | |
| | `ImportInductive` | `[]ImportInv` | |
| | `FilesAreReadBack` | `[]RoundTrip` | |
| | `ReportsAreTrue` | `[]ReportIsTrue` | |

The assumptions say that numbers are numbers and that the values which stand for
"none" are not members of the sets they are set apart from; of the catalogue
`Tenancy` assumes also that no vessel is listed twice and none has the fleet of a
user without one. `PagesAssumption` says that fixtures and vessels are different
ids and that each fixture maps to a vessel; `VesselsPageAssumption` that a page has
room for a row. `WarehouseAssumption` says that a delivery is a finite set of
rows, each with its columns, possibly NULL; `BunkerAssumption` that no row of a
sheet is without cells and that the first cell of a sheet does not begin with a
byte order mark, which the parser could not tell from the file's own. TLC
evaluates each of them in the runs of its module.

*Vessels.* `NoPhantom` is about requests whose write was confirmed, and the
fallback looks at nothing but the place it is called from; so `Confirmed` says
that such a request is past every catch that falls back, `FixturesAnswered` that a
generated fixture belongs to a request which ended with it, and `Control` what the
places imply. `OwnFleetOnly` needs that the fleets recorded for a request contain
the one its vessel has (`OwnersRecorded`): the lookup and what follows it, the update
or the read of the equipment, are two steps and the fleet may change between them.

*Offline queue.* The account is read when an entry is sent and may change before
the answer. `SentAsMaker` says that what is on its way went out as its maker, and
`MadeFirst` that a maker never changes once there is a write. The two action properties need of
the queue that it holds no write twice and none that was never made (`QueueInv`):
then a flush that removes the write it sent takes out that one and no other, and a
list captured before cannot bring one back. `QueueInv` also ties a 201 under way to
an execution by the server.

*Sessions.* A query's token is read from storage when it is sent, while its result
enters the cache of the client that asked. `QueryOwn` is what keeps the two
accounts the same as long as the client's session is the stored one: it needs
`IdsAreFresh` (a session that ended is never stored again) and `LoginShowsNothing`
(a tab that signs in shows no session, so its own login cannot pull a foreign
session under a client).

*Agent.* While tools run the last turn is not yet answered. `TalkInv` says that the
results so far and the calls still to do are together the calls of that turn, in
order, and that every earlier turn is answered. For the panel, `PanelInv` keeps a
count of tool events before each event (`Tally`): what was shown after `read`
events is as long as that count says, and each tool event carries the call with its
number. `DoneInv` says that the last event carries the whole trace, or a fallback.
`CountInv` counts: `ToldInv` the tool events before each event against the trace,
`BudgetInv` the calls of the model against the loop's counter, and the answered
turns against that counter, so that a plan called incomplete has used all of them.

*Stream reader.* `BodySpelled` finds each frame in the decoded body: there are offsets
at which the payloads stand one after the other, between `data:` and two line breaks.
What is decoded does not depend on the cut as long as no pair of halves is parted
(`DecodedApart`), and the decoder parts none, since it holds a trailing first half
(`ChunkDecoded`). So `ReadInv` can say that after `k` payloads the buffer, followed by
what decoding the held byte and the rest will give, is the body from the `k`-th offset
on. The first blank line in such a buffer is that of the next frame (`FrameLeaves`).
When the body ends early, the buffer is some prefix of that text, perhaps half a
character, and the boundary that the flush adds (`Torn`); what then leaves is the
whole frame, or something that does not parse (`RemnantLeaves`).

*Chats.* `CallInv` says that the history which went with a question is about the
question's vessel, `StoreInv` that every stored thread is about its own and the
screen shows the stored one. An answer that arrives after a change of the vessel
finds no message to write to: its question is in the other thread. `AtRest` says
that a chat at rest has nothing to show, since the planner may select a vessel.
`OneAnswer` is about finished replies; `AnswerInv` says of a growing one that its
parts are of this answer, in order, each once, and that none is missing unless the
vessel was changed meanwhile (`holed`). A stopped or failed reply is then already
final (`GrowingIsFinal`). The inspector's thread has no key: there the growing
reply is the last message and the only one of its question.

*Table.* `SearchInv` says that at most one search is under way and is about the term
the pipeline let through last, that without one the rows are the answer to it, and
that it is what the box holds once the debounce is quiet. `PageInv` keeps the page
within the rows; `PagesFilled` is the division that counts the pages.

*Pages.* `OpenInv` says what the requests of each kind of page can be about,
`KeptInv` that what is kept is under its vessel's key and, on a page whose effect
asks, that an answer nothing overtook is the selected vessel's. `ToldInv` relates,
on the pages that promise to tell a failure, what is kept to how the last request
ended. `AnswersAbout` goes through the routes: the figures of an answer are about
the vessel that was asked for. The pages are a table of records, so their cases are
by kind of page (`PageKinds`) and not by page.

*API.* `OwnFigures` goes through every route. `Handled` says of each that what its
handler is going to answer with is the caller's, and that it awaits the model only
on a route behind `aiLimiter`; `Pending` that this stays so until the answer.
`CountedCalls` rests on `Counters`: no user has asked more than was counted.
`HonestDrain` rests on `Closed`: no connection is open once the pool is released.

*AIS.* `OneStream` needs only the types of the lists of sockets and timers. For the
lag, `NoneAhead` says that no upsert under way is of a later report than the last
one, and `RowNearLastWrite` that, once the upserts of a vessel have ended, the row is
older than `lastWrite` by at most the longest of them: whatever ended last was under
way no longer than that. How long is left open: `Latency` is any number, compared
neither with the window nor with anything else.

*Warehouse.* `LakeInv` says that a table is what its builder computes of a silver
that was sound (`Sound`: finitely many rows with a time and a place, one for each
vessel and instant), whatever
builds were cut off between; the theorems are then facts about finite sets of rows.
`SilverIsSound`: the rows that win the deduplication are one for each key, and no
valid row of bronze is without a winner. `RunIsEpisode` and `EpisodeIsRun`: numbering
the gaps of a vessel's pings and grouping by that number finds exactly the runs
without a ping or a gap between, by taking the first place where the two would
differ. `MilesFit`: each hop that is counted is one the vessel could have made, and
by induction along the track no prefix of it is longer than its time allows.
The bounds in seconds follow from `Minutes`: two times that are `n` of the clock's
minutes apart are more than `n - 1` and less than `n + 1` minutes apart.
`DaysAddUp`: the pings of the days are together the rows of silver. The sums are folds, whose meaning is proved first:
`SumsExist` that the recursion has a solution, `SumsAdd` that the order of the
summands does not matter.

*Bunker import.* `ReadBack` is about the parser alone: what the writer makes of a
grid of cells is parsed back to the grid, in either style, with or without a mark,
quoted or not. It is proved from the inside out: a plain piece and an escaped piece
of a cell (`PlainRead`, `EscapedRead`), a cell, a line, a file, each as a statement
on the parser's state before and after. `ImportInv` has three parts: `Filed` (each
data row is a row or an error, and not both), `Tabled` (which records are the upload's
at each stage, none or all of those to import) and `Honest` (the answer counts
these, and says nothing of the table when it is a 500).

### Only model-checked

- Liveness (`Answered`, `SelfHeals`, `KeepsUp`, `NothingLingers`, `StopsWaiting`):
  fairness and ENABLED are beyond the proof system's provers.
- The type invariants, except those of work orders and vessels: the inductive
  invariants contain the types their proofs need.

Data are reached by induction all the same, where a property needs it. The library's
induction theorems take an operator as a parameter and cannot be used; `Induct` of
`FeedsProofs` and of `AgentPlannerProofs` is induction as a statement about a set of
numbers, which a proof instantiates with the set of those that have the property. A recursive function is
by definition some function that solves its equation, so each gets a lemma that a
solution exists (`StatesExist`, `JoinedExists`, `SumsExist`).

## 5. Not modelled

- *Physics and estimates* (fuel, CII, ETA, demurrage): floating point, which TLC
  lacks, and no invariant between calls.
- *Prompts, wording, layout*: nothing promised of them can be stated as a property
  of states.
- *Pages that compute in the browser* (speed, demurrage, emissions, the fleet
  matrix): fixtures and form fields, without a request or a state kept across one.
- *Port congestion*: a read-only count over the positions that `AisIngestion` models.
- *The token check of the analytics API*: the check of `ApiServer` in another
  language; its selects change nothing.
- *Deployment files*: declarative. What they imply (replicas, one worker with
  strategy Recreate, restarts) is in the models.
- *Evaluations and sample data*: tools that run by hand.
- *The rest of the Angular dashboard*: its form, its summary and the router. Read
  in the code: the form's requests outlive it, so that a late 401 signs out a newer
  session, and the guard is the shell's, which the router keeps between its
  children.

## 6. Plan

In order:

1. The remaining type invariants as theorems.
2. `VesselForm` of the Angular dashboard: loads and saves that outlive the form,
   and the session they end.
3. The three hazards without a property: the answer to a replay that is lost, the
   entries that wait for an `online` event which does not come, and the second of two
   registrations of an address, which reads 500 and not 409.
