------------------------------- MODULE ApiServer -------------------------------
(***************************************************************************)
(* One replica of the API (app.ts, server.ts): connections and the request *)
(* on each, from its receipt, where everything up to the handler's first   *)
(* await runs without interruption, to its answer; the limiters; the       *)
(* notifications and the fleet sockets of the replica; and its drain.      *)
(***************************************************************************)
EXTENDS ApiRoutes, FiniteSets

CONSTANTS
    Conns,      \* client connections
    Users,      \* the users of tokens: records of id, role and fleet
    Nobody,     \* a request without a valid token
    Workloads,  \* what clients do: the requests they make, the users with a socket
    AiMax,      \* max of aiLimiter
    ApiMax,     \* max of apiLimiter, which counts by address: all clients share one
    AuthMax,    \* max of authLimiter, likewise
    MaxFeed,    \* bound: notifications ever made
    Idle        \* no request on a connection

ASSUME ServerAssumption ==
    /\ AiMax \in Nat \ {0}
    /\ ApiMax \in Nat \ {0}
    /\ AuthMax \in Nat \ {0}
    /\ MaxFeed \in Nat
    /\ \A u \in Users : u.fleet = NoFleet \/ u.fleet \in {FleetOf[v] : v \in ToSet(Vessels)}
    /\ Nobody.fleet = NoFleet /\ Nobody \notin Users

VARIABLES
    load,       \* what clients do
    open,       \* connections the server holds
    pending,    \* per connection, the request whose handler awaits; it outlives its client
    answer,     \* the last answer given
    hits,       \* apiLimiter's count
    failures,   \* authLimiter's count
    counted,    \* aiLimiter's count, per user
    asked,      \* per user, requests of this window that went to the model
    accounts,   \* registered addresses
    feed,       \* NOTIFICATIONS
    sockets,    \* per user, its socket: "none", "connected" or "joined" to its fleet's room
    expired,    \* users whose token has expired
    phase,      \* "serving", "draining", "released" (the pool is), "exited"
    cut         \* requests whose client was left without an answer

vars == <<load, open, pending, answer, hits, failures, counted, asked, accounts, feed, sockets, expired, phase, cut>>
limits == <<hits, failures, counted, asked>>
others == <<hits, counted, asked>>
live == <<sockets, expired>>

NoAnswer == [user |-> Nobody, named |-> Omitted, about |-> {}]

Awaits == {"json", "agent", "agent stream", "chat", "database", "provider", "lookup", "create"}

TypeOK ==
    /\ load \in Workloads
    /\ open \subseteq Conns
    /\ \A c \in Conns : pending[c] = Idle \/ (pending[c].awaits \in Awaits /\ pending[c].about \subseteq ToSet(Vessels))
    /\ answer.user \in Users \cup {Nobody} /\ answer.about \subseteq ToSet(Vessels)
    /\ hits \in 0..ApiMax
    /\ failures \in 0..AuthMax
    /\ counted \in [Users -> 0..AiMax]
    /\ asked \in [Users -> Nat]
    /\ Len(feed) <= MaxFeed
    /\ sockets \in [Users -> {"none", "connected", "joined"}]
    /\ expired \subseteq Users
    /\ phase \in {"serving", "draining", "released", "exited"}
    /\ cut \in BOOLEAN

Init ==
    /\ load \in Workloads
    /\ open = {}
    /\ pending = [c \in Conns |-> Idle]
    /\ answer = NoAnswer
    /\ hits = 0
    /\ failures = 0
    /\ counted = [u \in Users |-> 0]
    /\ asked = [u \in Users |-> 0]
    /\ accounts = {}
    /\ feed = <<>>
    /\ sockets = [u \in Users |-> "none"]
    /\ expired = {}
    /\ phase = "serving"
    /\ cut = FALSE

Alive == phase \in {"serving", "draining", "released"}

-----------------------------------------------------------------------------
(* Notifications (routes/notifications.ts): a list in the replica's memory *)

Visible(user, n) == CanAccess(user, n.vessel)

\* Array.find: the first with the id.
IndexOf(id) == LET at == {i \in DOMAIN feed : feed[i].id = id}
               IN  IF at = {} THEN 0 ELSE CHOOSE i \in at : \A j \in at : i <= j

MarkRead(n) == [n EXCEPT !.read = TRUE]

\* Everything is marked, whoever it belongs to.
ReadAll_Everyone(q) ==
    feed' = [i \in DOMAIN feed |-> MarkRead(feed[i])]

ReadAll(q) ==
    feed' = [i \in DOMAIN feed |-> IF Visible(q.user, feed[i]) THEN MarkRead(feed[i]) ELSE feed[i]]

\* Mark one as read, or delete it: the first with the id decides, and a second
\* notification of the same millisecond is out of reach.
OnNotification(q, Change(_), status) ==
    LET i == IndexOf(q.item)
    IN  IF i = 0 THEN UNCHANGED feed /\ status = 404
        ELSE IF Visible(q.user, feed[i]) THEN Change(i) /\ status = 200
        ELSE UNCHANGED feed /\ status = 404

\* The id is the millisecond of its creation: a new one or the last one's.
CreateNotification(q, status) ==
    LET found == RequireVessel(q.user, q.vessel)
        Push(id) == feed' = <<[id |-> id, vessel |-> found.vessel, read |-> FALSE]>> \o feed
    IN  IF q.vessel = Omitted THEN UNCHANGED feed /\ status = 403
        ELSE IF found.status # 200 THEN UNCHANGED feed /\ status = found.status
        ELSE /\ Len(feed) < MaxFeed
             /\ status = 201
             /\ IF feed = <<>> THEN Push(1) ELSE \E id \in {feed[1].id, feed[1].id + 1} : Push(id)

FeedRoutes == {"notifications", "notifications/read", "notifications/read-all", "notifications/create",
               "notifications/delete"}

FeedHandler(q, status) ==
    CASE q.route = "notifications" -> UNCHANGED feed /\ status = 200
      [] q.route = "notifications/read" ->
            OnNotification(q, LAMBDA i : feed' = [feed EXCEPT ![i] = MarkRead(@)], status)
      [] q.route = "notifications/read-all" -> ReadAll(q) /\ status = 200
      [] q.route = "notifications/create" -> CreateNotification(q, status)
      [] q.route = "notifications/delete" -> OnNotification(q, LAMBDA i : feed' = RemoveAt(feed, i), status)

\* What a list shows: every visible notification.
Shown(q) ==
    IF q.route = "notifications"
    THEN {v \in ToSet(Vessels) : \E i \in DOMAIN feed : feed[i].vessel = v /\ Visible(q.user, feed[i])} ELSE {}

-----------------------------------------------------------------------------
(* Requests *)

Probes == {"health", "ready"}

AuthRoutes == {"auth/login", "auth/register"}

\* authenticate: a token that is missing or expired.
Unauthenticated(q) == q.route \notin PublicRoutes /\ q.user \in {Nobody} \cup expired

\* apiLimiter and authLimiter, authenticate, aiLimiter, requireRole and validate,
\* in the order of the middleware; 0 when all let the request through.
Refusal(q) ==
    IF q.route \in Probes THEN 0
    ELSE IF hits = ApiMax \/ (q.route \in AuthRoutes /\ failures = AuthMax) THEN 429
    ELSE IF Unauthenticated(q) THEN 401
    ELSE IF q.route \in AiRoutes /\ counted[q.user] = AiMax THEN 429
    ELSE IF q.route \in ManagerRoutes /\ q.user.role # "fleet_manager" THEN 403
    ELSE IF Invalid(q) THEN 400 ELSE 0

ModelKinds == {"json", "agent", "agent stream", "chat"}

\* Of an answer are kept its user and the vessels it is about, beside the one
\* the request named.
Reply(user, named, about, status) ==
    answer' = IF status \in {200, 201} /\ about # {} THEN [user |-> user, named |-> named, about |-> about]
              ELSE [user |-> user, named |-> Omitted, about |-> {}]

\* Of a request whose handler awaits: what its answer needs.
Waiting(q, plan) ==
    [user |-> q.user, named |-> q.vessel, about |-> plan.about, awaits |-> plan.awaits, statuses |-> plan.statuses,
     address |-> IF q.route \in AuthRoutes THEN q.item ELSE Omitted]

\* A counter stops at its limit.
Counted(n, max, counts) == IF counts /\ n < max THEN n + 1 ELSE n

\* What each limiter counts of a request; authLimiter counts a refused body at
\* once and forgets a login or a registration when it succeeds.
Count(q) ==
    LET limited == q.route \notin Probes
        passes == limited /\ hits < ApiMax
    IN  /\ hits' = Counted(hits, ApiMax, limited)
        /\ failures' = Counted(failures, AuthMax, passes /\ q.route \in AuthRoutes)
        /\ counted' = [u \in Users |-> Counted(counted[u], AiMax, /\ passes /\ u = q.user /\ u \notin expired
                                                                 /\ q.route \in AiRoutes)]

Forget(request, status) ==
    failures' = IF request.address # Omitted /\ status < 400 /\ failures > 0 THEN failures - 1 ELSE failures

\* Receipt: the handler runs to its first await or to its answer.
Receive(c, q) ==
    LET refused == Refusal(q)
        plan == Handle(q)
        goes == refused = 0 /\ q.route \notin FeedRoutes /\ plan.awaits # "nothing"
    IN  /\ Alive /\ c \in open /\ pending[c] = Idle
        /\ Count(q)
        /\ pending' = IF goes THEN [pending EXCEPT ![c] = Waiting(q, plan)] ELSE pending
        /\ asked' = IF goes /\ plan.awaits \in ModelKinds THEN [asked EXCEPT ![q.user] = @ + 1] ELSE asked
        /\ \/ refused # 0 /\ Reply(q.user, q.vessel, {}, refused) /\ UNCHANGED feed
           \/ /\ refused = 0 /\ q.route \in FeedRoutes
              /\ \E status \in {200, 201, 403, 404} : FeedHandler(q, status) /\ Reply(q.user, q.vessel, Shown(q), status)
           \/ /\ refused = 0 /\ q.route \notin FeedRoutes /\ plan.awaits = "nothing"
              /\ \E status \in plan.statuses : Reply(q.user, q.vessel, plan.about, status)
              /\ UNCHANGED feed
           \/ goes /\ UNCHANGED <<answer, feed>>
        /\ UNCHANGED <<load, open, accounts, live, phase, cut>>

\* The handler answers, if its client is still there.
Finish(c, status) ==
    /\ pending' = [pending EXCEPT ![c] = Idle]
    /\ Forget(pending[c], status)
    /\ IF c \in open THEN Reply(pending[c].user, pending[c].named, pending[c].about, status) ELSE UNCHANGED answer

\* A rejected call is caught by no one: Express 4 answers nothing.
Returns_Uncaught(c) ==
    /\ Alive /\ pending[c] # Idle /\ pending[c].awaits \notin {"lookup", "create"}
    /\ \E status \in pending[c].statuses \ {500, 502, 503} : Finish(c, status)
    /\ pending[c].statuses \cap {502, 503} = {}
    /\ UNCHANGED <<load, open, others, accounts, feed, live, phase, cut>>

\* What the handler awaited resolves or rejects; it answers either way.
Returns(c) ==
    /\ Alive /\ pending[c] # Idle /\ pending[c].awaits \notin {"lookup", "create"}
    /\ \E status \in pending[c].statuses : Finish(c, status)
    /\ UNCHANGED <<load, open, others, accounts, feed, live, phase, cut>>

\* register: the address is free, or not, or the database does not answer.
LookUpAddress(c) ==
    /\ Alive /\ pending[c] # Idle /\ pending[c].awaits = "lookup"
    /\ \/ Finish(c, 503)
       \/ pending[c].address \in accounts /\ Finish(c, 409)
       \/ /\ pending[c].address \notin accounts
          /\ pending' = [pending EXCEPT ![c].awaits = "create"]
          /\ UNCHANGED <<answer, failures>>
    /\ UNCHANGED <<load, open, others, accounts, feed, live, phase, cut>>

\* register: the insert; another registration may have taken the address.
CreateAccount(c) ==
    /\ Alive /\ pending[c] # Idle /\ pending[c].awaits = "create"
    /\ \/ /\ pending[c].address \notin accounts
          /\ accounts' = accounts \cup {pending[c].address}
          /\ Finish(c, 201)
       \/ Finish(c, 500) /\ UNCHANGED accounts
    /\ UNCHANGED <<load, open, others, feed, live, phase, cut>>

\* A window of the limiters passes.
WindowEnds ==
    /\ hits' = 0
    /\ failures' = 0
    /\ counted' = [u \in Users |-> 0]
    /\ asked' = [u \in Users |-> 0]
    /\ UNCHANGED <<load, open, pending, answer, accounts, feed, live, phase, cut>>

-----------------------------------------------------------------------------
(* Connections and sockets *)

Connect(c) ==
    /\ phase = "serving" /\ c \notin open /\ pending[c] = Idle
    /\ open' = open \cup {c}
    /\ UNCHANGED <<load, pending, answer, limits, accounts, feed, live, phase, cut>>

\* The client leaves, or an idle connection times out; a handler under way goes on.
Disconnect(c) ==
    /\ c \in open
    /\ open' = open \ {c}
    /\ UNCHANGED <<load, pending, answer, limits, accounts, feed, live, phase, cut>>

\* The handshake: a valid token with a fleet claim.
Handshake(u) ==
    /\ phase = "serving" /\ u \notin expired /\ u.fleet # NoFleet /\ sockets[u] = "none"
    /\ sockets' = [sockets EXCEPT ![u] = "connected"]
    /\ UNCHANGED <<load, open, pending, answer, limits, accounts, feed, expired, phase, cut>>

\* subscribe:fleet joins the room of the claim and no other, and disconnects
\* when the token has expired.
Subscribe(u, fleet) ==
    /\ sockets[u] # "none"
    /\ sockets' = [sockets EXCEPT ![u] = IF u \in expired THEN "none" ELSE IF fleet = u.fleet THEN "joined" ELSE @]
    /\ UNCHANGED <<load, open, pending, answer, limits, accounts, feed, expired, phase, cut>>

TokenExpires(u) ==
    /\ u \notin expired
    /\ expired' = expired \cup {u}
    /\ UNCHANGED <<load, open, pending, answer, limits, accounts, feed, sockets, phase, cut>>

\* The timer set at the connection.
ExpiryTimer(u) ==
    /\ u \in expired /\ sockets[u] # "none"
    /\ sockets' = [sockets EXCEPT ![u] = "none"]
    /\ UNCHANGED <<load, open, pending, answer, limits, accounts, feed, expired, phase, cut>>

-----------------------------------------------------------------------------
(* The drain (server.ts shutdown) *)

\* SIGTERM or SIGINT; a second one finds shuttingDown set.
Terminate ==
    /\ phase = "serving"
    /\ phase' = "draining"
    /\ open' = {c \in open : pending[c] # Idle}
    /\ sockets' = [u \in Users |-> "none"]
    /\ UNCHANGED <<load, pending, answer, limits, accounts, feed, expired, cut>>

\* $disconnect without waiting for the connections.
Release_AtOnce ==
    /\ phase = "draining"
    /\ phase' = "released"
    /\ UNCHANGED <<load, open, pending, answer, limits, accounts, feed, live, cut>>

\* httpServer.close calls back once every connection is closed; then $disconnect.
Release ==
    /\ phase = "draining" /\ open = {}
    /\ phase' = "released"
    /\ UNCHANGED <<load, open, pending, answer, limits, accounts, feed, live, cut>>

Gone ==
    /\ phase' = "exited"
    /\ open' = {}
    /\ pending' = [c \in Conns |-> Idle]
    /\ sockets' = [u \in Users |-> "none"]
    /\ UNCHANGED <<load, answer, limits, accounts, feed, expired>>

\* process.exit(0).
Exit == phase = "released" /\ Gone /\ cut' = (\E c \in open : pending[c] # Idle)

\* The 25 s limit, or a drain that failed: process.exit(1).
ForceExit == phase \in {"draining", "released"} /\ Gone /\ UNCHANGED cut

Drain == Release \/ Exit \/ ForceExit

Step(c) == Returns(c) \/ LookUpAddress(c) \/ CreateAccount(c)

Next ==
    \/ \E c \in Conns, q \in load.requests : Receive(c, q)
    \/ \E c \in Conns : Step(c) \/ Connect(c) \/ Disconnect(c)
    \/ \E u \in load.clients : Handshake(u) \/ TokenExpires(u) \/ ExpiryTimer(u)
    \/ \E u \in load.clients, f \in {w.fleet : w \in Users} : Subscribe(u, f)
    \/ WindowEnds \/ Terminate \/ Drain

Spec == Init /\ [][Next]_vars

\* Calls end, with a timeout at worst, and timers fire.
FairSpec == Spec /\ WF_vars(Drain) /\ \A c \in Conns : WF_vars(Step(c)) /\ \A u \in Users : WF_vars(ExpiryTimer(u))

-----------------------------------------------------------------------------
(* Properties *)

OwnAnswer == answer' # answer => \A v \in answer'.about : CanAccess(answer'.user, v)

OwnNotifications ==
    feed' # feed =>
        \A n \in (ToSet(feed) \ ToSet(feed')) \cup (ToSet(feed') \ ToSet(feed)) : CanAccess(answer'.user, n.vessel)

\* "Never returns a vessel outside the caller's fleet" (tenant.ts:43): over all
\* routes an answer has figures of own vessels only, and only an owning caller's
\* request adds, marks or removes a notification.
OwnFleetOnly == [][OwnAnswer /\ OwnNotifications]_vars

\* "AI endpoints - cost protection, keyed per authenticated user" (rateLimiter.ts:39):
\* no route sends a user's requests to the model past the limit, whichever
\* routes they are spread over.
ModelCallsCounted == \A u \in Users : asked[u] <= AiMax

\* "Disconnecting Prisma first would break exactly the requests this is meant
\* to protect" (server.ts:71-72): while the pool is released no client waits
\* for an answer, and an exit with code 0 has left none waiting.
DrainIsHonest == /\ phase = "released" => \A c \in open : pending[c] = Idle
                 /\ ~cut

\* Whatever a handler awaited resolves to or rejects with, the request ends; and
\* "long-lived connections must not outlive their JWT" (fleetSockets.ts:32).
NothingLingers ==
    /\ \A c \in Conns : pending[c] # Idle ~> pending[c] = Idle
    /\ \A u \in Users : (u \in expired /\ sockets[u] = "joined") ~> sockets[u] # "joined"

\* "every caller reads the result as 'the vessel this request is about'"
\* (tenant.ts:47-48): a request that names a vessel gets figures of that vessel.
AboutTheVesselNamed == answer.named # Omitted => answer.about \subseteq {answer.named}
===============================================================================
