---------------------------- MODULE OfflineQueue ----------------------------
(***************************************************************************)
(* The browser's offline queue (lib/offlineQueue.ts), its replay through   *)
(* the shared client (lib/api.ts replayQueuedMutation and interceptors)    *)
(* and the flush that a tab starts when the network returns                *)
(* (hooks/useNetworkStatus.ts), over a localStorage shared by the tabs of  *)
(* the origin, accounts that change under a running flush                  *)
(* (lib/sessionData.ts, context/AuthContext.tsx), an unreliable network    *)
(* and a server that limits rates, refuses, fails and rejects tokens.      *)
(*                                                                         *)
(* A synchronous piece of script is one step: a read-modify-write of the   *)
(* stored queue is not interleaved with another tab's.                     *)
(***************************************************************************)
EXTENDS Naturals, Sequences, SequencesExt

CONSTANTS
    Users,
    NoUser,      \* nobody is signed in
    Writes,      \* queued mutations, by their random id
    Tabs,        \* tabs of the origin
    Runs,        \* executions of flushQueue; a tab may have several
    MaxExecuted  \* bound: times one write is executed by the server

ASSUME QueueAssumption == NoUser \notin Users /\ MaxExecuted \in Nat \ {0}

VARIABLES
    account,   \* vm_user, with vm_token: who is signed in (written as one)
    valid,     \* the server still accepts that token
    logins,    \* logins whose response has not arrived
    online,    \* navigator.onLine
    owed,      \* tabs whose 'online' event has not been handled
    queue,     \* vm_offline_queue
    maker,     \* the userId of each write; NoUser also before it exists
    made,      \* writes that were ever queued
    run,       \* each flush: what it is doing, and what it has left to replay
    executed,  \* how often the server carried out each write
    actedAs    \* <<write, user>>: under whose token it was carried out

vars == <<account, valid, logins, online, owed, queue, maker, made, run, executed, actedAs>>
session == <<account, valid, logins>>
server == <<executed, actedAs>>
device == <<online, owed>>

Statuses == {"201", "401", "429", "4xx", "503"}
Idle == [at |-> "idle", items |-> <<>>]

TypeOK ==
    /\ account \in Users \cup {NoUser}
    /\ valid \in BOOLEAN
    /\ logins \subseteq Users
    /\ online \in BOOLEAN
    /\ owed \subseteq Tabs
    /\ queue \in Seq(Writes)
    /\ maker \in [Writes -> Users \cup {NoUser}]
    /\ made \subseteq Writes
    /\ \A k \in Runs : /\ run[k].at \in {"idle", "next", "sent", "failed"} \cup Statuses
                       /\ run[k].items \in Seq(Writes)
    /\ executed \in [Writes -> 0..MaxExecuted]
    /\ actedAs \subseteq Writes \X (Users \cup {NoUser})

Init ==
    /\ account \in Users
    /\ valid = TRUE
    /\ logins = {}
    /\ online = FALSE
    /\ owed = {}
    /\ queue = <<>>
    /\ maker = [w \in Writes |-> NoUser]
    /\ made = {}
    /\ run = [k \in Runs |-> Idle]
    /\ executed = [w \in Writes |-> 0]
    /\ actedAs = {}

-----------------------------------------------------------------------------
(* The queue *)

\* createWorkOrder while offline, and offlineQueue.add: the write is stored
\* with whoever is signed in according to localStorage.
Add(w) ==
    /\ ~online
    /\ w \notin made
    /\ made' = made \cup {w}
    /\ maker' = [maker EXCEPT ![w] = account]
    /\ queue' = Append(queue, w)
    /\ UNCHANGED <<session, device, run, server>>

\* offlineQueue.remove: ids are random, so the filter takes out one entry or none.
Without(w) == RemoveFirst(queue, w)

\* getAllFor(currentUserId())
Mine == IF account = NoUser THEN <<>> ELSE SelectSeq(queue, LAMBDA w : maker[w] = account)

-----------------------------------------------------------------------------
(* flushQueue *)

\* handleOnline: the hook captures this user's writes and starts on them.
StartFlush(t, k) ==
    /\ t \in owed
    /\ run[k].at = "idle"
    /\ owed' = owed \ {t}
    /\ run' = IF Mine = <<>> THEN run ELSE [run EXCEPT ![k] = [at |-> "next", items |-> Mine]]
    /\ UNCHANGED <<session, online, queue, maker, made, server>>

\* The flush trusts the list it captured.
MayReplay_NoCheck(w) == maker[w] # NoUser

\* The account check of replayQueuedMutation, repeated by the request
\* interceptor when it attaches the token.
MayReplay(w) == maker[w] # NoUser /\ maker[w] = account

\* replayQueuedMutation up to its await: the captured write goes out with the
\* token stored now, or the flush stops.
Send(k) ==
    /\ run[k].at = "next"
    /\ run' = IF MayReplay(Head(run[k].items))
              THEN [run EXCEPT ![k] = [at |-> "sent", items |-> run[k].items, as |-> account,
                                       accepted |-> valid]]
              ELSE [run EXCEPT ![k] = Idle]
    /\ UNCHANGED <<session, device, queue, maker, made, server>>

\* Any answer below 500 is final (what the flush did, api.ts:98).
Decision_Below500Final(status) ==
    CASE status = "failed" -> "stop" [] status = "503" -> "keep" [] OTHER -> "drop"

\* What the client does with the entry.  No response stops the flush like a
\* rejected token; any other status below 500 is final.
Decision(status) ==
    CASE status \in {"failed", "401"} -> "stop"
      [] status = "503"               -> "keep"
      [] OTHER                        -> "drop"

\* The flush goes on with the items after the first, or ends.
Continue(k) ==
    IF Len(run[k].items) = 1 THEN Idle ELSE [at |-> "next", items |-> Tail(run[k].items)]

\* remove() writes back the list captured before the await.
Settle_Snapshot(k) ==
    /\ run[k].at \in Statuses \cup {"failed"}
    /\ queue' = IF Decision(run[k].at) = "drop" THEN Tail(run[k].items) ELSE queue
    /\ run' = [run EXCEPT ![k] = IF Decision(run[k].at) = "stop" THEN Idle ELSE Continue(k)]
    /\ UNCHANGED <<session, device, maker, made, server>>

\* The await returns: drop, keep or stop.
Settle(k) ==
    /\ run[k].at \in Statuses \cup {"failed"}
    /\ LET decision == Decision(run[k].at)
       IN  /\ queue' = IF decision = "drop" THEN Without(Head(run[k].items)) ELSE queue
           /\ run' = [run EXCEPT ![k] = IF decision = "stop" THEN Idle ELSE Continue(k)]
    /\ UNCHANGED <<session, device, maker, made, server>>

\* A tab is closed or redirected: its flush vanishes where it stood.
CloseTab(k) ==
    /\ run[k].at # "idle"
    /\ run' = [run EXCEPT ![k] = Idle]
    /\ UNCHANGED <<session, device, queue, maker, made, server>>

-----------------------------------------------------------------------------
(* The network and the server *)

GoOffline ==
    /\ online
    /\ online' = FALSE
    /\ UNCHANGED <<session, owed, queue, maker, made, run, server>>

GoOnline ==
    /\ ~online
    /\ online' = TRUE
    /\ owed' = Tabs
    /\ UNCHANGED <<session, queue, maker, made, run, server>>

\* The route creates the work order under the token's user (its own steps are
\* those of WorkOrders).
Execute(k) ==
    /\ executed[Head(run[k].items)] < MaxExecuted
    /\ executed' = [executed EXCEPT ![Head(run[k].items)] = @ + 1]
    /\ actedAs' = actedAs \cup {<<Head(run[k].items), run[k].as>>}

\* apiLimiter, then authenticate, then the route, which may refuse, or answer
\* 503 with or without having saved (see WorkOrders).
Serve(k) ==
    /\ run[k].at = "sent"
    /\ online
    /\ \E status \in Statuses :
        /\ status = "401" => ~run[k].accepted
        /\ status \in {"201", "4xx", "503"} => run[k].accepted
        /\ \/ status \in {"201", "503"} /\ Execute(k)
           \/ status # "201" /\ UNCHANGED server
        /\ run' = [run EXCEPT ![k].at = status]
    /\ UNCHANGED <<session, device, queue, maker, made>>

\* The request, or the response on its way back, is lost.
Lose(k) ==
    /\ run[k].at \in {"sent"} \cup Statuses
    /\ run' = [run EXCEPT ![k].at = "failed"]
    /\ UNCHANGED <<session, device, queue, maker, made, server>>

ExpireToken ==
    /\ valid
    /\ valid' = FALSE
    /\ UNCHANGED <<account, logins, device, queue, maker, made, run, server>>

-----------------------------------------------------------------------------
(* Accounts *)

\* clearSessionData removes every localStorage key that starts with vm_.
ClearStorage ==
    /\ account' = NoUser
    /\ queue' = <<>>

\* logout, or a 401 to an ordinary request of this session.
EndSession ==
    /\ account # NoUser
    /\ ClearStorage
    /\ UNCHANGED <<valid, logins, device, maker, made, run, server>>

\* login clears first, then asks the server.
BeginLogin(u) ==
    /\ u \notin logins
    /\ logins' = logins \cup {u}
    /\ ClearStorage
    /\ UNCHANGED <<valid, device, maker, made, run, server>>

\* saveSession.  Two tabs may log in at once; the later one wins.
SaveSession(u) ==
    /\ u \in logins
    /\ online
    /\ logins' = logins \ {u}
    /\ account' = u
    /\ valid' = TRUE
    /\ UNCHANGED <<device, queue, maker, made, run, server>>

-----------------------------------------------------------------------------
Flush(k) == Send(k) \/ Settle(k) \/ \E t \in Tabs : StartFlush(t, k)

Next ==
    \/ \E w \in Writes : Add(w)
    \/ \E k \in Runs : Flush(k) \/ CloseTab(k) \/ Serve(k) \/ Lose(k)
    \/ \E u \in Users : BeginLogin(u) \/ SaveSession(u)
    \/ GoOffline \/ GoOnline \/ ExpireToken \/ EndSession

Spec == Init /\ [][Next]_vars

-----------------------------------------------------------------------------
(* Properties *)

\* No write is carried out under another account's token, although a flush
\* keeps its captured items while accounts change under it: "each entry ... is
\* only ever replayed under that same user's token" (offlineQueue.ts:8-10).
OwnAccountOnly == \A w \in Writes, u \in Users \cup {NoUser} : <<w, u>> \in actedAs => u = maker[w]

Queued == ToSet(queue)

\* A write leaves the stored queue only with the whole session's storage, or for
\* the answer that a flush got for that very write, which is then not a failure:
\* no response, "a 5xx is the server's problem, not the payload's, and a 401 is an
\* expired token, so both keep the entry" (api.ts:96-98).  Whether every other
\* answer is a good reason is the question of DroppedOnlyIfHopeless.
FailuresKeepWrites ==
    [][\A w \in Queued \ Queued' :
        \/ queue' = <<>> /\ account' = NoUser
        \/ \E k \in Runs : /\ run[k].at \in Statuses \ {"401", "503"}
                           /\ Head(run[k].items) = w
                           /\ run[k].at = "201" => executed[w] > 0]_vars

\* "A rejected write is only dropped when retrying could never help"
\* (api.ts:96): a flush drops the write that was carried out, or that the route
\* refused for what it asks; a limiter that asks to come back later (429) says
\* nothing about the write.
DroppedOnlyIfHopeless ==
    [][\A w \in Queued \ Queued' :
        \/ queue' = <<>> /\ account' = NoUser
        \/ \E k \in Runs : run[k].at \in {"201", "4xx"} /\ Head(run[k].items) = w]_vars

\* A write that left the queue does not come back, whichever tabs flush at
\* the same time.
NoResurrection == [][\A w \in made : w \in Queued' => w \in Queued]_vars

\* "the queue is keyed per user, so the write replays under the same account
\* once they sign in again" (useNetworkStatus.ts:32-33): a user whose token is
\* rejected and who signs in again keeps their queued writes.
SurvivesSignIn ==
    [][\A u \in logins' \ logins : ~valid /\ account = u => ToSet(Mine) \subseteq Queued']_vars
=============================================================================
