-------------------------- MODULE OfflineQueueProofs --------------------------
(* Theorems about OfflineQueue, for any accounts, writes, tabs and runs.     *)
EXTENDS OfflineQueue, SequenceTheorems, WellFoundedInduction, TLAPS

\* Every flush is somewhere; of its list nothing needs to be known.
Shape ==
    /\ maker \in [Writes -> Users \cup {NoUser}]
    /\ run = [k \in Runs |-> run[k]]
    /\ \A k \in Runs : "at" \in DOMAIN run[k]

\* Only a write that was queued has an account.
MadeFirst == \A w \in Writes \ made : maker[w] = NoUser

\* A write on its way goes under its own account, which no longer changes.
SentAsMaker ==
    \A k \in Runs : run[k].at = "sent" /\ Head(run[k].items) \in Writes =>
                      run[k].as = maker[Head(run[k].items)] /\ run[k].as # NoUser

\* What the server carried out had an account.
ActedForSomebody == \A w \in Writes : <<w, NoUser>> \notin actedAs

IInv ==
    /\ account \in Users \cup {NoUser}
    /\ logins \subseteq Users
    /\ Shape
    /\ MadeFirst
    /\ SentAsMaker
    /\ ActedForSomebody
    /\ OwnAccountOnly

\* A flush is put where it was not on its way, and nothing else happens to
\* writes.
LEMMA RunMoves ==
    ASSUME IInv, NEW k \in Runs, NEW x, "at" \in DOMAIN x,
           x.at = "sent" /\ Head(x.items) \in Writes => x.as = maker[Head(x.items)] /\ x.as # NoUser,
           run' = [run EXCEPT ![k] = x],
           UNCHANGED <<account, logins, maker, made, actedAs>>
    PROVE  IInv'
<1>1. \A j \in Runs : run'[j] = IF j = k THEN x ELSE run[j]
  BY DEF IInv, Shape
<1>2. run' = [j \in Runs |-> run'[j]]
  BY DEF IInv, Shape
<1>3. Shape'
  BY <1>1, <1>2 DEF IInv, Shape
<1>4. SentAsMaker'
  BY <1>1 DEF IInv, SentAsMaker
<1>. QED BY <1>3, <1>4 DEF IInv, MadeFirst, ActedForSomebody, OwnAccountOnly

\* A flush ends: nothing is left of it.
LEMMA RunEnds ==
    ASSUME IInv, NEW k \in Runs, run' = [run EXCEPT ![k] = Idle],
           UNCHANGED <<account, logins, maker, made, actedAs>>
    PROVE  IInv'
<1>1. "at" \in DOMAIN Idle /\ Idle.at # "sent"
  BY DEF Idle
<1>. QED BY <1>1, RunMoves

\* A flush goes on, or its tab is closed.
LEMMA FlushKeeps ==
    ASSUME IInv, NEW k \in Runs, Flush(k) \/ CloseTab(k)
    PROVE  IInv'
<1>1. CASE Send(k)
  <2>. DEFINE x == [at |-> "sent", items |-> run[k].items, as |-> account, accepted |-> valid]
  <2>1. CASE MayReplay(Head(run[k].items))
    <3>1. run' = [run EXCEPT ![k] = x]
      BY <1>1, <2>1 DEF Send
    <3>2. "at" \in DOMAIN x /\ x.as = maker[Head(x.items)] /\ x.as # NoUser
      BY <2>1 DEF MayReplay
    <3>3. UNCHANGED <<account, logins, maker, made, actedAs>>
      BY <1>1 DEF Send, session, server
    <3>. HIDE DEF x
    <3>. QED BY <3>1, <3>2, <3>3, RunMoves
  <2>2. CASE ~MayReplay(Head(run[k].items))
    BY <1>1, <2>2, RunEnds DEF Send, session, server
  <2>. QED BY <2>1, <2>2
<1>2. CASE Settle(k)
  <2>. DEFINE x == IF Decision(run[k].at) = "stop" THEN Idle ELSE Continue(k)
  <2>1. run' = [run EXCEPT ![k] = x]
    BY <1>2 DEF Settle
  <2>2. "at" \in DOMAIN x /\ x.at # "sent"
    BY DEF Idle, Continue
  <2>3. UNCHANGED <<account, logins, maker, made, actedAs>>
    BY <1>2 DEF Settle, session, server
  <2>. HIDE DEF x
  <2>. QED BY <2>1, <2>2, <2>3, RunMoves
<1>3. ASSUME NEW t \in Tabs, StartFlush(t, k)
      PROVE  IInv'
  <2>. DEFINE x == [at |-> "next", items |-> Mine]
  <2>1. run' = run \/ run' = [run EXCEPT ![k] = x]
    BY <1>3 DEF StartFlush
  <2>2. "at" \in DOMAIN x /\ x.at # "sent"
    OBVIOUS
  <2>3. UNCHANGED <<account, logins, maker, made, actedAs>>
    BY <1>3 DEF StartFlush, session, server
  <2>. HIDE DEF x
  <2>4. CASE run' = run
    BY <2>3, <2>4 DEF IInv, Shape, MadeFirst, SentAsMaker, ActedForSomebody, OwnAccountOnly
  <2>. QED BY <2>1, <2>2, <2>3, <2>4, RunMoves
<1>4. CASE CloseTab(k)
  BY <1>4, RunEnds DEF CloseTab, session, server
<1>. QED BY <1>1, <1>2, <1>3, <1>4 DEF Flush

\* The server carries a write out under the token that was sent with it.
LEMMA ServeKeeps ==
    ASSUME IInv, NEW k \in Runs, Serve(k)
    PROVE  IInv'
<1>1. PICK status \in Statuses :
        /\ run' = [run EXCEPT ![k].at = status]
        /\ Execute(k) \/ UNCHANGED server
  BY DEF Serve
<1>2. run[k].at = "sent" /\ UNCHANGED <<account, logins, maker, made>>
  BY DEF Serve, session
<1>. DEFINE x == [run[k] EXCEPT !.at = status]
<1>3. "at" \in DOMAIN x /\ x.at # "sent"
  BY DEF IInv, Shape, Statuses
<1>4. run' = [run EXCEPT ![k] = x]
  BY <1>1
<1>. HIDE DEF x
<1>5. Shape' /\ SentAsMaker'
  <2>1. \A j \in Runs : run'[j] = IF j = k THEN x ELSE run[j]
    BY <1>4 DEF IInv, Shape
  <2>2. run' = [j \in Runs |-> run'[j]]
    BY <1>4 DEF IInv, Shape
  <2>. QED BY <1>2, <1>3, <2>1, <2>2 DEF IInv, Shape, SentAsMaker
<1>6. ActedForSomebody' /\ OwnAccountOnly'
  <2>1. actedAs' \subseteq actedAs \cup {<<Head(run[k].items), run[k].as>>}
    BY <1>1 DEF Execute, server
  <2>. QED BY <1>2, <2>1 DEF IInv, SentAsMaker, ActedForSomebody, OwnAccountOnly
<1>. QED BY <1>2, <1>5, <1>6 DEF IInv, MadeFirst

\* The request of a flush is lost, before the server or after it.
LEMMA LoseKeeps ==
    ASSUME IInv, NEW k \in Runs, Lose(k)
    PROVE  IInv'
<1>. DEFINE x == [run[k] EXCEPT !.at = "failed"]
<1>1. "at" \in DOMAIN x /\ x.at # "sent"
  BY DEF IInv, Shape
<1>2. run' = [run EXCEPT ![k] = x] /\ UNCHANGED <<account, logins, maker, made, actedAs>>
  BY DEF Lose, session, server
<1>. HIDE DEF x
<1>. QED BY <1>1, <1>2, RunMoves

LEMMA InitAccount == ASSUME Init PROVE IInv
BY DEF Init, IInv, Shape, Idle, MadeFirst, SentAsMaker, ActedForSomebody, OwnAccountOnly

\* Every step keeps it.
LEMMA AccountKeeps == ASSUME IInv, [Next]_vars PROVE IInv'
<1>1. ASSUME NEW k \in Runs, Flush(k) \/ CloseTab(k) PROVE IInv'
  BY <1>1, FlushKeeps
<1>2. ASSUME NEW k \in Runs, Serve(k) PROVE IInv'
  BY <1>2, ServeKeeps
<1>3. ASSUME NEW k \in Runs, Lose(k) PROVE IInv'
  BY <1>3, LoseKeeps
<1>4. ASSUME NEW w \in Writes, Add(w) PROVE IInv'
  <2>1. w \notin made /\ maker[w] = NoUser
    BY <1>4 DEF Add, IInv, MadeFirst
  <2>2. /\ made' = made \cup {w} /\ maker' = [maker EXCEPT ![w] = account]
        /\ UNCHANGED <<account, logins, run, actedAs>>
    BY <1>4 DEF Add, session, server
  <2>3. \A v \in Writes : v # w => maker'[v] = maker[v]
    BY <2>2 DEF IInv, Shape
  <2>4. Shape' /\ MadeFirst'
    BY <2>2, <2>3 DEF IInv, Shape, MadeFirst
  <2>5. SentAsMaker'
    BY <2>1, <2>2, <2>3 DEF IInv, SentAsMaker
  <2>6. \A u \in Users \cup {NoUser} : <<w, u>> \notin actedAs
    BY <2>1 DEF IInv, ActedForSomebody, OwnAccountOnly
  <2>7. ActedForSomebody' /\ OwnAccountOnly'
    BY <2>2, <2>3, <2>6 DEF IInv, ActedForSomebody, OwnAccountOnly
  <2>. QED BY <2>2, <2>4, <2>5, <2>7 DEF IInv
<1>5. ASSUME NEW u \in Users, BeginLogin(u) \/ SaveSession(u) PROVE IInv'
  BY <1>5 DEF BeginLogin, SaveSession, ClearStorage, server, IInv, Shape, MadeFirst, SentAsMaker,
              ActedForSomebody, OwnAccountOnly
<1>6. CASE GoOffline \/ GoOnline \/ ExpireToken \/ EndSession \/ UNCHANGED vars
  BY <1>6 DEF GoOffline, GoOnline, ExpireToken, EndSession, ClearStorage, vars, session, device, server,
              IInv, Shape, MadeFirst, SentAsMaker, ActedForSomebody, OwnAccountOnly
<1>. QED BY <1>1, <1>2, <1>3, <1>4, <1>5, <1>6 DEF Next

\* "each entry ... is only ever replayed under that same user's token"
\* (offlineQueue.ts:8-10): whatever accounts come and go under a running flush,
\* whichever tabs flush at once, and whatever the network loses.
THEOREM OwnAccount == Spec => []OwnAccountOnly
<1>1. Init => IInv
  BY InitAccount
<1>2. IInv /\ [Next]_vars => IInv'
  BY AccountKeeps
<1>3. IInv => OwnAccountOnly
  BY DEF IInv
<1>. QED BY <1>1, <1>2, <1>3, PTL DEF Spec

-----------------------------------------------------------------------------
(* What leaves the queue, and what comes back *)

Distinct(s) == \A i, j \in DOMAIN s : s[i] = s[j] => i = j

\* Taking one element out of a list moves those after it up.
LEMMA RemoveAtFacts ==
    ASSUME NEW S, NEW s \in Seq(S), NEW i \in DOMAIN s
    PROVE  /\ RemoveAt(s, i) \in Seq(S) /\ Len(RemoveAt(s, i)) = Len(s) - 1
           /\ \A j \in 1..(Len(s) - 1) : RemoveAt(s, i)[j] = s[IF j < i THEN j ELSE j + 1]
<1>. DEFINE before == SubSeq(s, 1, i - 1)  after == SubSeq(s, i + 1, Len(s))
<1>1. Len(s) \in Nat /\ i \in 1..Len(s)
  OBVIOUS
<1>2. before \in Seq(S) /\ Len(before) = i - 1 /\ \A j \in 1..(i - 1) : before[j] = s[j]
  BY <1>1, SubSeqProperties
<1>3. after \in Seq(S) /\ Len(after) = Len(s) - i /\ \A j \in 1..(Len(s) - i) : after[j] = s[i + j]
  BY <1>1, SubSeqProperties
<1>4. RemoveAt(s, i) = before \o after
  BY DEF RemoveAt
<1>. HIDE DEF before, after
<1>5. before \o after \in Seq(S) /\ Len(before \o after) = Len(s) - 1
  BY <1>1, <1>2, <1>3, ConcatProperties
<1>6. ASSUME NEW j \in 1..(Len(s) - 1) PROVE (before \o after)[j] = s[IF j < i THEN j ELSE j + 1]
  <2>1. CASE j < i
    BY <1>1, <1>2, <1>3, <1>6, <2>1, ConcatProperties
  <2>2. CASE ~(j < i)
    <3>1. j - (i - 1) \in 1..(Len(s) - i) /\ i + (j - (i - 1)) = j + 1 /\ j > i - 1
      BY <1>1, <1>6, <2>2
    <3>2. j \in 1..(Len(before) + Len(after)) /\ ~(j <= Len(before))
      <4>1. Len(before) + Len(after) = Len(s) - 1
        BY <1>1, <1>2, <1>3
      <4>2. j \in 1..(Len(s) - 1) /\ Len(before) = i - 1 /\ ~(j <= i - 1)
        BY <1>1, <1>2, <1>6, <2>2
      <4>. QED BY <4>1, <4>2
    <3>3. (before \o after)[j] = after[j - Len(before)]
      BY <1>2, <1>3, <3>2, ConcatProperties
    <3>. QED BY <1>2, <1>3, <2>2, <3>1, <3>3
  <2>. QED BY <2>1, <2>2
<1>. QED BY <1>4, <1>5, <1>6

\* The queue without a write holds all others, and still no write twice.
LEMMA WithoutOne ==
    ASSUME queue \in Seq(Writes), Distinct(queue), NEW w
    PROVE  /\ Without(w) \in Seq(Writes) /\ Distinct(Without(w))
           /\ ToSet(Without(w)) = Queued \ {w}
<1>. DEFINE places == {i \in 1..Len(queue) : queue[i] = w}
<1>1. CASE places = {}
  <2>1. Without(w) = queue
    BY <1>1 DEF Without, RemoveFirst
  <2>2. w \notin Queued
    BY <1>1 DEF Queued, ToSet
  <2>. QED BY <2>1, <2>2 DEF Queued
<1>2. ASSUME NEW at \in places PROVE /\ Without(w) \in Seq(Writes) /\ Distinct(Without(w))
                                    /\ ToSet(Without(w)) = Queued \ {w}
  <2>1. places = {at} /\ at \in DOMAIN queue /\ queue[at] = w /\ Len(queue) \in Nat
    BY <1>2 DEF Distinct
  <2>2. SelectInSeq(queue, LAMBDA v : v = w) = at
    <3>1. SelectInSeq(queue, LAMBDA v : v = w) = Min(places)
      BY <1>2 DEF SelectInSeq
    <3>2. Min({at}) = at
      BY <2>1 DEF Min
    <3>. QED BY <2>1, <3>1, <3>2
  <2>3. Without(w) = RemoveAt(queue, at)
    BY <1>2, <2>2 DEF Without, RemoveFirst
  <2>. DEFINE left == RemoveAt(queue, at)
              old(j) == IF j < at THEN j ELSE j + 1
  <2>4. /\ left \in Seq(Writes) /\ Len(left) = Len(queue) - 1
        /\ \A j \in 1..(Len(queue) - 1) : left[j] = queue[old(j)]
    BY <2>1, RemoveAtFacts
  <2>. HIDE DEF left
  <2>5. DOMAIN left = 1..(Len(queue) - 1) /\ \A j \in DOMAIN left : left[j] = queue[old(j)] /\ old(j) \in DOMAIN queue
    BY <2>1, <2>4
  <2>6. \A i, j \in DOMAIN left : old(i) = old(j) => i = j
    BY <2>1, <2>5
  <2>7. \A j \in DOMAIN left : old(j) # at
    BY <2>1, <2>5
  <2>8. \A i \in DOMAIN queue \ {at} : \E j \in DOMAIN left : old(j) = i
    <3>0. DOMAIN queue = 1..Len(queue)
      OBVIOUS
    <3>1. SUFFICES ASSUME NEW i \in 1..Len(queue), i # at PROVE \E j \in 1..(Len(queue) - 1) : old(j) = i
      BY <2>5, <3>0
    <3>2. CASE i < at
      BY <2>1, <3>1, <3>2
    <3>3. CASE i > at
      <4>1. i - 1 \in 1..(Len(queue) - 1) /\ old(i - 1) = i
        BY <2>1, <3>1, <3>3
      <4>. QED BY <4>1
    <3>. QED BY <2>1, <3>1, <3>2, <3>3
  <2>. HIDE DEF old
  <2>9. Distinct(left)
    BY <2>5, <2>6 DEF Distinct
  <2>10. ToSet(left) = Queued \ {w}
    <3>1. \A x \in ToSet(left) : x \in Queued \ {w}
      BY <2>1, <2>5, <2>7 DEF Distinct, ToSet, Queued
    <3>2. \A x \in Queued \ {w} : x \in ToSet(left)
      BY <2>1, <2>5, <2>8 DEF ToSet, Queued
    <3>. QED BY <3>1, <3>2
  <2>. QED BY <2>3, <2>4, <2>9, <2>10 DEF left
<1>. QED BY <1>1, <1>2

\* No write is queued twice, and none that was never made; a write the server said
\* it carried out, it carried out.
QueueInv ==
    /\ queue \in Seq(Writes) /\ Distinct(queue) /\ Queued \subseteq made
    /\ executed \in [Writes -> Nat]
    /\ \A k \in Runs : run[k].at = "201" /\ Head(run[k].items) \in Writes => executed[Head(run[k].items)] > 0

\* A write more, one less, or none.
QueueStep ==
    \/ UNCHANGED <<queue, made>>
    \/ \E w \in Writes \ made : queue' = Append(queue, w) /\ made' = made \cup {w}
    \/ queue' = <<>> /\ account' = NoUser /\ made' = made
    \/ \E k \in Runs : /\ run[k].at \in {"201", "429", "4xx"}
                       /\ queue' = Without(Head(run[k].items)) /\ made' = made

LEMMA EachStep == ASSUME Next PROVE QueueStep
<1>1. ASSUME NEW k \in Runs, Settle(k) PROVE QueueStep
  <2>1. CASE Decision(run[k].at) = "drop"
    <3>1. run[k].at \in {"201", "429", "4xx"}
      BY <1>1, <2>1 DEF Settle, Decision, Statuses
    <3>. QED BY <1>1, <2>1, <3>1 DEF Settle, QueueStep
  <2>2. CASE Decision(run[k].at) # "drop"
    BY <1>1, <2>2 DEF Settle, QueueStep
  <2>. QED BY <2>1, <2>2
<1>2. ASSUME NEW w \in Writes, Add(w) PROVE QueueStep
  BY <1>2 DEF Add, QueueStep
<1>3. ASSUME NEW k \in Runs, \/ Send(k) \/ CloseTab(k) \/ Serve(k) \/ Lose(k) \/ \E t \in Tabs : StartFlush(t, k)
      PROVE  QueueStep
  BY <1>3 DEF Send, CloseTab, Serve, Lose, StartFlush, QueueStep
<1>4. ASSUME \/ \E u \in Users : BeginLogin(u) \/ SaveSession(u)
             \/ GoOffline \/ GoOnline \/ ExpireToken \/ EndSession
      PROVE  QueueStep
  BY <1>4 DEF BeginLogin, SaveSession, GoOffline, GoOnline, ExpireToken, EndSession, ClearStorage, QueueStep
<1>. QED BY <1>1, <1>2, <1>3, <1>4 DEF Next, Flush

\* What a step does to the server's count, and to a flush that hears of it.
RunStep ==
    \/ executed' = executed /\ \A j \in Runs : run'[j] = run[j] \/ run'[j].at # "201"
    \/ \E k \in Runs : /\ executed' = [executed EXCEPT ![Head(run[k].items)] = @ + 1]
                       /\ \A j \in Runs : IF j = k THEN run'[j].items = run[j].items ELSE run'[j] = run[j]

LEMMA RunPut ==
    ASSUME Shape, NEW k \in Runs, NEW x, run' = [run EXCEPT ![k] = x]
    PROVE  \A j \in Runs : run'[j] = IF j = k THEN x ELSE run[j]
BY DEF Shape

LEMMA EachRun == ASSUME Shape, [Next]_vars PROVE RunStep
<1>1. ASSUME NEW k \in Runs, NEW x, x.at # "201", run' = [run EXCEPT ![k] = x], executed' = executed PROVE RunStep
  BY <1>1, RunPut DEF RunStep
<1>2. Idle.at # "201" /\ \A k \in Runs : Continue(k).at # "201"
  BY DEF Idle, Continue
<1>3. ASSUME NEW k \in Runs, Send(k) PROVE RunStep
  <2>. DEFINE x == [at |-> "sent", items |-> run[k].items, as |-> account, accepted |-> valid]
  <2>1. run' = [run EXCEPT ![k] = x] \/ run' = [run EXCEPT ![k] = Idle]
    BY <1>3 DEF Send
  <2>2. executed' = executed
    BY <1>3 DEF Send, server
  <2>3. x.at # "201"
    OBVIOUS
  <2>. HIDE DEF x
  <2>. QED BY <1>1, <1>2, <2>1, <2>2, <2>3
<1>4. ASSUME NEW k \in Runs, Settle(k) PROVE RunStep
  <2>1. run' = [run EXCEPT ![k] = Idle] \/ run' = [run EXCEPT ![k] = Continue(k)]
    BY <1>4 DEF Settle
  <2>2. executed' = executed
    BY <1>4 DEF Settle, server
  <2>. QED BY <1>1, <1>2, <2>1, <2>2
<1>5. ASSUME NEW k \in Runs, NEW t \in Tabs, StartFlush(t, k) PROVE RunStep
  <2>. DEFINE x == [at |-> "next", items |-> Mine]
  <2>1. run' = run \/ run' = [run EXCEPT ![k] = x]
    BY <1>5 DEF StartFlush
  <2>2. executed' = executed /\ x.at # "201"
    BY <1>5 DEF StartFlush, server
  <2>. HIDE DEF x
  <2>3. CASE run' = run
    BY <2>2, <2>3 DEF RunStep
  <2>. QED BY <1>1, <2>1, <2>2, <2>3
<1>6. ASSUME NEW k \in Runs, CloseTab(k) PROVE RunStep
  BY <1>1, <1>2, <1>6 DEF CloseTab, server
<1>7. ASSUME NEW k \in Runs, Lose(k) PROVE RunStep
  <2>. DEFINE x == [run[k] EXCEPT !.at = "failed"]
  <2>1. run' = [run EXCEPT ![k] = x] /\ executed' = executed
    BY <1>7 DEF Lose, server
  <2>2. x.at # "201"
    BY DEF Shape
  <2>. HIDE DEF x
  <2>. QED BY <1>1, <2>1, <2>2
<1>8. ASSUME NEW k \in Runs, Serve(k) PROVE RunStep
  <2>1. PICK status \in Statuses :
          /\ (status \in {"201", "503"} /\ Execute(k)) \/ (status # "201" /\ UNCHANGED server)
          /\ run' = [run EXCEPT ![k].at = status]
    BY <1>8 DEF Serve
  <2>. DEFINE x == [run[k] EXCEPT !.at = status]
  <2>2. run' = [run EXCEPT ![k] = x] /\ x.at = status /\ x.items = run[k].items
    BY <2>1 DEF Shape
  <2>. HIDE DEF x
  <2>3. CASE Execute(k)
    <3>1. executed' = [executed EXCEPT ![Head(run[k].items)] = @ + 1]
      BY <2>3 DEF Execute
    <3>2. \A j \in Runs : IF j = k THEN run'[j].items = run[j].items ELSE run'[j] = run[j]
      BY <2>2, RunPut
    <3>. QED BY <3>1, <3>2 DEF RunStep
  <2>4. CASE status # "201" /\ UNCHANGED server
    BY <1>1, <2>2, <2>4 DEF server
  <2>. QED BY <2>1, <2>3, <2>4
<1>9. ASSUME UNCHANGED <<run, server>> PROVE RunStep
  BY <1>9 DEF server, RunStep
<1>10. ASSUME \/ \E w \in Writes : Add(w)
              \/ \E u \in Users : BeginLogin(u) \/ SaveSession(u)
              \/ GoOffline \/ GoOnline \/ ExpireToken \/ EndSession \/ UNCHANGED vars
       PROVE  UNCHANGED <<run, server>>
  BY <1>10 DEF Add, BeginLogin, SaveSession, GoOffline, GoOnline, ExpireToken, EndSession, ClearStorage, server, vars
<1>. QED BY <1>3, <1>4, <1>5, <1>6, <1>7, <1>8, <1>9, <1>10 DEF Next, Flush

\* The invariant survives every step.
LEMMA QueueKeeps == ASSUME QueueInv, Shape, [Next]_vars PROVE QueueInv'
<1>1. QueueStep
  BY EachStep DEF vars, QueueStep
<1>2. queue' \in Seq(Writes) /\ Distinct(queue') /\ Queued' \subseteq made'
  <2>1. CASE UNCHANGED <<queue, made>>
    BY <2>1 DEF QueueInv, Queued
  <2>2. ASSUME NEW w \in Writes \ made, queue' = Append(queue, w), made' = made \cup {w}
        PROVE  queue' \in Seq(Writes) /\ Distinct(queue') /\ Queued' \subseteq made'
    <3>1. /\ queue' \in Seq(Writes) /\ DOMAIN queue = 1..Len(queue) /\ DOMAIN queue' = 1..(Len(queue) + 1)
          /\ Len(queue) \in Nat /\ queue'[Len(queue) + 1] = w /\ \A i \in 1..Len(queue) : queue'[i] = queue[i]
      BY <2>2 DEF QueueInv
    <3>2. \A i \in DOMAIN queue : queue[i] \in made
      BY DEF QueueInv, Queued, ToSet
    <3>3. \A i \in DOMAIN queue' : i \in DOMAIN queue \/ i = Len(queue) + 1
      BY <3>1
    <3>4. Distinct(queue')
      BY <2>2, <3>1, <3>2, <3>3 DEF Distinct, QueueInv
    <3>5. Queued' \subseteq made'
      BY <2>2, <3>1, <3>2, <3>3 DEF Queued, ToSet
    <3>. QED BY <3>1, <3>4, <3>5
  <2>3. CASE queue' = <<>> /\ made' = made
    BY <2>3 DEF Distinct, Queued, ToSet
  <2>4. ASSUME NEW w, queue' = Without(w), made' = made
        PROVE  queue' \in Seq(Writes) /\ Distinct(queue') /\ Queued' \subseteq made'
    BY <2>4, WithoutOne DEF QueueInv, Queued
  <2>. QED BY <1>1, <2>1, <2>2, <2>3, <2>4 DEF QueueStep
<1>3. /\ executed' \in [Writes -> Nat]
      /\ \A k \in Runs : run'[k].at = "201" /\ Head(run'[k].items) \in Writes => executed'[Head(run'[k].items)] > 0
  <2>1. CASE executed' = executed /\ \A j \in Runs : run'[j] = run[j] \/ run'[j].at # "201"
    BY <2>1 DEF QueueInv
  <2>2. ASSUME NEW k \in Runs, executed' = [executed EXCEPT ![Head(run[k].items)] = @ + 1],
               \A j \in Runs : IF j = k THEN run'[j].items = run[j].items ELSE run'[j] = run[j]
        PROVE  /\ executed' \in [Writes -> Nat]
               /\ \A j \in Runs : run'[j].at = "201" /\ Head(run'[j].items) \in Writes =>
                                     executed'[Head(run'[j].items)] > 0
    <3>. DEFINE w == Head(run[k].items)
    <3>0. executed \in [Writes -> Nat] /\ executed' = [executed EXCEPT ![w] = executed[w] + 1]
      BY <2>2 DEF QueueInv
    <3>. HIDE DEF w
    <3>1. executed' \in [Writes -> Nat] /\ \A v \in Writes : executed'[v] >= executed[v]
      <4>1. DOMAIN executed' = Writes /\ executed' = [v \in Writes |-> executed'[v]]
        BY <3>0
      <4>2. ASSUME NEW v \in Writes PROVE executed'[v] \in Nat /\ executed'[v] >= executed[v]
        <5>1. executed[v] \in Nat /\ executed'[v] = (IF v = w THEN executed[v] + 1 ELSE executed[v])
          BY <3>0
        <5>. QED BY <5>1
      <4>. QED BY <4>1, <4>2
    <3>2. w \in Writes => executed'[w] > 0
      BY <3>0
    <3>. USE DEF w
    <3>3. ASSUME NEW j \in Runs, run'[j].at = "201", Head(run'[j].items) \in Writes
          PROVE  executed'[Head(run'[j].items)] > 0
      <4>1. CASE j = k
        BY <2>2, <3>2, <3>3, <4>1
      <4>2. CASE j # k
        <5>1. executed[Head(run[j].items)] > 0 /\ run'[j] = run[j] /\ Head(run[j].items) \in Writes
          BY <2>2, <3>3, <4>2 DEF QueueInv
        <5>2. executed[Head(run[j].items)] \in Nat /\ executed'[Head(run[j].items)] \in Nat
          BY <3>1, <5>1 DEF QueueInv
        <5>. QED BY <3>1, <5>1, <5>2
      <4>. QED BY <4>1, <4>2
    <3>. QED BY <3>1, <3>3
  <2>. QED BY <2>1, <2>2, EachRun DEF RunStep
<1>. QED BY <1>2, <1>3 DEF QueueInv

THEOREM QueueInductive == Spec => [](IInv /\ QueueInv)
<1>1. Init => IInv /\ QueueInv
  <2>1. SUFFICES ASSUME Init PROVE IInv /\ QueueInv
    OBVIOUS
  <2>2. Queued = {} /\ queue \in Seq(Writes) /\ Distinct(queue)
    BY <2>1 DEF Init, Queued, ToSet, Distinct
  <2>. QED BY <2>1, <2>2, InitAccount DEF Init, Idle, QueueInv
<1>2. IInv /\ QueueInv /\ [Next]_vars => (IInv /\ QueueInv)'
  BY AccountKeeps, QueueKeeps DEF IInv
<1>. QED BY <1>1, <1>2, PTL DEF Spec

\* A write leaves the queue with the session's storage, or for an answer the server
\* gave to that write which was not a failure; never for a lost answer, a rejected
\* token or a failure of the server (api.ts:94-119, sessionData.ts:28-39): whatever
\* tabs flush at once.
THEOREM FailuresKeep == Spec => FailuresKeepWrites
<1>1. QueueInv /\ [Next]_vars =>
        [\A w \in Queued \ Queued' :
           \/ queue' = <<>> /\ account' = NoUser
           \/ \E k \in Runs : /\ run[k].at \in Statuses \ {"401", "503"}
                              /\ Head(run[k].items) = w
                              /\ run[k].at = "201" => executed[w] > 0]_vars
  <2>1. SUFFICES ASSUME QueueInv, QueueStep, NEW w \in Queued \ Queued'
                 PROVE  \/ queue' = <<>> /\ account' = NoUser
                        \/ \E k \in Runs : /\ run[k].at \in Statuses \ {"401", "503"}
                                           /\ Head(run[k].items) = w
                                           /\ run[k].at = "201" => executed[w] > 0
    BY EachStep
  <2>2. w \in Writes /\ queue' # queue
    BY <2>1 DEF QueueInv, Queued, ToSet
  <2>3. ASSUME NEW v \in Writes, queue' = Append(queue, v) PROVE FALSE
    <3>1. \A i \in DOMAIN queue : i \in DOMAIN queue' /\ queue'[i] = queue[i]
      BY <2>1, <2>3 DEF QueueInv
    <3>. QED BY <2>1, <3>1 DEF Queued, ToSet
  <2>4. ASSUME NEW k \in Runs, run[k].at \in {"201", "429", "4xx"}, queue' = Without(Head(run[k].items))
        PROVE  Head(run[k].items) = w /\ (run[k].at = "201" => executed[w] > 0)
    <3>1. Queued' = Queued \ {Head(run[k].items)}
      BY <2>1, <2>4, WithoutOne DEF QueueInv, Queued
    <3>. QED BY <2>1, <2>2, <3>1 DEF QueueInv
  <2>. QED BY <2>1, <2>2, <2>3, <2>4 DEF QueueStep, Statuses
<1>. QED BY <1>1, QueueInductive, PTL DEF Spec, FailuresKeepWrites

\* A write that left the queue stays out, whichever flushes hold it in a list they
\* captured.
THEOREM StaysOut == Spec => NoResurrection
<1>1. QueueInv /\ [Next]_vars => [\A w \in made : w \in Queued' => w \in Queued]_vars
  <2>1. SUFFICES ASSUME QueueInv, QueueStep, NEW w \in made, w \in Queued' PROVE w \in Queued
    BY EachStep
  <2>2. ASSUME NEW v \in Writes \ made, queue' = Append(queue, v) PROVE w \in Queued
    <3>1. \A i \in DOMAIN queue' : queue'[i] = v \/ (i \in DOMAIN queue /\ queue'[i] = queue[i])
      BY <2>1, <2>2 DEF QueueInv
    <3>. QED BY <2>1, <2>2, <3>1 DEF Queued, ToSet
  <2>3. ASSUME NEW v, queue' = Without(v) PROVE w \in Queued
    BY <2>1, <2>3, WithoutOne DEF QueueInv, Queued
  <2>4. CASE queue' = <<>>
    BY <2>1, <2>4 DEF Queued, ToSet
  <2>5. CASE queue' = queue
    BY <2>1, <2>5 DEF Queued
  <2>. QED BY <2>1, <2>2, <2>3, <2>4, <2>5 DEF QueueStep
<1>. QED BY <1>1, QueueInductive, PTL DEF Spec, NoResurrection
===============================================================================
