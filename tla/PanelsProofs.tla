--------------------------- MODULE PanelsProofs ---------------------------
(***************************************************************************)
(* Proofs about three of the parts the panels are made of.  The chats: a   *)
(* thread for each vessel (ThreadsStayApart) and one reply to a question   *)
(* (OneAnswer), for any fleet, lengths of answers and histories, and       *)
(* whatever vessels are selected while an answer comes.  The table of the  *)
(* Angular dashboard: it shows the term that was typed                     *)
(* (TableShowsTheTerm).  The pages: the vessel in the heading              *)
(* (ShownIsSelected) and failures told (FailuresAreTold).  A part's        *)
(* invariant is about its own variables, so the steps of the others keep   *)
(* it.                                                                     *)
(***************************************************************************)
EXTENDS Panels, SequenceTheorems, FiniteSetTheorems, WellFoundedInduction, TLAPS

Texts == Seq(Nat \cup {Hello, Notice, Reason})
Messages == [ask : Nat, role : {"user", "assistant"}, text : Texts]
Calls == [ask : Nat, part : Nat, fallenBack : BOOLEAN, size : Nat, history : SUBSET Nat]

ChatTypes ==
    /\ surface \in {"knowledge", "compliance", "sire"}
    /\ ship \in Ships /\ mounted \in BOOLEAN
    /\ thread \in Seq(Messages)
    /\ store \in [Ships -> Seq(Messages)]
    /\ call \in Calls \cup {NoCall}
    /\ asked \in Seq(Ships)

\* A question that was asked about a vessel.
AskedAbout(n, v, questions) == n \in DOMAIN questions /\ questions[n] = v

ThreadOf(list, v, questions) == \A i \in DOMAIN list : AskedAbout(list[i].ask, v, questions)

\* A request is its screen's, which need not show the vessel it is about.
CallInv ==
    call # NoCall =>
        /\ mounted
        /\ call.ask \in DOMAIN asked
        /\ Chat!Keyed => \A n \in call.history : AskedAbout(n, asked[call.ask], asked)

StoreInv ==
    Chat!Keyed => /\ \A v \in Ships : ThreadOf(store[v], v, asked)
                  /\ mounted => thread = store[ship]

\* A chat at rest has no thread, so whichever vessel the planner selects, it
\* shows what is stored for it.
AtRest == part # "chat" => call = NoCall /\ (Chat!Keyed => thread = <<>> /\ \A v \in Ships : store[v] = <<>>)

ChatInv == ChatTypes /\ CallInv /\ StoreInv

-----------------------------------------------------------------------------

\* In a behaviour of the panels a chat moves as it does alone, or rests.
LEMMA ChatMoves ==
    ASSUME [Next]_vars, ship \in Ships
    PROVE  \/ part = "chat" /\ part' = part /\ Chat!Next
           \/ UNCHANGED <<part, chatVars, ship>>
           \/ part # "chat" /\ ship' \in Ships /\ UNCHANGED <<part, chatVars>>
<1>1. CASE ChatStep(Chat!Next)
  BY <1>1 DEF ChatStep
<1>2. CASE PlannerStep(Planner!Next)
  <2>1. ship' \in Ships
    BY <1>2 DEF PlannerStep, Planner!Next, Planner!SelectVessel, Planner!StartRun, Planner!Receive, Planner!Stop,
                Planner!Leave, Planner!ServerWorks
  <2>. QED BY <1>2, <2>1 DEF PlannerStep
<1>3. CASE ReaderStep(Reader!Next) \/ PageStep(PageNext) \/ TableStep(Table!Next)
  BY <1>3 DEF ReaderStep, PageStep, TableStep
<1>4. CASE UNCHANGED vars
  BY <1>4 DEF vars
<1>. QED BY <1>1, <1>2, <1>3, <1>4 DEF Next

\* While a chat rests, another vessel may be selected.
LEMMA RestChat ==
    ASSUME ChatInv, AtRest, part # "chat", ship' \in Ships, UNCHANGED <<part, chatVars>>
    PROVE  ChatInv'
<1>1. UNCHANGED <<surface, mounted, thread, store, call, asked>>
  BY DEF chatVars
<1>2. ChatTypes' /\ CallInv'
  BY <1>1 DEF ChatInv, ChatTypes, AtRest, CallInv
<1>3. StoreInv'
  BY <1>1 DEF ChatInv, StoreInv, AtRest, Chat!Keyed, ThreadOf, AskedAbout
<1>. QED BY <1>2, <1>3 DEF ChatInv

\* The messages that go with a question are of the shown thread.
LEMMA HistoryIsShown ==
    ASSUME Chat!ChatAssumption, ChatTypes
    PROVE  /\ Chat!History \in Seq(Messages)
           /\ \A i \in DOMAIN Chat!History : \E j \in DOMAIN thread : Chat!History[i] = thread[j]
<1>. DEFINE m == Chat!Max({0, Len(thread) - Recent}) + 1
            h == SubSeq(thread, m, Len(thread))
<1>1. Len(thread) \in Nat /\ DOMAIN thread = 1..Len(thread)
  BY DEF ChatTypes
<1>2. m \in Int /\ m >= 1 /\ m <= Len(thread) + 1
  <2>1. Recent \in Nat /\ Len(thread) - Recent \in Int /\ Len(thread) - Recent <= Len(thread)
    BY <1>1 DEF Chat!ChatAssumption
  <2>2. \E x \in {0, Len(thread) - Recent} : \A y \in {0, Len(thread) - Recent} : x >= y
    BY <2>1
  <2>3. /\ Chat!Max({0, Len(thread) - Recent}) \in {0, Len(thread) - Recent}
        /\ Chat!Max({0, Len(thread) - Recent}) >= 0
    BY <2>2 DEF Chat!Max
  <2>. QED BY <1>1, <2>1, <2>3
<1>. HIDE DEF m
<1>3. \A i \in m..Len(thread) : thread[i] \in Messages
  BY <1>2 DEF ChatTypes
<1>4. /\ h \in Seq(Messages)
      /\ Len(h) = IF m <= Len(thread) THEN Len(thread) - m + 1 ELSE 0
      /\ \A i \in 1..Len(thread) - m + 1 : h[i] = thread[m + i - 1]
  BY <1>1, <1>2, <1>3, SubSeqProperties
<1>5. \A i \in DOMAIN h : \E j \in DOMAIN thread : h[i] = thread[j]
  <2>1. DOMAIN h = 1..Len(h)
    BY <1>4
  <2>2. SUFFICES ASSUME NEW i \in DOMAIN h PROVE m + i - 1 \in DOMAIN thread /\ h[i] = thread[m + i - 1]
    OBVIOUS
  <2>. QED BY <1>1, <1>2, <1>4, <2>1, <2>2
<1>. QED BY <1>4, <1>5 DEF Chat!History, ChatTypes, m, h

\* What is shown stays what is stored when a thread is replaced by one of the
\* same vessel.
LEMMA MessagesSet ==
    ASSUME ChatInv, NEW t \in Seq(Messages), Chat!SetMessages(t), Chat!Keyed => ThreadOf(t, ship, asked'),
           \A n, v : AskedAbout(n, v, asked) => AskedAbout(n, v, asked'),
           UNCHANGED <<surface, ship, mounted>>
    PROVE  StoreInv' /\ thread' \in Seq(Messages) /\ store' \in [Ships -> Seq(Messages)]
<1>1. thread' = t /\ store' = (IF Chat!Keyed THEN [store EXCEPT ![ship] = t] ELSE store)
  BY DEF Chat!SetMessages
<1>2. thread' \in Seq(Messages) /\ store' \in [Ships -> Seq(Messages)]
  BY <1>1 DEF ChatInv, ChatTypes
<1>3. StoreInv'
  <2>1. SUFFICES ASSUME Chat!Keyed PROVE (\A v \in Ships : ThreadOf(store'[v], v, asked')) /\ (mounted => thread' = store'[ship])
    BY DEF StoreInv, Chat!Keyed
  <2>2. store'[ship] = t /\ \A v \in Ships \ {ship} : store'[v] = store[v]
    BY <1>1, <2>1 DEF ChatInv, ChatTypes
  <2>3. ASSUME NEW v \in Ships PROVE ThreadOf(store'[v], v, asked')
    <3>1. CASE v = ship
      BY <2>1, <2>2, <3>1 DEF ThreadOf
    <3>2. CASE v # ship
      BY <2>1, <2>2, <3>2 DEF ThreadOf, ChatInv, StoreInv
    <3>. QED BY <3>1, <3>2
  <2>. QED BY <1>1, <2>2, <2>3
<1>. QED BY <1>2, <1>3

\* Patching a reply leaves the questions of the thread as they are.
LEMMA Patched ==
    ASSUME ChatInv, NEW t \in Seq(Messages), Chat!SetMessages(t),
           call # NoCall, DOMAIN t = DOMAIN thread, \A i \in DOMAIN thread : t[i].ask = thread[i].ask,
           UNCHANGED <<surface, ship, mounted, asked>>
    PROVE  StoreInv' /\ thread' \in Seq(Messages) /\ store' \in [Ships -> Seq(Messages)]
<1>1. Chat!Keyed => thread = store[ship] /\ ThreadOf(store[ship], ship, asked)
  BY DEF ChatInv, CallInv, StoreInv, ChatTypes
<1>2. Chat!Keyed => ThreadOf(t, ship, asked')
  BY <1>1 DEF ThreadOf, AskedAbout
<1>3. \A n, v : AskedAbout(n, v, asked) => AskedAbout(n, v, asked')
  BY DEF AskedAbout
<1>. QED BY <1>2, <1>3, MessagesSet

-----------------------------------------------------------------------------

\* Initially every thread is empty, or the greeting.
LEMMA InitChat == ASSUME Chat!Init PROVE ChatInv
<1>1. Chat!Greeting \in Messages
  BY DEF Chat!Greeting, Messages, Texts
<1>2. \A v \in Ships : store[v] = <<>> /\ ThreadOf(store[v], v, asked)
  BY DEF Chat!Init, ThreadOf
<1>3. thread \in Seq(Messages)
  BY <1>1, <1>2 DEF Chat!Init, Chat!Opening
<1>4. <<>> \in Seq(Messages) /\ asked \in Seq(Ships)
  BY DEF Chat!Init
<1>5. ChatTypes
  BY <1>3, <1>4 DEF Chat!Init, ChatTypes
<1>. QED BY <1>2, <1>5 DEF Chat!Init, ChatInv, CallInv, StoreInv, Chat!Opening, Chat!Keyed

\* A question goes out with the messages shown.
LEMMA SendMessageChat == ASSUME Chat!ChatAssumption, ChatInv, Chat!SendMessage PROVE ChatInv'
<1>. DEFINE n == Len(asked) + 1
            s == <<[ask |-> n, role |-> "user", text |-> <<>>], [ask |-> n, role |-> "assistant", text |-> <<>>]>>
<1>1. /\ n \in Nat /\ Len(asked) \in Nat /\ DOMAIN asked = 1..Len(asked) /\ ship \in Ships
      /\ asked' = Append(asked, ship)
  BY DEF ChatInv, ChatTypes, Chat!SendMessage
<1>2. /\ asked' \in Seq(Ships) /\ DOMAIN asked' = 1..n
      /\ asked'[n] = ship
      /\ \A i \in DOMAIN asked : asked'[i] = asked[i]
  BY <1>1 DEF ChatInv, ChatTypes
<1>3. \A m, v : AskedAbout(m, v, asked) => AskedAbout(m, v, asked')
  BY <1>1, <1>2 DEF AskedAbout
<1>4. s \in Seq(Messages) /\ Len(s) = 2 /\ \A i \in 1..2 : s[i].ask = n
  <2>1. <<>> \in Texts
    BY DEF Texts
  <2>. QED BY <1>1, <2>1 DEF Messages
<1>5. UNCHANGED <<surface, ship, mounted>> /\ Chat!SetMessages(thread \o s) /\ mounted /\ call = NoCall
  BY DEF Chat!SendMessage
<1>6. call' = [ask |-> n, part |-> 1, fallenBack |-> FALSE,
               size |-> Len(Chat!History), history |-> {Chat!History[i].ask : i \in DOMAIN Chat!History}]
  BY DEF Chat!SendMessage
<1>. HIDE DEF n, s
<1>7. thread \in Seq(Messages) /\ Len(thread) \in Nat
  BY DEF ChatInv, ChatTypes
<1>8. /\ thread \o s \in Seq(Messages)
      /\ Len(thread \o s) = Len(thread) + 2 /\ DOMAIN (thread \o s) = 1..Len(thread) + 2
      /\ \A i \in 1..Len(thread) + 2 : (thread \o s)[i] = IF i <= Len(thread) THEN thread[i] ELSE s[i - Len(thread)]
  <2>1. /\ thread \o s \in Seq(Messages) /\ Len(thread \o s) = Len(thread) + Len(s)
        /\ \A i \in 1..Len(thread) + Len(s) :
             (thread \o s)[i] = IF i <= Len(thread) THEN thread[i] ELSE s[i - Len(thread)]
    BY <1>4, <1>7, ConcatProperties
  <2>2. DOMAIN (thread \o s) = 1..Len(thread \o s)
    BY <2>1
  <2>. QED BY <1>4, <2>1, <2>2
<1>9. Chat!Keyed => ThreadOf(thread \o s, ship, asked')
  <2>1. SUFFICES ASSUME Chat!Keyed, NEW i \in 1..Len(thread) + 2
                 PROVE  AskedAbout((thread \o s)[i].ask, ship, asked')
    BY <1>5, <1>8 DEF ThreadOf, AskedAbout
  <2>2. thread = store[ship] /\ ThreadOf(thread, ship, asked)
    BY <1>1, <1>5, <2>1 DEF ChatInv, StoreInv
  <2>3. CASE i <= Len(thread)
    <3>1. i \in DOMAIN thread /\ (thread \o s)[i] = thread[i]
      BY <1>7, <1>8, <2>3
    <3>. QED BY <1>3, <1>5, <2>2, <3>1 DEF ThreadOf, AskedAbout
  <2>4. CASE i > Len(thread)
    <3>1. i - Len(thread) \in 1..2 /\ (thread \o s)[i] = s[i - Len(thread)]
      BY <1>7, <1>8, <2>4
    <3>2. n \in 1..n
      BY <1>1 DEF n
    <3>3. (thread \o s)[i].ask = n
      BY <1>4, <3>1
    <3>. QED BY <1>2, <3>2, <3>3 DEF AskedAbout
  <2>5. i <= Len(thread) \/ i > Len(thread)
    BY <1>7
  <2>. QED BY <2>3, <2>4, <2>5
<1>10. /\ Chat!History \in Seq(Messages) /\ Len(Chat!History) \in Nat
       /\ \A i \in DOMAIN Chat!History : \E j \in DOMAIN thread : Chat!History[i] = thread[j]
  BY HistoryIsShown DEF ChatInv
<1>11. call' \in Calls
  <2>1. ASSUME NEW i \in DOMAIN Chat!History PROVE Chat!History[i].ask \in Nat
    <3>1. Chat!History[i] \in Messages
      BY <1>10
    <3>. QED BY <3>1 DEF Messages
  <2>. QED BY <1>1, <1>6, <1>10, <2>1 DEF Calls, n
<1>12. CallInv'
  <2>1. n \in DOMAIN asked' /\ call'.ask = n
    BY <1>1, <1>2, <1>6 DEF n
  <2>2. ASSUME Chat!Keyed, NEW i \in DOMAIN Chat!History PROVE AskedAbout(Chat!History[i].ask, ship, asked')
    <3>1. thread = store[ship] /\ ThreadOf(thread, ship, asked)
      BY <1>1, <1>5, <2>2 DEF ChatInv, StoreInv
    <3>. QED BY <1>3, <1>5, <1>10, <2>2, <3>1 DEF ThreadOf, AskedAbout
  <2>3. call'.history = {Chat!History[i].ask : i \in DOMAIN Chat!History}
    BY <1>6
  <2>. QED BY <1>2, <1>5, <2>1, <2>2, <2>3 DEF CallInv, Chat!Keyed, AskedAbout
<1>13. StoreInv' /\ thread' \in Seq(Messages) /\ store' \in [Ships -> Seq(Messages)]
  BY <1>3, <1>5, <1>8, <1>9, MessagesSet
<1>. QED BY <1>2, <1>5, <1>11, <1>12, <1>13 DEF ChatInv, ChatTypes

\* The parts, the fallback and an error, all of which change texts only.
LEMMA ReplyChat ==
    ASSUME Chat!ChatAssumption, ChatInv, Chat!Delta \/ Chat!Fallback \/ Chat!Fails
    PROVE  ChatInv'
<1>. DEFINE Text(i) == IF Chat!Delta THEN Append(thread[i].text, call.part) ELSE IF Chat!Fallback THEN <<Notice>> ELSE <<Reason>>
            t == [i \in DOMAIN thread |-> IF Chat!IsReply(i) THEN [thread[i] EXCEPT !.text = Text(i)] ELSE thread[i]]
<1>1. thread \in Seq(Messages) /\ call # NoCall /\ call \in Calls /\ call.part \in Nat
  BY DEF Chat!Delta, Chat!Fallback, Chat!Fails, Chat!Accepted, ChatInv, ChatTypes, Calls
<1>2. \A i \in DOMAIN thread : Text(i) \in Texts
  <2>1. ASSUME NEW i \in DOMAIN thread PROVE thread[i].text \in Texts
    <3>1. thread[i] \in Messages
      BY <1>1
    <3>. QED BY <3>1 DEF Messages
  <2>2. \A i \in DOMAIN thread : Append(thread[i].text, call.part) \in Texts
    BY <1>1, <2>1 DEF Texts
  <2>3. <<Notice>> \in Texts /\ <<Reason>> \in Texts
    BY DEF Texts
  <2>. QED BY <2>2, <2>3
<1>3. Chat!SetMessages(t) /\ UNCHANGED <<surface, ship, mounted, asked>>
  BY DEF Chat!Delta, Chat!Fallback, Chat!Fails, Chat!Patch
<1>. HIDE DEF Text
<1>4. ASSUME NEW i \in DOMAIN thread PROVE t[i] \in Messages /\ t[i].ask = thread[i].ask
  <2>1. thread[i] \in Messages /\ Text(i) \in Texts
    BY <1>1, <1>2
  <2>2. t[i] = thread[i] \/ t[i] = [thread[i] EXCEPT !.text = Text(i)]
    OBVIOUS
  <2>. QED BY <2>1, <2>2 DEF Messages
<1>5. t \in Seq(Messages) /\ DOMAIN t = DOMAIN thread
  BY <1>1, <1>4
<1>6. /\ call' \in Calls \cup {NoCall}
      /\ call' # NoCall => call'.ask = call.ask /\ call'.history = call.history
  <2>1. call' = [call EXCEPT !.part = @ + 1] \/ call' = [call EXCEPT !.fallenBack = TRUE] \/ call' = NoCall
    BY DEF Chat!Delta, Chat!Fallback, Chat!Fails, Chat!Over
  <2>2. CASE call' = [call EXCEPT !.part = @ + 1]
    <3>1. [call EXCEPT !.part = call.part + 1] \in Calls
      BY <1>1 DEF Calls
    <3>. QED BY <1>1, <2>2, <3>1 DEF Calls
  <2>3. CASE call' = [call EXCEPT !.fallenBack = TRUE]
    BY <1>1, <2>3 DEF Calls
  <2>. QED BY <2>1, <2>2, <2>3
<1>. HIDE DEF t
<1>7. StoreInv' /\ thread' \in Seq(Messages) /\ store' \in [Ships -> Seq(Messages)]
  BY <1>1, <1>3, <1>4, <1>5, Patched
<1>8. CallInv'
  BY <1>1, <1>3, <1>6 DEF CallInv, ChatInv, Chat!Keyed, AskedAbout
<1>. QED BY <1>3, <1>6, <1>7, <1>8 DEF ChatInv, ChatTypes

\* Another vessel is selected: its own thread is shown.
LEMMA SelectVesselChat == ASSUME ChatInv, NEW v \in Ships, Chat!SelectVessel(v) PROVE ChatInv'
<1>1. /\ ship' = v /\ thread' = (IF mounted /\ Chat!Keyed THEN store[v] ELSE thread)
      /\ UNCHANGED <<surface, mounted, store, call, asked>>
  BY DEF Chat!SelectVessel
<1>2. ChatTypes'
  BY <1>1 DEF ChatInv, ChatTypes
<1>3. CallInv'
  BY <1>1 DEF ChatInv, CallInv, Chat!Keyed, AskedAbout
<1>4. StoreInv'
  BY <1>1 DEF ChatInv, StoreInv, Chat!Keyed, ThreadOf, AskedAbout
<1>. QED BY <1>2, <1>3, <1>4 DEF ChatInv

\* Ends of a reply, and the screen coming and going.
LEMMA ScreenChat ==
    ASSUME ChatInv, Chat!Finish \/ Chat!Stop \/ Chat!Clear \/ Chat!Leave \/ Chat!Return
    PROVE  ChatInv'
<1>1. CASE Chat!Finish \/ Chat!Stop
  BY <1>1 DEF Chat!Finish, Chat!Stop, Chat!Over, ChatInv, ChatTypes, CallInv, StoreInv, Chat!Keyed,
              ThreadOf, AskedAbout
<1>2. CASE Chat!Clear
  <2>1. UNCHANGED <<surface, ship, mounted, call, asked>> /\ Chat!SetMessages(<<>>) /\ <<>> \in Seq(Messages)
    BY <1>2 DEF Chat!Clear
  <2>2. StoreInv' /\ thread' \in Seq(Messages) /\ store' \in [Ships -> Seq(Messages)]
    <3>1. ThreadOf(<<>>, ship, asked')
      BY DEF ThreadOf
    <3>2. \A n, v : AskedAbout(n, v, asked) => AskedAbout(n, v, asked')
      BY <2>1 DEF AskedAbout
    <3>. QED BY <2>1, <3>1, <3>2, MessagesSet
  <2>. QED BY <2>1, <2>2 DEF ChatInv, ChatTypes, CallInv, Chat!Keyed, AskedAbout
<1>3. CASE Chat!Leave
  <2>1. mounted' = FALSE /\ thread' = <<>> /\ call' = NoCall /\ UNCHANGED <<surface, ship, store, asked>>
    BY <1>3 DEF Chat!Leave, Chat!Over
  <2>2. thread' \in Seq(Messages)
    BY <2>1
  <2>3. ChatTypes'
    BY <2>1, <2>2 DEF ChatInv, ChatTypes
  <2>. QED BY <2>1, <2>3 DEF ChatInv, CallInv, StoreInv, Chat!Keyed, ThreadOf, AskedAbout
<1>4. CASE Chat!Return
  <2>1. Chat!Greeting \in Messages
    BY DEF Chat!Greeting, Messages, Texts
  <2>2. Chat!Opening(ship) \in Seq(Messages)
    BY <2>1 DEF Chat!Opening, ChatInv, ChatTypes
  <2>. QED BY <1>4, <2>2 DEF Chat!Return, Chat!Opening, ChatInv, ChatTypes, CallInv, StoreInv, Chat!Keyed,
                             ThreadOf, AskedAbout
<1>. QED BY <1>1, <1>2, <1>3, <1>4

-----------------------------------------------------------------------------
(* The theorems of the chats *)

\* The chats keep their threads, and a chat at rest has none.
THEOREM ChatInductive == Spec => [](ChatInv /\ AtRest)
<1>1. Init => ChatInv /\ AtRest
  <2>1. Init => Chat!Init
    BY DEF Init
  <2>. QED BY <2>1, InitChat DEF AtRest, Chat!Init, Chat!Opening
<1>2. ChatInv /\ AtRest /\ [Next]_vars => ChatInv' /\ AtRest'
  <2>1. SUFFICES ASSUME ChatInv, AtRest, [Next]_vars PROVE ChatInv' /\ AtRest'
    OBVIOUS
  <2>2. CASE part = "chat" /\ part' = part /\ Chat!Next
    <3>1. ChatInv'
      BY <2>1, <2>2, PanelsAssumption, SendMessageChat, ReplyChat, SelectVesselChat, ScreenChat DEF Chat!Next
    <3>. QED BY <2>2, <3>1 DEF AtRest
  <2>3. CASE UNCHANGED <<part, chatVars, ship>>
    BY <2>1, <2>3 DEF chatVars, ChatInv, AtRest, ChatTypes, CallInv, StoreInv, Chat!Keyed, ThreadOf, AskedAbout
  <2>4. CASE part # "chat" /\ ship' \in Ships /\ UNCHANGED <<part, chatVars>>
    <3>1. AtRest'
      BY <2>1, <2>4 DEF chatVars, AtRest, Chat!Keyed
    <3>. QED BY <2>1, <2>4, <3>1, RestChat
  <2>5. ship \in Ships
    BY <2>1 DEF ChatInv, ChatTypes
  <2>. QED BY <2>1, <2>2, <2>3, <2>4, <2>5, ChatMoves
<1>. QED BY <1>1, <1>2, PTL DEF Spec

\* Nothing said about one vessel is stored, shown or sent along under another,
\* whichever vessels are selected while answers come (usePersistentVesselState.ts:9-13).
THEOREM ThreadPerVessel == Spec => []ThreadsStayApart
<1>1. ChatInv => ThreadsStayApart
  <2>1. SUFFICES ASSUME ChatInv, Chat!Keyed
                 PROVE  /\ \A v \in Ships : Chat!About(store[v], v)
                        /\ mounted => thread = store[ship]
                        /\ call # NoCall => \A n \in call.history : asked[n] = asked[call.ask]
    BY DEF ThreadsStayApart, Chat!ThreadsStayApart
  <2>. QED BY <2>1 DEF ChatInv, StoreInv, CallInv, ThreadOf, AskedAbout, Chat!About
<1>. QED BY <1>1, ChatInductive, PTL

-----------------------------------------------------------------------------
(* One answer to a question *)

Notices == {<<Hello>>, <<Notice>>, <<Reason>>}

\* What a reply may be left as, when another vessel was looked at during the
\* questions h.
Final(m, h) ==
    m.role = "assistant" =>
        \/ m.text \in Notices
        \/ \A k \in DOMAIN m.text : m.text[k] = k
        \/ /\ m.ask \in h
           /\ \A k \in DOMAIN m.text : m.text[k] \in 1..Parts
           /\ \A j, k \in DOMAIN m.text : m.text[j] = m.text[k] => j = k

\* A reply of request c that still grows: parts that have arrived, each later than
\* those before, and all of them unless another vessel was looked at.
Growing(m, c, h) ==
    m.role = "assistant" /\ m.ask = c.ask =>
        /\ \A k \in DOMAIN m.text : m.text[k] \in 1..(c.part - 1)
        /\ \A j, k \in DOMAIN m.text : m.text[j] = m.text[k] => j = k
        /\ c.ask \notin h => Len(m.text) = c.part - 1 /\ \A k \in DOMAIN m.text : m.text[k] = k

Sound(m, c, h) == Final(m, h) /\ (c # NoCall /\ ~c.fallenBack => Growing(m, c, h))

SoundThread(list, c, h) == \A i \in DOMAIN list : Sound(list[i], c, h)

\* The inspector's reply is its last message, and only that.
LastIsReply ==
    ~Chat!Keyed /\ call # NoCall =>
        /\ thread # <<>> /\ thread[Len(thread)].role = "assistant" /\ thread[Len(thread)].ask = call.ask
        /\ \A i \in DOMAIN thread : thread[i].role = "assistant" /\ thread[i].ask = call.ask => i = Len(thread)

AnswerInv ==
    /\ SoundThread(thread, call, holed)
    /\ \A v \in Ships : SoundThread(store[v], call, holed)
    /\ call # NoCall => call.part \in 1..(Parts + 1)
    /\ call # NoCall /\ Chat!Keyed /\ call.ask \notin holed => ship = asked[call.ask]
    /\ \A i \in DOMAIN thread : thread[i].ask <= Len(asked)
    /\ ~Chat!Keyed => \A v \in Ships : store[v] = <<>>
    /\ LastIsReply

\* A reply that still grows may be left as it is.
LEMMA GrowingIsFinal ==
    ASSUME Parts \in Nat, NEW m \in Messages, NEW c \in Calls, c.part \in 1..(Parts + 1), NEW h, Growing(m, c, h)
    PROVE  m.ask = c.ask => Final(m, h)
BY DEF Growing, Final, Messages, Calls

\* A message without the question's number, or of the user, is no reply to it.
LEMMA OtherSound ==
    ASSUME NEW m, NEW c, NEW h, Final(m, h), m.role # "assistant" \/ m.ask # c.ask
    PROVE  Sound(m, c, h)
BY DEF Sound, Growing

\* At the end of a reply, or once it has fallen back, what it was stays.
LEMMA EndedSound ==
    ASSUME NEW list, NEW c, NEW h, SoundThread(list, c, h), NEW d, d = NoCall \/ d.fallenBack
    PROVE  SoundThread(list, d, h)
BY DEF SoundThread, Sound

\* The threads are sound when the shown one is replaced by a sound one.
LEMMA ThreadsSound ==
    ASSUME NEW t, Chat!SetMessages(t), SoundThread(t, call', holed'),
           store \in [Ships -> Seq(Messages)], ship \in Ships,
           \A v \in Ships : v # ship \/ ~Chat!Keyed => SoundThread(store[v], call', holed')
    PROVE  SoundThread(thread', call', holed') /\ \A v \in Ships : SoundThread(store'[v], call', holed')
<1>1. thread' = t /\ store' = (IF Chat!Keyed THEN [store EXCEPT ![ship] = t] ELSE store)
  BY DEF Chat!SetMessages
<1>2. CASE Chat!Keyed
  BY <1>1, <1>2
<1>3. CASE ~Chat!Keyed
  BY <1>1, <1>3
<1>. QED BY <1>2, <1>3

\* A question gets an empty reply, which no message has been before.
LEMMA SendMessageAnswer ==
    ASSUME Chat!ChatAssumption, ChatInv, AnswerInv, Chat!SendMessage
    PROVE  AnswerInv'
<1>. DEFINE n == Len(asked) + 1
            q == [ask |-> n, role |-> "user", text |-> <<>>]
            r == [ask |-> n, role |-> "assistant", text |-> <<>>]
            t == thread \o <<q, r>>
<1>1. /\ Chat!SetMessages(t) /\ asked' = Append(asked, ship) /\ call = NoCall
      /\ call'.ask = n /\ call'.part = 1 /\ ~call'.fallenBack
      /\ UNCHANGED <<surface, ship, mounted, holed>>
  BY DEF Chat!SendMessage
<1>2. /\ thread \in Seq(Messages) /\ Len(thread) \in Nat /\ Len(asked) \in Nat /\ ship \in Ships
      /\ store \in [Ships -> Seq(Messages)] /\ asked \in Seq(Ships) /\ Parts \in Nat
  BY DEF ChatInv, ChatTypes, Chat!ChatAssumption
<1>3. n \in Nat /\ n > Len(asked) /\ Len(asked') = n /\ asked'[n] = ship
  BY <1>1, <1>2
<1>4. Sound(q, call', holed') /\ Sound(r, call', holed')
  BY <1>1 DEF Sound, Final, Growing
<1>5. /\ DOMAIN t = 1..Len(thread) + 2 /\ Len(t) = Len(thread) + 2
      /\ \A i \in 1..Len(thread) : t[i] = thread[i]
      /\ t[Len(thread) + 1] = q /\ t[Len(thread) + 2] = r
  BY <1>2
<1>. HIDE DEF n
<1>6. SoundThread(t, call', holed')
  <2>1. SUFFICES ASSUME NEW i \in 1..Len(thread) + 2 PROVE Sound(t[i], call', holed')
    BY <1>5 DEF SoundThread
  <2>2. CASE i \in 1..Len(thread)
    <3>1. thread[i] \in Messages /\ thread[i].ask <= Len(asked) /\ Final(thread[i], holed)
      BY <1>2, <2>2 DEF AnswerInv, SoundThread, Sound
    <3>2. thread[i].ask # n
      BY <1>2, <1>3, <3>1 DEF Messages
    <3>. HIDE DEF t
    <3>. QED BY <1>1, <1>5, <2>2, <3>1, <3>2, OtherSound
  <2>3. i \in 1..Len(thread) \/ i = Len(thread) + 1 \/ i = Len(thread) + 2
    BY <1>2
  <2>. HIDE DEF t, q, r
  <2>. QED BY <1>4, <1>5, <2>2, <2>3
<1>7. ASSUME NEW v \in Ships, v # ship \/ ~Chat!Keyed PROVE SoundThread(store[v], call', holed')
  <2>1. CASE ~Chat!Keyed
    BY <2>1 DEF AnswerInv, SoundThread
  <2>2. CASE Chat!Keyed
    <3>1. SUFFICES ASSUME NEW i \in DOMAIN store[v] PROVE Sound(store[v][i], call', holed')
      BY DEF SoundThread
    <3>2. store[v][i].ask \in DOMAIN asked /\ Final(store[v][i], holed)
      BY <2>2 DEF ChatInv, StoreInv, ThreadOf, AskedAbout, AnswerInv, SoundThread, Sound
    <3>3. store[v][i].ask # n
      BY <1>2, <1>3, <3>2
    <3>. QED BY <1>1, <3>2, <3>3, OtherSound
  <2>. QED BY <2>1, <2>2
<1>8. thread' = t /\ (~Chat!Keyed => store' = store)
  BY <1>1 DEF Chat!SetMessages
<1>9. \A i \in DOMAIN thread' : thread'[i].ask <= Len(asked')
  <2>1. SUFFICES ASSUME NEW i \in 1..Len(thread) + 2 PROVE t[i].ask <= n
    BY <1>3, <1>5, <1>8
  <2>2. CASE i \in 1..Len(thread)
    <3>1. thread[i] \in Messages /\ thread[i].ask <= Len(asked)
      BY <1>2, <2>2 DEF AnswerInv
    <3>. QED BY <1>2, <1>3, <1>5, <2>2, <3>1 DEF Messages
  <2>3. CASE i = Len(thread) + 1 \/ i = Len(thread) + 2
    <3>1. t[i].ask = n
      BY <1>5, <2>3
    <3>. QED BY <1>3, <3>1
  <2>. QED BY <1>2, <2>2, <2>3
<1>10. LastIsReply'
  <2>1. SUFFICES ASSUME NEW i \in 1..Len(thread) + 2, t[i].role = "assistant", t[i].ask = n PROVE i = Len(thread) + 2
    <3>1. t # <<>> /\ t[Len(t)].role = "assistant" /\ t[Len(t)].ask = n
      BY <1>2, <1>5
    <3>. QED BY <1>1, <1>5, <1>8, <3>1 DEF LastIsReply
  <2>2. i \notin 1..Len(thread)
    <3>1. SUFFICES ASSUME i \in 1..Len(thread) PROVE FALSE
      OBVIOUS
    <3>2. thread[i] \in Messages /\ thread[i].ask <= Len(asked)
      BY <1>2, <3>1 DEF AnswerInv
    <3>. QED BY <1>2, <1>3, <1>5, <2>1, <3>1, <3>2 DEF Messages
  <2>3. i # Len(thread) + 1
    BY <1>5, <2>1
  <2>4. i \in 1..Len(thread) \/ i = Len(thread) + 1 \/ i = Len(thread) + 2
    BY <1>2
  <2>. QED BY <2>2, <2>3, <2>4
<1>. HIDE DEF t
<1>11. SoundThread(thread', call', holed') /\ \A v \in Ships : SoundThread(store'[v], call', holed')
  BY <1>1, <1>2, <1>6, <1>7, ThreadsSound
<1>. QED BY <1>1, <1>2, <1>3, <1>8, <1>9, <1>10, <1>11 DEF AnswerInv, Chat!Keyed

\* A part arrives, and the replies shown get it.
LEMMA DeltaAnswer == ASSUME Chat!ChatAssumption, ChatInv, AnswerInv, Chat!Delta PROVE AnswerInv'
<1>. DEFINE Longer(m) == [m EXCEPT !.text = Append(@, call.part)]
            t == [i \in DOMAIN thread |-> IF Chat!IsReply(i) THEN Longer(thread[i]) ELSE thread[i]]
<1>1. /\ Chat!SetMessages(t) /\ call # NoCall /\ ~call.fallenBack /\ call.part <= Parts
      /\ call' = [call EXCEPT !.part = @ + 1] /\ UNCHANGED <<surface, ship, mounted, asked, holed>>
  BY DEF Chat!Delta, Chat!Accepted
<1>2. /\ thread \in Seq(Messages) /\ Len(thread) \in Nat /\ ship \in Ships
      /\ store \in [Ships -> Seq(Messages)] /\ Parts \in Nat /\ call \in Calls /\ call.part \in 1..Parts
  BY <1>1 DEF ChatInv, ChatTypes, Chat!ChatAssumption, AnswerInv, Calls
<1>3. /\ call' \in Calls /\ call'.part = call.part + 1 /\ call'.ask = call.ask
      /\ ~call'.fallenBack /\ call'.part \in 1..(Parts + 1)
  <2>1. call.part \in Nat /\ [call EXCEPT !.part = call.part + 1] \in Calls
    BY <1>2, SMTT(20) DEF Calls
  <2>2. call' = [call EXCEPT !.part = call.part + 1]
    BY <1>1
  <2>3. call'.part = call.part + 1 /\ call'.ask = call.ask /\ call'.fallenBack = call.fallenBack
    BY <1>2, <2>2 DEF Calls
  <2>. QED BY <1>1, <1>2, <2>1, <2>2, <2>3
<1>4. \A i \in DOMAIN thread : thread[i].role = "assistant" /\ thread[i].ask = call.ask <=> Chat!IsReply(i)
  BY <1>1, <1>2 DEF Chat!IsReply, AnswerInv, LastIsReply
<1>5. ASSUME NEW i \in DOMAIN thread PROVE Sound(t[i], call', holed') /\ t[i].ask = thread[i].ask /\ t[i].role = thread[i].role
  <2>1. thread[i] \in Messages /\ Sound(thread[i], call, holed)
    BY <1>2 DEF AnswerInv, SoundThread
  <2>2. CASE ~Chat!IsReply(i)
    <3>1. Final(thread[i], holed) /\ (thread[i].role # "assistant" \/ thread[i].ask # call.ask)
      BY <1>4, <2>1, <2>2 DEF Sound
    <3>. QED BY <1>1, <1>3, <2>2, <3>1, OtherSound
  <2>3. CASE Chat!IsReply(i)
    <3>1. t[i] = Longer(thread[i]) /\ Growing(thread[i], call, holed)
      BY <1>1, <2>1, <2>3 DEF Sound
    <3>2. PICK s : s = thread[i].text
      OBVIOUS
    <3>3. PICK m : m = t[i]
      OBVIOUS
    <3>4. s \in Texts /\ Len(s) \in Nat /\ m.text = Append(s, call.part) /\ m.ask = thread[i].ask /\ m.role = thread[i].role
          /\ thread[i].role = "assistant" /\ thread[i].ask = call.ask
      BY <1>4, <2>1, <2>3, <3>1, <3>2, <3>3 DEF Messages, Texts
    <3>5. m \in Messages
      <4>1. Append(s, call.part) \in Texts
        BY <1>2, <3>4 DEF Texts
      <4>. QED BY <2>1, <3>1, <3>2, <3>3, <4>1 DEF Messages
    <3>6. /\ DOMAIN m.text = 1..Len(s) + 1 /\ Len(m.text) = Len(s) + 1
          /\ \A k \in 1..Len(s) : m.text[k] = s[k]
          /\ m.text[Len(s) + 1] = call.part
      BY <1>2, <3>4 DEF Texts
    <3>7. /\ \A k \in 1..Len(s) : s[k] \in 1..(call.part - 1)
          /\ \A j, k \in 1..Len(s) : s[j] = s[k] => j = k
          /\ call.ask \notin holed => Len(s) = call.part - 1 /\ \A k \in 1..Len(s) : s[k] = k
      BY <3>1, <3>2, <3>4 DEF Growing, Texts
    <3>8. \A k \in DOMAIN m.text : m.text[k] \in 1..call.part
      BY <1>2, <3>4, <3>6, <3>7
    <3>9. ASSUME NEW j \in DOMAIN m.text, NEW k \in DOMAIN m.text, m.text[j] = m.text[k] PROVE j = k
      <4>1. \A n \in DOMAIN m.text :
              \/ n \in 1..Len(s) /\ m.text[n] = s[n] /\ s[n] # call.part
              \/ n = Len(s) + 1 /\ m.text[n] = call.part
        BY <1>2, <3>4, <3>6, <3>7
      <4>. QED BY <3>7, <3>9, <4>1
    <3>10. call.ask \notin holed => Len(m.text) = call.part /\ \A k \in DOMAIN m.text : m.text[k] = k
      BY <1>2, <3>4, <3>6, <3>7
    <3>11. Growing(m, call', holed')
      BY <1>1, <1>2, <1>3, <3>8, <3>9, <3>10 DEF Growing
    <3>12. Final(m, holed')
      BY <1>2, <1>3, <3>4, <3>5, <3>11, GrowingIsFinal
    <3>. QED BY <3>3, <3>4, <3>11, <3>12 DEF Sound
  <2>. QED BY <2>2, <2>3
<1>6. DOMAIN t = DOMAIN thread
  OBVIOUS
<1>. HIDE DEF t
<1>7. SoundThread(t, call', holed')
  BY <1>5, <1>6 DEF SoundThread
<1>8. ASSUME NEW v \in Ships, v # ship \/ ~Chat!Keyed PROVE SoundThread(store[v], call', holed')
  <2>1. CASE ~Chat!Keyed
    BY <2>1 DEF AnswerInv, SoundThread
  <2>2. CASE Chat!Keyed
    <3>1. SUFFICES ASSUME NEW i \in DOMAIN store[v] PROVE Sound(store[v][i], call', holed')
      BY DEF SoundThread
    <3>2. /\ asked[store[v][i].ask] = v /\ Final(store[v][i], holed) /\ Growing(store[v][i], call, holed)
      BY <1>1, <2>2 DEF ChatInv, StoreInv, ThreadOf, AskedAbout, AnswerInv, SoundThread, Sound
    <3>3. CASE store[v][i].ask # call.ask
      BY <1>1, <1>3, <3>2, <3>3, OtherSound
    <3>4. CASE store[v][i].ask = call.ask
      <4>1. call.ask \in holed
        BY <1>1, <1>8, <2>2, <3>2, <3>4 DEF AnswerInv
      <4>2. \A x \in 1..(call.part - 1) : x \in 1..call.part
        BY <1>2
      <4>3. Growing(store[v][i], call', holed')
        BY <1>1, <1>2, <1>3, <3>2, <4>1, <4>2 DEF Growing
      <4>. QED BY <1>1, <3>2, <4>3 DEF Sound
    <3>. QED BY <3>3, <3>4
  <2>. QED BY <2>1, <2>2
<1>9. thread' = t /\ (~Chat!Keyed => store' = store)
  BY <1>1 DEF Chat!SetMessages
<1>10. LastIsReply'
  <2>1. SUFFICES ASSUME ~Chat!Keyed
                 PROVE  /\ thread' # <<>> /\ thread'[Len(thread')].role = "assistant" /\ thread'[Len(thread')].ask = call.ask
                        /\ \A i \in DOMAIN thread' : thread'[i].role = "assistant" /\ thread'[i].ask = call.ask => i = Len(thread')
    BY <1>1, <1>3 DEF LastIsReply, Chat!Keyed
  <2>2. /\ thread # <<>> /\ thread[Len(thread)].role = "assistant" /\ thread[Len(thread)].ask = call.ask
        /\ \A i \in DOMAIN thread : thread[i].role = "assistant" /\ thread[i].ask = call.ask => i = Len(thread)
    BY <1>1, <2>1 DEF AnswerInv, LastIsReply
  <2>3. Len(thread) \in DOMAIN thread /\ Len(thread') = Len(thread)
    <3>1. thread' \in Seq(Messages)
      BY <1>1, <2>1, ReplyChat DEF ChatInv, ChatTypes
    <3>. QED BY <1>2, <1>6, <1>9, <2>2, <3>1
  <2>. QED BY <1>5, <1>6, <1>9, <2>2, <2>3
<1>11. SoundThread(thread', call', holed') /\ \A v \in Ships : SoundThread(store'[v], call', holed')
  BY <1>1, <1>2, <1>7, <1>8, ThreadsSound
<1>12. \A i \in DOMAIN thread' : thread'[i].ask <= Len(asked')
  BY <1>1, <1>5, <1>6, <1>9 DEF AnswerInv
<1>13. call'.ask \notin holed' /\ Chat!Keyed' => ship' = asked'[call'.ask]
  BY <1>1, <1>3 DEF AnswerInv, Chat!Keyed
<1>14. ~Chat!Keyed' => \A v \in Ships : store'[v] = <<>>
  BY <1>1, <1>9 DEF AnswerInv, Chat!Keyed
<1>. QED BY <1>3, <1>10, <1>11, <1>12, <1>13, <1>14 DEF AnswerInv

\* The fallback, and an error, take the place of what was shown.
LEMMA PatchAnswer ==
    ASSUME ChatInv, AnswerInv, Chat!Fallback \/ Chat!Fails
    PROVE  AnswerInv'
<1>. DEFINE text == IF Chat!Fallback THEN <<Notice>> ELSE <<Reason>>
            t == [i \in DOMAIN thread |-> IF Chat!IsReply(i) THEN [thread[i] EXCEPT !.text = text] ELSE thread[i]]
<1>1. /\ Chat!SetMessages(t) /\ call # NoCall /\ text \in Notices
      /\ UNCHANGED <<surface, ship, mounted, asked, holed>>
  BY DEF Chat!Fallback, Chat!Fails, Chat!Patch, Notices, Chat!Accepted
<1>2. /\ thread \in Seq(Messages) /\ Len(thread) \in Nat /\ ship \in Ships
      /\ store \in [Ships -> Seq(Messages)] /\ call \in Calls
  BY <1>1 DEF ChatInv, ChatTypes
<1>3. /\ call' = NoCall \/ call'.fallenBack
      /\ call' # NoCall => call'.ask = call.ask /\ call'.part = call.part
  BY <1>2 DEF Chat!Fallback, Chat!Fails, Chat!Over, Calls
<1>. HIDE DEF text
<1>4. ASSUME NEW i \in DOMAIN thread PROVE Sound(t[i], call', holed') /\ t[i].ask = thread[i].ask /\ t[i].role = thread[i].role
  <2>1. thread[i] \in Messages /\ Final(thread[i], holed)
    BY <1>2 DEF AnswerInv, SoundThread, Sound
  <2>2. CASE ~Chat!IsReply(i)
    <3>1. t[i] = thread[i]
      BY <2>2
    <3>. HIDE DEF t
    <3>. QED BY <1>1, <1>3, <2>1, <3>1 DEF Sound
  <2>3. CASE Chat!IsReply(i)
    <3>1. t[i].text = text /\ t[i].ask = thread[i].ask /\ t[i].role = thread[i].role
      BY <2>1, <2>3 DEF Messages
    <3>. HIDE DEF t
    <3>2. Final(t[i], holed')
      BY <1>1, <3>1 DEF Final
    <3>. QED BY <1>3, <3>1, <3>2 DEF Sound
  <2>. QED BY <2>2, <2>3
<1>5. DOMAIN t = DOMAIN thread /\ Len(t) = Len(thread)
  BY <1>2
<1>. HIDE DEF t
<1>6. SoundThread(t, call', holed')
  BY <1>4, <1>5 DEF SoundThread
<1>7. \A v \in Ships : SoundThread(store[v], call', holed')
  BY <1>1, <1>3, EndedSound DEF AnswerInv
<1>8. SoundThread(thread', call', holed') /\ \A v \in Ships : SoundThread(store'[v], call', holed')
  BY <1>1, <1>2, <1>6, <1>7, ThreadsSound
<1>9. thread' = t /\ (~Chat!Keyed => store' = store)
  BY <1>1 DEF Chat!SetMessages
<1>10. LastIsReply'
  <2>1. SUFFICES ASSUME ~Chat!Keyed, call' # NoCall
                 PROVE  /\ thread' # <<>> /\ thread'[Len(thread')].role = "assistant" /\ thread'[Len(thread')].ask = call.ask
                        /\ \A i \in DOMAIN thread' : thread'[i].role = "assistant" /\ thread'[i].ask = call.ask => i = Len(thread')
    BY <1>1, <1>3 DEF LastIsReply, Chat!Keyed
  <2>2. /\ thread # <<>> /\ thread[Len(thread)].role = "assistant" /\ thread[Len(thread)].ask = call.ask
        /\ \A i \in DOMAIN thread : thread[i].role = "assistant" /\ thread[i].ask = call.ask => i = Len(thread)
    BY <1>1, <2>1 DEF AnswerInv, LastIsReply
  <2>3. Len(thread) \in DOMAIN thread
    BY <1>2, <2>2
  <2>. QED BY <1>4, <1>5, <1>9, <2>2, <2>3
<1>11. \A i \in DOMAIN thread' : thread'[i].ask <= Len(asked')
  BY <1>1, <1>4, <1>5, <1>9 DEF AnswerInv
<1>12. call' # NoCall => call'.part \in 1..(Parts + 1) /\ (call'.ask \notin holed' /\ Chat!Keyed' => ship' = asked'[call'.ask])
  BY <1>1, <1>3 DEF AnswerInv, Chat!Keyed
<1>13. ~Chat!Keyed' => \A v \in Ships : store'[v] = <<>>
  BY <1>1, <1>9 DEF AnswerInv, Chat!Keyed
<1>. QED BY <1>8, <1>10, <1>11, <1>12, <1>13 DEF AnswerInv

\* Parts of an answer may now be missed: the reply is no worse for it.
LEMMA SelectVesselAnswer == ASSUME ChatInv, AnswerInv, NEW v \in Ships, Chat!SelectVessel(v) PROVE AnswerInv'
<1>1. /\ ship' = v /\ thread' = (IF mounted /\ Chat!Keyed THEN store[v] ELSE thread)
      /\ UNCHANGED <<surface, mounted, store, call, asked>>
      /\ holed' = IF call = NoCall THEN holed ELSE holed \cup {call.ask}
  BY DEF Chat!SelectVessel
<1>2. ASSUME NEW list, SoundThread(list, call, holed) PROVE SoundThread(list, call', holed')
  BY <1>1, <1>2 DEF SoundThread, Sound, Final, Growing
<1>3. SoundThread(thread', call', holed') /\ \A w \in Ships : SoundThread(store'[w], call', holed')
  BY <1>1, <1>2 DEF AnswerInv
<1>4. \A i \in DOMAIN thread' : thread'[i].ask <= Len(asked')
  <2>1. CASE ~Chat!Keyed \/ ~mounted
    BY <1>1, <2>1 DEF AnswerInv
  <2>2. CASE Chat!Keyed /\ mounted
    <3>1. Len(asked) \in Nat /\ DOMAIN asked = 1..Len(asked)
      BY DEF ChatInv, ChatTypes
    <3>2. thread' = store[v] /\ \A i \in DOMAIN store[v] : store[v][i].ask \in DOMAIN asked
      BY <1>1, <2>2 DEF ChatInv, StoreInv, ThreadOf, AskedAbout
    <3>. QED BY <1>1, <3>1, <3>2
  <2>. QED BY <2>1, <2>2
<1>5. LastIsReply'
  BY <1>1 DEF AnswerInv, LastIsReply, Chat!Keyed
<1>. QED BY <1>1, <1>3, <1>4, <1>5 DEF AnswerInv, Chat!Keyed

\* Ends of a reply, and the screen coming and going.
LEMMA ScreenAnswer ==
    ASSUME ChatInv, AnswerInv, Chat!Finish \/ Chat!Stop \/ Chat!Clear \/ Chat!Leave \/ Chat!Return
    PROVE  AnswerInv'
<1>1. SoundThread(<<>>, call', holed') /\ Final(Chat!Greeting, holed')
  BY DEF SoundThread, Final, Chat!Greeting, Notices
<1>2. /\ UNCHANGED <<surface, ship, holed, asked>> /\ call' = NoCall
  BY DEF Chat!Finish, Chat!Stop, Chat!Clear, Chat!Leave, Chat!Return, Chat!Over, ChatInv, CallInv
<1>3. SoundThread(thread, call', holed') /\ \A v \in Ships : SoundThread(store[v], call', holed')
  BY <1>2, EndedSound DEF AnswerInv
<1>4. ship \in Ships /\ store \in [Ships -> Seq(Messages)] /\ asked \in Seq(Ships) /\ Len(asked) \in Nat
  BY DEF ChatInv, ChatTypes
<1>5. \/ thread' \in {thread, <<>>, <<Chat!Greeting>>}
      \/ Chat!Keyed /\ thread' = store[ship]
  BY DEF Chat!Finish, Chat!Stop, Chat!Clear, Chat!Leave, Chat!Return, Chat!SetMessages, Chat!Opening
<1>6. store' = store \/ (Chat!Keyed /\ store' = [store EXCEPT ![ship] = <<>>])
  BY DEF Chat!Finish, Chat!Stop, Chat!Clear, Chat!Leave, Chat!Return, Chat!SetMessages
<1>7. SoundThread(thread', call', holed')
  <2>1. SoundThread(<<Chat!Greeting>>, call', holed')
    BY <1>1, <1>2 DEF SoundThread, Sound
  <2>. QED BY <1>1, <1>3, <1>4, <1>5, <2>1
<1>8. \A v \in Ships : SoundThread(store'[v], call', holed')
  BY <1>1, <1>3, <1>4, <1>6
<1>9. \A i \in DOMAIN thread' : thread'[i].ask <= Len(asked')
  <2>1. \A i \in DOMAIN thread : thread[i].ask <= Len(asked)
    BY DEF AnswerInv
  <2>2. \A i \in DOMAIN <<Chat!Greeting>> : <<Chat!Greeting>>[i].ask = 0
    BY DEF Chat!Greeting
  <2>3. Chat!Keyed => \A i \in DOMAIN store[ship] : store[ship][i].ask <= Len(asked)
    BY <1>4 DEF ChatInv, StoreInv, ThreadOf, AskedAbout
  <2>. QED BY <1>2, <1>4, <1>5, <2>1, <2>2, <2>3
<1>10. ~Chat!Keyed' => \A v \in Ships : store'[v] = <<>>
  BY <1>2, <1>6 DEF AnswerInv, Chat!Keyed
<1>. QED BY <1>2, <1>7, <1>8, <1>9, <1>10 DEF AnswerInv, LastIsReply

\* A chat that rests has nothing to answer.
LEMMA RestAnswer ==
    ASSUME ChatInv, AnswerInv, UNCHANGED chatVars, ship' = ship \/ call = NoCall
    PROVE  AnswerInv'
<1>1. UNCHANGED <<surface, mounted, thread, store, call, asked, holed>>
  BY DEF chatVars
<1>2. LastIsReply'
  BY <1>1 DEF AnswerInv, LastIsReply, Chat!Keyed
<1>. QED BY <1>1, <1>2 DEF AnswerInv, Chat!Keyed, SoundThread, Sound, Final, Growing

\* A reply is the parts that came, in their order, or one notice, or one error,
\* for answers of any length and whatever is looked at meanwhile (aiService.ts:154-157).
THEOREM OneReply == Spec => []OneAnswer
<1>1. Init => AnswerInv
  <2>1. SUFFICES ASSUME Chat!Init PROVE AnswerInv
    BY DEF Init
  <2>2. Sound(Chat!Greeting, call, holed) /\ Chat!Greeting.ask = 0
    BY <2>1 DEF Chat!Init, Sound, Final, Chat!Greeting, Notices
  <2>3. thread = <<>> \/ thread = <<Chat!Greeting>>
    BY <2>1 DEF Chat!Init, Chat!Opening
  <2>4. SoundThread(thread, call, holed)
    BY <2>2, <2>3 DEF SoundThread
  <2>5. \A v \in Ships : store[v] = <<>> /\ SoundThread(store[v], call, holed)
    BY <2>1 DEF Chat!Init, SoundThread
  <2>6. \A i \in DOMAIN thread : thread[i].ask <= Len(asked)
    BY <2>1, <2>2, <2>3 DEF Chat!Init
  <2>7. call = NoCall
    BY <2>1 DEF Chat!Init
  <2>. QED BY <2>4, <2>5, <2>6, <2>7 DEF AnswerInv, LastIsReply
<1>2. ChatInv /\ AtRest /\ AnswerInv /\ [Next]_vars => AnswerInv'
  <2>1. SUFFICES ASSUME ChatInv, AtRest, AnswerInv, [Next]_vars PROVE AnswerInv'
    OBVIOUS
  <2>2. Chat!ChatAssumption
    BY PanelsAssumption
  <2>3. CASE Chat!Next
    BY <2>1, <2>2, <2>3, SendMessageAnswer, DeltaAnswer, PatchAnswer, SelectVesselAnswer, ScreenAnswer DEF Chat!Next
  <2>4. CASE UNCHANGED chatVars /\ (ship' = ship \/ call = NoCall)
    BY <2>1, <2>4, RestAnswer
  <2>5. Chat!Next \/ (UNCHANGED chatVars /\ (ship' = ship \/ call = NoCall))
    <3>1. ship \in Ships
      BY <2>1 DEF ChatInv, ChatTypes
    <3>. QED BY <2>1, <3>1, ChatMoves DEF AtRest
  <2>. QED BY <2>3, <2>4, <2>5
<1>3. ChatInv /\ AnswerInv => OneAnswer
  <2>1. SUFFICES ASSUME ChatInv, AnswerInv, NEW v \in Ships, NEW list \in {thread, store[v]}, NEW i \in DOMAIN list,
                        list[i].role = "assistant"
                 PROVE  \/ list[i].text \in Notices
                        \/ \A k \in DOMAIN list[i].text : list[i].text[k] = k
                        \/ /\ list[i].ask \in holed
                           /\ Chat!ToSet(list[i].text) \subseteq 1..Parts /\ Chat!IsInjective(list[i].text)
    BY DEF OneAnswer, Chat!OneAnswer, Notices
  <2>2. Final(list[i], holed)
    BY <2>1 DEF AnswerInv, SoundThread, Sound
  <2>. QED BY <2>1, <2>2 DEF Final, Chat!ToSet, Chat!IsInjective
<1>. QED BY <1>1, <1>2, <1>3, ChatInductive, PTL DEF Spec

-----------------------------------------------------------------------------
(* The table of the dashboard *)

Searches == [term : Terms, token : BOOLEAN]
Rowsets == [term : Terms \cup {Table!NoTerm}, failed : BOOLEAN]

TableTypes ==
    /\ box \in Terms /\ settled \in Terms \cup {Table!NoTerm}
    /\ {onTable, due, busy, signedIn} \subseteq BOOLEAN
    /\ inFlight \in SUBSET Searches
    /\ rows \in Rowsets
    /\ filter \in Statuses /\ pageNo \in Nat \ {0}

\* At most one search is under way, for the term that was let through last; a
\* table whose search has ended holds the answer to that term, and a pipeline at
\* rest has let through what is in the box.
SearchInv ==
    /\ \A s \in inFlight : s.term = settled /\ inFlight = {s}
    /\ onTable => /\ busy <=> inFlight # {}
                  /\ inFlight = {} /\ settled # Table!NoTerm => rows.term = settled
                  /\ ~due => settled = box
    /\ ~onTable => inFlight = {} /\ ~due

\* The page is one of those the rows fill.
PageInv == pageNo <= Table!TotalPages(Table!Rows(rows, filter))

TableInv == TableTypes /\ SearchInv /\ PageInv

\* A count of rows, and of the pages they fill.
LEMMA PagesFilled ==
    ASSUME PageSize \in Nat \ {0}, NEW n \in Nat
    PROVE  /\ Table!TotalPages(n) \in Nat \ {0}
           /\ n > 0 => (Table!TotalPages(n) - 1) * PageSize < n
<1>1. CASE n = 0
  BY <1>1 DEF Table!TotalPages
<1>2. CASE n > 0
  <2>. DEFINE k == n + PageSize - 1
              t == k \div PageSize
  <2>1. k \in Nat /\ k >= PageSize
    BY <1>2
  <2>2. t \in Int /\ k % PageSize \in 0..PageSize - 1 /\ k = (PageSize * t) + (k % PageSize)
    BY <2>1
  <2>3. t > 0
    <3>1. SUFFICES ASSUME t <= 0 PROVE FALSE
      BY <2>2
    <3>2. PageSize * t <= 0
      BY <2>2, <3>1
    <3>. QED BY <2>1, <2>2, <3>2
  <2>4. (t - 1) * PageSize = PageSize * t - PageSize
    BY <2>2
  <2>5. (t - 1) * PageSize < n
    <3>1. PageSize * t <= k
      BY <2>2, <2>1
    <3>. QED BY <2>2, <2>4, <3>1
  <2>6. Table!TotalPages(n) = t
    BY <1>2 DEF Table!TotalPages
  <2>. QED BY <2>2, <2>3, <2>5, <2>6
<1>. QED BY <1>1, <1>2

LEMMA RowsCounted ==
    ASSUME Table!VesselsPageAssumption, NEW answer \in Rowsets, NEW f \in Statuses
    PROVE  Table!Rows(answer, f) \in Nat
BY DEF Table!VesselsPageAssumption, Table!Rows, Rowsets

\* The effect brings the page into range whatever it was.
LEMMA BroughtInRange ==
    ASSUME Table!VesselsPageAssumption, NEW p \in Nat \ {0}, NEW answer \in Rowsets, NEW f \in Statuses,
           Table!InRange(p, answer, f)
    PROVE  pageNo' \in Nat \ {0} /\ pageNo' <= Table!TotalPages(Table!Rows(answer, f))
<1>1. Table!TotalPages(Table!Rows(answer, f)) \in Nat \ {0}
  BY RowsCounted, PagesFilled DEF Table!VesselsPageAssumption
<1>. QED BY <1>1 DEF Table!InRange

\* The guard lets the page be activated, with an empty table.
LEMMA EnterTable == ASSUME Table!VesselsPageAssumption, TableInv, Table!Enter PROVE TableInv'
<1>1. /\ onTable' = TRUE /\ box' = Blank /\ due' = TRUE /\ settled' = Table!NoTerm /\ inFlight' = {}
      /\ rows' = Table!NoRows /\ busy' = FALSE /\ filter' = All /\ pageNo' = 1
  BY DEF Table!Enter
<1>2. TableTypes'
  <2>1. Table!NoRows \in Rowsets
    BY DEF Table!NoRows, Rowsets
  <2>2. signedIn' \in BOOLEAN
    BY DEF Table!Enter, TableInv, TableTypes
  <2>3. Blank \in Terms /\ All \in Statuses
    BY DEF Table!VesselsPageAssumption
  <2>4. {onTable', due', busy', signedIn'} \subseteq BOOLEAN
    BY <1>1, <2>2
  <2>5. box' \in Terms /\ filter' \in Statuses /\ pageNo' \in Nat \ {0}
    BY <1>1, <2>3
  <2>6. settled' \in Terms \cup {Table!NoTerm} /\ inFlight' \in SUBSET Searches
    BY <1>1
  <2>. QED BY <1>1, <2>1, <2>4, <2>5, <2>6 DEF TableTypes
<1>3. SearchInv'
  BY <1>1 DEF SearchInv
<1>4. PageInv'
  BY <1>1 DEF PageInv, Table!Rows, Table!NoRows, Table!TotalPages
<1>. QED BY <1>2, <1>3, <1>4 DEF TableInv

\* The box, the session, the filter, and the page's end.
LEMMA UserTable ==
    ASSUME Table!VesselsPageAssumption, TableInv,
           Table!Leave \/ Table!SignIn \/ Table!SignOut \/ \E t \in Terms : Table!Type(t)
    PROVE  TableInv'
<1>1. /\ UNCHANGED <<settled, rows, busy, filter, pageNo>> /\ box' \in Terms
      /\ \/ UNCHANGED <<onTable, inFlight, due, box>>
         \/ UNCHANGED <<onTable, inFlight>> /\ due' = TRUE /\ onTable
         \/ onTable' = FALSE /\ inFlight' = {} /\ due' = FALSE
      /\ signedIn' \in BOOLEAN
  BY DEF Table!Leave, Table!SignIn, Table!SignOut, Table!Type, TableInv, TableTypes
<1>2. TableTypes'
  BY <1>1 DEF TableInv, TableTypes
<1>3. SearchInv'
  BY <1>1 DEF TableInv, TableTypes, SearchInv
<1>4. PageInv'
  BY <1>1 DEF TableInv, PageInv
<1>. QED BY <1>2, <1>3, <1>4 DEF TableInv

\* The user has paused.
LEMMA SettleTable == ASSUME Table!VesselsPageAssumption, TableInv, Table!Settle PROVE TableInv'
<1>1. /\ due' = FALSE /\ due /\ UNCHANGED <<onTable, box, rows, filter, pageNo>>
      /\ onTable /\ signedIn' = signedIn
      /\ \/ box = settled /\ UNCHANGED <<settled, busy, inFlight>>
         \/ box # settled /\ settled' = box /\ busy' = TRUE /\ inFlight' = {Table!Search}
  BY DEF Table!Settle, TableInv, SearchInv, TableTypes
<1>2. Table!Search.term = box /\ Table!Search \in Searches
  BY DEF Table!Search, Searches, TableInv, TableTypes
<1>3. TableTypes'
  BY <1>1, <1>2 DEF TableInv, TableTypes
<1>4. SearchInv'
  BY <1>1, <1>2 DEF TableInv, TableTypes, SearchInv
<1>5. PageInv'
  BY <1>1 DEF TableInv, PageInv
<1>. QED BY <1>3, <1>4, <1>5 DEF TableInv

\* The search ends, and the pipeline goes on.
LEMMA EmitTable ==
    ASSUME Table!VesselsPageAssumption, TableInv, NEW s \in inFlight,
           Table!Answered(s) \/ Table!Fails(s) \/ Table!Refused(s)
    PROVE  TableInv'
<1>1. PICK fell \in BOOLEAN : Table!Emit(s, fell)
  BY DEF Table!Answered, Table!Fails, Table!Refused
<1>. DEFINE answer == [term |-> s.term, failed |-> fell]
<1>2. /\ inFlight' = inFlight \ {s} /\ rows' = answer /\ busy' = FALSE
      /\ Table!InRange(pageNo, answer, filter)
      /\ UNCHANGED <<onTable, box, due, settled, filter>> /\ signedIn' \in BOOLEAN
  BY <1>1 DEF Table!Emit, Table!Answered, Table!Fails, Table!Refused, TableInv, TableTypes
<1>3. s \in Searches /\ answer \in Rowsets /\ s.term = settled /\ inFlight = {s}
  BY DEF TableInv, TableTypes, SearchInv, Searches, Rowsets
<1>4. pageNo' \in Nat \ {0} /\ pageNo' <= Table!TotalPages(Table!Rows(answer, filter))
  <2>1. pageNo \in Nat \ {0} /\ filter \in Statuses
    BY DEF TableInv, TableTypes
  <2>. QED BY <1>2, <1>3, <2>1, BroughtInRange
<1>5. TableTypes'
  BY <1>2, <1>3, <1>4 DEF TableInv, TableTypes
<1>6. SearchInv'
  <2>1. inFlight' = {} /\ answer.term = settled
    BY <1>2, <1>3
  <2>. QED BY <1>2, <2>1 DEF TableInv, SearchInv
<1>7. PageInv'
  BY <1>2, <1>4 DEF PageInv, Table!Rows, Table!TotalPages
<1>. QED BY <1>5, <1>6, <1>7 DEF TableInv

\* The filter and the pages.
LEMMA PagingTable ==
    ASSUME Table!VesselsPageAssumption, TableInv, Table!TurnPage \/ \E f \in Statuses : Table!Filter(f)
    PROVE  TableInv'
<1>1. /\ UNCHANGED <<onTable, box, due, settled, inFlight, rows, busy, signedIn>> /\ filter' \in Statuses
  BY DEF Table!TurnPage, Table!Filter, TableInv, TableTypes
<1>2. rows' \in Rowsets /\ Table!Rows(rows', filter') \in Nat
  BY <1>1, RowsCounted DEF TableInv, TableTypes
<1>3. Table!TotalPages(Table!Rows(rows', filter')) \in Nat \ {0}
  BY <1>2, PagesFilled DEF Table!VesselsPageAssumption
<1>4. pageNo' \in Nat \ {0} /\ pageNo' <= Table!TotalPages(Table!Rows(rows', filter'))
  <2>1. CASE Table!TurnPage
    <3>1. filter' = filter /\ rows' = rows
      BY <2>1 DEF Table!TurnPage
    <3>. QED BY <1>3, <2>1, <3>1 DEF Table!TurnPage, TableInv, TableTypes, PageInv
  <2>2. CASE \E f \in Statuses : Table!Filter(f)
    BY <1>3, <2>2 DEF Table!Filter
  <2>. QED BY <2>1, <2>2
<1>5. TableTypes'
  BY <1>1, <1>2, <1>4 DEF TableInv, TableTypes
<1>6. SearchInv'
  BY <1>1 DEF TableInv, SearchInv
<1>7. PageInv'
  BY <1>4 DEF PageInv, Table!Rows, Table!TotalPages
<1>. QED BY <1>5, <1>6, <1>7 DEF TableInv

\* The table holds what the paused user typed, whichever searches were overtaken,
\* and is never turned past its last row (vessels-page.ts:44-46).
THEOREM TableRefined == Spec => []TableShowsTheTerm
<1>1. Init => TableInv
  <2>1. SUFFICES ASSUME Table!Init PROVE TableInv
    BY DEF Init
  <2>2. rows \in Rowsets
    BY <2>1 DEF Table!Init, Table!NoRows, Rowsets
  <2>3. TableTypes
    <3>1. Blank \in Terms /\ All \in Statuses
      BY PanelsAssumption DEF Table!VesselsPageAssumption
    <3>2. inFlight \in SUBSET Searches /\ settled \in Terms \cup {Table!NoTerm}
      BY <2>1 DEF Table!Init
    <3>3. {onTable, due, busy, signedIn} \subseteq BOOLEAN
      BY <2>1 DEF Table!Init
    <3>4. box \in Terms /\ filter \in Statuses /\ pageNo \in Nat \ {0}
      BY <2>1, <3>1 DEF Table!Init
    <3>. QED BY <2>2, <3>2, <3>3, <3>4 DEF TableTypes
  <2>4. SearchInv
    BY <2>1 DEF Table!Init, SearchInv
  <2>5. PageInv
    BY <2>1 DEF Table!Init, PageInv, Table!Rows, Table!NoRows, Table!TotalPages
  <2>. QED BY <2>3, <2>4, <2>5 DEF TableInv
<1>2. TableInv /\ [Next]_vars => TableInv'
  <2>1. SUFFICES ASSUME TableInv, [Next]_vars PROVE TableInv'
    OBVIOUS
  <2>2. Table!VesselsPageAssumption
    BY PanelsAssumption
  <2>3. CASE Table!Next
    BY <2>1, <2>2, <2>3, EnterTable, UserTable, SettleTable, EmitTable, PagingTable DEF Table!Next
  <2>4. CASE UNCHANGED tableVars
    <3>1. TableTypes' /\ SearchInv'
      BY <2>1, <2>4 DEF tableVars, TableInv, TableTypes, SearchInv
    <3>2. PageInv'
      BY <2>1, <2>4 DEF tableVars, TableInv, PageInv, Table!Rows, Table!TotalPages
    <3>. QED BY <3>1, <3>2 DEF TableInv
  <2>5. Table!Next \/ UNCHANGED tableVars
    BY <2>1 DEF Next, TableStep, ReaderStep, ChatStep, PlannerStep, PageStep, vars
  <2>. QED BY <2>3, <2>4, <2>5
<1>3. TableInv => TableShowsTheTerm
  <2>1. SUFFICES ASSUME TableInv, onTable
                 PROVE  /\ busy <=> inFlight # {}
                        /\ ~due /\ ~busy => ParamOf[rows.term] = ParamOf[box]
                        /\ Table!Rows(rows, filter) > 0 => (pageNo - 1) * PageSize < Table!Rows(rows, filter)
    BY DEF TableShowsTheTerm, Table!TableShowsTheTerm
  <2>2. ASSUME ~due, ~busy PROVE rows.term = box
    BY <2>1, <2>2, PanelsAssumption DEF TableInv, TableTypes, SearchInv, Table!VesselsPageAssumption
  <2>3. ASSUME Table!Rows(rows, filter) > 0 PROVE (pageNo - 1) * PageSize < Table!Rows(rows, filter)
    <3>. DEFINE n == Table!Rows(rows, filter)
                total == Table!TotalPages(n)
    <3>1. n \in Nat /\ PageSize \in Nat \ {0} /\ pageNo \in Nat \ {0} /\ n > 0
      BY <2>1, <2>3, RowsCounted, PanelsAssumption DEF TableInv, TableTypes, Table!VesselsPageAssumption
    <3>2. total \in Nat \ {0} /\ (total - 1) * PageSize < n
      BY <3>1, PagesFilled
    <3>3. pageNo <= total
      BY <2>1 DEF TableInv, PageInv
    <3>. HIDE DEF n, total
    <3>4. (pageNo - 1) * PageSize <= (total - 1) * PageSize
      BY <3>1, <3>2, <3>3
    <3>5. (pageNo - 1) * PageSize < n
      BY <3>1, <3>2, <3>4
    <3>. QED BY <3>5 DEF n
  <2>. QED BY <2>1, <2>2, <2>3 DEF TableInv, SearchInv
<1>. QED BY <1>1, <1>2, <1>3, PTL DEF Spec

-----------------------------------------------------------------------------
(* The pages: what they ask and what they are answered *)

LEMMA PageNames ==
    DOMAIN Pages = {"work_orders", "equipment", "picker", "alerts", "sensors", "history", "documents", "readiness",
                   "certificates", "findings", "cii", "ets", "route", "defect", "handover",
                   "agent_hub", "analysis", "analytics", "congestion", "weather", "map"}
BY DEF Pages

\* The kinds of pages, and what those that promise to tell a failure have in common.
PageKind(p) ==
    /\ Pages[p].how \in {"query", "effect", "fleet", "mount", "form"}
    /\ Pages[p].how = "query" => Pages[p].clears = {}
    /\ Pages[p].how = "effect" => Pages[p].standIn # "silent" /\ Pages[p].alone = "nothing" /\ Pages[p].clears = {}
    /\ p # "agent_hub" => "selection" \notin Pages[p].clears
    /\ p = "agent_hub" => Pages[p].how = "form" /\ Pages[p].alone = "nothing" /\ Pages[p].clears = {"submit", "selection"}
    /\ p = "handover" => Pages[p].clears = {"failure"}
    /\ p \in Candid => /\ Pages[p].how \in {"query", "form"} /\ Pages[p].alone # "fixtures"
                       /\ Pages[p].standIn # "silent"
                       /\ Pages[p].standIn = "none" \/ Pages[p].builds = "development"
                       /\ Pages[p].how = "form" => p \in {"handover", "agent_hub"}

LEMMA PageKinds == ASSUME NEW p \in DOMAIN Pages PROVE PageKind(p)
<1>1. PageKind("work_orders")
  BY DEF PageKind, Pages, Candid, WorkOrderSystem, Query
<1>2. PageKind("equipment")
  BY DEF PageKind, Pages, Candid, EquipmentGrid, Query
<1>3. PageKind("picker")
  BY DEF PageKind, Pages, Candid, NewWorkOrderModal, Query
<1>4. PageKind("alerts")
  BY DEF PageKind, Pages, Candid, EquipmentDetail, Query
<1>5. PageKind("sensors")
  BY DEF PageKind, Pages, Candid, SensorChart, Query
<1>6. PageKind("history")
  BY DEF PageKind, Pages, Candid, VoyageHistoryTable, Query
<1>7. PageKind("documents")
  BY DEF PageKind, Pages, Candid, DocumentManager, Query
<1>8. PageKind("readiness")
  BY DEF PageKind, Pages, Candid, ReadinessTab, Query
<1>9. PageKind("certificates")
  BY DEF PageKind, Pages, Candid, DocumentsTab, Query
<1>10. PageKind("findings")
  BY DEF PageKind, Pages, Candid, FindingsTab, Query
<1>11. PageKind("cii")
  BY DEF PageKind, Pages, Candid, CIITracker, Effect
<1>12. PageKind("ets")
  BY DEF PageKind, Pages, Candid, ETSTracker, Effect
<1>13. PageKind("route")
  BY DEF PageKind, Pages, Candid, RouteOptimizer, Form
<1>14. PageKind("defect")
  BY DEF PageKind, Pages, Candid, DefectReportGenerator, Form
<1>15. PageKind("handover")
  BY DEF PageKind, Pages, Candid, ShiftHandover, Form
<1>16. PageKind("agent_hub")
  BY DEF PageKind, Pages, Candid, AgentHub, Form
<1>17. PageKind("analysis")
  BY DEF PageKind, Pages, Candid, AnalyzeAll, Form
<1>18. PageKind("analytics")
  BY DEF PageKind, Pages, Candid, AnalyticsPage, FleetWide
<1>19. PageKind("congestion")
  BY DEF PageKind, Pages, Candid, PortCongestionPage, FleetWide
<1>20. PageKind("weather")
  BY DEF PageKind, Pages, Candid, WeatherPanel, FleetWide
<1>21. PageKind("map")
  BY DEF PageKind, Pages, Candid, LiveFleetMap, FleetWide
<1>. QED BY <1>1, <1>2, <1>3, <1>4, <1>5, <1>6, <1>7, <1>8, <1>9, <1>10, <1>11, <1>12, <1>13, <1>14, <1>15, <1>16,
            <1>17, <1>18, <1>19, <1>20, <1>21, PageNames

\* What each page about a vessel asks.
LEMMA PageAsks ==
    ASSUME NEW v \in Ids
    PROVE  /\ Pages["work_orders"].ask[v] = Get("maintenance/work-orders", v, Omitted)
           /\ Pages["equipment"].ask[v] = Get("maintenance/equipment", v, Omitted)
           /\ Pages["picker"].ask[v] = Get("maintenance/equipment", v, Omitted)
           /\ Pages["alerts"].ask[v] = Get("maintenance/alerts", v, Omitted)
           /\ Pages["sensors"].ask[v] = Get("maintenance/sensor-data", Omitted, Flagged[v])
           /\ Pages["history"].ask[v] = Get("voyage/history", v, Omitted)
           /\ Pages["documents"].ask[v] = Get("knowledge/documents", ToBackendVesselId(v), Omitted)
           /\ Pages["readiness"].ask[v] = Get("sire/readiness-score", v, Omitted)
           /\ Pages["certificates"].ask[v] = Get("sire/documents", v, Omitted)
           /\ Pages["findings"].ask[v] = Get("sire/findings", v, Omitted)
           /\ Pages["cii"].ask[v] = Get("compliance/cii", v, Omitted)
           /\ Pages["ets"].ask[v] = Get("compliance/ets", v, Omitted)
           /\ Pages["route"].ask[v] = Get("voyage/optimize-route", v, Omitted)
           /\ Pages["defect"].ask[v] = Get("knowledge/generate-defect-report", ToBackendVesselId(v), Omitted)
           /\ Pages["handover"].ask[v] = Get("knowledge/handover", ToBackendVesselId(v), Omitted)
           /\ Pages["agent_hub"].ask[v] = Get("voyage/generate-agent-message", v, Omitted)
           /\ Pages["analysis"].ask[v] = Get("maintenance/analyze-anomaly", v, Flagged[v])
<1>1. Pages["work_orders"].ask[v] = Get("maintenance/work-orders", v, Omitted)
  BY DEF Pages, WorkOrderSystem, Query, GetWorkOrders
<1>2. Pages["equipment"].ask[v] = Get("maintenance/equipment", v, Omitted)
  BY DEF Pages, EquipmentGrid, Query, GetEquipment
<1>3. Pages["picker"].ask[v] = Get("maintenance/equipment", v, Omitted)
  BY DEF Pages, NewWorkOrderModal, Query, GetEquipment
<1>4. Pages["alerts"].ask[v] = Get("maintenance/alerts", v, Omitted)
  BY DEF Pages, EquipmentDetail, Query, GetAlerts
<1>5. Pages["sensors"].ask[v] = Get("maintenance/sensor-data", Omitted, Flagged[v])
  BY DEF Pages, SensorChart, Query, GetSensorData
<1>6. Pages["history"].ask[v] = Get("voyage/history", v, Omitted)
  BY DEF Pages, VoyageHistoryTable, Query, GetHistory
<1>7. Pages["documents"].ask[v] = Get("knowledge/documents", ToBackendVesselId(v), Omitted)
  BY DEF Pages, DocumentManager, Query, GetDocuments
<1>8. Pages["readiness"].ask[v] = Get("sire/readiness-score", v, Omitted)
  BY DEF Pages, ReadinessTab, Query, GetReadinessScore
<1>9. Pages["certificates"].ask[v] = Get("sire/documents", v, Omitted)
  BY DEF Pages, DocumentsTab, Query, GetSireDocuments
<1>10. Pages["findings"].ask[v] = Get("sire/findings", v, Omitted)
  BY DEF Pages, FindingsTab, Query, GetFindings
<1>11. Pages["cii"].ask[v] = Get("compliance/cii", v, Omitted)
  BY DEF Pages, CIITracker, Effect, GetCII
<1>12. Pages["ets"].ask[v] = Get("compliance/ets", v, Omitted)
  BY DEF Pages, ETSTracker, Effect, GetETS
<1>13. Pages["route"].ask[v] = Get("voyage/optimize-route", v, Omitted)
  BY DEF Pages, RouteOptimizer, Form, OptimizeRouteFor
<1>14. Pages["defect"].ask[v] = Get("knowledge/generate-defect-report", ToBackendVesselId(v), Omitted)
  BY DEF Pages, DefectReportGenerator, Form, GenerateDefectReport
<1>15. Pages["handover"].ask[v] = Get("knowledge/handover", ToBackendVesselId(v), Omitted)
  BY DEF Pages, ShiftHandover, Form, CreateHandover
<1>16. Pages["agent_hub"].ask[v] = Get("voyage/generate-agent-message", v, Omitted)
  BY DEF Pages, AgentHub, Form, GenerateMessage
<1>17. Pages["analysis"].ask[v] = Get("maintenance/analyze-anomaly", v, Flagged[v])
  BY DEF Pages, AnalyzeAll, Form, Analyze
<1>. QED BY <1>1, <1>2, <1>3, <1>4, <1>5, <1>6, <1>7, <1>8, <1>9, <1>10, <1>11, <1>12, <1>13, <1>14, <1>15, <1>16,
            <1>17

\* The grid and the catalogue of a new order are the only pages that read one key.
LEMMA SameAsk ==
    ASSUME NEW p \in DOMAIN Pages, NEW q \in DOMAIN Pages, p # q,
           Pages[p].how = "query", Pages[q].how = "query", Pages[p].ask = Pages[q].ask
    PROVE  {p, q} = {"equipment", "picker"}
<1>. DEFINE route(x) == Pages[x].ask[Nobody].route
<1>1. Nobody \in Ids
  BY DEF Ids
<1>2. /\ route("work_orders") = "maintenance/work-orders" /\ route("equipment") = "maintenance/equipment"
      /\ route("picker") = "maintenance/equipment" /\ route("alerts") = "maintenance/alerts"
      /\ route("sensors") = "maintenance/sensor-data" /\ route("history") = "voyage/history"
      /\ route("documents") = "knowledge/documents" /\ route("readiness") = "sire/readiness-score"
      /\ route("certificates") = "sire/documents" /\ route("findings") = "sire/findings"
  <2>1. \A r, v, e : Get(r, v, e).route = r
    BY DEF Get
  <2>. QED BY <1>1, <2>1, PageAsks
<1>3. /\ Pages["analytics"].how # "query" /\ Pages["cii"].how # "query" /\ Pages["ets"].how # "query"
      /\ Pages["congestion"].how # "query" /\ Pages["weather"].how # "query" /\ Pages["map"].how # "query"
      /\ Pages["route"].how # "query" /\ Pages["defect"].how # "query" /\ Pages["handover"].how # "query"
      /\ Pages["agent_hub"].how # "query" /\ Pages["analysis"].how # "query"
  BY DEF Pages, Effect, FleetWide, Form, AnalyticsPage, CIITracker, ETSTracker, PortCongestionPage, WeatherPanel,
     LiveFleetMap, RouteOptimizer, DefectReportGenerator, ShiftHandover, AgentHub, AnalyzeAll
<1>4. route(p) = route(q)
  OBVIOUS
<1>. HIDE DEF route
<1>5. ASSUME NEW x \in DOMAIN Pages, Pages[x].how = "query"
      PROVE  x \in {"work_orders", "equipment", "picker", "alerts", "sensors", "history", "documents", "readiness",
                    "certificates", "findings"}
  BY <1>3, <1>5, PageNames
<1>. QED BY <1>2, <1>4, <1>5

\* A handler that answers.
Succeeds(effects) == \E s \in effects.statuses : s < 400

\* What a route about one vessel shows is about that vessel.
OfItsVessel(effects, q) == Succeeds(effects) => effects.about = {q.vessel} /\ q.vessel \in ToSet(Vessels)

LEMMA OneVesselRoutes ==
    ASSUME NEW q
    PROVE  /\ OfItsVessel(EquipmentOf(q), q) /\ OfItsVessel(MaintenanceAlerts(q), q) /\ OfItsVessel(VoyageHistory(q), q)
           /\ OfItsVessel(KnowledgeDocuments(q), q) /\ OfItsVessel(SireDocuments(q), q) /\ OfItsVessel(SireFindings(q), q)
           /\ OfItsVessel(EtsPosition(q), q) /\ OfItsVessel(ReadinessScore(q), q) /\ OfItsVessel(CiiRating(q), q)
           /\ OfItsVessel(DefectReport(q), q) /\ OfItsVessel(Handover(q), q)
           /\ q.vessel # Omitted => OfItsVessel(OptimizeRoute(q), q)
           /\ q.vessel \notin ToSet(Vessels) \cup {Omitted} => ~Succeeds(GenerateAgentMessage(q))
<1>1. Omitted \notin ToSet(Vessels)
  BY TenancyAssumption
<1>2. /\ OfItsVessel(EquipmentOf(q), q) /\ OfItsVessel(MaintenanceAlerts(q), q) /\ OfItsVessel(VoyageHistory(q), q)
      /\ OfItsVessel(KnowledgeDocuments(q), q) /\ OfItsVessel(SireDocuments(q), q) /\ OfItsVessel(SireFindings(q), q)
      /\ OfItsVessel(EtsPosition(q), q)
  BY <1>1 DEF EquipmentOf, MaintenanceAlerts, VoyageHistory, KnowledgeDocuments, SireDocuments, SireFindings, EtsPosition,
     OfVessel, WithVessel, RequireVessel, Found, Refused, Show, Answer, OfItsVessel, Succeeds
<1>3. OfItsVessel(ReadinessScore(q), q) /\ OfItsVessel(CiiRating(q), q)
  BY <1>1 DEF ReadinessScore, CiiRating, OfVessel, WithVessel, RequireVessel, Found, Refused, Show, Answer, OfItsVessel,
     Succeeds
<1>4. OfItsVessel(DefectReport(q), q) /\ OfItsVessel(Handover(q), q)
  BY <1>1 DEF DefectReport, Handover, OfVessel, WithVessel, RequireVessel, Found, Refused, AskModel, Await, Answer,
     OfItsVessel, Succeeds
<1>5. q.vessel # Omitted => OfItsVessel(OptimizeRoute(q), q)
  BY <1>1 DEF OptimizeRoute, OfFleetVessel, WithVessel, ResolveFleetVessel, FleetVessels, Found, Refused, AskModel, Await,
     Answer, OfItsVessel, Succeeds
<1>6. q.vessel \notin ToSet(Vessels) \cup {Omitted} => ~Succeeds(GenerateAgentMessage(q))
  <2>1. SUFFICES ASSUME q.vessel \notin ToSet(Vessels) \cup {Omitted} PROVE ~Succeeds(GenerateAgentMessage(q))
    OBVIOUS
  <2>2. ResolveFleetVessel(q.user, q.vessel) = Refused(404)
    BY <2>1 DEF ResolveFleetVessel, FleetVessels
  <2>3. GenerateAgentMessage(q) = Answer(404, {})
    BY <2>2 DEF GenerateAgentMessage, OfFleetVessel, WithVessel, Refused
  <2>. QED BY <2>3 DEF Answer, Succeeds
<1>. QED BY <1>2, <1>3, <1>4, <1>5, <1>6

\* The routes by their names.
Shows(r) == \A v, e : OfItsVessel(Served(Get(r, v, e)), Get(r, v, e))

LEMMA Routed ==
    /\ Shows("maintenance/equipment") /\ Shows("maintenance/alerts")
    /\ Shows("voyage/history") /\ Shows("knowledge/documents")
    /\ Shows("sire/readiness-score") /\ Shows("sire/documents")
    /\ Shows("sire/findings") /\ Shows("compliance/cii")
    /\ Shows("compliance/ets") /\ Shows("knowledge/generate-defect-report")
    /\ Shows("knowledge/handover")
<1>1. Shows("maintenance/equipment")
  <2>1. ASSUME NEW q, q.route = "maintenance/equipment" PROVE Served(q) = EquipmentOf(q)
    BY <2>1 DEF Served, Handle
  <2>. QED BY <2>1, OneVesselRoutes DEF Shows, Get
<1>2. Shows("maintenance/alerts")
  <2>1. ASSUME NEW q, q.route = "maintenance/alerts" PROVE Served(q) = MaintenanceAlerts(q)
    BY <2>1 DEF Served, Handle
  <2>. QED BY <2>1, OneVesselRoutes DEF Shows, Get
<1>3. Shows("voyage/history")
  <2>1. ASSUME NEW q, q.route = "voyage/history" PROVE Served(q) = VoyageHistory(q)
    BY <2>1 DEF Served, Handle
  <2>. QED BY <2>1, OneVesselRoutes DEF Shows, Get
<1>4. Shows("knowledge/documents")
  <2>1. ASSUME NEW q, q.route = "knowledge/documents" PROVE Served(q) = KnowledgeDocuments(q)
    BY <2>1 DEF Served, Handle
  <2>. QED BY <2>1, OneVesselRoutes DEF Shows, Get
<1>5. Shows("sire/readiness-score")
  <2>1. ASSUME NEW q, q.route = "sire/readiness-score" PROVE Served(q) = ReadinessScore(q)
    BY <2>1 DEF Served, Handle
  <2>. QED BY <2>1, OneVesselRoutes DEF Shows, Get
<1>6. Shows("sire/documents")
  <2>1. ASSUME NEW q, q.route = "sire/documents" PROVE Served(q) = SireDocuments(q)
    BY <2>1 DEF Served, Handle
  <2>. QED BY <2>1, OneVesselRoutes DEF Shows, Get
<1>7. Shows("sire/findings")
  <2>1. ASSUME NEW q, q.route = "sire/findings" PROVE Served(q) = SireFindings(q)
    BY <2>1 DEF Served, Handle
  <2>. QED BY <2>1, OneVesselRoutes DEF Shows, Get
<1>8. Shows("compliance/cii")
  <2>1. ASSUME NEW q, q.route = "compliance/cii" PROVE Served(q) = CiiRating(q)
    BY <2>1 DEF Served, Handle
  <2>. QED BY <2>1, OneVesselRoutes DEF Shows, Get
<1>9. Shows("compliance/ets")
  <2>1. ASSUME NEW q, q.route = "compliance/ets" PROVE Served(q) = EtsPosition(q)
    BY <2>1 DEF Served, Handle
  <2>. QED BY <2>1, OneVesselRoutes DEF Shows, Get
<1>10. Shows("knowledge/generate-defect-report")
  <2>1. ASSUME NEW q, q.route = "knowledge/generate-defect-report" PROVE Served(q) = DefectReport(q)
    BY <2>1 DEF Served, Handle
  <2>. QED BY <2>1, OneVesselRoutes DEF Shows, Get
<1>11. Shows("knowledge/handover")
  <2>1. ASSUME NEW q, q.route = "knowledge/handover" PROVE Served(q) = Handover(q)
    BY <2>1 DEF Served, Handle
  <2>. QED BY <2>1, OneVesselRoutes DEF Shows, Get
<1>. QED BY <1>1, <1>2, <1>3, <1>4, <1>5, <1>6, <1>7, <1>8, <1>9, <1>10, <1>11

\* A success of a page about a vessel is about the vessel it asked for.
LEMMA AnswersAbout ==
    ASSUME PagesAssumption, NEW p \in DOMAIN Pages, Pages[p].how \in {"query", "effect", "form"}, NEW v \in Ids,
           v = Nobody => Pages[p].alone = "asks", p = "agent_hub" => v \in ToSet(Fixtures),
           Succeeds(Served(Pages[p].ask[v]))
    PROVE  Served(Pages[p].ask[v]).about = {ToBackendVesselId(v)}
<1>. DEFINE q == Pages[p].ask[v]
<1>1. v \in ToSet(Vessels) => ToBackendVesselId(v) = v
  BY DEF PagesAssumption, ToBackendVesselId
<1>2. v \in ToSet(Vessels) \cup ToSet(Fixtures) \/ v = Nobody
  BY DEF Ids
<1>3. ASSUME q.vessel \in {v, ToBackendVesselId(v)}, OfItsVessel(Served(q), q)
      PROVE  Served(q).about = {ToBackendVesselId(v)}
  BY <1>1, <1>3 DEF OfItsVessel
<1>4. CASE p = "work_orders"
  <2>1. q = Get("maintenance/work-orders", v, Omitted)
    BY <1>4, PageAsks
  <2>2. Served(q) = IF CanAccess(Caller, v) THEN Await("database", {v}, {200, 503}) ELSE Await("database", {}, {403, 503})
    BY <2>1 DEF Served, Get
  <2>3. CanAccess(Caller, v)
    BY <2>2 DEF Succeeds, Await
  <2>. QED BY <1>1, <2>2, <2>3 DEF CanAccess, Await
<1>5. CASE p \in {"equipment", "picker", "alerts", "history", "readiness", "certificates", "findings", "cii", "ets"}
  <2>1. PICK r : q = Get(r, v, Omitted) /\ Shows(r)
    BY <1>5, PageAsks, Routed
  <2>2. OfItsVessel(Served(q), q) /\ q.vessel = v
    BY <2>1 DEF Shows, Get
  <2>. QED BY <1>3, <2>2
<1>6. CASE p \in {"documents", "defect", "handover"}
  <2>1. PICK r : q = Get(r, ToBackendVesselId(v), Omitted) /\ Shows(r)
    BY <1>6, PageAsks, Routed
  <2>2. OfItsVessel(Served(q), q) /\ q.vessel = ToBackendVesselId(v)
    BY <2>1 DEF Shows, Get
  <2>. QED BY <1>3, <2>2
<1>7. ASSUME p \in {"sensors", "analysis"}, Served(q) \in {SensorData(q), AnalyzeAnomaly(q)}, q.item = Flagged[v]
      PROVE  Served(q).about = {ToBackendVesselId(v)}
  <2>1. /\ q.item \in DOMAIN VesselOf /\ CanAccess(q.user, VesselOf[q.item])
        /\ Served(q).about = {VesselOf[q.item]}
    BY <1>7 DEF SensorData, AnalyzeAnomaly, OfEquipment, Show, AskModel, Answer, Await, Succeeds
  <2>2. VesselOf[q.item] = v
    BY <1>2, <1>7, <2>1 DEF PagesAssumption
  <2>. QED BY <1>1, <2>1, <2>2 DEF CanAccess
<1>8. CASE p = "sensors"
  <2>1. q = Get("maintenance/sensor-data", Omitted, Flagged[v])
    BY <1>8, PageAsks
  <2>2. Served(q) = SensorData(q) /\ q.item = Flagged[v]
    BY <2>1 DEF Served, Handle, Get
  <2>. QED BY <1>7, <1>8, <2>2
<1>9. CASE p = "analysis"
  <2>1. q = Get("maintenance/analyze-anomaly", v, Flagged[v])
    BY <1>9, PageAsks
  <2>2. Served(q) = AnalyzeAnomaly(q) /\ q.item = Flagged[v]
    BY <2>1 DEF Served, Handle, Get
  <2>. QED BY <1>7, <1>9, <2>2
<1>10. CASE p = "route"
  <2>1. q = Get("voyage/optimize-route", v, Omitted)
    BY <1>10, PageAsks
  <2>2. Served(q) = OptimizeRoute(q) /\ q.vessel = v
    BY <2>1 DEF Served, Handle, Get
  <2>3. v # Nobody
    BY <1>10 DEF Pages, RouteOptimizer, Form
  <2>4. v # Omitted
    BY <1>2, <2>3, TenancyAssumption DEF PagesAssumption
  <2>. QED BY <1>3, <2>2, <2>4, OneVesselRoutes
<1>11. CASE p = "agent_hub"
  <2>1. q = Get("voyage/generate-agent-message", v, Omitted)
    BY <1>11, PageAsks
  <2>2. Served(q) = GenerateAgentMessage(q) /\ q.vessel = v
    BY <2>1 DEF Served, Handle, Get
  <2>3. v \notin ToSet(Vessels) \cup {Omitted}
    BY <1>11 DEF PagesAssumption
  <2>. QED BY <2>2, <2>3, OneVesselRoutes
<1>12. /\ Pages["analytics"].how \in {"fleet", "mount"} /\ Pages["congestion"].how \in {"fleet", "mount"}
       /\ Pages["weather"].how \in {"fleet", "mount"} /\ Pages["map"].how \in {"fleet", "mount"}
  BY DEF Pages, FleetWide, AnalyticsPage, PortCongestionPage, WeatherPanel, LiveFleetMap
<1>13. p \notin {"analytics", "congestion", "weather", "map"}
  BY <1>12
<1>. QED BY <1>4, <1>5, <1>6, <1>8, <1>9, <1>10, <1>11, <1>13, PageNames
-----------------------------------------------------------------------------
(* The pages: the vessel in the heading *)

Requests == [page : DOMAIN Pages, vessel : Ids, n : Nat, tries : Nat]

PageTypes ==
    /\ page \in DOMAIN Pages /\ build \in {"production", "development"} /\ selected \in Ids
    /\ fleet.vessels \subseteq ToSet(Vessels) \cup ToSet(Fixtures)
    /\ open \in SUBSET Requests /\ asks \in Nat
    /\ cache = [k \in Keys |-> cache[k]]
    /\ failed \in [Keys -> BOOLEAN]
    /\ last \in [Keys -> {"none", "ok", "failed"}]
    /\ loading \in BOOLEAN /\ overlapped \in BOOLEAN

\* Two pages that read one key of the cache, or one page.
SameKey(p, q) == p = q \/ {p, q} = {"equipment", "picker"}

\* A request under way is the page's, or of the page that shares its key, and is
\* about a vessel the page asks about.
OpenInv ==
    /\ \A r \in open :
         /\ SameKey(r.page, page)
         /\ r.vessel = Nobody => Pages[r.page].alone = "asks" \/ Pages[r.page].how = "fleet"
         /\ r.page = "agent_hub" => r.vessel \in ToSet(Fixtures)
    /\ P.how = "form" => \A r \in open : open = {r}
    /\ page = "agent_hub" => selected \in ToSet(Fixtures) \cup {Nobody}

\* What is kept is about the vessel it was asked for, under that vessel's key; an
\* effect's page that was never overtaken waits for the selected vessel's answer,
\* has it, or has an error.
KeptInv ==
    /\ P.how \in {"query", "effect", "form"} =>
         \A k \in Keys : FromService(cache[k]) => cache[k].about = {ToBackendVesselId(cache[k].of)}
    /\ P.how = "query" => \A k \in Keys : FromService(cache[k]) => cache[k].of = k
    /\ P.how = "effect" /\ ~overlapped =>
         /\ \A r \in open : r.vessel = selected /\ open = {r} /\ loading
         /\ open = {} /\ ~failed[Nobody] /\ FromService(cache[Nobody]) => cache[Nobody].of = selected

\* In production a page that promises to tell a failure has nothing of the
\* browser's making, and where no request is under way it tells how the last one ended.
ToldInv ==
    build = "production" /\ page \in Candid =>
        /\ \A k \in Keys : cache[k] = Nothing \/ FromService(cache[k])
        /\ page = "agent_hub" /\ open # {} => cache[Nobody] = Nothing
        /\ \A k \in Keys : (\A r \in open : Key(r.page, r.vessel) # k) =>
             /\ last[k] = "failed" => failed[k] /\ (P.how = "form" => cache[k] = Nothing)
             /\ FromService(cache[k]) /\ ~failed[k] => last[k] = "ok"

PagesInv == PageTypes /\ OpenInv /\ KeptInv /\ ToldInv

\* Pages that share a key are of one kind, and promise nothing.
LEMMA KeysShared ==
    ASSUME NEW p \in DOMAIN Pages, NEW q \in DOMAIN Pages, SameKey(p, q)
    PROVE  /\ Pages[p].how = Pages[q].how
           /\ p # q => Pages[p].how = "query" /\ p \notin Candid /\ q \notin Candid
<1>1. Pages["equipment"].how = "query" /\ Pages["picker"].how = "query"
  BY DEF Pages, EquipmentGrid, NewWorkOrderModal, Query
<1>2. "equipment" \notin Candid /\ "picker" \notin Candid
  BY DEF Candid
<1>. QED BY <1>1, <1>2 DEF SameKey

\* Where a request of the page is kept, and which of them there are.
LEMMA OpenRequest ==
    ASSUME PagesInv, NEW r \in open
    PROVE  /\ r \in Requests /\ r.page \in DOMAIN Pages /\ r.vessel \in Ids /\ Pages[r.page].how = P.how
           /\ P.how # "query" \/ page \in Candid => r.page = page
           /\ Key(r.page, r.vessel) = (IF P.how = "query" THEN r.vessel ELSE Nobody) /\ Key(r.page, r.vessel) \in Keys
<1>1. r \in Requests /\ SameKey(r.page, page) /\ page \in DOMAIN Pages
  BY DEF PagesInv, PageTypes, OpenInv
<1>2. r.page \in DOMAIN Pages /\ r.vessel \in Ids
  BY <1>1 DEF Requests
<1>. QED BY <1>1, <1>2, KeysShared DEF P, Key, Keys, Ids

\* A new request is kept where the page keeps it.
LEMMA NewRequest ==
    ASSUME PageTypes, NEW v \in Ids
    PROVE  LET r == Request(page, v, asks + 1)
           IN  r \in Requests /\ r.page = page /\ r.vessel = v
BY DEF PageTypes, Request, Requests

\* The vessel changes: the page's query or effect follows.
LEMMA SelectPages ==
    ASSUME PagesInv, NEW v \in Ids \ {Nobody}, Select(v), page = "agent_hub" => v \in ToSet(Fixtures),
           fleet'.vessels \subseteq ToSet(Vessels) \cup ToSet(Fixtures)
    PROVE  PagesInv'
<1>. DEFINE r == Request(page, v, asks + 1)
<1>1. /\ selected' = v /\ UNCHANGED <<page, build, last>>
      /\ overlapped' = (overlapped \/ (open # {} /\ (P.how = "effect" \/ "selection" \in P.clears)))
      /\ \/ /\ AsksAbout(v) /\ open' = open \cup {r} /\ asks' = asks + 1 /\ loading' = TRUE
            /\ failed' = [failed EXCEPT ![Key(page, v)] = FALSE]
         \/ ~AsksAbout(v) /\ UNCHANGED <<open, asks, loading, failed>>
      /\ cache' = IF "selection" \in P.clears THEN [cache EXCEPT ![Nobody] = Nothing] ELSE cache
  BY DEF Select
<1>2. PageTypes /\ PageKind(page) /\ page \in DOMAIN Pages
  BY PageKinds DEF PagesInv, PageTypes
<1>3. r \in Requests /\ r.page = page /\ r.vessel = v
  BY <1>2, NewRequest
<1>. HIDE DEF r
<1>4. AsksAbout(v) => P.how \in {"query", "effect"} /\ page # "agent_hub"
  BY <1>2 DEF AsksAbout, P, PageKind
<1>5. P.how = "effect" => AsksAbout(v)
  BY DEF AsksAbout
<1>6. PageTypes'
  <2>1. cache' = [k \in Keys |-> cache'[k]]
    BY <1>1, <1>2 DEF PageTypes
  <2>2. open' \in SUBSET Requests /\ asks' \in Nat /\ loading' \in BOOLEAN
    <3>1. open \in SUBSET Requests /\ asks \in Nat /\ loading \in BOOLEAN
      BY <1>2 DEF PageTypes
    <3>2. CASE AsksAbout(v)
      BY <1>1, <1>3, <3>1, <3>2
    <3>3. CASE ~AsksAbout(v)
      BY <1>1, <3>1, <3>3
    <3>. QED BY <3>2, <3>3
  <2>3. failed' \in [Keys -> BOOLEAN] /\ overlapped' \in BOOLEAN
    BY <1>1, <1>2 DEF PageTypes
  <2>4. page' \in DOMAIN Pages /\ build' \in {"production", "development"} /\ last' \in [Keys -> {"none", "ok", "failed"}]
    BY <1>1, <1>2 DEF PageTypes
  <2>. QED BY <1>1, <2>1, <2>2, <2>3, <2>4 DEF PageTypes
<1>7. OpenInv'
  <2>1. P' = P
    BY <1>1 DEF P
  <2>2. \A x \in open' : x \in open \/ (x = r /\ AsksAbout(v))
    BY <1>1
  <2>3. P.how = "form" => open' = open
    BY <1>1, <1>4
  <2>. QED BY <1>1, <1>3, <1>4, <2>1, <2>2, <2>3 DEF OpenInv, PagesInv, SameKey
<1>8. KeptInv'
  <2>1. P' = P
    BY <1>1 DEF P
  <2>2. \A k \in Keys : cache'[k] = cache[k] \/ ~FromService(cache'[k])
    BY <1>1, <1>2 DEF PageTypes, Nothing, FromService
  <2>3. P.how \in {"query", "effect"} => cache' = cache
    BY <1>1, <1>2 DEF PageKind, P
  <2>4. ASSUME P.how = "effect", ~overlapped'
        PROVE  open' = {r} /\ loading'
    BY <1>1, <1>5, <2>4
  <2>. QED BY <1>1, <1>3, <2>1, <2>2, <2>3, <2>4 DEF KeptInv, PagesInv
<1>9. ToldInv'
  <2>1. SUFFICES ASSUME build = "production", page \in Candid PROVE ToldInv'
    BY <1>1 DEF ToldInv
  <2>2. P' = P /\ (page # "agent_hub" => cache' = cache)
    BY <1>1, <1>2 DEF PageKind, P
  <2>3. Nobody \in Keys /\ \A k \in Keys : cache'[k] = cache[k] \/ cache'[k] = Nothing
    BY <1>1, <1>2 DEF PageTypes, Keys, Ids
  <2>4. page = "agent_hub" => cache'[Nobody] = Nothing
    BY <1>1, <1>2, <2>3 DEF PageTypes, PageKind, P
  <2>5. ASSUME NEW k \in Keys, \A x \in open' : Key(x.page, x.vessel) # k
        PROVE  failed'[k] = failed[k] /\ \A x \in open : Key(x.page, x.vessel) # k
    <3>1. CASE AsksAbout(v)
      <4>1. Key(page, v) # k
        BY <1>1, <1>3, <2>5, <3>1
      <4>. QED BY <1>1, <1>2, <2>5, <3>1, <4>1 DEF PageTypes
    <3>2. CASE ~AsksAbout(v)
      BY <1>1, <2>5, <3>2
    <3>. QED BY <3>1, <3>2
  <2>6. \A k \in Keys : cache'[k] = Nothing \/ FromService(cache'[k])
    BY <2>1, <2>3 DEF ToldInv, PagesInv
  <2>7. ASSUME NEW k \in Keys, \A x \in open' : Key(x.page, x.vessel) # k
        PROVE  /\ last'[k] = "failed" => failed'[k] /\ (P.how = "form" => cache'[k] = Nothing)
               /\ FromService(cache'[k]) /\ ~failed'[k] => last'[k] = "ok"
    <3>1. failed'[k] = failed[k] /\ last'[k] = last[k] /\ \A x \in open : Key(x.page, x.vessel) # k
      BY <1>1, <2>5, <2>7
    <3>2. /\ last[k] = "failed" => failed[k] /\ (P.how = "form" => cache[k] = Nothing)
          /\ FromService(cache[k]) /\ ~failed[k] => last[k] = "ok"
      BY <2>1, <3>1 DEF ToldInv, PagesInv
    <3>3. ~FromService(Nothing)
      BY DEF Nothing, FromService
    <3>. QED BY <2>3, <3>1, <3>2, <3>3
  <2>. QED BY <1>1, <2>1, <2>2, <2>4, <2>6, <2>7 DEF ToldInv
<1>. QED BY <1>6, <1>7, <1>8, <1>9 DEF PagesInv
\* A button, a poll, or data that has grown stale.
LEMMA AskPages == ASSUME PagesAssumption, PagesInv, Ask PROVE PagesInv'
<1>. DEFINE v == IF P.how = "fleet" THEN Nobody ELSE selected
            r == Request(page, v, asks + 1)
<1>1. /\ P.how \in {"query", "fleet", "form"} /\ (page = "map" \/ ~Pending(page, selected))
      /\ selected # Nobody \/ P.alone = "asks"
      /\ open' = open \cup {r} /\ asks' = asks + 1 /\ loading' = TRUE
      /\ failed' = IF P.how = "query" THEN failed ELSE [failed EXCEPT ![Nobody] = FALSE]
      /\ cache' = IF "submit" \in P.clears THEN [cache EXCEPT ![Nobody] = Nothing] ELSE cache
      /\ UNCHANGED <<page, build, fleet, selected, last, overlapped>>
  BY DEF Ask
<1>2. PageTypes /\ PageKind(page) /\ page \in DOMAIN Pages /\ Nobody \in Keys
  BY PageKinds DEF PagesInv, PageTypes, Keys, Ids
<1>3. r \in Requests /\ r.page = page /\ r.vessel = v
  BY <1>2, NewRequest DEF PageTypes, Ids
<1>4. /\ v = Nobody => P.alone = "asks" \/ P.how = "fleet"
      /\ P.how # "fleet" => v = selected
  BY <1>1
<1>. HIDE DEF r, v
<1>5. P' = P /\ ~FromService(Nothing) /\ \A k \in Keys : cache'[k] = cache[k] \/ cache'[k] = Nothing
  BY <1>1, <1>2 DEF P, PageTypes, Nothing, FromService
<1>6. ASSUME P.how \in {"query", "form"}, page # "map"
      PROVE  /\ Key(r.page, r.vessel) = Key(page, selected)
             /\ \A x \in open : Key(x.page, x.vessel) # Key(page, selected)
  BY <1>1, <1>3, <1>4, <1>6 DEF Pending
<1>7. P.how \in {"query", "form"} => page # "map"
  BY DEF P, Pages, LiveFleetMap, FleetWide
<1>8. P.how = "form" => open = {}
  <2>1. SUFFICES ASSUME P.how = "form", NEW x \in open PROVE FALSE
    OBVIOUS
  <2>2. Key(x.page, x.vessel) = Nobody /\ Key(page, selected) = Nobody
    BY <2>1, OpenRequest DEF Key, P
  <2>. QED BY <1>6, <1>7, <2>1, <2>2
<1>9. PageTypes'
  <2>1. cache' = [k \in Keys |-> cache'[k]] /\ failed' \in [Keys -> BOOLEAN]
    BY <1>1, <1>2 DEF PageTypes
  <2>2. open \in SUBSET Requests /\ asks \in Nat
    BY <1>2 DEF PageTypes
  <2>3. open' \in SUBSET Requests /\ asks' \in Nat
    BY <1>1, <1>3, <2>2
  <2>4. loading' \in BOOLEAN
    BY <1>1
  <2>. QED BY <1>1, <1>2, <2>1, <2>3, <2>4 DEF PageTypes
<1>10. OpenInv'
  <2>1. page = "agent_hub" => v \in ToSet(Fixtures)
    BY <1>2, <1>4 DEF PagesInv, OpenInv, PageKind, P
  <2>2. P.how = "form" => open' = {r}
    BY <1>1, <1>8
  <2>3. \A x \in open' : x \in open \/ x = r
    BY <1>1
  <2>. QED BY <1>1, <1>3, <1>4, <1>5, <2>1, <2>2, <2>3 DEF OpenInv, PagesInv, SameKey, P
<1>11. KeptInv'
  <2>1. P.how # "effect" /\ \A k \in Keys : cache'[k] = cache[k] \/ ~FromService(cache'[k])
    BY <1>1, <1>5
  <2>. QED BY <1>5, <2>1 DEF KeptInv, PagesInv
<1>12. ToldInv'
  <2>1. SUFFICES ASSUME build = "production", page \in Candid PROVE ToldInv'
    BY <1>1 DEF ToldInv
  <2>2. P.how \in {"query", "form"} /\ (page = "agent_hub" => "submit" \in P.clears)
    BY <1>2, <2>1 DEF PageKind, P
  <2>3. page = "agent_hub" => cache'[Nobody] = Nothing
    BY <1>1, <1>2, <2>2 DEF PageTypes
  <2>4. \A k \in Keys : cache'[k] = Nothing \/ FromService(cache'[k])
    BY <1>5, <2>1 DEF ToldInv, PagesInv
  <2>5. ASSUME NEW k \in Keys, \A x \in open' : Key(x.page, x.vessel) # k
        PROVE  /\ last'[k] = "failed" => failed'[k] /\ (P.how = "form" => cache'[k] = Nothing)
               /\ FromService(cache'[k]) /\ ~failed'[k] => last'[k] = "ok"
    <3>1. k # Key(page, selected) /\ \A x \in open : Key(x.page, x.vessel) # k
      BY <1>1, <1>6, <1>7, <2>2, <2>5
    <3>2. failed'[k] = failed[k]
      BY <1>1, <1>2, <3>1 DEF PageTypes, Key, P
    <3>3. /\ last[k] = "failed" => failed[k] /\ (P.how = "form" => cache[k] = Nothing)
          /\ FromService(cache[k]) /\ ~failed[k] => last[k] = "ok"
      BY <2>1, <3>1 DEF ToldInv, PagesInv
    <3>. QED BY <1>1, <1>5, <3>2, <3>3
  <2>. QED BY <1>1, <1>5, <2>3, <2>4, <2>5 DEF ToldInv
<1>. QED BY <1>9, <1>10, <1>11, <1>12 DEF PagesInv

\* The grid and the new order's catalogue, one after the other.
LEMMA VisitPages == ASSUME PagesInv, NEW p \in DOMAIN Pages, Visit(p) PROVE PagesInv'
<1>1. /\ page' = p /\ p # page /\ UNCHANGED <<build, fleet, selected, open, asks, cache, failed, loading, last, overlapped>>
      /\ Pages[page].how = "query" /\ Pages[p].how = "query" /\ Pages[p].ask = Pages[page].ask /\ page \in DOMAIN Pages
  BY DEF Visit, P, PagesInv, PageTypes
<1>2. {p, page} = {"equipment", "picker"}
  BY <1>1, SameAsk
<1>3. p \notin Candid /\ p # "agent_hub"
  BY <1>2 DEF Candid
<1>4. P.how = "query" /\ P'.how = "query"
  BY <1>1 DEF P
<1>5. \A r \in open : SameKey(r.page, p)
  BY <1>2 DEF PagesInv, OpenInv, SameKey
<1>6. PageTypes'
  BY <1>1 DEF PagesInv, PageTypes
<1>7. OpenInv'
  BY <1>1, <1>3, <1>4, <1>5 DEF PagesInv, OpenInv
<1>8. KeptInv'
  BY <1>1, <1>4 DEF PagesInv, KeptInv
<1>9. ToldInv'
  BY <1>1, <1>3 DEF ToldInv
<1>. QED BY <1>6, <1>7, <1>8, <1>9 DEF PagesInv

\* A request is tried again.
LEMMA RetryPages == ASSUME PagesInv, NEW r \in open, Retried(r) PROVE PagesInv'
<1>. DEFINE again == [r EXCEPT !.tries = @ + 1]
<1>1. /\ open' = (open \ {r}) \cup {again} /\ Pages[r.page].how = "query"
      /\ UNCHANGED <<page, build, fleet, selected, asks, cache, failed, loading, last, overlapped>>
  BY DEF Retried
<1>2. r \in Requests /\ Pages[r.page].how = P.how
  BY OpenRequest
<1>3. again \in Requests /\ again.page = r.page /\ again.vessel = r.vessel
  BY <1>2 DEF Requests
<1>. HIDE DEF again
<1>4. P' = P /\ P.how = "query"
  BY <1>1, <1>2 DEF P
<1>5. page # "agent_hub"
  BY <1>4, PageKinds DEF PageKind, P, PagesInv, PageTypes
<1>6. PageTypes'
  <2>1. open' \in SUBSET Requests
    BY <1>1, <1>3 DEF PagesInv, PageTypes
  <2>. QED BY <1>1, <2>1 DEF PagesInv, PageTypes
<1>7. OpenInv'
  BY <1>1, <1>3, <1>4, <1>5 DEF PagesInv, OpenInv
<1>8. KeptInv'
  BY <1>1, <1>4 DEF PagesInv, KeptInv
<1>9. ToldInv'
  <2>1. ASSUME NEW k \in Keys, \A x \in open' : Key(x.page, x.vessel) # k
        PROVE  \A x \in open : Key(x.page, x.vessel) # k
    BY <1>1, <1>3, <2>1
  <2>. QED BY <1>1, <1>4, <1>5, <2>1 DEF PagesInv, ToldInv
<1>. QED BY <1>6, <1>7, <1>8, <1>9 DEF PagesInv

\* A request ends with what it was answered, what stands in for it, or what was kept.
LEMMA EndPages ==
    ASSUME PagesInv, NEW r \in open, NEW datum, NEW isError \in BOOLEAN, NEW how \in {"ok", "failed"},
           Ended(r, datum, isError, how),
           ~FromService(datum) \/ datum = cache[Key(r.page, r.vessel)]
             \/ (datum.of = r.vessel /\ (P.how \in {"query", "effect", "form"} => datum.about = {ToBackendVesselId(r.vessel)})),
           P.how = "effect" => isError \/ ~FromService(datum) \/ datum.of = r.vessel,
           build = "production" /\ page \in Candid =>
              /\ datum = Nothing \/ FromService(datum)
              /\ how = "ok" \/ (isError /\ (P.how = "form" => datum = Nothing))
    PROVE  PagesInv'
<1>. DEFINE key == Key(r.page, r.vessel)
<1>1. /\ open' = open \ {r} /\ loading' = FALSE /\ cache' = [cache EXCEPT ![key] = datum]
      /\ failed' = [failed EXCEPT ![key] = isError \/ (Pages[r.page].how = "effect" /\ @)]
      /\ last' = [last EXCEPT ![key] = how]
      /\ UNCHANGED <<page, build, fleet, selected, asks, overlapped>>
  BY DEF Ended
<1>2. /\ r \in Requests /\ Pages[r.page].how = P.how /\ (page \in Candid => r.page = page)
      /\ key = (IF P.how = "query" THEN r.vessel ELSE Nobody) /\ key \in Keys /\ r.vessel \in Ids
  BY OpenRequest
<1>3. PageTypes /\ PageKind(page) /\ page \in DOMAIN Pages /\ P' = P
  BY <1>1, PageKinds DEF PagesInv, PageTypes, P
<1>. HIDE DEF key
<1>4. /\ cache'[key] = datum /\ \A k \in Keys \ {key} : cache'[k] = cache[k]
      /\ cache' = [k \in Keys |-> cache'[k]]
  BY <1>1, <1>2, <1>3 DEF PageTypes
<1>5. /\ failed'[key] = (isError \/ (P.how = "effect" /\ failed[key])) /\ \A k \in Keys \ {key} : failed'[k] = failed[k]
      /\ failed' \in [Keys -> BOOLEAN]
  <2>1. failed \in [Keys -> BOOLEAN]
    BY <1>3 DEF PageTypes
  <2>2. failed' = [failed EXCEPT ![key] = isError \/ (P.how = "effect" /\ failed[key])]
    BY <1>1, <1>2
  <2>. QED BY <1>2, <2>1, <2>2
<1>6. last'[key] = how /\ (\A k \in Keys \ {key} : last'[k] = last[k]) /\ last' \in [Keys -> {"none", "ok", "failed"}]
  BY <1>1, <1>2, <1>3 DEF PageTypes
<1>7. PageTypes'
  <2>1. loading' \in BOOLEAN
    BY <1>1
  <2>. QED BY <1>1, <1>3, <1>4, <1>5, <1>6, <2>1 DEF PageTypes
<1>8. OpenInv'
  BY <1>1, <1>3 DEF PagesInv, OpenInv
<1>9. KeptInv'
  <2>1. P.how \in {"query", "effect", "form"} /\ FromService(datum) => datum.about = {ToBackendVesselId(datum.of)}
    BY <1>2 DEF PagesInv, KeptInv, key
  <2>2. P.how = "query" /\ FromService(datum) => datum.of = key
    BY <1>2 DEF PagesInv, KeptInv, key
  <2>3. ASSUME P.how = "effect", ~overlapped
        PROVE  /\ open' = {}
               /\ ~failed'[Nobody] /\ FromService(cache'[Nobody]) => cache'[Nobody].of = selected
    <3>1. open = {r} /\ r.vessel = selected
      BY <2>3 DEF PagesInv, KeptInv
    <3>2. key = Nobody
      BY <1>2, <2>3
    <3>. QED BY <1>1, <1>4, <1>5, <2>3, <3>1, <3>2
  <2>. QED BY <1>1, <1>3, <1>4, <2>1, <2>2, <2>3 DEF PagesInv, KeptInv
<1>10. ToldInv'
  <2>1. SUFFICES ASSUME build = "production", page \in Candid PROVE ToldInv'
    BY <1>1 DEF ToldInv
  <2>2. \A k \in Keys : cache'[k] = Nothing \/ FromService(cache'[k])
    BY <1>4, <2>1 DEF PagesInv, ToldInv
  <2>3. page = "agent_hub" => open' = {}
    BY <1>1, <1>3 DEF PagesInv, OpenInv, PageKind, P
  <2>4. ASSUME NEW k \in Keys, \A x \in open' : Key(x.page, x.vessel) # k
        PROVE  /\ last'[k] = "failed" => failed'[k] /\ (P.how = "form" => cache'[k] = Nothing)
               /\ FromService(cache'[k]) /\ ~failed'[k] => last'[k] = "ok"
    <3>1. CASE k = key
      BY <1>4, <1>5, <1>6, <2>1, <3>1
    <3>2. CASE k # key
      <4>1. \A x \in open : Key(x.page, x.vessel) # k
        BY <1>1, <2>4, <3>2 DEF key
      <4>2. /\ last[k] = "failed" => failed[k] /\ (P.how = "form" => cache[k] = Nothing)
            /\ FromService(cache[k]) /\ ~failed[k] => last[k] = "ok"
        BY <2>1, <4>1 DEF PagesInv, ToldInv
      <4>. QED BY <1>4, <1>5, <1>6, <3>2, <4>2
    <3>. QED BY <3>1, <3>2
  <2>. QED BY <1>1, <1>3, <2>2, <2>3, <2>4 DEF ToldInv
<1>. QED BY <1>7, <1>8, <1>9, <1>10 DEF PagesInv
\* The answer comes.
LEMMA AnsweredPages == ASSUME PagesAssumption, PagesInv, NEW r \in open, Answered(r) PROVE PagesInv'
<1>0. PICK kind \in {"real", "made up"} : Ended(r, Datum(kind, AnswerTo(r).about, r.vessel), FALSE, "ok")
  BY DEF Answered
<1>. DEFINE datum == Datum(kind, AnswerTo(r).about, r.vessel)
<1>1. Succeeds(AnswerTo(r)) /\ Ended(r, datum, FALSE, "ok")
  BY <1>0 DEF Answered, Succeeds
<1>2. FromService(datum) /\ datum.of = r.vessel /\ datum.about = AnswerTo(r).about
  BY DEF Datum, FromService
<1>3. r.page \in DOMAIN Pages /\ r.vessel \in Ids /\ Pages[r.page].how = P.how
  BY OpenRequest
<1>4. /\ r.vessel = Nobody => Pages[r.page].alone = "asks" \/ Pages[r.page].how = "fleet"
      /\ r.page = "agent_hub" => r.vessel \in ToSet(Fixtures)
  BY DEF PagesInv, OpenInv
<1>5. P.how \in {"query", "effect", "form"} => datum.about = {ToBackendVesselId(r.vessel)}
  BY <1>1, <1>2, <1>3, <1>4, AnswersAbout DEF AnswerTo
<1>. HIDE DEF datum
<1>. QED BY <1>1, <1>2, <1>5, EndPages

\* It does not, or it is a status of failure: an error, or a stand-in.
LEMMA FailedPages == ASSUME PagesInv, NEW r \in open, Fails(r) PROVE PagesInv'
<1>. DEFINE key == Key(r.page, r.vessel)
            kept == IF "failure" \in Pages[r.page].clears THEN Nothing ELSE cache[key]
            isError == Pages[r.page].standIn # "silent"
<1>1. /\ r.page \in DOMAIN Pages /\ Pages[r.page].how = P.how /\ (page \in Candid => r.page = page)
      /\ key = (IF P.how = "query" THEN r.vessel ELSE Nobody) /\ key \in Keys
  BY OpenRequest
<1>2. PageKind(r.page) /\ ~FromService(Nothing)
  BY <1>1, PageKinds DEF Nothing, FromService
<1>3. \/ StandIn(r.page, r.vessel) = {} /\ Ended(r, kept, isError, "failed")
      \/ \E datum \in StandIn(r.page, r.vessel) : Ended(r, datum, FALSE, "failed")
  BY DEF Fails
<1>4. build = "production" /\ page \in Candid => StandIn(r.page, r.vessel) = {}
  <2>1. SUFFICES ASSUME build = "production", page \in Candid PROVE StandIn(r.page, r.vessel) = {}
    OBVIOUS
  <2>2. Pages[r.page].standIn = "none" \/ Pages[r.page].builds = "development"
    BY <1>1, <1>2, <2>1 DEF PageKind
  <2>. QED BY <2>1, <2>2 DEF StandIn
<1>5. ASSUME NEW datum \in StandIn(r.page, r.vessel) PROVE datum.kind \in {"fixture", "empty"}
  <2>. DEFINE own == IF r.vessel \in ToSet(Fixtures) THEN {Datum("fixture", {r.vessel}, r.vessel)} ELSE {}
              empty == Datum("empty", {r.vessel}, r.vessel)
              any == Datum("fixture", {}, r.vessel)
  <2>1. own = {} \/ own = {Datum("fixture", {r.vessel}, r.vessel)}
    OBVIOUS
  <2>2. CASE Pages[r.page].standIn = "anything"
    <3>1. datum = any
      BY <2>2 DEF StandIn
    <3>. QED BY <3>1 DEF Datum
  <2>3. CASE Pages[r.page].standIn = "own list"
    <3>1. datum \in own \/ datum = empty
      BY <2>3 DEF StandIn
    <3>. QED BY <2>1, <3>1 DEF Datum
  <2>4. CASE Pages[r.page].standIn = "own record"
    <3>1. datum \in own
      BY <2>4 DEF StandIn
    <3>. QED BY <2>1, <3>1 DEF Datum
  <2>5. Pages[r.page].standIn \in {"anything", "own list", "own record"}
    BY DEF StandIn
  <2>. QED BY <2>2, <2>3, <2>4, <2>5
<1>6. CASE StandIn(r.page, r.vessel) = {} /\ Ended(r, kept, isError, "failed")
  <2>1. kept = Nothing \/ kept = cache[key]
    OBVIOUS
  <2>2. P.how = "effect" => isError
    BY <1>1, <1>2 DEF PageKind
  <2>3. ASSUME build = "production", page \in Candid
        PROVE  (kept = Nothing \/ FromService(kept)) /\ isError /\ (P.how = "form" => kept = Nothing)
    <3>1. isError /\ (P.how = "form" => page \in {"handover", "agent_hub"})
      BY <1>1, <1>2, <2>3 DEF PageKind
    <3>2. page = "handover" => kept = Nothing
      BY <1>1, <1>2, <2>3 DEF PageKind
    <3>3. page = "agent_hub" => cache[Nobody] = Nothing /\ key = Nobody
      BY <1>1, <1>2, <2>3 DEF PagesInv, ToldInv, PageKind
    <3>4. (cache[key] = Nothing \/ FromService(cache[key]))
      BY <1>1, <2>3 DEF PagesInv, ToldInv
    <3>. QED BY <1>2, <2>1, <3>1, <3>2, <3>3, <3>4
  <2>4. isError \in BOOLEAN
    OBVIOUS
  <2>. HIDE DEF kept, isError
  <2>5. ~FromService(kept) \/ kept = cache[Key(r.page, r.vessel)]
    BY <1>2, <2>1
  <2>. QED BY <1>6, <2>2, <2>3, <2>4, <2>5, EndPages
<1>7. ASSUME NEW datum \in StandIn(r.page, r.vessel), Ended(r, datum, FALSE, "failed") PROVE PagesInv'
  <2>1. ~FromService(datum)
    BY <1>5 DEF FromService
  <2>. QED BY <1>4, <1>7, <2>1, EndPages
<1>. QED BY <1>3, <1>6, <1>7

\* The first of the fleet, and the fixtures, are vessels.
LEMMA FirstIsVessel ==
    ASSUME PagesAssumption
    PROVE  /\ ToSet(Fixtures) # {} /\ Head(Fixtures) \in ToSet(Fixtures)
           /\ FleetVessels(Caller) \subseteq ToSet(Vessels)
           /\ FleetVessels(Caller) # {} => FirstOf(Vessels, FleetVessels(Caller)) \in ToSet(Vessels)
<1>. DEFINE own == FleetVessels(Caller)
            owned == {i \in DOMAIN Vessels : Vessels[i] \in own}
<1>1. ToSet(Fixtures) # {} /\ Head(Fixtures) \in ToSet(Fixtures)
  BY DEF PagesAssumption, ToSet
<1>2. own \subseteq ToSet(Vessels)
  BY DEF FleetVessels
<1>3. ASSUME own # {} PROVE FirstOf(Vessels, own) \in own
  <2>1. Vessels \in Seq(ToSet(Vessels))
    BY TenancyAssumption
  <2>2. owned \in SUBSET Nat /\ owned # {}
    BY <1>2, <1>3, <2>1 DEF ToSet
  <2>3. PICK i \in owned : \A j \in owned : ~ (<<j, i>> \in OpToRel(<, Nat))
    BY <2>2, NatLessThanWellFounded, WFMin
  <2>4. \A j \in owned : i <= j
    <3>1. \A j \in Nat : <<j, i>> \in OpToRel(<, Nat) <=> j < i
      BY <2>2 DEF OpToRel
    <3>2. \A j \in owned : j \in Nat /\ i \in Nat /\ ~(j < i)
      BY <2>2, <2>3, <3>1
    <3>3. \A j \in Nat : ~(j < i) /\ i \in Nat => i <= j
      OBVIOUS
    <3>. HIDE DEF owned
    <3>. QED BY <3>2, <3>3
  <2>5. \E n \in DOMAIN Vessels : Vessels[n] \in own /\ \A j \in DOMAIN Vessels : Vessels[j] \in own => n <= j
    BY <2>4
  <2>. QED BY <2>5 DEF FirstOf
<1>. QED BY <1>1, <1>2, <1>3

\* FleetContext: what it loads, and the vessel selected first or from the menu.
LEMMA FleetPages ==
    ASSUME PagesAssumption, PagesInv, FleetLoaded \/ FleetFails \/ \E v \in Ids : SelectVessel(v)
    PROVE  PagesInv'
<1>1. /\ Nobody \notin ToSet(Vessels) \cup ToSet(Fixtures)
      /\ ToSet(Vessels) \subseteq Ids /\ ToSet(Fixtures) \subseteq Ids
  BY DEF PagesAssumption, Ids
<1>2. ASSUME fleet'.vessels \subseteq ToSet(Vessels) \cup ToSet(Fixtures),
             UNCHANGED <<page, build, selected, open, asks, cache, failed, loading, last, overlapped>>
      PROVE  PagesInv'
  <2>1. PageTypes'
    BY <1>2 DEF PagesInv, PageTypes
  <2>2. OpenInv' /\ KeptInv' /\ ToldInv'
    BY <1>2 DEF PagesInv, OpenInv, KeptInv, ToldInv, P
  <2>. QED BY <2>1, <2>2 DEF PagesInv
<1>3. CASE FleetLoaded
  <2>. DEFINE own == FleetVessels(Caller)
  <2>1. fleet'.vessels = own /\ own \subseteq ToSet(Vessels)
    BY <1>3, FirstIsVessel DEF FleetLoaded
  <2>2. CASE own = {} \/ page = "agent_hub"
    BY <1>2, <1>3, <2>1, <2>2 DEF FleetLoaded
  <2>3. CASE own # {} /\ page # "agent_hub"
    <3>1. Select(FirstOf(Vessels, own)) /\ FirstOf(Vessels, own) \in ToSet(Vessels)
      BY <1>3, <2>3, FirstIsVessel DEF FleetLoaded
    <3>. QED BY <1>1, <2>1, <2>3, <3>1, SelectPages
  <2>. QED BY <2>2, <2>3
<1>4. CASE FleetFails
  <2>1. fleet'.vessels \subseteq ToSet(Fixtures)
    BY <1>4 DEF FleetFails
  <2>2. CASE build = "development" /\ page # "agent_hub"
    <3>1. Select(Head(Fixtures)) /\ Head(Fixtures) \in ToSet(Fixtures)
      BY <1>4, <2>2, FirstIsVessel DEF FleetFails
    <3>. QED BY <1>1, <2>1, <2>2, <3>1, SelectPages
  <2>3. CASE ~(build = "development" /\ page # "agent_hub")
    BY <1>2, <1>4, <2>1, <2>3 DEF FleetFails
  <2>. QED BY <2>2, <2>3
<1>5. ASSUME NEW v \in Ids, SelectVessel(v) PROVE PagesInv'
  <2>1. /\ Select(v) /\ fleet' = fleet
        /\ IF page = "agent_hub" THEN v \in ToSet(Fixtures) ELSE v \in fleet.vessels
    BY <1>5 DEF SelectVessel
  <2>2. fleet.vessels \subseteq ToSet(Vessels) \cup ToSet(Fixtures)
    BY DEF PagesInv, PageTypes
  <2>. QED BY <1>1, <2>1, <2>2, SelectPages
<1>. QED BY <1>3, <1>4, <1>5

\* Initially a fleet-wide page and the documents ask, and some show fixtures.
LEMMA InitPages == ASSUME PagesAssumption, PageInit PROVE PagesInv
<1>1. /\ page \in DOMAIN Pages /\ build \in {"production", "development"} /\ selected = Nobody
      /\ fleet.vessels = {} /\ PageKind(page) /\ Nobody \in Ids
  BY PageKinds DEF PageInit, Ids
<1>2. open = IF P.alone = "asks" /\ P.how # "form" THEN {Request(page, Nobody, 1)} ELSE {}
  BY DEF PageInit
<1>3. /\ Request(page, Nobody, 1) \in Requests /\ Request(page, Nobody, 1).page = page
      /\ Request(page, Nobody, 1).vessel = Nobody
  BY <1>1 DEF Request, Requests
<1>4. \A k \in Keys : cache[k] = Nothing \/ (P.alone = "fixtures" /\ cache[k] = Datum("fixture", {}, Nobody))
  BY DEF PageInit
<1>5. ~FromService(Nothing) /\ ~FromService(Datum("fixture", {}, Nobody))
  BY DEF Nothing, Datum, FromService
<1>6. PageTypes
  <2>1. asks \in Nat
    <3>1. open = {} \/ open = {Request(page, Nobody, 1)}
      BY <1>2
    <3>2. Cardinality(open) = 0 \/ Cardinality(open) = 1
      <4>1. Cardinality({}) = 0 /\ Cardinality({Request(page, Nobody, 1)}) = 1
        BY FS_EmptySet, FS_Singleton
      <4>. QED BY <3>1, <4>1
    <3>. QED BY <3>2 DEF PageInit
  <2>. QED BY <1>1, <1>2, <1>3, <2>1 DEF PageInit, PageTypes
<1>7. OpenInv
  BY <1>1, <1>2, <1>3 DEF OpenInv, PageKind, P, SameKey
<1>8. KeptInv
  <2>1. \A k \in Keys : ~FromService(cache[k])
    BY <1>4, <1>5
  <2>2. P.how = "effect" => open = {}
    BY <1>1, <1>2 DEF PageKind, P
  <2>. QED BY <2>1, <2>2, <1>1 DEF KeptInv, Keys
<1>9. ToldInv
  BY <1>1, <1>2, <1>4, <1>5 DEF ToldInv, PageKind, P, PageInit
<1>. QED BY <1>6, <1>7, <1>8, <1>9 DEF PagesInv

\* The pages' invariant, whatever vessels are selected, answers late and requests
\* fail.
THEOREM PagesInductive == Spec => []PagesInv
<1>1. PagesAssumption
  BY PanelsAssumption
<1>2. Init => PagesInv
  BY <1>1, InitPages DEF Init
<1>3. PagesInv /\ [Next]_vars => PagesInv'
  <2>1. SUFFICES ASSUME PagesInv, [Next]_vars PROVE PagesInv'
    OBVIOUS
  <2>2. PageNext \/ UNCHANGED pageVars
    BY <2>1 DEF Next, PageStep, ReaderStep, ChatStep, PlannerStep, TableStep, vars
  <2>3. CASE PageNext
    BY <1>1, <2>1, <2>3, FleetPages, AskPages, VisitPages, AnsweredPages, RetryPages, FailedPages DEF PageNext
  <2>4. CASE UNCHANGED pageVars
    <3>1. PageTypes'
      BY <2>1, <2>4 DEF pageVars, PagesInv, PageTypes
    <3>2. OpenInv' /\ KeptInv' /\ ToldInv'
      BY <2>1, <2>4 DEF pageVars, PagesInv, OpenInv, KeptInv, ToldInv, P
    <3>. QED BY <3>1, <3>2 DEF PagesInv
  <2>. QED BY <2>2, <2>3, <2>4
<1>. QED BY <1>2, <1>3, PTL DEF Spec

\* The service's figures on a page are about the vessel in its heading, unless an
\* effect's request was overtaken, and a form's about the vessel it was sent for
\* (ShownIsSelected, of the pages' useQuery keys and useEffect dependencies).
THEOREM HeadingIsRight == Spec => []ShownIsSelected
<1>1. PagesInv => ShownIsSelected
  <2>1. SUFFICES ASSUME PagesInv, FromService(Shown), ~overlapped, P.how \in {"query", "effect", "form"}
                 PROVE  /\ Shown.about = {ToBackendVesselId(Shown.of)}
                        /\ P.how # "form" => Shown.of = selected
    BY DEF ShownIsSelected
  <2>. DEFINE key == Key(page, selected)
  <2>2. key = (IF P.how = "query" THEN selected ELSE Nobody) /\ key \in Keys
    BY <2>1 DEF Key, P, Keys, Ids, PagesInv, PageTypes
  <2>. HIDE DEF key
  <2>3. Shown = cache[key] /\ (P.how = "effect" => ~loading /\ ~failed[Nobody])
    BY <2>1 DEF Shown, Nothing, FromService, key
  <2>4. Shown.about = {ToBackendVesselId(Shown.of)}
    BY <2>1, <2>2, <2>3 DEF PagesInv, KeptInv
  <2>5. P.how = "query" => Shown.of = selected
    BY <2>1, <2>2, <2>3 DEF PagesInv, KeptInv
  <2>6. ASSUME P.how = "effect" PROVE Shown.of = selected
    <3>1. open = {}
      BY <2>1, <2>3, <2>6 DEF PagesInv, KeptInv
    <3>. QED BY <2>1, <2>2, <2>3, <2>6, <3>1 DEF PagesInv, KeptInv
  <2>. QED BY <2>1, <2>4, <2>5, <2>6
<1>. QED BY <1>1, PagesInductive, PTL

\* In production the pages that promise to tell a failed request tell it, and the
\* browser makes nothing up for them (FailuresAreTold, of SensorChart, SirePage, ShiftHandover and
\* AgentHub).
THEOREM FailuresTold == Spec => []FailuresAreTold
<1>1. PagesInv => FailuresAreTold
  <2>1. SUFFICES ASSUME PagesInv, build = "production", page \in Candid, ~Pending(page, selected)
                 PROVE  LET k == Key(page, selected)
                        IN  /\ cache[k] = Nothing \/ FromService(cache[k])
                            /\ last[k] = "failed" => failed[k] /\ (P.how = "form" => cache[k] = Nothing)
                            /\ FromService(cache[k]) /\ ~failed[k] => last[k] = "ok"
    BY DEF FailuresAreTold
  <2>. DEFINE key == Key(page, selected)
  <2>2. key \in Keys
    BY <2>1 DEF Key, Keys, Ids, PagesInv, PageTypes
  <2>3. \A r \in open : Key(r.page, r.vessel) # key
    BY <2>1 DEF Pending
  <2>. HIDE DEF key
  <2>4. /\ cache[key] = Nothing \/ FromService(cache[key])
        /\ last[key] = "failed" => failed[key] /\ (P.how = "form" => cache[key] = Nothing)
        /\ FromService(cache[key]) /\ ~failed[key] => last[key] = "ok"
    BY <2>1, <2>2, <2>3 DEF PagesInv, ToldInv
  <2>. QED BY <2>4 DEF key
<1>. QED BY <1>1, PagesInductive, PTL
=============================================================================
