------------------------------- MODULE ChatPanel -------------------------------
(***************************************************************************)
(* The three chats (KnowledgeChat.tsx, ComplianceChat.tsx and the ChatTab  *)
(* of SirePage.tsx) and the server's streamed answer (streamChatResponse   *)
(* of aiService.ts).  The first two keep one thread per vessel through     *)
(* usePersistentVesselState and patch a reply by its id; the third keeps   *)
(* its thread in the mounted tab and patches the last message.             *)
(*                                                                         *)
(* The frames of a body reach a chat whole and in order (SseReader), so a  *)
(* part of an answer is written and shown in one step.                     *)
(***************************************************************************)
EXTENDS Naturals, Sequences, SequencesExt

CONSTANTS
    Ships,          \* vessels of the fleet
    Parts,          \* bound: text deltas of an answer
    MaxAsks,        \* bound: questions asked
    Recent,         \* messages of a thread that go with a question
    HistoryLimit,   \* messages the server takes with a question
    NoCall,
    Hello, Notice, Reason   \* texts: the inspector's greeting, a fallback, an error

ChatAssumption == {Parts, MaxAsks, Recent, HistoryLimit} \subseteq Nat

VARIABLES
    surface,    \* "knowledge", "compliance" or "sire"
    selected,   \* the selected vessel
    mounted,
    thread,     \* the messages of the mounted chat
    store,      \* local storage: per vessel, its thread
    call,       \* the request under way
    asked,      \* per question, the vessel that was selected
    holed       \* questions during whose answer another vessel was looked at

vars == <<surface, selected, mounted, thread, store, call, asked, holed>>

Keyed == surface # "sire"

Greeting == [ask |-> 0, role |-> "assistant", text |-> <<Hello>>]

TypeOK ==
    /\ surface \in {"knowledge", "compliance", "sire"}
    /\ selected \in Ships /\ mounted \in BOOLEAN
    /\ asked \in Seq(Ships) /\ Len(asked) <= MaxAsks
    /\ holed \subseteq DOMAIN asked
    /\ call # NoCall => call.ask \in DOMAIN asked /\ call.part \in 1..(Parts + 1)
    /\ ~mounted => thread = <<>> /\ call = NoCall

\* What a chat shows when it is mounted for a vessel.
Opening(v) == IF Keyed THEN store[v] ELSE <<Greeting>>

Init ==
    /\ surface \in {"knowledge", "compliance", "sire"}
    /\ selected \in Ships
    /\ mounted = TRUE
    /\ store = [v \in Ships |-> <<>>]
    /\ thread = Opening(selected)
    /\ call = NoCall /\ asked = <<>> /\ holed = {}

\* setMessages, and the effect that saves the thread under the vessel's key.
SetMessages(t) ==
    /\ thread' = t
    /\ store' = IF Keyed THEN [store EXCEPT ![selected] = t] ELSE store

History == IF Keyed THEN SubSeq(thread, Max({0, Len(thread) - Recent}) + 1, Len(thread)) ELSE thread

\* sendMessage, up to the request: the question and an empty reply are shown.
SendMessage ==
    LET n == Len(asked) + 1
    IN  /\ mounted /\ call = NoCall /\ n <= MaxAsks
        /\ asked' = Append(asked, selected)
        /\ SetMessages(thread \o <<[ask |-> n, role |-> "user", text |-> <<>>],
                                   [ask |-> n, role |-> "assistant", text |-> <<>>]>>)
        /\ call' = [ask |-> n, part |-> 1, fallenBack |-> FALSE,
                    size |-> Len(History), history |-> {History[i].ask : i \in DOMAIN History}]
        /\ UNCHANGED <<surface, selected, mounted, holed>>

\* A reply is found by its id, which is in no other vessel's thread; the
\* inspector's is the last message.
IsReply(i) == IF Keyed THEN thread[i].role = "assistant" /\ thread[i].ask = call.ask ELSE i = Len(thread)

Patch(text) == SetMessages([i \in DOMAIN thread |-> IF IsReply(i) THEN [thread[i] EXCEPT !.text = text] ELSE thread[i]])

\* The end of a reply, whichever way: finally.
Over == call' = NoCall

Accepted == call # NoCall /\ call.size <= HistoryLimit

\* A text delta.  The threads of a vessel are appended to; the inspector's text
\* is kept beside the thread and shown whole.
Delta ==
    /\ Accepted /\ call.part <= Parts /\ ~call.fallenBack
    /\ SetMessages([i \in DOMAIN thread |->
                      IF IsReply(i) THEN [thread[i] EXCEPT !.text = Append(@, call.part)] ELSE thread[i]])
    /\ call' = [call EXCEPT !.part = @ + 1]
    /\ UNCHANGED <<surface, selected, mounted, asked, holed>>

\* The fallback is shown after what was streamed.
Fallback_Appends ==
    /\ Accepted /\ ~call.fallenBack
    /\ SetMessages([i \in DOMAIN thread |->
                      IF IsReply(i) THEN [thread[i] EXCEPT !.text = Append(@, Notice)] ELSE thread[i]])
    /\ call' = [call EXCEPT !.fallenBack = TRUE]
    /\ UNCHANGED <<surface, selected, mounted, asked, holed>>

\* The model fails, at the start or in the middle: one chunk with the fallback
\* text, flagged, which takes the place of what was shown.
Fallback ==
    /\ Accepted /\ ~call.fallenBack
    /\ Patch(<<Notice>>)
    /\ call' = [call EXCEPT !.fallenBack = TRUE]
    /\ UNCHANGED <<surface, selected, mounted, asked, holed>>

\* [DONE], or a body that ends without it.
Finish ==
    /\ Accepted
    /\ Over
    /\ UNCHANGED <<surface, selected, mounted, thread, store, asked, holed>>

\* A status that is not ok - for one, 400 for a history beyond the limit - or a
\* connection that is lost: the reason takes the place of the reply.
Fails ==
    /\ call # NoCall
    /\ Patch(<<Reason>>)
    /\ Over
    /\ UNCHANGED <<surface, selected, mounted, asked, holed>>

\* stopStreaming: the abort is not an error, the reply stays as far as it got.
Stop ==
    /\ call # NoCall
    /\ Over
    /\ UNCHANGED <<surface, selected, mounted, thread, store, asked, holed>>

\* clearChat, which the inspector's tab does not have.
Clear ==
    /\ mounted /\ Keyed /\ call = NoCall
    /\ SetMessages(<<>>)
    /\ UNCHANGED <<surface, selected, mounted, call, asked, holed>>

\* The thread on the screen is kept.
SelectVessel_KeepsThread(v) ==
    /\ v # selected
    /\ selected' = v
    /\ holed' = IF call = NoCall THEN holed ELSE holed \cup {call.ask}
    /\ UNCHANGED <<surface, mounted, store, thread, call, asked>>

\* A new storage key: its thread is read back, and the request goes on.
SelectVessel(v) ==
    /\ v # selected
    /\ selected' = v
    /\ thread' = IF mounted /\ Keyed THEN store[v] ELSE thread
    /\ holed' = IF call = NoCall THEN holed ELSE holed \cup {call.ask}
    /\ UNCHANGED <<surface, mounted, store, call, asked>>

\* Another tab or page, or a reload: what is still to come changes nothing.
Leave ==
    /\ mounted
    /\ mounted' = FALSE /\ thread' = <<>>
    /\ Over
    /\ UNCHANGED <<surface, selected, store, asked, holed>>

Return ==
    /\ ~mounted
    /\ mounted' = TRUE /\ thread' = Opening(selected)
    /\ UNCHANGED <<surface, selected, store, call, asked, holed>>

Next ==
    \/ SendMessage \/ Delta \/ Fallback \/ Finish \/ Fails \/ Stop \/ Clear \/ Leave \/ Return
    \/ \E v \in Ships : SelectVessel(v)

Spec == Init /\ [][Next]_vars

-----------------------------------------------------------------------------

About(messages, v) == \A i \in DOMAIN messages : asked[messages[i].ask] = v

\* "keeping a separate thread per vessel ... threads shouldn't bleed across
\* vessels" and "survives tab/module switches and reloads"
\* (usePersistentVesselState.ts:9-13): what is stored, shown and sent along with
\* a question of a knowledge or compliance chat is of its vessel, and the screen
\* shows what is stored, even when the vessel changes during an answer.
ThreadsStayApart ==
    Keyed => /\ \A v \in Ships : About(store[v], v)
             /\ mounted => thread = store[selected]
             /\ call # NoCall => \A n \in call.history : asked[n] = asked[call.ask]

\* A reply is the model's text, in order and from its beginning, or a notice, or
\* an error, and never two of them: a stream that fails in its middle leaves no
\* half answer before the fallback (aiService.ts:154-157).  Parts that arrived
\* while another vessel was looked at are missing.
OneAnswer ==
    \A v \in Ships : \A messages \in {thread, store[v]} : \A i \in DOMAIN messages :
        LET m == messages[i]
        IN  m.role = "assistant" =>
              \/ m.text \in {<<Hello>>, <<Notice>>, <<Reason>>}
              \/ \A k \in DOMAIN m.text : m.text[k] = k
              \/ m.ask \in holed /\ ToSet(m.text) \subseteq 1..Parts /\ IsInjective(m.text)
=============================================================================
