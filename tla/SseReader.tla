------------------------------ MODULE SseReader ------------------------------
(***************************************************************************)
(* readSseStream (lib/sse.ts): a response body arrives in chunks of bytes  *)
(* that respect neither characters nor frames, and onEvent is called once  *)
(* per data: frame, in order, until [DONE].                                *)
(*                                                                         *)
(* The bytes of a body are ASCII characters, the two halves of a           *)
(* two-byte character, and newlines; a payload is complete JSON when it    *)
(* ends with its closing brace.                                            *)
(***************************************************************************)
EXTENDS Naturals, Sequences, SequencesExt, FiniteSetsExt

CONSTANT Frames  \* the payloads the server sends, each a sequence of bytes

NL == "nl"
Hi == "hi"        \* first byte of the two-byte character
Lo == "lo"        \* second byte
Wide == "wide"    \* the character
Broken == "\\ufffd"
Brace == "brace"  \* the closing brace of a payload
Done == <<"[DONE]">>

Frame(payload) == <<"data:">> \o payload \o <<NL, NL>>
Body == FlattenSeq([i \in DOMAIN Frames |-> Frame(Frames[i])]) \o Frame(Done)

\* A payload is JSON: Brace is the one that closes the whole of it, line breaks
\* are escaped, and it does not begin with "[DONE]".
SseAssumption ==
    /\ Frames \in Seq(Seq(STRING) \ {<<>>})
    /\ \A i \in DOMAIN Frames :
         /\ \A j \in DOMAIN Frames[i] : Frames[i][j] = Brace <=> j = Len(Frames[i])
         /\ NL \notin ToSet(Frames[i]) /\ Frames[i][1] # Done[1]

VARIABLES
    rest,       \* bytes not yet received
    held,       \* the decoder's trailing byte
    buffer,     \* decoded characters not yet consumed
    delivered,  \* payloads given to onEvent
    at          \* "reading", "flushing", or returned at the end or at [DONE]

vars == <<rest, held, buffer, delivered, at>>

Chars == {"data:", NL, Wide, Broken} \cup UNION {ToSet(f) : f \in ToSet(Frames)} \cup ToSet(Done)

TypeOK ==
    /\ rest \in Seq(ToSet(Body))
    /\ held \in {<<>>, <<Hi>>}
    /\ buffer \in Seq(Chars)
    /\ delivered \in Seq(Seq(Chars))
    /\ at \in {"reading", "flushing", "end", "done"}

Init ==
    /\ rest = Body
    /\ held = <<>>
    /\ buffer = <<>>
    /\ delivered = <<>>
    /\ at = "reading"

-----------------------------------------------------------------------------
\* The characters of some bytes: a pair of halves is one character, a half
\* alone is replaced.
Decoded(bytes) ==
    LET CharAt(i) ==
            CASE bytes[i] = Hi -> IF i < Len(bytes) /\ bytes[i + 1] = Lo THEN <<Wide>> ELSE <<Broken>>
              [] bytes[i] = Lo -> IF i > 1 /\ bytes[i - 1] = Hi THEN <<>> ELSE <<Broken>>
              [] OTHER -> <<bytes[i]>>
    IN  FlattenSeq([i \in 1..Len(bytes) |-> CharAt(i)])

\* decode(value, { stream: true }): a trailing first half is held back.
Decode(bytes) ==
    LET all == held \o bytes
    IN  IF Last(all) = Hi
        THEN held' = <<Hi>> /\ buffer' = buffer \o Decoded(Front(all))
        ELSE held' = <<>> /\ buffer' = buffer \o Decoded(all)

Separators == {i \in 1..(Len(buffer) - 1) : buffer[i] = NL /\ buffer[i + 1] = NL}

\* reader.read() resolves with the next chunk.
Read ==
    /\ at = "reading"
    /\ Separators = {}
    /\ \E n \in 1..Len(rest) :
        /\ Decode(SubSeq(rest, 1, n))
        /\ rest' = SubSeq(rest, n + 1, Len(rest))
    /\ UNCHANGED <<delivered, at>>

\* The body ends, complete or not: the decoder is flushed and the end counts as a boundary.
End ==
    /\ at = "reading"
    /\ Separators = {}
    /\ rest' = <<>>
    /\ held' = <<>>
    /\ buffer' = buffer \o Decoded(held) \o <<NL, NL>>
    /\ at' = "flushing"
    /\ UNCHANGED delivered

\* JSON.parse accepts nothing but a whole payload.
Parses(payload) == payload # <<>> /\ Last(payload) = Brace

Trimmed(chars) ==
    LET inner == {i \in DOMAIN chars : chars[i] # NL}
    IN  IF inner = {} THEN <<>> ELSE SubSeq(chars, Min(inner), Max(inner))

\* The rest of the buffer is thrown away with a frame.
DrainFrame_DropsRest ==
    /\ at \in {"reading", "flushing"}
    /\ Separators # {}
    /\ LET frame == Trimmed(SubSeq(buffer, 1, Min(Separators) - 1))
       IN  IF frame # <<>> /\ Tail(frame) = Done
           THEN at' = "done" /\ UNCHANGED delivered
           ELSE /\ delivered' = IF frame # <<>> THEN Append(delivered, Tail(frame)) ELSE delivered
                /\ UNCHANGED at
    /\ buffer' = <<>>
    /\ UNCHANGED <<rest, held>>

\* One round of drainFrames: the first frame leaves the buffer; [DONE] ends
\* the read, a payload that parses is delivered, anything else is skipped.
DrainFrame ==
    /\ at \in {"reading", "flushing"}
    /\ Separators # {}
    /\ LET frame == Trimmed(SubSeq(buffer, 1, Min(Separators) - 1))
           isData == frame # <<>> /\ frame[1] = "data:"
       IN  /\ at' = IF isData /\ Tail(frame) = Done THEN "done" ELSE at
           /\ delivered' = IF isData /\ Parses(Tail(frame)) THEN Append(delivered, Tail(frame)) ELSE delivered
    /\ buffer' = SubSeq(buffer, Min(Separators) + 2, Len(buffer))
    /\ UNCHANGED <<rest, held>>

\* After the last boundary of a body without [DONE] the read returns.
Return ==
    /\ at = "flushing"
    /\ Separators = {}
    /\ at' = "end"
    /\ UNCHANGED <<rest, held, buffer, delivered>>

Next == Read \/ End \/ DrainFrame \/ Return

Spec == Init /\ [][Next]_vars

-----------------------------------------------------------------------------
(* Properties *)

Sent == [i \in DOMAIN Frames |-> Decoded(Frames[i])]

\* However the body is cut into chunks, the payloads arrive whole, unaltered,
\* once and in order (the three losses listed in sse.ts:9-15), and none is
\* missing when the sentinel is reached.
ReadsTheBody == IsPrefix(delivered, Sent) /\ (at = "done" => delivered = Sent)
=============================================================================
