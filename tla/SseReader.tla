-------------------------------- MODULE SseReader --------------------------------
(***************************************************************************)
(* How a streamed answer of a provider becomes a response: the reader      *)
(* tasks of llm/openai_compat.rs and llm/anthropic.rs.  The body arrives   *)
(* in chunks that end anywhere, within a line or within a character; it    *)
(* may be cut, or outgrow the buffer.  Complete lines are taken from the   *)
(* buffer one by one, their texts appended and sent on, and the parts of   *)
(* tool calls gathered by index, before the next chunk is awaited.  (The   *)
(* Anthropic reader takes all complete lines out before it looks at the    *)
(* first, which nobody else can tell.)                                     *)
(*                                                                         *)
(* A line is what it says: a text, a part of a tool call, the end marker,  *)
(* or noise (no "data: " prefix, not JSON, an event of another type).  Of  *)
(* its bytes the model keeps one for its text, two for a character outside *)
(* ASCII if it has one, and those of the line's end.                       *)
(***************************************************************************)
EXTENDS Naturals, Sequences, SequencesExt, FiniteSetsExt, Functions

CONSTANTS
  Bodies,     \* the answers: [reader, lines]
  Missing,    \* a field of a tool call's part that is absent, and null
  BufferCap   \* MAX_BUFFER_SIZE, in bytes of the model

ASSUME SseAssumption ==
  /\ BufferCap \in Nat \ {0}
  /\ \A b \in Bodies :
       /\ b.reader \in {"openai", "anthropic"}
       /\ b.lines \in Seq(Range(b.lines))
       /\ \A i \in DOMAIN b.lines :
            /\ b.lines[i].type \in {"text", "part", "end", "noise"}
            /\ b.lines[i].type = "part" => b.lines[i].index \in Nat

VARIABLES
  body,      \* the answer that is read
  received,  \* how many of its bytes have arrived
  buffer,    \* the reader's buffer
  fullText,  \* full_text: [line, damaged] for each text
  calls,     \* tc_acc: [id, name, args] by index
  reading,   \* "open", "done" (end marker), "cut", "overflow"
  response,  \* the Done event, or Missing
  decoded    \* history: the lines taken from the buffer

sseVars == <<body, received, buffer, fullText, calls, reading, response, decoded>>

-----------------------------------------------------------------------------
Byte(i, kind) == [line |-> i, kind |-> kind]

\* The bytes of the i-th line of a body.
LineBytes(line, i) ==
  <<Byte(i, "text")>>
    \o (IF line.wide THEN <<Byte(i, "lead"), Byte(i, "trail")>> ELSE <<>>)
    \o (IF line.crlf THEN <<Byte(i, "cr"), Byte(i, "lf")>> ELSE <<Byte(i, "lf")>>)

Bytes == FlattenSeq([i \in DOMAIN body.lines |-> LineBytes(body.lines[i], i)])

\* String::from_utf8_lossy: a character that the chunk does not hold whole
\* becomes a replacement character, on either side of the cut.
Lossy(chunk) ==
  [k \in DOMAIN chunk |->
     IF \/ chunk[k].kind = "lead" /\ k = Len(chunk)
        \/ chunk[k].kind = "trail" /\ k = 1
       THEN Byte(chunk[k].line, "replacement") ELSE chunk[k]]

\* The OpenAI reader keeps a String, the Anthropic reader bytes.
Decode(chunk) == IF body.reader = "openai" THEN Lossy(chunk) ELSE chunk

Ends(buf) == {k \in DOMAIN buf : buf[k].kind = "lf"}

NewCall == [id |-> "", name |-> "", args |-> <<>>]

Or(field, old) == IF field = Missing THEN old ELSE field

More(args, part) == IF part = Missing THEN args ELSE Append(args, part)

At(acc, index) == IF index \in DOMAIN acc THEN acc[index] ELSE NewCall

With(acc, index, call) == [k \in DOMAIN acc \cup {index} |->
                             IF k = index THEN call ELSE acc[k]]

\* Mutation: every part of a call starts it anew.
GatherAnew(acc, part) ==
  With(acc, part.index,
       [id |-> Or(part.id, ""), name |-> Or(part.name, ""), args |-> More(<<>>, part.args)])

\* A part of a tool call.  OpenAI: an id or a name replaces, arguments are
\* appended; Anthropic: the start of a block replaces the call, a delta
\* appends to its arguments.
Gather(acc, part) ==
  LET old == At(acc, part.index)
  IN  With(acc, part.index,
        IF body.reader = "anthropic" /\ part.id # Missing
          THEN [id |-> part.id, name |-> Or(part.name, ""), args |-> <<>>]
          ELSE [id |-> Or(part.id, old.id), name |-> Or(part.name, old.name),
                args |-> More(old.args, part.args)])

\* The elements of a set of numbers in order.
Ascending(S) ==
  [k \in 1 .. Cardinality(S) |->
     CHOOSE i \in S : Cardinality({j \in S : j < i}) = k - 1]

SortedKeys(acc) == Ascending(DOMAIN acc)

\* serde_json::from_str(&args).unwrap_or(Null): only whole arguments parse.
Parsed(args) ==
  IF args # <<>> /\ args[1] = "{" /\ args[Len(args)] = "}" THEN args ELSE Missing

\* finalize_stream_response
FinalizeStream(text, acc) ==
  [text |-> text,
   calls |-> [k \in DOMAIN SortedKeys(acc) |->
                LET call == acc[SortedKeys(acc)[k]]
                IN  [call EXCEPT !.args = Parsed(@)]]]

SseInit ==
  /\ body \in Bodies
  /\ received = 0 /\ buffer = <<>>
  /\ fullText = <<>> /\ calls = <<>>
  /\ reading = "open" /\ response = Missing /\ decoded = 0

-----------------------------------------------------------------------------
\* response.chunk() yields the next bytes.
ReceiveChunk(size) ==
  /\ reading = "open" /\ Ends(buffer) = {}
  /\ received + size <= Len(Bytes)
  /\ received' = received + size
  /\ buffer' = buffer \o Decode(SubSeq(Bytes, received + 1, received + size))
  /\ reading' = IF Len(buffer') > BufferCap THEN "overflow" ELSE "open"
  /\ UNCHANGED <<body, fullText, calls, response, decoded>>

\* The first complete line leaves the buffer and is read: a text is appended (and
\* sent on), a part gathered, and the end marker ends both loops.  A line of which
\* the beginning is gone has no "data: " prefix.
ReadLine ==
  /\ reading = "open" /\ Ends(buffer) # {}
  /\ LET end   == Min(Ends(buffer))
         taken == SubSeq(buffer, 1, end)
         i     == taken[end].line
         type  == IF taken[1] = Byte(i, "text") THEN body.lines[i].type ELSE "noise"
     IN  /\ buffer' = SubSeq(buffer, end + 1, Len(buffer))
         /\ decoded' = decoded + 1
         /\ fullText' = IF type = "text"
                          THEN Append(fullText, [line |-> i,
                                                 damaged |-> Byte(i, "replacement") \in Range(taken)])
                          ELSE fullText
         /\ calls' = IF type = "part" THEN Gather(calls, body.lines[i]) ELSE calls
         /\ reading' = IF type = "end" THEN "done" ELSE "open"
  /\ UNCHANGED <<body, received, response>>

\* The body ends, or the connection breaks: both end the loop.
BodyEnds ==
  /\ reading = "open" /\ Ends(buffer) = {}
  /\ reading' = "cut"
  /\ UNCHANGED <<body, received, buffer, fullText, calls, response, decoded>>

\* After the loop: the response is sent, whatever ended it.
SendDone ==
  /\ reading # "open"
  /\ response = Missing
  /\ response' = FinalizeStream(fullText, calls)
  /\ UNCHANGED <<body, received, buffer, fullText, calls, reading, decoded>>

SseNext ==
  \/ \E size \in 1 .. Len(Bytes) : ReceiveChunk(size)
  \/ ReadLine \/ BodyEnds
  \/ SendDone

SseSpec == SseInit /\ [][SseNext]_sseVars

-----------------------------------------------------------------------------
\* The lines of which all bytes are among the first ones of the body.
Complete(bytes) ==
  LET all == Bytes
  IN  {i \in DOMAIN body.lines : \A k \in DOMAIN all : all[k].line = i => k <= bytes}

\* Those of the first lines that come before an end marker.
BeforeEnd(count) == {i \in 1 .. count : \A e \in 1 .. i : body.lines[e].type # "end"}

TextLines(count) == {i \in BeforeEnd(count) : body.lines[i].type = "text"}

\* The parts of a call.  With Anthropic a block that starts makes a call anew.
Restarts(i) == body.reader = "anthropic" /\ body.lines[i].id # Missing

Parts(index, count) ==
  LET all == {i \in BeforeEnd(count) : body.lines[i].type = "part" /\ body.lines[i].index = index}
  IN  {i \in all : \A s \in all : Restarts(s) => s <= i}

CallIndices(count) ==
  {body.lines[i].index : i \in {j \in BeforeEnd(count) : body.lines[j].type = "part"}}

\* A call is its latest id and name, and all its arguments in order.
Call(index, count) ==
  LET parts == Parts(index, count)
      ids   == {i \in parts : body.lines[i].id # Missing}
      names == {i \in parts : body.lines[i].name # Missing}
      given == Ascending({i \in parts : ~Restarts(i) /\ body.lines[i].args # Missing})
  IN  [id   |-> IF ids = {} THEN "" ELSE body.lines[Max(ids)].id,
       name |-> IF names = {} THEN "" ELSE body.lines[Max(names)].name,
       args |-> [k \in DOMAIN given |-> body.lines[given[k]].args]]

\* What the first lines of a body say, read at once.
Reference(count) ==
  LET texts == Ascending(TextLines(count))
      order == Ascending(CallIndices(count))
  IN  [text  |-> [k \in DOMAIN texts |-> [line |-> texts[k], damaged |-> FALSE]],
       calls |-> [k \in DOMAIN order |->
                    [Call(order[k], count) EXCEPT !.args = Parsed(@)]]]

(* However the body is cut into chunks, within lines, between the bytes of  *)
(* a line's end or within a character, the response is what the lines       *)
(* received so far say when they are read at once: no line is lost or read  *)
(* twice, no character is damaged, parts of interleaved calls are not mixed *)
(* and the calls come in the order of their indices.  With the end marker   *)
(* it is the response of the whole body; a cut connection, and only that or *)
(* an overflow, makes it the response of a shorter one, in which a call     *)
(* that was cut has null for its arguments                                  *)
(* (openai_compat.rs, lines 157-223; anthropic.rs, lines 164-287).          *)
AnswerIsPrefix ==
  /\ FinalizeStream(fullText, calls) = Reference(decoded)
  /\ reading \in {"open", "cut"} /\ Ends(buffer) = {} => Complete(received) = 1 .. decoded
  /\ response # Missing =>
       response = Reference(IF reading = "done" THEN Len(body.lines) ELSE decoded)
=============================================================================
