---------------------------- MODULE LineSplitter ----------------------------
(***************************************************************************)
(* Splitting a container's log stream into lines (internal/dockerx:        *)
(* demuxNonTTY, demuxTTY, readFrame and the lineSplitter's push, flush and *)
(* emitLine).                                                              *)
(*                                                                         *)
(* The Engine cuts the output of a container into frames wherever it       *)
(* likes and interleaves the frames of its streams; a TTY has one stream,  *)
(* which arrives in reads of any size.  A byte is a newline, a carriage    *)
(* return or any other.  The timestamp prefix, which is cut off a line     *)
(* after all of this, is left out.                                         *)
(***************************************************************************)
EXTENDS Naturals, Sequences, SequencesExt

CONSTANTS Streams,    \* stdout and stderr; for a TTY only stdout
          NL, CR,     \* "\n" and "\r"
          Byte,       \* any other byte
          MaxLine,    \* maxLogLineBytes
          MaxFrame,   \* maxFramePayloadBytes, or the size of the read buffer
          MaxBytes    \* bound: bytes the container writes

ASSUME SplitterAssumption ==
  /\ MaxLine \in Nat \ {0} /\ MaxFrame \in Nat /\ MaxBytes \in Nat
  /\ NL # CR /\ NL # Byte /\ CR # Byte

Bytes == {NL, CR, Byte}

VARIABLES
  phase,       \* "reading", "pushing", "flushing" or the result of demux
  stream,      \* the stream of the frame being pushed
  data,        \* what is left of its payload
  buf,         \* lineState.buf
  discarding,  \* lineState.discarding
  arrived,     \* history: the bytes read, each with its stream
  emitted      \* history: the lines given to emit, each with its stream

splitterVars == <<phase, stream, data, buf, discarding, arrived, emitted>>

Results == {"eof", "cut", "gone"}
Lines == [stream : Streams, text : Seq(Bytes), truncated : BOOLEAN]

SplitterTypeOK ==
  /\ phase \in {"reading", "pushing", "flushing"} \cup Results
  /\ stream \in Streams
  /\ data \in Seq(Bytes)
  /\ buf \in [Streams -> Seq(Bytes)]
  /\ discarding \in [Streams -> BOOLEAN]
  /\ \A s \in Streams : discarding[s] => buf[s] = <<>>
  /\ arrived \in Seq([stream : Streams, byte : Bytes])
  /\ emitted \in Seq(Lines)

SplitterInit ==
  /\ phase = "reading"
  /\ stream \in Streams
  /\ data = <<>>
  /\ buf = [s \in Streams |-> <<>>]
  /\ discarding = [s \in Streams |-> FALSE]
  /\ arrived = <<>> /\ emitted = <<>>

-----------------------------------------------------------------------------
(* Reading *)

Payloads == UNION {[1..n -> Bytes] : n \in 0..MaxFrame}

\* readFrame, or a read of a TTY: the next payload.
Frame(s, p) ==
  /\ phase = "reading" /\ Len(arrived) + Len(p) <= MaxBytes
  /\ phase' = "pushing"
  /\ stream' = s /\ data' = p
  /\ arrived' = arrived \o [i \in DOMAIN p |-> [stream |-> s, byte |-> p[i]]]
  /\ UNCHANGED <<buf, discarding, emitted>>

\* The stream ends between two frames.
Eof ==
  /\ phase = "reading"
  /\ phase' = "flushing"
  /\ UNCHANGED <<stream, data, buf, discarding, arrived, emitted>>

\* It ends within one, or a header makes no sense: nothing is flushed.
Cut ==
  /\ phase = "reading"
  /\ phase' = "cut"
  /\ UNCHANGED <<stream, data, buf, discarding, arrived, emitted>>

-----------------------------------------------------------------------------
(* push, one round of its loop *)

Trim(text) ==
  IF text # <<>> /\ Last(text) = CR THEN Front(text) ELSE text

\* Mutant: one accumulator for all streams.
state_Shared(s) == CHOOSE x \in Streams : TRUE

\* lineSplitter.state: each stream has its own.
state(s) == s

\* emitLine succeeds: the line goes out and the buffer starts anew.
Emit(s, text, truncated) ==
  /\ emitted' = Append(emitted, [stream |-> s, text |-> Trim(text),
                                 truncated |-> truncated])
  /\ buf' = [buf EXCEPT ![state(s)] = <<>>]

\* emit fails, the client is gone: push or flush returns its error.
EmitFails(s, text) ==
  /\ phase' = "gone" /\ data' = <<>>
  /\ buf' = [buf EXCEPT ![state(s)] = text]
  /\ UNCHANGED <<discarding, emitted>>

\* bytes.IndexByte(data, '\n'), from 1; 0 when there is none.
NewlineIn(b) == SelectInSeq(b, LAMBDA x : x = NL)

HasNewline == NewlineIn(data) > 0

Chunk == IF HasNewline THEN SubSeq(data, 1, NewlineIn(data) - 1) ELSE data

Remaining ==
  IF HasNewline THEN SubSeq(data, NewlineIn(data) + 1, Len(data)) ELSE <<>>

\* The rest of a line that was cut is dropped.
Skip(s) == discarding' = [discarding EXCEPT ![s] = ~HasNewline]

\* Mutant: one byte too many.
Space_OffByOne(s) == MaxLine + 1 - Len(buf[s])

Space(s) == MaxLine - Len(buf[s])

\* The line was cut before its newline was seen.
Overflow(s) == discarding' = [discarding EXCEPT ![s] = ~HasNewline]

Push ==
  LET s  == stream
      st == state(s)
      room == Space(st)
  IN  /\ phase = "pushing" /\ data # <<>>
      /\ \/ /\ discarding[st]
            /\ Skip(st) /\ data' = Remaining
            /\ UNCHANGED <<phase, buf, emitted>>
         \/ /\ ~discarding[st] /\ Len(Chunk) > room
            /\ \/ /\ Emit(s, buf[st] \o SubSeq(Chunk, 1, room), TRUE)
                  /\ Overflow(st)
                  /\ data' = Remaining /\ UNCHANGED phase
               \/ EmitFails(s, buf[st] \o SubSeq(Chunk, 1, room))
         \/ /\ ~discarding[st] /\ Len(Chunk) <= room /\ HasNewline
            /\ \/ /\ Emit(s, buf[st] \o Chunk, FALSE)
                  /\ data' = Remaining /\ UNCHANGED <<phase, discarding>>
               \/ EmitFails(s, buf[st] \o Chunk)
         \/ /\ ~discarding[st] /\ Len(Chunk) <= room /\ ~HasNewline
            /\ buf' = [buf EXCEPT ![st] = @ \o Chunk]
            /\ data' = Remaining /\ UNCHANGED <<phase, discarding, emitted>>
      /\ UNCHANGED <<stream, arrived>>

Pushed ==
  /\ phase = "pushing" /\ data = <<>>
  /\ phase' = "reading"
  /\ UNCHANGED <<stream, data, buf, discarding, arrived, emitted>>

\* flush: the streams with something in their buffer, in any order.
Leftover == {s \in Streams : buf[s] # <<>>}

Flush(s) ==
  /\ phase = "flushing" /\ s \in Leftover
  /\ \/ Emit(s, buf[s], FALSE) /\ UNCHANGED <<phase, data, discarding>>
     \/ EmitFails(s, buf[s])
  /\ UNCHANGED <<stream, arrived>>

Flushed ==
  /\ phase = "flushing" /\ Leftover = {}
  /\ phase' = "eof"
  /\ UNCHANGED <<stream, data, buf, discarding, arrived, emitted>>

\* What a demux does with the frames it is given.
Demux ==
  \/ Push \/ Pushed \/ Eof \/ Cut \/ Flushed
  \/ \E s \in Streams : Flush(s)

-----------------------------------------------------------------------------
(* What the lines of a stream are, whatever frames it came in *)

\* The position after a newline, and the first, start a line.
Starts(b) == {1} \cup {i + 1 : i \in {j \in DOMAIN b : b[j] = NL}}

From(b, i) == SubSeq(b, i, Len(b))

Ended(b, i) == NewlineIn(From(b, i)) > 0

LineAt(b, i) ==
  IF Ended(b, i) THEN SubSeq(b, i, i + NewlineIn(From(b, i)) - 2) ELSE From(b, i)

\* A line is known once its newline or its first byte too many is there.
LineOf(s, b, i) ==
  LET line == LineAt(b, i)
  IN  IF Len(line) <= MaxLine
      THEN [stream |-> s, text |-> Trim(line), truncated |-> FALSE]
      ELSE [stream |-> s, text |-> Trim(SubSeq(line, 1, MaxLine)), truncated |-> TRUE]

\* The k-th of a set of positions, and what f has at them, in order.
Nth(S, k) == CHOOSE i \in {j \in S : Cardinality({x \in S : x <= j}) = k} : TRUE
InOrder(f, S) == [k \in 1..Cardinality(S) |-> f[Nth(S, k)]]

BytesOf(s) ==
  InOrder([i \in DOMAIN arrived |-> arrived[i].byte],
          {i \in DOMAIN arrived : arrived[i].stream = s})

EmittedOf(s) == InOrder(emitted, {i \in DOMAIN emitted : emitted[i].stream = s})

\* The lines of a stream that start at the given positions.
LinesAt(s, b, starts) == InOrder([i \in starts |-> LineOf(s, b, i)], starts)

\* The lines known so far, and those there are if nothing more comes: the last
\* one counts without its newline, but not without a byte.
Known(b) == {i \in Starts(b) : Ended(b, i) \/ Len(LineAt(b, i)) > MaxLine}
Written(b) == {i \in Starts(b) : Ended(b, i) \/ LineAt(b, i) # <<>>}

-----------------------------------------------------------------------------
(* Properties *)

\* The lines a client is given depend on the bytes of a stream alone, neither
\* on where the Engine cuts its frames nor on the frames of the other stream:
\* after every frame they are the lines of what has been read (push).
FramingInvisible ==
  phase = "reading" =>
    \A s \in Streams : EmittedOf(s) = LinesAt(s, BytesOf(s), Known(BytesOf(s)))

-----------------------------------------------------------------------------
(* Claims of the repository that the code does not keep *)

\* docs/API.md: stdout and stderr "are interleaved in the order the container
\* wrote them": an unfinished line that was written last is emitted last.
LastWordLast ==
  phase = "eof" /\ arrived # <<>> =>
    LET s == Last(arrived).stream
    IN  Last(arrived).byte # NL /\ ~discarding[s] => Last(emitted).stream = s
=============================================================================
