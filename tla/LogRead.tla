------------------------------ MODULE LogRead ------------------------------
(***************************************************************************)
(* Reading a container's log (internal/dockerx/logs.go): ContainerLogs,    *)
(* which returns a bounded list, and StreamContainerLogs, which hands each *)
(* line to the SSE writer.  Both inspect the container for a TTY, open the *)
(* log and demultiplex it with a lineSplitter; they differ in their emit   *)
(* callback and in the timeout, which may end a bounded read anywhere.     *)
(*                                                                         *)
(* tail and since only reach the Engine's URL.  The Engine is external: it *)
(* may refuse either call, and sends what it likes.                        *)
(***************************************************************************)
EXTENDS LineSplitter

CONSTANTS Stdout,    \* the stream a TTY's output is labelled with
          MaxItems   \* maxHistoricalLines

ASSUME ReadAssumption == Stdout \in Streams /\ MaxItems \in Nat \ {0}

VARIABLES
  call,       \* where the call is: "inspect", "open", "demux" or "returned"
  follow,     \* StreamContainerLogs rather than ContainerLogs
  tty,        \* what the inspect said
  items,      \* the list of lines so far
  truncated,  \* the list's own truncated flag
  result      \* what the call returned

readVars == <<call, follow, tty, items, truncated, result>>
logReadVars == <<splitterVars, readVars>>

ReadTypeOK ==
  /\ SplitterTypeOK
  /\ call \in {"inspect", "open", "demux", "returned"}
  /\ follow \in BOOLEAN /\ tty \in BOOLEAN /\ truncated \in BOOLEAN
  /\ items \in Seq(Lines)
  /\ result \in {"none", "ok", "invalid", "engine", "gone"}

ReadInit ==
  /\ SplitterInit
  /\ call = "inspect" /\ follow \in BOOLEAN /\ tty = FALSE
  /\ items = <<>> /\ truncated = FALSE /\ result = "none"

-----------------------------------------------------------------------------
\* Every return but the last one is an error, and leaves the list behind.
Return(err) ==
  /\ call' = "returned" /\ result' = err
  /\ items' = <<>> /\ truncated' = FALSE
  /\ UNCHANGED <<splitterVars, follow, tty>>

\* ValidateRef, then ContainerInspect under callTimeout.
containerUsesTTY ==
  /\ call = "inspect"
  /\ \/ /\ call' = "open" /\ tty' \in BOOLEAN
        /\ UNCHANGED <<splitterVars, follow, items, truncated, result>>
     \/ Return("invalid") \/ Return("engine")

\* engineOptions, then the call that opens the log.
OpenLog ==
  /\ call = "open"
  /\ \/ /\ call' = "demux"
        /\ UNCHANGED <<splitterVars, follow, tty, items, truncated, result>>
     \/ Return("invalid") \/ Return("engine")

\* The Engine sends a frame; a TTY's output has no headers to name a stream.
Receive(s, p) ==
  /\ call = "demux"
  /\ tty => s = Stdout
  /\ Frame(s, p)
  /\ UNCHANGED readVars

\* Mutant: the flag goes up when the list is full, not when a line is dropped.
emit_FullIsTruncated(line) ==
  /\ items' = IF Len(items) = MaxItems THEN items ELSE Append(items, line)
  /\ truncated' = (truncated \/ Len(items) + 1 >= MaxItems)

\* ContainerLogs' callback: past the cap lines are counted, not kept.
emit(line) ==
  IF Len(items) = MaxItems
  THEN truncated' = TRUE /\ UNCHANGED items
  ELSE items' = Append(items, line) /\ UNCHANGED truncated

\* A step of the demultiplexer.  A bounded list never refuses a line; the SSE
\* writer does when its client has gone.
DemuxStep ==
  /\ call = "demux"
  /\ Demux
  /\ follow \/ phase' # "gone"
  /\ IF emitted' # emitted /\ ~follow
     THEN emit(Last(emitted'))
     ELSE UNCHANGED <<items, truncated>>
  /\ UNCHANGED <<call, follow, tty, result>>

\* The demultiplexer has returned.
DemuxReturns ==
  /\ call = "demux"
  /\ \/ /\ phase = "eof"
        /\ call' = "returned" /\ result' = "ok"
        /\ UNCHANGED <<splitterVars, follow, tty, items, truncated>>
     \/ phase = "cut" /\ Return("engine")
     \/ phase = "gone" /\ Return("gone")

ReadNext ==
  \/ containerUsesTTY \/ OpenLog \/ DemuxStep \/ DemuxReturns
  \/ \E s \in Streams, p \in Payloads : Receive(s, p)

ReadSpec == ReadInit /\ [][ReadNext]_logReadVars

-----------------------------------------------------------------------------
(* Properties *)

\* Every line there was, once: stream by stream, the last one without a newline
\* included ("dropping it loses the panic message", framing.go:189-190).
Whole ==
  \A s \in Streams : EmittedOf(s) = LinesAt(s, BytesOf(s), Written(BytesOf(s)))

\* A bounded read holds the first maxHistoricalLines lines it was given, flagged
\* as truncated exactly if there were more.
ListIsPrefix ==
  /\ Len(items) <= Len(emitted) /\ items = SubSeq(emitted, 1, Len(items))
  /\ truncated <=> Len(emitted) > Len(items)
  /\ truncated => Len(items) = MaxItems

\* What a caller is told is what the container wrote.  A stream that ended in
\* order missed nothing.  A bounded read returned the first maxHistoricalLines
\* lines, flagged as truncated exactly if there were more, a line that only
\* flush found included; and no list comes with an error.
AnswerIsExact ==
  call = "returned" =>
    IF result = "ok" THEN Whole /\ (~follow => ListIsPrefix)
    ELSE items = <<>>

\* However much a container prints without a newline, or with them, the agent
\* holds at most maxLogLineBytes of each stream (push: "Enforce maxLogLineBytes
\* on the ACCUMULATING buffer") and maxHistoricalLines lines.
MemoryBounded ==
  /\ \A s \in Streams : Len(buf[s]) <= MaxLine
  /\ Len(items) <= MaxItems
=============================================================================
