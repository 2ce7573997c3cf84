----------------------------- MODULE LogStream -----------------------------
(***************************************************************************)
(* The handler of GET /v1/containers/{id}/logs/stream                      *)
(* (internal/httpapi/logs.go), its keepalive goroutine and its SSE writer  *)
(* (sse.go), over dockerx.StreamContainerLogs and the stream budget.  Each *)
(* stream runs two goroutines that write to one http.ResponseWriter, under *)
(* the SSE writer's mutex.  A write that the client reads is one step; one *)
(* it does not read blocks, with the mutex held and, as the first frame    *)
(* clears the server's write deadline, until the connection is lost.       *)
(*                                                                         *)
(* The Engine is external: it may refuse either call, end the log, or fail *)
(* in the middle of it; a call or a read under a cancelled context fails.  *)
(* The inspect is bounded by callTimeout (15s), the first tick comes after *)
(* keepaliveInterval (20s): no tick happens before the inspect returns.    *)
(***************************************************************************)
EXTENDS StreamBudget, Sequences, FiniteSets

CONSTANT Scenarios   \* the bounds a behaviour may be under: records of the
                     \* requests there may be, of the upsets around them,
                     \* some of Upsets, and of the log lines each delivers

Upsets == {"gone", "stall", "revoke", "shutdown"}

ASSUME ScenariosAssumption ==
  Scenarios \subseteq
    [requests : Seq(Streams), upsets : SUBSET Upsets, lines : Nat]

VARIABLES
  bound,      \* the scenario
  spc,        \* where each handler is
  dev,        \* the device each request authenticated as
  inspected,  \* streams whose inspect has succeeded
  err,        \* streamErr: "none", "engine", or "gone" (a client write failed)
  ctxDone,    \* streams whose derived context the handler's goroutines cancelled
  gone,       \* streams whose client has disconnected
  stalled,    \* streams whose client no longer reads, its buffers full
  kpc,        \* where each keepalive goroutine is
  once,       \* streams whose terminalOnce has fired
  started,    \* streams whose SSE headers are committed
  wire,       \* what has been written to each response, comments left out
  revoked,    \* devices revoked in the store
  down        \* the server's lifecycle context is cancelled

streamVars == <<bound, spc, dev, inspected, err, ctxDone, gone, stalled, kpc, once,
                started, wire, revoked, down>>
vars == <<budgetVars, streamVars>>

Pcs  == {"idle", "acquire", "start", "inspect", "open", "follow", "failed",
         "blocked", "docker_error", "terminal", "cancel", "join", "release", "done"}
KPcs == {"none", "ticking", "blocked", "check", "frame", "cancel", "done"}
Writes == {"log", "revoked", "engine", "json"}
Terminals == {"revoked", "engine"}

TypeOK ==
  /\ BudgetTypeOK
  /\ bound \in Scenarios
  /\ spc \in [Streams -> Pcs]
  /\ dev \in [Streams -> Devices]
  /\ err \in [Streams -> {"none", "engine", "gone"}]
  /\ inspected \subseteq Streams /\ ctxDone \subseteq Streams
  /\ gone \subseteq Streams /\ stalled \subseteq Streams
  /\ once \subseteq Streams /\ started \subseteq Streams
  /\ kpc \in [Streams -> KPcs]
  /\ wire \in [Streams -> Seq(Writes)]
  /\ revoked \subseteq Devices
  /\ down \in BOOLEAN

Init ==
  /\ BudgetInit
  /\ bound \in Scenarios
  /\ spc = [s \in Streams |-> "idle"]
  /\ dev \in [Streams -> Devices]
  /\ err = [s \in Streams |-> "none"]
  /\ inspected = {} /\ ctxDone = {} /\ gone = {} /\ stalled = {}
  /\ once = {} /\ started = {}
  /\ kpc = [s \in Streams |-> "none"]
  /\ wire = [s \in Streams |-> <<>>]
  /\ revoked = {}
  /\ down = FALSE

-----------------------------------------------------------------------------
RequestDone(s) == s \in gone \/ down
CtxDone(s)     == s \in ctxDone \/ RequestDone(s)

Goto(s, l) == spc' = [spc EXCEPT ![s] = l]

\* A write to the connection returns: the client takes it, or has left.
CanWrite(s) == s \notin stalled \/ s \in gone

\* sse.event and sse.comment: the first frame commits the response.  A write
\* to a client that has left is lost.
Frame(s, k) ==
  /\ started' = started \cup {s}
  /\ wire' = IF RequestDone(s) THEN wire ELSE [wire EXCEPT ![s] = Append(@, k)]

\* Mutant: no terminalOnce.
TerminalOnce_Repeats(s, k) ==
  CanWrite(s) /\ once' = once \cup {s} /\ Frame(s, k)

\* terminalOnce.Do around a terminal frame.
TerminalOnce(s, k) ==
  /\ s \in once \/ CanWrite(s)
  /\ once' = once \cup {s}
  /\ IF s \in once THEN UNCHANGED <<started, wire>> ELSE Frame(s, k)

envVars == <<bound, dev, gone, stalled, revoked, down>>
sseVars == <<once, started, wire>>

-----------------------------------------------------------------------------
(* The handler *)

\* requireDevice admits the request; a bad since parameter ends it before it
\* takes a slot.  Which request is the first makes no difference, so the
\* scenario may say.
Open(s) ==
  /\ spc[s] = "idle"
  /\ LET n == Cardinality({q \in Streams : spc[q] # "idle"}) + 1
     IN  n <= Len(bound.requests) /\ s = bound.requests[n]
  /\ dev[s] \notin revoked
  /\ Goto(s, "acquire") \/ Goto(s, "done")
  /\ UNCHANGED <<budgetVars, envVars, sseVars, inspected, err, ctxDone, kpc>>

Granted(s) ==
  /\ spc[s] = "acquire"
  /\ acquire(dev[s])
  /\ Goto(s, "start")
  /\ UNCHANGED <<envVars, sseVars, inspected, err, ctxDone, kpc>>

\* streamDeviceFull and streamHostFull: 503.
Refused(s) ==
  /\ spc[s] = "acquire"
  /\ DeviceFull(dev[s]) \/ HostFull
  /\ Goto(s, "done")
  /\ UNCHANGED <<budgetVars, envVars, sseVars, inspected, err, ctxDone, kpc>>

StartKeepalive(s) ==
  /\ spc[s] = "start"
  /\ kpc' = [kpc EXCEPT ![s] = "ticking"]
  /\ Goto(s, "inspect")
  /\ UNCHANGED <<budgetVars, envVars, sseVars, inspected, err, ctxDone>>

\* StreamContainerLogs stops with an error.
Fails(s, e) == err' = [err EXCEPT ![s] = e] /\ Goto(s, "failed")

\* containerUsesTTY: a bad reference, an unknown container, an Engine fault.
Inspect(s) ==
  /\ spc[s] = "inspect"
  /\ \/ /\ ~CtxDone(s)
        /\ inspected' = inspected \cup {s}
        /\ Goto(s, "open") /\ UNCHANGED err
     \/ Fails(s, "engine") /\ UNCHANGED inspected
  /\ UNCHANGED <<budgetVars, envVars, sseVars, ctxDone, kpc>>

\* The ContainerLogs call, which has no timeout of its own.
OpenLogs(s) ==
  /\ spc[s] = "open"
  /\ \/ ~CtxDone(s) /\ Goto(s, "follow") /\ UNCHANGED err
     \/ Fails(s, "engine")
  /\ UNCHANGED <<budgetVars, envVars, sseVars, inspected, ctxDone, kpc>>

Lines(s) == Len(SelectSeq(wire[s], LAMBDA w : w = "log"))

\* One log line.  A write to a client that has gone fails, sooner or later,
\* and demux returns emit's error.
Emit(s) ==
  /\ spc[s] = "follow"
  /\ CanWrite(s)
  /\ \/ /\ Lines(s) < bound.lines
        /\ Frame(s, "log") /\ UNCHANGED <<spc, err>>
     \/ /\ RequestDone(s)
        /\ started' = started \cup {s}
        /\ Fails(s, "gone") /\ UNCHANGED wire
  /\ UNCHANGED <<budgetVars, envVars, inspected, ctxDone, kpc, once>>

\* A line the client does not read: emit holds the SSE writer's mutex and
\* StreamContainerLogs does not get to see its context.
EmitBlocks(s) ==
  /\ spc[s] = "follow"
  /\ ~CanWrite(s) /\ Lines(s) < bound.lines
  /\ started' = started \cup {s}
  /\ Goto(s, "blocked")
  /\ UNCHANGED <<budgetVars, envVars, inspected, err, ctxDone, kpc, once, wire>>

\* The connection is lost, and the write with it.
EmitReturns(s) ==
  /\ spc[s] = "blocked"
  /\ CanWrite(s)
  /\ Fails(s, "gone")
  /\ UNCHANGED <<budgetVars, envVars, sseVars, inspected, ctxDone, kpc>>

\* The container stopped: demux returns nil.
LogEnds(s) ==
  /\ spc[s] = "follow"
  /\ Goto(s, "cancel")
  /\ UNCHANGED <<budgetVars, envVars, sseVars, inspected, err, ctxDone, kpc>>

\* The Engine connection broke.
EngineFails(s) ==
  /\ spc[s] = "follow"
  /\ Fails(s, "engine")
  /\ UNCHANGED <<budgetVars, envVars, sseVars, inspected, ctxDone, kpc>>

\* A read under a cancelled context fails.
ReadCancelled(s) ==
  /\ spc[s] = "follow"
  /\ CtxDone(s)
  /\ Fails(s, "engine")
  /\ UNCHANGED <<budgetVars, envVars, sseVars, inspected, ctxDone, kpc>>

\* Started(), which takes the mutex, then isClientGone(ctx, streamErr).
Classify(s) ==
  /\ spc[s] = "failed"
  /\ kpc[s] # "blocked"
  /\ Goto(s, CASE s \notin started -> "docker_error"
               [] s \in started /\ (CtxDone(s) \/ err[s] = "gone") -> "cancel"
               [] OTHER -> "terminal")
  /\ UNCHANGED <<budgetVars, envVars, sseVars, inspected, err, ctxDone, kpc>>

\* Mutant: the error path returns without giving its slot back.
WriteDockerError_Leaks(s) ==
  /\ spc[s] = "docker_error"
  /\ Goto(s, "done")
  /\ UNCHANGED <<budgetVars, envVars, sseVars, inspected, err, ctxDone, kpc>>

\* writeDockerError writes to the ResponseWriter itself, past the SSE writer
\* and its mutex, and under the server's write timeout if no frame came first.
WriteDockerError(s) ==
  /\ spc[s] = "docker_error"
  /\ s \notin started \/ CanWrite(s)
  /\ wire' = IF RequestDone(s) \/ s \in stalled THEN wire
             ELSE [wire EXCEPT ![s] = Append(@, "json")]
  /\ Goto(s, "cancel")
  /\ UNCHANGED <<budgetVars, envVars, inspected, err, ctxDone, kpc, once, started>>

TerminalFrame(s) ==
  /\ spc[s] = "terminal"
  /\ TerminalOnce(s, "engine")
  /\ Goto(s, "cancel")
  /\ UNCHANGED <<budgetVars, envVars, inspected, err, ctxDone, kpc>>

-----------------------------------------------------------------------------
(* The deferred calls, last in first out: cancel, wg.Wait, release *)

Cancel(s) ==
  /\ spc[s] = "cancel"
  /\ ctxDone' = ctxDone \cup {s}
  /\ Goto(s, "join")
  /\ UNCHANGED <<budgetVars, envVars, sseVars, inspected, err, kpc>>

\* Mutant: the handler does not wait for its keepalive goroutine.
Join_NoWait(s) ==
  /\ spc[s] = "join"
  /\ Goto(s, "release")
  /\ UNCHANGED <<budgetVars, envVars, sseVars, inspected, err, ctxDone, kpc>>

Join(s) ==
  /\ spc[s] = "join"
  /\ kpc[s] = "done"
  /\ Goto(s, "release")
  /\ UNCHANGED <<budgetVars, envVars, sseVars, inspected, err, ctxDone, kpc>>

Release(s) ==
  /\ spc[s] = "release"
  /\ release(s, dev[s])
  /\ Goto(s, "done")
  /\ UNCHANGED <<envVars, sseVars, inspected, err, ctxDone, kpc>>

-----------------------------------------------------------------------------
(* The keepalive goroutine *)

KGoto(s, l) == kpc' = [kpc EXCEPT ![s] = l]

\* A tick: the comment commits the response if nothing has yet.
Keepalive(s) ==
  /\ kpc[s] = "ticking"
  /\ s \in inspected
  /\ CanWrite(s)
  /\ started' = started \cup {s}
  /\ KGoto(s, "check")
  /\ UNCHANGED <<budgetVars, envVars, spc, inspected, err, ctxDone, once, wire>>

\* A comment the client does not read, or that waits for the mutex behind a
\* line it does not read: the revocation check does not come.
KeepaliveBlocks(s) ==
  /\ kpc[s] = "ticking"
  /\ s \in inspected
  /\ ~CanWrite(s)
  /\ started' = started \cup {s}
  /\ KGoto(s, "blocked")
  /\ UNCHANGED <<budgetVars, envVars, spc, inspected, err, ctxDone, once, wire>>

KeepaliveReturns(s) ==
  /\ kpc[s] = "blocked"
  /\ CanWrite(s)
  /\ KGoto(s, "check")
  /\ UNCHANGED <<budgetVars, envVars, sseVars, spc, inspected, err, ctxDone>>

streamRevoked(s) ==
  /\ kpc[s] = "check"
  /\ KGoto(s, IF dev[s] \in revoked THEN "frame" ELSE "ticking")
  /\ UNCHANGED <<budgetVars, envVars, sseVars, spc, inspected, err, ctxDone>>

\* streamRevoked again: a failed lookup leaves the stream alone until the
\* next tick.
LookupFails(s) ==
  /\ kpc[s] = "check"
  /\ KGoto(s, "ticking")
  /\ UNCHANGED <<budgetVars, envVars, sseVars, spc, inspected, err, ctxDone>>

RevokedFrame(s) ==
  /\ kpc[s] = "frame"
  /\ TerminalOnce(s, "revoked")
  /\ KGoto(s, "cancel")
  /\ UNCHANGED <<budgetVars, envVars, spc, inspected, err, ctxDone>>

\* Mutant: the frame is sent and the stream goes on.
RevokedCancel_FrameOnly(s) ==
  /\ kpc[s] = "cancel"
  /\ KGoto(s, "done")
  /\ UNCHANGED <<budgetVars, envVars, sseVars, spc, inspected, err, ctxDone>>

RevokedCancel(s) ==
  /\ kpc[s] = "cancel"
  /\ ctxDone' = ctxDone \cup {s}
  /\ KGoto(s, "done")
  /\ UNCHANGED <<budgetVars, envVars, sseVars, spc, inspected, err>>

KeepaliveDone(s) ==
  /\ kpc[s] = "ticking"
  /\ CtxDone(s)
  /\ KGoto(s, "done")
  /\ UNCHANGED <<budgetVars, envVars, sseVars, spc, inspected, err, ctxDone>>

-----------------------------------------------------------------------------
(* The environment *)

ClientGone(s) ==
  /\ "gone" \in bound.upsets
  /\ spc[s] \notin {"idle", "done"}
  /\ s \notin gone
  /\ gone' = gone \cup {s}
  /\ UNCHANGED <<budgetVars, sseVars, bound, spc, dev, inspected, err, ctxDone, kpc,
                 stalled, revoked, down>>

\* The client stays connected and stops reading.
Stall(s) ==
  /\ "stall" \in bound.upsets
  /\ spc[s] \notin {"idle", "done"}
  /\ s \notin stalled \cup gone
  /\ stalled' = stalled \cup {s}
  /\ UNCHANGED <<budgetVars, sseVars, bound, spc, dev, inspected, err, ctxDone, kpc,
                 gone, revoked, down>>

Revoke(d) ==
  /\ "revoke" \in bound.upsets
  /\ d \notin revoked
  /\ revoked' = revoked \cup {d}
  /\ UNCHANGED <<budgetVars, sseVars, bound, spc, dev, inspected, err, ctxDone, kpc,
                 gone, stalled, down>>

Shutdown ==
  /\ "shutdown" \in bound.upsets
  /\ ~down
  /\ down' = TRUE
  /\ UNCHANGED <<budgetVars, sseVars, bound, spc, dev, inspected, err, ctxDone, kpc,
                 gone, stalled, revoked>>

-----------------------------------------------------------------------------
HandlerStep(s) ==
  \/ Granted(s) \/ Refused(s) \/ StartKeepalive(s) \/ Inspect(s) \/ OpenLogs(s)
  \/ EmitReturns(s) \/ ReadCancelled(s) \/ Classify(s) \/ WriteDockerError(s) \/ TerminalFrame(s)
  \/ Cancel(s) \/ Join(s) \/ Release(s)

KeepaliveStep(s) ==
  \/ Keepalive(s) \/ KeepaliveBlocks(s) \/ KeepaliveReturns(s)
  \/ streamRevoked(s) \/ LookupFails(s)
  \/ RevokedFrame(s) \/ RevokedCancel(s) \/ KeepaliveDone(s)

Next ==
  \/ \E s \in Streams :
       \/ Open(s) \/ HandlerStep(s) \/ KeepaliveStep(s) \/ ClientGone(s)
       \/ Stall(s) \/ Emit(s) \/ EmitBlocks(s) \/ LogEnds(s) \/ EngineFails(s)
  \/ \E d \in Devices : Revoke(d)
  \/ Shutdown

Spec == Init /\ [][Next]_vars

\* Goroutines are scheduled and the ticker keeps firing.  The inspect is
\* bounded by its timeout; opening the log is not, and is only sure to return
\* once the context is cancelled.  A select that can see the cancelled
\* context again and again, and a lookup tried again and again, succeed.
Fairness ==
  \A s \in Streams :
    /\ WF_vars(HandlerStep(s) /\ (spc[s] = "open" => CtxDone(s)))
    /\ WF_vars(KeepaliveStep(s))
    /\ SF_vars(streamRevoked(s)) /\ SF_vars(KeepaliveDone(s))

FairSpec == Spec /\ Fairness

-----------------------------------------------------------------------------
(* Properties *)

Holding(s) == spc[s] \in {"start", "inspect", "open", "follow", "blocked",
                          "failed", "docker_error", "terminal", "cancel", "join",
                          "release"}

\* The budget counts exactly the streams that are running, in all and for
\* each device: no path through the handler leaks a slot or returns one
\* twice ("a slot leaked on an error path is permanent"); and whatever
\* requests race for them, neither the host nor a device runs more than its
\* cap.
SlotsAccounted ==
  /\ total = Cardinality({s \in Streams : Holding(s)})
  /\ total <= maxTotal
  /\ \A d \in Devices :
       /\ byDevice[d] = Cardinality({s \in Streams : Holding(s) /\ dev[s] = d})
       /\ byDevice[d] <= maxPerDevice

\* A revocation tick and an Engine fault that coincide leave one terminal
\* frame on the wire, not two.
OneTerminalFrame ==
  \A s \in Streams : \A i, j \in DOMAIN wire[s] :
    wire[s][i] \in Terminals /\ wire[s][j] \in Terminals => i = j

\* Once the handler gives its slot back and returns, its keepalive goroutine
\* is gone: nothing writes to a ResponseWriter the server may have reused.
NoWriterLeftBehind ==
  \A s \in Streams : spc[s] \in {"release", "done"} =>
    kpc[s] \in {"none", "done"}

\* A stream whose client left, whose device was revoked, or that shutdown
\* cancelled comes to its end and frees its slot, even if the Engine stalls;
\* only a client that stays connected and does not read can hold it up, and
\* only until the connection is lost.
StreamsEnd ==
  \A s \in Streams :
    (Holding(s) /\ (CtxDone(s) \/ dev[s] \in revoked))
      ~> (spc[s] = "done" \/ ~CanWrite(s))

-----------------------------------------------------------------------------
(* Claims of the repository that the code does not keep *)

\* sse.go: Started() decides "between writeDockerError (nothing sent yet) and
\* a terminal event: error frame": a JSON error body is never written to a
\* response that is already an event stream.
OneProtocol ==
  \A s \in Streams : s \in started => \A i \in DOMAIN wire[s] : wire[s][i] # "json"

\* logs.go: without the check on every tick "a device revoked mid-stream would
\* keep receiving log lines forever": a revoked device's stream ends and frees
\* its slot.  One whose client does not read keeps both: the tick's comment
\* blocks and the check is not reached.
RevokedStreamsEnd ==
  \A s \in Streams :
    (Holding(s) /\ dev[s] \in revoked) ~> (spc[s] = "done")
=============================================================================
