---------------------------- MODULE EventStream ----------------------------
(***************************************************************************)
(* The handler of GET /v1/events (internal/httpapi/events.go) on top of    *)
(* the hub, with the one-stream-per-device registry (eventregistry.go) and *)
(* the heartbeat goroutine that re-checks revocation.  Each stream runs    *)
(* two goroutines, the handler and its heartbeat; a select with several    *)
(* ready cases takes any of them.                                          *)
(*                                                                         *)
(* Both write under the SSE writer's mutex (sse.go).  A write that the     *)
(* client reads is one step; one it does not read blocks, with the mutex   *)
(* held and, as the first frame clears the server's write deadline, until  *)
(* the connection is lost.                                                 *)
(***************************************************************************)
EXTENDS EventHub, Integers

CONSTANTS Devices, NoStream

ASSUME NoStreamAssumption == NoStream \notin Streams

VARIABLES
  spc,         \* where each handler is
  dev,         \* the device each request authenticated as
  active,      \* registry: the stream each device's slot belongs to
  old,         \* the stream a registration evicted
  run,         \* the run whose ready and failed channels attach captured
  superseded,  \* streams whose superseded channel is closed
  ctxDone,     \* streams whose derived context was cancelled by the agent
  gone,        \* streams whose client has disconnected
  stalled,     \* streams whose client no longer reads, its buffers full
  seen,        \* the events in the snapshot each handler has got, or -1
  hb,          \* where each heartbeat goroutine is
  once,        \* streams whose terminal-frame Once has fired
  wire,        \* the SSE frames written so far
  refused,     \* streams whose attach failed because the run had failed
  revoked      \* devices revoked in the store

streamVars == <<bound, spc, dev, active, old, run, superseded, ctxDone, gone,
                stalled, seen, hb, once, wire, refused, revoked>>
vars == <<hubVars, streamVars>>

StreamPcs == {"idle", "supersede", "evict", "attach", "wait", "states",
              "snapshot", "loop", "blocked", "detach", "lastgone", "release",
              "join", "done"}
Beats == {"none", "ticking", "blocked", "frame", "cancel", "done"}
Terminals == {"engine", "lagged", "superseded", "revoked"}
Frames == [kind : {"snapshot", "health"} \cup Terminals, n : 0..MaxEvents]

TypeOK ==
  /\ HubTypeOK
  /\ spc \in [Streams -> StreamPcs]
  /\ dev \in [Streams -> Devices]
  /\ active \in [Devices -> Streams \cup {NoStream}]
  /\ old \in [Streams -> Streams \cup {NoStream}]
  /\ run \in [Streams -> 0..MaxRuns]
  /\ superseded \subseteq Streams /\ ctxDone \subseteq Streams
  /\ gone \subseteq Streams /\ stalled \subseteq Streams
  /\ once \subseteq Streams /\ refused \subseteq Streams
  /\ seen \in [Streams -> -1..MaxEvents]
  /\ \A s \in Streams : spc[s] = "snapshot" => seen[s] >= 0
  /\ hb \in [Streams -> Beats]
  /\ wire \in [Streams -> Seq(Frames)]
  /\ revoked \subseteq Devices

Init ==
  /\ HubInit
  /\ spc = [s \in Streams |-> "idle"]
  /\ dev \in [Streams -> Devices]
  /\ active = [d \in Devices |-> NoStream]
  /\ old = [s \in Streams |-> NoStream]
  /\ run = [s \in Streams |-> 0]
  /\ superseded = {} /\ ctxDone = {} /\ gone = {} /\ stalled = {}
  /\ once = {} /\ refused = {} /\ revoked = {}
  /\ seen = [s \in Streams |-> -1]
  /\ hb = [s \in Streams |-> "none"]
  /\ wire = [s \in Streams |-> <<>>]

-----------------------------------------------------------------------------
\* r.Context(): cancelled by a disconnect or by server shutdown.
RequestDone(s) == s \in gone \/ down
\* Mutant: the handler watches the request's context only.
CtxDone_RequestOnly(s) == RequestDone(s)
\* The handler's derived ctx: also cancelled by eviction and revocation.
CtxDone(s) == s \in ctxDone \/ RequestDone(s)

Goto(s, l) == spc' = [spc EXCEPT ![s] = l]
Frame(k, i) == [kind |-> k, n |-> i]

\* A write to the connection returns: the client takes it, or has left.
CanWrite(s) == s \notin stalled \/ s \in gone

\* terminalFrame: through a Once, and only while the client is listening.
Terminal(s, k) ==
  /\ s \in once \/ RequestDone(s) \/ CanWrite(s)
  /\ once' = once \cup {s}
  /\ wire' = IF s \in once \/ RequestDone(s) THEN wire
             ELSE [wire EXCEPT ![s] = Append(@, Frame(k, 0))]

\* The variables a step in the middle of the handler leaves alone.
idVars == <<bound, dev, active, old, gone, stalled, seen, refused, revoked>>

-----------------------------------------------------------------------------
(* Registration and attachment *)

\* requireDevice admits the request; register swaps the device's slot.  Which
\* stream is the first makes no difference, so the scenario may say.
Open(s) ==
  /\ spc[s] = "idle"
  /\ LET n == Cardinality({q \in Streams : spc[q] # "idle"}) + 1
     IN  n <= Len(bound.streams) /\ s = bound.streams[n]
  /\ dev[s] \notin revoked
  /\ active' = [active EXCEPT ![dev[s]] = s]
  /\ old' = [old EXCEPT ![s] = active[dev[s]]]
  /\ Goto(s, IF active[dev[s]] = NoStream THEN "attach" ELSE "supersede")
  /\ UNCHANGED <<hubVars, bound, dev, run, superseded, ctxDone, gone, stalled, seen,
                 hb, once, wire, refused, revoked>>

\* register after its unlock: close(old.superseded), then old.cancel().
CloseSuperseded(s) ==
  /\ spc[s] = "supersede"
  /\ superseded' = superseded \cup {old[s]}
  /\ Goto(s, "evict")
  /\ UNCHANGED <<hubVars, idVars, run, ctxDone, hb, once, wire>>

Evict(s) ==
  /\ spc[s] = "evict"
  /\ ctxDone' = ctxDone \cup {old[s]}
  /\ Goto(s, "attach")
  /\ UNCHANGED <<hubVars, idVars, run, superseded, hb, once, wire>>

Attach(s) ==
  /\ spc[s] = "attach"
  /\ AttachLocked(s)
  /\ run' = [run EXCEPT ![s] = cur']
  /\ Goto(s, "wait")
  /\ UNCHANGED <<idVars, superseded, ctxDone, hb, once, wire>>

\* attach's select.  Both error cases detach before returning.
AttachWait(s) ==
  /\ spc[s] = "wait"
  /\ \/ /\ run[s] \in ready
        /\ Goto(s, "states") /\ UNCHANGED refused
     \/ /\ run[s] \in failed
        /\ Goto(s, "detach") /\ refused' = refused \cup {s}
     \/ /\ CtxDone(s)
        /\ Goto(s, "detach") /\ UNCHANGED refused
  /\ UNCHANGED <<hubVars, bound, dev, active, old, gone, stalled, seen, revoked, run,
                 superseded, ctxDone, hb, once, wire>>

-----------------------------------------------------------------------------
(* The stream *)

\* The Engine may refuse the list at any time; under a cancelled context it
\* always does.
ContainerStates(s) ==
  /\ spc[s] = "states"
  /\ \/ /\ ~CtxDone(s)
        /\ seen' = [seen EXCEPT ![s] = ver]
        /\ Goto(s, "snapshot")
     \/ Goto(s, "detach") /\ UNCHANGED seen
  /\ UNCHANGED <<hubVars, bound, dev, active, old, gone, stalled, refused, revoked,
                 run, superseded, ctxDone, hb, once, wire>>

\* The snapshot is the first frame on the wire; then the heartbeat goroutine
\* starts.
Snapshot(s) ==
  /\ spc[s] = "snapshot"
  /\ \/ /\ CanWrite(s)
        /\ wire' = [wire EXCEPT ![s] = Append(@, Frame("snapshot", seen[s]))]
        /\ hb' = [hb EXCEPT ![s] = "ticking"]
        /\ Goto(s, "loop")
     \/ /\ s \in gone
        /\ Goto(s, "detach") /\ UNCHANGED <<wire, hb>>
  /\ UNCHANGED <<hubVars, idVars, run, superseded, ctxDone, once>>

\* The cases of the main select.
LoopSuperseded(s) ==
  /\ spc[s] = "loop"
  /\ s \in superseded
  /\ Terminal(s, "superseded")
  /\ Goto(s, "detach")
  /\ UNCHANGED <<hubVars, idVars, run, superseded, ctxDone, hb>>

LoopDone(s) ==
  /\ spc[s] = "loop"
  /\ CtxDone(s)
  /\ Goto(s, "detach")
  /\ UNCHANGED <<hubVars, idVars, run, superseded, ctxDone, hb, once, wire>>

\* A write to a client that has gone fails, sooner or later.
LoopEvent(s) ==
  /\ spc[s] = "loop"
  /\ CanWrite(s)
  /\ TakeEvent(s)
  /\ \/ /\ wire' = [wire EXCEPT ![s] = Append(@, Frame("health", Head(buf[s])))]
        /\ UNCHANGED spc
     \/ /\ RequestDone(s)
        /\ Goto(s, "detach") /\ UNCHANGED wire
  /\ UNCHANGED <<idVars, run, superseded, ctxDone, hb, once>>

LoopClosed(s) ==
  /\ spc[s] = "loop"
  /\ closed[s] # "none"
  /\ Terminal(s, closed[s])
  /\ Goto(s, "detach")
  /\ UNCHANGED <<hubVars, idVars, run, superseded, ctxDone, hb>>

\* The case that was taken writes a frame the client does not read: the
\* handler holds the SSE writer's mutex and does not see its context.
LoopBlocks(s) ==
  /\ spc[s] = "loop"
  /\ ~CanWrite(s)
  /\ \/ buf[s] # <<>>
     \/ ~RequestDone(s) /\ s \notin once /\ (s \in superseded \/ closed[s] # "none")
  /\ Goto(s, "blocked")
  /\ UNCHANGED <<hubVars, idVars, run, superseded, ctxDone, hb, once, wire>>

\* The connection is lost, and the write with it.
WriteReturns(s) ==
  /\ spc[s] = "blocked"
  /\ CanWrite(s)
  /\ Goto(s, "detach")
  /\ UNCHANGED <<hubVars, idVars, run, superseded, ctxDone, hb, once, wire>>

-----------------------------------------------------------------------------
(* The deferred calls: detach, release, cancel, wg.Wait *)

Detach(s) ==
  /\ spc[s] = "detach"
  /\ DetachLocked(s)
  /\ Goto(s, IF LastOne(s) THEN "lastgone" ELSE "release")
  /\ run' = IF LastOne(s) THEN [run EXCEPT ![s] = cur] ELSE run
  /\ UNCHANGED <<idVars, superseded, ctxDone, hb, once, wire>>

\* detach cancels the run it found, outside the lock.
LastStreamGone(s) ==
  /\ spc[s] = "lastgone"
  /\ CancelRun(run[s])
  /\ Goto(s, "release")
  /\ UNCHANGED <<idVars, run, superseded, ctxDone, hb, once, wire>>

\* Mutant: release gives up whatever slot the device has.
Release_AnySlot(s) ==
  /\ spc[s] = "release"
  /\ active' = [active EXCEPT ![dev[s]] = NoStream]
  /\ ctxDone' = ctxDone \cup {s}
  /\ Goto(s, "join")
  /\ UNCHANGED <<hubVars, bound, dev, old, gone, stalled, seen, refused, revoked, run,
                 superseded, hb, once, wire>>

\* release gives up the slot only if it is still this stream's.
Release(s) ==
  /\ spc[s] = "release"
  /\ active' = [active EXCEPT ![dev[s]] = IF @ = s THEN NoStream ELSE @]
  /\ ctxDone' = ctxDone \cup {s}
  /\ Goto(s, "join")
  /\ UNCHANGED <<hubVars, bound, dev, old, gone, stalled, seen, refused, revoked, run,
                 superseded, hb, once, wire>>

Join(s) ==
  /\ spc[s] = "join"
  /\ hb[s] \in {"none", "done"}
  /\ Goto(s, "done")
  /\ UNCHANGED <<hubVars, idVars, run, superseded, ctxDone, hb, once, wire>>

-----------------------------------------------------------------------------
(* The heartbeat goroutine *)

\* A tick: a comment frame, then streamRevoked.  A failed lookup leaves the
\* stream alone until the next tick.
HeartbeatTick(s) ==
  /\ hb[s] = "ticking"
  /\ CanWrite(s)
  /\ dev[s] \in revoked
  /\ hb' = [hb EXCEPT ![s] = "frame"]
  /\ UNCHANGED <<hubVars, idVars, spc, run, superseded, ctxDone, once, wire>>

\* A comment the client does not read, or that waits for the mutex behind a
\* frame it does not read: the revocation check does not come.
HeartbeatBlocks(s) ==
  /\ hb[s] = "ticking"
  /\ ~CanWrite(s)
  /\ hb' = [hb EXCEPT ![s] = "blocked"]
  /\ UNCHANGED <<hubVars, idVars, spc, run, superseded, ctxDone, once, wire>>

\* The connection is lost, and with it the context of the check that follows:
\* the lookup fails.
HeartbeatReturns(s) ==
  /\ hb[s] = "blocked"
  /\ CanWrite(s)
  /\ hb' = [hb EXCEPT ![s] = "ticking"]
  /\ UNCHANGED <<hubVars, idVars, spc, run, superseded, ctxDone, once, wire>>

HeartbeatFrame(s) ==
  /\ hb[s] = "frame"
  /\ Terminal(s, "revoked")
  /\ hb' = [hb EXCEPT ![s] = "cancel"]
  /\ UNCHANGED <<hubVars, idVars, spc, run, superseded, ctxDone>>

HeartbeatCancel(s) ==
  /\ hb[s] = "cancel"
  /\ ctxDone' = ctxDone \cup {s}
  /\ hb' = [hb EXCEPT ![s] = "done"]
  /\ UNCHANGED <<hubVars, idVars, spc, run, superseded, once, wire>>

\* Mutant: the heartbeat watches only its ticker.
HeartbeatDone_Deaf(s) ==
  /\ hb[s] = "ticking"
  /\ CtxDone(s) /\ dev[s] \in revoked
  /\ hb' = [hb EXCEPT ![s] = "done"]
  /\ UNCHANGED <<hubVars, idVars, spc, run, superseded, ctxDone, once, wire>>

HeartbeatDone(s) ==
  /\ hb[s] = "ticking"
  /\ CtxDone(s)
  /\ hb' = [hb EXCEPT ![s] = "done"]
  /\ UNCHANGED <<hubVars, idVars, spc, run, superseded, ctxDone, once, wire>>

-----------------------------------------------------------------------------
(* The environment *)

ClientGone(s) ==
  /\ "gone" \in bound.upsets
  /\ spc[s] \notin {"idle", "done"}
  /\ s \notin gone
  /\ gone' = gone \cup {s}
  /\ UNCHANGED <<hubVars, bound, spc, dev, active, old, run, superseded, ctxDone,
                 stalled, seen, hb, once, wire, refused, revoked>>

\* The client stays connected and stops reading.
Stall(s) ==
  /\ "stall" \in bound.upsets
  /\ spc[s] \notin {"idle", "done"}
  /\ s \notin stalled \cup gone
  /\ stalled' = stalled \cup {s}
  /\ UNCHANGED <<hubVars, bound, spc, dev, active, old, run, superseded, ctxDone, gone,
                 seen, hb, once, wire, refused, revoked>>

Revoke(d) ==
  /\ "revoke" \in bound.upsets
  /\ d \notin revoked
  /\ revoked' = revoked \cup {d}
  /\ UNCHANGED <<hubVars, bound, spc, dev, active, old, run, superseded, ctxDone,
                 gone, stalled, seen, hb, once, wire, refused>>

-----------------------------------------------------------------------------
HandlerStep(s) ==
  \/ CloseSuperseded(s) \/ Evict(s) \/ Attach(s) \/ AttachWait(s)
  \/ ContainerStates(s) \/ Snapshot(s)
  \/ LoopSuperseded(s) \/ LoopDone(s) \/ LoopEvent(s) \/ LoopClosed(s)
  \/ LoopBlocks(s) \/ WriteReturns(s)
  \/ Detach(s) \/ LastStreamGone(s) \/ Release(s) \/ Join(s)

HeartbeatStep(s) ==
  \/ HeartbeatTick(s) \/ HeartbeatBlocks(s) \/ HeartbeatReturns(s)
  \/ HeartbeatFrame(s) \/ HeartbeatCancel(s) \/ HeartbeatDone(s)

Next ==
  \/ \E s \in Streams : Open(s) \/ HandlerStep(s) \/ HeartbeatStep(s)
                          \/ ClientGone(s) \/ Stall(s)
  \/ (\E g \in Runs : RunStep(g)) /\ UNCHANGED streamVars
  \/ (EngineEvent \/ CancelLifecycle) /\ UNCHANGED streamVars
  \/ \E d \in Devices : Revoke(d)

Spec == Init /\ [][Next]_vars

\* Goroutines are scheduled; the ticker keeps firing; a lookup error does not
\* repeat for ever.  The list of containers is bounded by its timeout; opening
\* the subscription is not, and is only sure to return once its context is
\* cancelled (RunProgress).
FairSpec ==
  /\ Spec
  /\ \A s \in Streams : WF_vars(HandlerStep(s)) /\ WF_vars(HeartbeatStep(s))
  /\ \A g \in Runs : WF_vars(RunProgress(g) /\ UNCHANGED streamVars)

-----------------------------------------------------------------------------
(* Properties *)

Feed == INSTANCE EventFeed WITH
  happened <- ver, opened <- {s \in Streams : spc[s] # "idle"},
  barred <- revoked, sent <- wire,
  abandoned <- {s \in Streams : run[s] \in cancelled}

\* What hub, registry, handler and heartbeat write to a client between them is
\* the feed EventFeed describes.  Nothing falls between the snapshot and the
\* stream or out of the middle of it (attach registers the subscriber before
\* ContainerStates runs; a full buffer drops the client, never the event), and
\* whichever of eviction, revocation, lag and feed failure coincide, the stream
\* is told one end (terminalFrame's Once): a true one, or, if it joined a
\* subscription its last client was giving up, that the Engine is unavailable.
ImplementsFeed == Feed!Spec

\* A stream never goes silent: while its handler is attached, either the hub
\* is running and feeds it, or its end has been, or is being, signalled.
NoSilentStream ==
  \A s \in Streams : spc[s] \in {"states", "snapshot", "loop", "blocked"} =>
    \/ s \in subs /\ running
    \/ closed[s] # "none"
    \/ \E g \in Runs : s \in pending[g] /\ runPc[g] \in {"ended", "closing"}

\* The agent holds at most one Engine subscription, through every stop and
\* restart of the hub.
OneSubscription ==
  Cardinality({g \in Runs : runPc[g] \in {"start", "opened", "live",
                                          "fanout", "dropping", "lastgone"}}) <= 1

\* One stream per device, newest wins: a stream that is past registration
\* and does not hold its device's slot has been evicted or is about to be.
NewestWins ==
  \A s \in Streams :
    /\ spc[s] \in {"attach", "wait", "states", "snapshot", "loop", "blocked"}
    /\ active[dev[s]] # s
    => s \in superseded \/ \E q \in Streams : spc[q] = "supersede" /\ old[q] = s

\* When the last client leaves, the hub lets go of the Engine, unless a new
\* client arrives.
HubStops == (subs = {} /\ running) ~> (~running \/ subs # {})

\* A stream whose client has left, that was evicted or that its hub has closed
\* ends, whatever the Engine does, and so does the stream of a revoked device
\* once it has its snapshot; only a client that stays connected and does not
\* read can hold it up, and only until the connection is lost.
StreamsEnd ==
  \A s \in Streams :
    (/\ spc[s] # "idle"
     /\ \/ s \in gone \cup superseded \/ closed[s] # "none"
        \/ dev[s] \in revoked /\ wire[s] # <<>>)
      ~> (spc[s] = "done" \/ ~CanWrite(s))

\* After shutdown cancels the lifecycle context every open stream and the hub
\* come to an end: Shutdown is left waiting for none of them but one whose
\* client does not read.
ShutdownDrains ==
  down ~> /\ \A s \in Streams : spc[s] \in {"idle", "done"} \/ ~CanWrite(s)
          /\ ~running

-----------------------------------------------------------------------------
(* Claims of the repository that the code does not keep *)

\* events.go: a device that had a live stream cannot fail to attach its new
\* one, "so no working stream is ever destroyed by a failure here".
NoWorkingStreamDestroyed ==
  \A s \in refused : old[s] # NoStream /\ wire[old[s]] # <<>> => s \in cut

\* docs/API.md: a stream that its feed failed "ends with `docker engine
\* unavailable`": what is said of the Engine is true.  A stream that joins a
\* subscription whose last client is giving it up is told the same.
EngineReasonIsTrue ==
  \A s \in Streams : \A i \in DOMAIN wire[s] :
    wire[s][i].kind = "engine" => s \in cut

\* docs/API.md: a second connection "closes the older one with `event stream
\* superseded`": a stream evicted while its client is listening says so.
EvictedStreamsAreTold ==
  \A s \in Streams :
    /\ spc[s] = "done" /\ wire[s] # <<>>
    /\ s \in superseded /\ ~RequestDone(s)
    => \E i \in DOMAIN wire[s] : wire[s][i].kind \in Terminals

\* docs/API.md: a revoked device's stream "ends ... with a terminal" frame:
\* nothing follows a terminal frame.
TerminalFrameIsLast ==
  \A s \in Streams : \A i \in DOMAIN wire[s] :
    wire[s][i].kind \in Terminals => i = Len(wire[s])

\* events.go: the heartbeat's check ends the stream of a revoked device, which
\* "can otherwise run indefinitely".  It goes on if the client does not read
\* (the tick's comment blocks and the check is not reached), or if the Engine
\* never answers the subscription it waits for.
RevokedStreamsEnd ==
  \A s \in Streams :
    (spc[s] # "idle" /\ dev[s] \in revoked) ~> (spc[s] = "done")
=============================================================================
