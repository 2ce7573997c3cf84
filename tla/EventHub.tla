------------------------------ MODULE EventHub ------------------------------
(***************************************************************************)
(* The hub that owns the agent's one Engine event subscription and fans it *)
(* out (internal/httpapi/eventhub.go), with the subscription loop it runs  *)
(* (dockerx.StreamContainerEvents).  A run is one lifetime of the          *)
(* subscription; each has its own ready and failed channels and context.   *)
(* Sections under h.mu are single steps; closing a channel or cancelling a *)
(* context after the unlock is a step of its own, as in the code.          *)
(*                                                                         *)
(* The Engine is external: ver counts the allowlisted container events so  *)
(* far, a subscription delivers every event after the one it was opened    *)
(* at, in order, until it is cancelled or the Engine drops it.             *)
(***************************************************************************)
EXTENDS Naturals, Sequences, FiniteSets

CONSTANTS Streams,    \* event stream handlers; each owns one subscriber
          BufferCap,  \* eventClientBuffer
          MaxEvents,  \* bound: events the Engine produces
          MaxRuns,    \* bound: subscriptions the hub opens
          Scenarios   \* the bounds a behaviour may be under: which streams, in
                      \* what order, how many events and runs, which upsets

Upsets == {"engine", "gone", "stall", "revoke", "shutdown"}

ASSUME BoundsAssumption ==
  /\ BufferCap \in Nat \ {0} /\ MaxEvents \in Nat /\ MaxRuns \in Nat \ {0}
  /\ \A b \in Scenarios :
       /\ b.streams \in Seq(Streams)
       /\ b.events \in 0..MaxEvents /\ b.runs \in 1..MaxRuns
       /\ b.upsets \subseteq Upsets

Runs    == 1..MaxRuns
RunPcs  == {"none", "start", "opened", "live", "fanout", "dropping", "lastgone",
            "ended", "closing", "done"}
Reasons == {"none", "engine", "lagged"}

VARIABLES
  bound,      \* the scenario; the module that uses the hub keeps it unchanged
  ver,        \* Engine: events that have happened
  cut,        \* history: subscribers whose feed the Engine broke off
  down,       \* the server's lifecycle context is cancelled
  subs,       \* h.subs
  running,    \* h.running
  cur,        \* the run h.ready, h.failed and h.cancel belong to
  runPc,      \* where each run's goroutine is
  pos,        \* the last event each subscription has delivered
  cancelled,  \* runs whose context was cancelled
  ready,      \* runs whose ready channel is closed
  failed,     \* runs whose failed channel is closed
  pending,    \* subscribers a fanout or a teardown still has to visit
  buf,        \* each subscriber's events channel
  closed      \* each subscriber's closed channel

hubVars == <<ver, cut, down, subs, running, cur, runPc, pos, cancelled,
             ready, failed, pending, buf, closed>>

HubTypeOK ==
  /\ bound \in Scenarios
  /\ ver \in 0..MaxEvents
  /\ down \in BOOLEAN /\ running \in BOOLEAN
  /\ cut \subseteq Streams /\ subs \subseteq Streams
  /\ cur \in 0..MaxRuns
  /\ runPc \in [Runs -> RunPcs]
  /\ pos \in [Runs -> 0..MaxEvents]
  /\ cancelled \subseteq Runs /\ ready \subseteq Runs /\ failed \subseteq Runs
  /\ pending \in [Runs -> SUBSET Streams]
  /\ buf \in [Streams -> Seq(1..MaxEvents)]
  /\ \A s \in Streams : Len(buf[s]) <= BufferCap
  /\ closed \in [Streams -> Reasons]

HubInit ==
  /\ bound \in Scenarios
  /\ ver = 0 /\ cut = {} /\ down = FALSE
  /\ subs = {} /\ running = FALSE /\ cur = 0
  /\ runPc = [g \in Runs |-> "none"]
  /\ pos = [g \in Runs |-> 0]
  /\ cancelled = {} /\ ready = {} /\ failed = {}
  /\ pending = [g \in Runs |-> {}]
  /\ buf = [s \in Streams |-> <<>>]
  /\ closed = [s \in Streams |-> "none"]

-----------------------------------------------------------------------------
(* attach and detach, as the handlers call them *)

\* attach up to its unlock: register the subscriber, and start a run unless
\* one is going.
AttachLocked(s) ==
  /\ subs' = subs \cup {s}
  /\ IF running
       THEN UNCHANGED <<running, cur, runPc>>
       ELSE /\ cur < bound.runs
            /\ running' = TRUE
            /\ cur' = cur + 1
            /\ runPc' = [runPc EXCEPT ![cur + 1] = "start"]
  /\ UNCHANGED <<ver, cut, down, pos, cancelled, ready, failed, pending,
                 buf, closed>>

\* Mutant: the emptiness test runs before the delete.
LastOne_TestedEarly(s) == subs = {} /\ running

\* Would detaching s leave a running hub without subscribers?
LastOne(s) == subs = {s} /\ running

\* Mutant: the last detach declares the hub stopped before its run has ended.
DetachLocked_StopsHub(s) ==
  /\ subs' = subs \ {s}
  /\ running' = (running /\ subs # {s})
  /\ UNCHANGED <<ver, cut, down, cur, runPc, pos, cancelled, ready, failed,
                 pending, buf, closed>>

\* detach up to its unlock.
DetachLocked(s) ==
  /\ subs' = subs \ {s}
  /\ UNCHANGED <<ver, cut, down, running, cur, runPc, pos, cancelled, ready,
                 failed, pending, buf, closed>>

CancelRun(g) ==
  /\ cancelled' = cancelled \cup {g}
  /\ UNCHANGED <<ver, cut, down, subs, running, cur, runPc, pos, ready,
                 failed, pending, buf, closed>>

\* The handler receives from its events channel.
TakeEvent(s) ==
  /\ buf[s] # <<>>
  /\ buf' = [buf EXCEPT ![s] = Tail(@)]
  /\ UNCHANGED <<ver, cut, down, subs, running, cur, runPc, pos, cancelled,
                 ready, failed, pending, closed>>

-----------------------------------------------------------------------------
(* The run goroutine *)

RunDone(g) == g \in cancelled \/ down

\* client.Events returns once the subscription exists.
Subscribe(g) ==
  /\ runPc[g] = "start"
  /\ pos' = [pos EXCEPT ![g] = ver]
  /\ runPc' = [runPc EXCEPT ![g] = "opened"]
  /\ UNCHANGED <<ver, cut, down, subs, running, cur, cancelled, ready,
                 failed, pending, buf, closed>>

markReady(g) ==
  /\ runPc[g] = "opened"
  /\ ready' = ready \cup {g}
  /\ runPc' = [runPc EXCEPT ![g] = "live"]
  /\ UNCHANGED <<ver, cut, down, subs, running, cur, pos, cancelled, failed,
                 pending, buf, closed>>

\* The next event arrives; fanout takes its snapshot of the subscribers.
Receive(g) ==
  /\ runPc[g] = "live"
  /\ pos[g] < ver
  /\ pos' = [pos EXCEPT ![g] = @ + 1]
  /\ pending' = [pending EXCEPT ![g] = subs]
  /\ runPc' = [runPc EXCEPT ![g] = "fanout"]
  /\ UNCHANGED <<ver, cut, down, subs, running, cur, cancelled, ready,
                 failed, buf, closed>>

\* subscriber.close: only the first reason counts.
CloseSub(s, why) ==
  closed' = [closed EXCEPT ![s] = IF @ = "none" THEN why ELSE @]

Full(s) == Len(buf[s]) >= BufferCap

\* Mutant: a full buffer drops the event.
Send_DropsEvent(g, s) ==
  /\ runPc[g] = "fanout"
  /\ s \in pending[g]
  /\ pending' = [pending EXCEPT ![g] = @ \ {s}]
  /\ buf' = IF Full(s) THEN buf ELSE [buf EXCEPT ![s] = Append(@, pos[g])]
  /\ UNCHANGED <<ver, cut, down, subs, running, cur, runPc, pos, cancelled,
                 ready, failed, closed>>

\* fanout's non-blocking send.
Send(g, s) ==
  /\ runPc[g] = "fanout"
  /\ s \in pending[g]
  /\ ~Full(s)
  /\ pending' = [pending EXCEPT ![g] = @ \ {s}]
  /\ buf' = [buf EXCEPT ![s] = Append(@, pos[g])]
  /\ UNCHANGED <<ver, cut, down, subs, running, cur, runPc, pos, cancelled,
                 ready, failed, closed>>

\* A full buffer drops the client, never the event: fanout closes it,
Lag(g, s) ==
  /\ runPc[g] = "fanout"
  /\ s \in pending[g]
  /\ Full(s)
  /\ CloseSub(s, "lagged")
  /\ runPc' = [runPc EXCEPT ![g] = "dropping"]
  /\ UNCHANGED <<ver, cut, down, subs, running, cur, pos, cancelled, ready,
                 failed, pending, buf>>

\* and detaches it, unless its handler did first.
Drop(g, s) ==
  /\ runPc[g] = "dropping"
  /\ s \in pending[g] /\ closed[s] # "none"
  /\ pending' = [pending EXCEPT ![g] = @ \ {s}]
  /\ subs' = subs \ {s}
  /\ runPc' = [runPc EXCEPT ![g] = IF LastOne(s) THEN "lastgone" ELSE "fanout"]
  /\ UNCHANGED <<ver, cut, down, running, cur, pos, cancelled, ready, failed,
                 buf, closed>>

\* That detach removed the last subscriber: cancel the run's own context.
LastGone(g) ==
  /\ runPc[g] = "lastgone"
  /\ cancelled' = cancelled \cup {g}
  /\ runPc' = [runPc EXCEPT ![g] = "fanout"]
  /\ UNCHANGED <<ver, cut, down, subs, running, cur, pos, ready, failed,
                 pending, buf, closed>>

FanoutDone(g) ==
  /\ runPc[g] = "fanout"
  /\ pending[g] = {}
  /\ runPc' = [runPc EXCEPT ![g] = "live"]
  /\ UNCHANGED <<ver, cut, down, subs, running, cur, pos, cancelled, ready,
                 failed, pending, buf, closed>>

\* Mutant: the subscribers are dropped and never told.
RunEnds_Silently(g) ==
  /\ runPc[g] = "live"
  /\ subs' = {}
  /\ running' = FALSE
  /\ runPc' = [runPc EXCEPT ![g] = "ended"]
  /\ UNCHANGED <<ver, down, cur, pos, cancelled, ready, failed, pending, buf,
                 closed>>

\* StreamContainerEvents has returned; run takes every subscriber with it.
RunEnds(g) ==
  /\ runPc[g] = "live"
  /\ pending' = [pending EXCEPT ![g] = subs]
  /\ subs' = {}
  /\ running' = FALSE
  /\ runPc' = [runPc EXCEPT ![g] = "ended"]
  /\ UNCHANGED <<ver, down, cur, pos, cancelled, ready, failed, buf, closed>>

\* It returned nil: its context is done.
RunStops(g) == RunDone(g) /\ RunEnds(g) /\ UNCHANGED cut

\* It returned an error: the Engine broke the feed off.
FeedBreaks(g) == "engine" \in bound.upsets /\ RunEnds(g) /\ cut' = cut \cup subs

CloseFailed(g) ==
  /\ runPc[g] = "ended"
  /\ failed' = failed \cup {g}
  /\ runPc' = [runPc EXCEPT ![g] = "closing"]
  /\ UNCHANGED <<ver, cut, down, subs, running, cur, pos, cancelled, ready,
                 pending, buf, closed>>

CloseSubs(g, s) ==
  /\ runPc[g] = "closing"
  /\ s \in pending[g]
  /\ pending' = [pending EXCEPT ![g] = @ \ {s}]
  /\ CloseSub(s, "engine")
  /\ UNCHANGED <<ver, cut, down, subs, running, cur, runPc, pos, cancelled,
                 ready, failed, buf>>

RunReturns(g) ==
  /\ runPc[g] = "closing"
  /\ pending[g] = {}
  /\ runPc' = [runPc EXCEPT ![g] = "done"]
  /\ UNCHANGED <<ver, cut, down, subs, running, cur, pos, cancelled, ready,
                 failed, pending, buf, closed>>

\* What the run goroutine goes on to do by itself.  The Engine may take its
\* time over a subscription, which no timeout bounds, but not once the run's
\* context is done.
RunProgress(g) ==
  \/ RunDone(g) /\ Subscribe(g)
  \/ markReady(g) \/ Receive(g) \/ LastGone(g)
  \/ FanoutDone(g) \/ RunStops(g) \/ CloseFailed(g) \/ RunReturns(g)
  \/ \E s \in Streams : Send(g, s) \/ Lag(g, s) \/ Drop(g, s) \/ CloseSubs(g, s)

RunStep(g) == Subscribe(g) \/ FeedBreaks(g) \/ RunProgress(g)

-----------------------------------------------------------------------------
(* The environment *)

\* A container changes state.
EngineEvent ==
  /\ ver < bound.events
  /\ ver' = ver + 1
  /\ UNCHANGED <<cut, down, subs, running, cur, runPc, pos, cancelled,
                 ready, failed, pending, buf, closed>>

\* shutdown() cancels the context every run and every request descends from.
CancelLifecycle ==
  /\ "shutdown" \in bound.upsets
  /\ ~down
  /\ down' = TRUE
  /\ UNCHANGED <<ver, cut, subs, running, cur, runPc, pos, cancelled, ready,
                 failed, pending, buf, closed>>
=============================================================================
