-------------------------- MODULE EventStreamProofs --------------------------
(***************************************************************************)
(* Proofs about the event hub, the stream registry and the handlers of     *)
(* GET /v1/events, for any streams and devices, any buffer and any numbers *)
(* of events and of runs.                                                  *)
(***************************************************************************)
EXTENDS EventStream, FiniteSetTheorems, SequenceTheorems, WellFoundedInduction, TLAPS

\* A run that has, or is about to have, a subscription at the Engine.
Subscribed == {"start", "opened", "live", "fanout", "dropping", "lastgone"}

\* Only the hub's current run is subscribed, and only while the hub counts as
\* running, which it does as long as there is a subscriber.
RunInv ==
  /\ \A g \in Runs : runPc[g] \in Subscribed => g = cur /\ running
  /\ running => cur \in Runs /\ runPc[cur] \in Subscribed
  /\ \A g \in Runs : g > cur => runPc[g] = "none"
  /\ subs # {} => running
  /\ \A g \in Runs : runPc[g] \in {"fanout", "dropping", "lastgone"} => pos[g] # 0
  /\ \A s \in Streams : spc[s] = "lastgone" => run[s] \in Runs

\* A stream that has attached is a subscriber, or has been closed, or is on
\* the list of a run that is taking its subscribers with it.
Attached(s) ==
  \/ s \in subs
  \/ closed[s] # "none"
  \/ \E g \in Runs : s \in pending[g] /\ runPc[g] \in {"ended", "closing"}

AttachInv ==
  \A s \in Streams : spc[s] \in {"wait", "states", "snapshot", "loop", "blocked"} => Attached(s)

\* A stream that registered and lost its device's slot has been told, or its
\* successor is about to tell it.
Evicting(s) == s \in superseded \/ \E q \in Streams : spc[q] = "supersede" /\ old[q] = s

SlotInv ==
  /\ \A s \in Streams :
       /\ spc[s] \in {"supersede", "evict", "attach", "wait", "states", "snapshot", "loop", "blocked"}
       /\ active[dev[s]] # s
       => Evicting(s)
  /\ \A s \in Streams : spc[s] \in {"supersede", "evict"} => old[s] \in Streams

Inv == TypeOK /\ RunInv /\ AttachInv /\ SlotInv

USE DEF Runs, RunPcs, Reasons, StreamPcs, Beats, Terminals, Goto, idVars

-----------------------------------------------------------------------------
(* The runs of the hub *)

\* The steps a run takes.
LEMMA RunCases ==
  ASSUME NEW g \in Runs, RunStep(g)
  PROVE  \/ Subscribe(g) \/ markReady(g) \/ Receive(g) \/ LastGone(g) \/ FanoutDone(g)
         \/ RunStops(g) \/ FeedBreaks(g) \/ CloseFailed(g) \/ RunReturns(g)
         \/ \E s \in Streams : Send(g, s) \/ Lag(g, s) \/ Drop(g, s) \/ CloseSubs(g, s)
BY DEF RunStep, RunProgress

\* What the goroutine of a run does to the hub's types.
LEMMA RunStepTypes ==
  ASSUME TypeOK, RunInv, NEW g \in Runs, RunStep(g), UNCHANGED streamVars
  PROVE  HubTypeOK'
<1> USE BoundsAssumption DEF TypeOK, HubTypeOK, streamVars
<1>1. CASE Subscribe(g)
  BY <1>1 DEF Subscribe
<1>2. CASE markReady(g)
  BY <1>2 DEF markReady
<1>3. CASE Receive(g)
  <2>1. pos[g] + 1 \in 0..MaxEvents
    BY <1>3 DEF Receive
  <2>2. pos' \in [Runs -> 0..MaxEvents] /\ pending' \in [Runs -> SUBSET Streams]
        /\ runPc' \in [Runs -> RunPcs]
    BY <1>3, <2>1 DEF Receive
  <2> QED
    BY <1>3, <2>2 DEF Receive
<1>4. CASE LastGone(g)
  BY <1>4 DEF LastGone
<1>5. CASE FanoutDone(g)
  BY <1>5 DEF FanoutDone
<1>6. CASE RunStops(g) \/ FeedBreaks(g)
  <2>1. RunEnds(g) /\ cut' \subseteq Streams
    BY <1>6 DEF RunStops, FeedBreaks
  <2> QED
    BY <2>1 DEF RunEnds
<1>7. CASE CloseFailed(g)
  BY <1>7 DEF CloseFailed
<1>8. CASE RunReturns(g)
  BY <1>8 DEF RunReturns
<1>9. ASSUME NEW s \in Streams, Send(g, s)
      PROVE  HubTypeOK'
  <2>1. pos[g] \in 1..MaxEvents /\ buf[s] \in Seq(1..MaxEvents) /\ ~Full(s)
    BY <1>9 DEF Send, RunInv
  <2>2. buf' = [buf EXCEPT ![s] = Append(@, pos[g])]
    BY <1>9 DEF Send
  <2>3. Append(buf[s], pos[g]) \in Seq(1..MaxEvents)
        /\ Len(Append(buf[s], pos[g])) = Len(buf[s]) + 1
    BY <2>1
  <2>4. Len(buf[s]) + 1 <= BufferCap
    BY <2>1 DEF Full
  <2>5. buf' \in [Streams -> Seq(1..MaxEvents)]
        /\ \A q \in Streams : Len(buf'[q]) <= BufferCap
    BY <2>2, <2>3, <2>4
  <2> QED
    BY <1>9, <2>5 DEF Send
<1>10. ASSUME NEW s \in Streams, CloseSubs(g, s) \/ Lag(g, s)
       PROVE  HubTypeOK'
  <2>1. CASE CloseSubs(g, s)
    BY <2>1 DEF CloseSubs, CloseSub
  <2>2. CASE Lag(g, s)
    <3>1. closed' = [closed EXCEPT ![s] = IF @ = "none" THEN "lagged" ELSE @]
      BY <2>2 DEF Lag, CloseSub
    <3>2. closed' \in [Streams -> Reasons]
      BY <3>1
    <3> QED
      BY <2>2, <3>2 DEF Lag
  <2> QED
    BY <1>10, <2>1, <2>2
<1>11. ASSUME NEW s \in Streams, Drop(g, s)
       PROVE  HubTypeOK'
  BY <1>11 DEF Drop
<1> QED
  BY <1>1, <1>2, <1>3, <1>4, <1>5, <1>6, <1>7, <1>8, <1>9, <1>10, <1>11, RunCases

\* No run other than the current one is ever subscribed.
LEMMA RunStepRuns ==
  ASSUME TypeOK, RunInv, NEW g \in Runs, RunStep(g), UNCHANGED streamVars
  PROVE  RunInv'
<1>0. /\ runPc \in [Runs -> RunPcs] /\ pos \in [Runs -> 0..MaxEvents] /\ ver \in 0..MaxEvents
      /\ spc' = spc /\ run' = run
  BY DEF TypeOK, HubTypeOK, streamVars
<1> USE DEF RunInv, Subscribed
<1>1. CASE Subscribe(g)
  BY <1>0, <1>1 DEF Subscribe
<1>2. CASE markReady(g) \/ LastGone(g) \/ FanoutDone(g)
  <2>1. CASE markReady(g)
    BY <1>0, <2>1 DEF markReady
  <2>2. CASE LastGone(g)
    BY <1>0, <2>2 DEF LastGone
  <2>3. CASE FanoutDone(g)
    BY <1>0, <2>3 DEF FanoutDone
  <2> QED
    BY <1>2, <2>1, <2>2, <2>3
<1>3. CASE Receive(g)
  BY <1>0, <1>3 DEF Receive
<1>4. CASE RunStops(g) \/ FeedBreaks(g)
  BY <1>0, <1>4 DEF RunStops, FeedBreaks, RunEnds
<1>5. CASE CloseFailed(g) \/ RunReturns(g)
  <2>1. CASE CloseFailed(g)
    BY <1>0, <2>1 DEF CloseFailed
  <2>2. CASE RunReturns(g)
    BY <1>0, <2>2 DEF RunReturns
  <2> QED
    BY <1>5, <2>1, <2>2
<1>6. ASSUME NEW s \in Streams, Send(g, s)
      PROVE  RunInv'
  BY <1>0, <1>6 DEF Send
<1>7. ASSUME NEW s \in Streams, CloseSubs(g, s)
      PROVE  RunInv'
  BY <1>0, <1>7 DEF CloseSubs
<1>8. ASSUME NEW s \in Streams, Lag(g, s)
      PROVE  RunInv'
  BY <1>0, <1>8 DEF Lag
<1>9. ASSUME NEW s \in Streams, Drop(g, s)
      PROVE  RunInv'
  BY <1>0, <1>9 DEF Drop
<1> QED
  BY <1>1, <1>2, <1>3, <1>4, <1>5, <1>6, <1>7, <1>8, <1>9, RunCases

\* No run forgets a subscriber it has to close.
LEMMA RunStepAttached ==
  ASSUME TypeOK, RunInv, AttachInv, NEW g \in Runs, RunStep(g), UNCHANGED streamVars
  PROVE  AttachInv'
<1> SUFFICES ASSUME NEW s \in Streams, Attached(s)
             PROVE  Attached(s)'
  BY DEF AttachInv, streamVars
<1> USE DEF TypeOK, HubTypeOK, Attached
<1>1. CASE Subscribe(g) \/ markReady(g)
  BY <1>1 DEF Subscribe, markReady
<1>2. CASE Receive(g)
  BY <1>2 DEF Receive
<1>3. CASE LastGone(g) \/ FanoutDone(g)
  BY <1>3 DEF LastGone, FanoutDone
<1>4. CASE RunStops(g) \/ FeedBreaks(g)
  BY <1>4 DEF RunStops, FeedBreaks, RunEnds
<1>5. CASE CloseFailed(g)
  BY <1>5 DEF CloseFailed
<1>6. CASE RunReturns(g)
  BY <1>6 DEF RunReturns
<1>7. ASSUME NEW q \in Streams, Send(g, q)
      PROVE  Attached(s)'
  BY <1>7 DEF Send
<1>8. ASSUME NEW q \in Streams, CloseSubs(g, q)
      PROVE  Attached(s)'
  BY <1>8 DEF CloseSubs, CloseSub
<1>9. ASSUME NEW q \in Streams, Lag(g, q) \/ Drop(g, q)
      PROVE  Attached(s)'
  BY <1>9 DEF Lag, Drop, CloseSub
<1> QED
  BY <1>1, <1>2, <1>3, <1>4, <1>5, <1>6, <1>7, <1>8, <1>9, RunCases

-----------------------------------------------------------------------------
(* Steps that leave a part of the state alone *)

\* A step that touches no run and puts no handler in detach's cancel.
LEMMA RunFramed ==
  ASSUME RunInv, UNCHANGED <<runPc, cur, running, subs, pos, run>>,
         \A s \in Streams : spc'[s] = "lastgone" => spc[s] = "lastgone"
  PROVE  RunInv'
BY DEF RunInv

\* A step that touches no subscription and attaches no stream.
LEMMA AttachFramed ==
  ASSUME AttachInv, UNCHANGED <<subs, closed, pending, runPc>>,
         \A s \in Streams : spc'[s] \in {"wait", "states", "snapshot", "loop", "blocked"} =>
                              spc[s] \in {"wait", "states", "snapshot", "loop", "blocked"}
  PROVE  AttachInv'
BY DEF AttachInv, Attached

\* A step that touches no slot and registers no stream.
LEMMA SlotFramed ==
  ASSUME SlotInv, UNCHANGED <<active, dev, old>>, superseded \subseteq superseded',
         \A s \in Streams :
           /\ spc'[s] \in {"supersede", "evict", "attach", "wait", "states", "snapshot", "loop", "blocked"} =>
                spc[s] \in {"supersede", "evict", "attach", "wait", "states", "snapshot", "loop", "blocked"}
           /\ spc'[s] = "supersede" <=> spc[s] = "supersede"
           /\ spc'[s] = "evict" => spc[s] = "evict"
  PROVE  SlotInv'
BY DEF SlotInv, Evicting

-----------------------------------------------------------------------------
(* Types *)

\* Taking the first of a queue.
LEMMA Popped ==
  ASSUME NEW S, NEW q \in Seq(S), q # <<>>
  PROVE  /\ Len(q) \in Nat \ {0} /\ Head(q) \in S /\ Head(q) = q[1]
         /\ Tail(q) \in Seq(S) /\ Len(Tail(q)) = Len(q) - 1
         /\ \A i \in 1..(Len(q) - 1) : Tail(q)[i] = q[i + 1]
OBVIOUS

\* A frame is added to a stream, or none is.
LEMMA FrameTypes ==
  ASSUME TypeOK, NEW s \in Streams, NEW f \in Frames,
         wire' = wire \/ wire' = [wire EXCEPT ![s] = Append(@, f)]
  PROVE  wire' \in [Streams -> Seq(Frames)]
<1>1. wire \in [Streams -> Seq(Frames)]
  BY DEF TypeOK
<1>2. Append(wire[s], f) \in Seq(Frames)
  BY <1>1
<1> QED
  BY <1>1, <1>2

\* terminalFrame writes a frame of one of the four reasons, or nothing.
LEMMA TerminalTypes ==
  ASSUME TypeOK, NEW s \in Streams, NEW k \in Terminals, Terminal(s, k)
  PROVE  once' \subseteq Streams /\ wire' \in [Streams -> Seq(Frames)]
<1>1. Frame(k, 0) \in Frames
  BY BoundsAssumption DEF Frame, Frames
<1>2. wire' = wire \/ wire' = [wire EXCEPT ![s] = Append(@, Frame(k, 0))]
  BY DEF Terminal
<1> QED
  BY <1>1, <1>2 DEF Terminal, TypeOK

\* What the environment and the Engine do to the types.
LEMMA HubFramed ==
  ASSUME HubTypeOK, UNCHANGED <<hubVars, bound>>
  PROVE  HubTypeOK'
BY DEF HubTypeOK, hubVars

\* Every step of a handler or of the environment keeps the types.
LEMMA HandlerTypes ==
  ASSUME TypeOK, RunInv, SlotInv, NEW s \in Streams, Open(s) \/ HandlerStep(s)
  PROVE  TypeOK'
<1>0. HubTypeOK
  BY DEF TypeOK
<1>1. CASE Open(s)
  <2>1. HubTypeOK'
    BY <1>0, <1>1, HubFramed DEF Open
  <2>2. dev[s] \in Devices /\ active[dev[s]] \in Streams \cup {NoStream}
    BY DEF TypeOK
  <2> QED
    BY <1>1, <2>1, <2>2 DEF Open, TypeOK
<1>2. CASE CloseSuperseded(s) \/ Evict(s)
  <2>1. HubTypeOK'
    BY <1>0, <1>2, HubFramed DEF CloseSuperseded, Evict
  <2>2. old[s] \in Streams
    BY <1>2 DEF CloseSuperseded, Evict, SlotInv
  <2> QED
    BY <1>2, <2>1, <2>2 DEF CloseSuperseded, Evict, TypeOK
<1>3. CASE Attach(s)
  <2>1. bound' = bound /\ cur' \in 0..MaxRuns /\ running' \in BOOLEAN
        /\ runPc' \in [Runs -> RunPcs]
    <3>1. bound' = bound /\ bound.runs \in 1..MaxRuns
      BY <1>0, <1>3, BoundsAssumption DEF Attach, HubTypeOK
    <3>2. CASE running
      BY <1>0, <1>3, <3>1, <3>2 DEF Attach, AttachLocked, HubTypeOK
    <3>3. CASE ~running
      <4>1. cur < bound.runs /\ running' = TRUE /\ cur' = cur + 1
            /\ runPc' = [runPc EXCEPT ![cur + 1] = "start"]
        BY <1>3, <3>3 DEF Attach, AttachLocked
      <4>2. cur + 1 \in Runs
        BY <1>0, <3>1, <4>1, BoundsAssumption DEF HubTypeOK
      <4> QED
        BY <1>0, <3>1, <4>1, <4>2 DEF HubTypeOK
    <3> QED
      BY <3>2, <3>3
  <2>2. HubTypeOK'
    BY <1>3, <2>1 DEF Attach, AttachLocked, TypeOK, HubTypeOK
  <2> QED
    BY <1>3, <2>1, <2>2 DEF Attach, TypeOK
<1>4. CASE AttachWait(s)
  <2>1. HubTypeOK'
    BY <1>0, <1>4, HubFramed DEF AttachWait
  <2> QED
    BY <1>4, <2>1 DEF AttachWait, TypeOK
<1>5. CASE Snapshot(s)
  <2>1. HubTypeOK'
    BY <1>0, <1>5, HubFramed DEF Snapshot
  <2>2. Frame("snapshot", seen[s]) \in Frames
    <3>1. seen[s] \in -1..MaxEvents /\ seen[s] >= 0
      BY <1>5 DEF TypeOK, Snapshot
    <3> QED
      BY <3>1, BoundsAssumption DEF Frame, Frames
  <2>3. wire' \in [Streams -> Seq(Frames)]
    BY <1>5, <2>2, FrameTypes DEF Snapshot
  <2> QED
    BY <1>5, <2>1, <2>3 DEF Snapshot, TypeOK
<1>6. CASE LoopDone(s) \/ LoopBlocks(s) \/ WriteReturns(s)
  <2>1. HubTypeOK'
    BY <1>0, <1>6, HubFramed DEF LoopDone, LoopBlocks, WriteReturns
  <2> QED
    BY <1>6, <2>1 DEF LoopDone, LoopBlocks, WriteReturns, TypeOK
<1>7. CASE LoopSuperseded(s) \/ LoopClosed(s)
  <2>1. HubTypeOK'
    BY <1>0, <1>7, HubFramed DEF LoopSuperseded, LoopClosed
  <2>2. closed[s] \in Reasons
    BY <1>0 DEF HubTypeOK
  <2>3. PICK k \in Terminals : Terminal(s, k)
    BY <1>7, <2>2 DEF LoopSuperseded, LoopClosed
  <2>4. once' \subseteq Streams /\ wire' \in [Streams -> Seq(Frames)]
    BY <2>3, TerminalTypes
  <2> QED
    BY <1>7, <2>1, <2>4 DEF LoopSuperseded, LoopClosed, TypeOK
<1>8. CASE LoopEvent(s)
  <2>1. buf[s] \in Seq(1..MaxEvents) /\ buf[s] # <<>> /\ Len(buf[s]) <= BufferCap
    BY <1>0, <1>8 DEF LoopEvent, TakeEvent, HubTypeOK
  <2>2. Head(buf[s]) \in 1..MaxEvents /\ Tail(buf[s]) \in Seq(1..MaxEvents)
        /\ Len(Tail(buf[s])) <= BufferCap
    <3>1. /\ Head(buf[s]) \in 1..MaxEvents /\ Tail(buf[s]) \in Seq(1..MaxEvents)
          /\ Len(buf[s]) \in Nat \ {0} /\ Len(Tail(buf[s])) = Len(buf[s]) - 1
      BY <2>1, Popped
    <3> QED
      BY <2>1, <3>1, BoundsAssumption
  <2>3. buf' \in [Streams -> Seq(1..MaxEvents)]
        /\ \A q \in Streams : Len(buf'[q]) <= BufferCap
    BY <1>0, <1>8, <2>2 DEF LoopEvent, TakeEvent, HubTypeOK
  <2>4. HubTypeOK'
    BY <1>0, <1>8, <2>3 DEF LoopEvent, TakeEvent, HubTypeOK
  <2>5. Frame("health", Head(buf[s])) \in Frames
    BY <2>2 DEF Frame, Frames
  <2>6. wire' \in [Streams -> Seq(Frames)]
    BY <1>8, <2>5, FrameTypes DEF LoopEvent
  <2> QED
    BY <1>8, <2>4, <2>6 DEF LoopEvent, TypeOK
<1>9. CASE Detach(s)
  <2>1. HubTypeOK'
    BY <1>0, <1>9 DEF Detach, DetachLocked, HubTypeOK
  <2>2. cur \in 0..MaxRuns
    BY <1>0 DEF HubTypeOK
  <2> QED
    BY <1>9, <2>1, <2>2 DEF Detach, TypeOK
<1>10. CASE LastStreamGone(s)
  <2>1. run[s] \in Runs
    BY <1>10 DEF LastStreamGone, RunInv
  <2>2. HubTypeOK'
    BY <1>0, <1>10, <2>1 DEF LastStreamGone, CancelRun, HubTypeOK
  <2> QED
    BY <1>10, <2>2 DEF LastStreamGone, TypeOK
<1>11. CASE Release(s)
  <2>1. HubTypeOK'
    BY <1>0, <1>11, HubFramed DEF Release
  <2> QED
    BY <1>11, <2>1 DEF Release, TypeOK
<1>12. CASE Join(s)
  <2>1. HubTypeOK'
    BY <1>0, <1>12, HubFramed DEF Join
  <2> QED
    BY <1>12, <2>1 DEF Join, TypeOK
<1>13. CASE ContainerStates(s)
  <2>1. HubTypeOK'
    BY <1>0, <1>13, HubFramed DEF ContainerStates
  <2>2. ver \in -1..MaxEvents /\ ver >= 0
    BY <1>0, BoundsAssumption DEF HubTypeOK
  <2>3. CASE seen' = [seen EXCEPT ![s] = ver] /\ Goto(s, "snapshot")
    <3>1. seen' \in [Streams -> -1..MaxEvents]
          /\ \A q \in Streams : spc'[q] = "snapshot" => seen'[q] >= 0
      BY <2>2, <2>3 DEF TypeOK
    <3> QED
      BY <1>13, <2>1, <2>3, <3>1 DEF ContainerStates, TypeOK
  <2>4. CASE seen' = seen /\ Goto(s, "detach")
    BY <1>13, <2>1, <2>4 DEF ContainerStates, TypeOK
  <2> QED
    BY <1>13, <2>3, <2>4 DEF ContainerStates
<1> QED
  BY <1>1, <1>2, <1>3, <1>4, <1>5, <1>6, <1>7, <1>8, <1>9, <1>10, <1>11, <1>12, <1>13
     DEF HandlerStep

\* So does every other step.
LEMMA OtherTypes ==
  ASSUME TypeOK, RunInv,
         \/ \E s \in Streams : HeartbeatStep(s) \/ ClientGone(s) \/ Stall(s)
         \/ (\E g \in Runs : RunStep(g)) /\ UNCHANGED streamVars
         \/ (EngineEvent \/ CancelLifecycle) /\ UNCHANGED streamVars
         \/ \E d \in Devices : Revoke(d)
         \/ UNCHANGED vars
  PROVE  TypeOK'
<1>0. HubTypeOK
  BY DEF TypeOK
<1>1. ASSUME NEW s \in Streams,
             \/ HeartbeatTick(s) \/ HeartbeatBlocks(s) \/ HeartbeatReturns(s)
             \/ HeartbeatCancel(s) \/ HeartbeatDone(s)
      PROVE  TypeOK'
  <2>1. HubTypeOK'
    BY <1>0, <1>1, HubFramed DEF HeartbeatTick, HeartbeatBlocks, HeartbeatReturns,
      HeartbeatCancel, HeartbeatDone
  <2> QED
    BY <1>1, <2>1 DEF HeartbeatTick, HeartbeatBlocks, HeartbeatReturns, HeartbeatCancel,
      HeartbeatDone, TypeOK
<1>2. ASSUME NEW s \in Streams, HeartbeatFrame(s)
      PROVE  TypeOK'
  <2>1. HubTypeOK'
    BY <1>0, <1>2, HubFramed DEF HeartbeatFrame
  <2>2. once' \subseteq Streams /\ wire' \in [Streams -> Seq(Frames)]
    BY <1>2, TerminalTypes DEF HeartbeatFrame
  <2> QED
    BY <1>2, <2>1, <2>2 DEF HeartbeatFrame, TypeOK
<1>3. ASSUME NEW s \in Streams, ClientGone(s) \/ Stall(s)
      PROVE  TypeOK'
  <2>1. HubTypeOK'
    BY <1>0, <1>3, HubFramed DEF ClientGone, Stall
  <2> QED
    BY <1>3, <2>1 DEF ClientGone, Stall, TypeOK
<1>4. ASSUME NEW d \in Devices, Revoke(d)
      PROVE  TypeOK'
  <2>1. HubTypeOK'
    BY <1>0, <1>4, HubFramed DEF Revoke
  <2> QED
    BY <1>4, <2>1 DEF Revoke, TypeOK
<1>5. CASE (\E g \in Runs : RunStep(g)) /\ UNCHANGED streamVars
  <2>1. HubTypeOK'
    BY <1>5, RunStepTypes
  <2> QED
    BY <1>5, <2>1 DEF streamVars, TypeOK
<1>6. CASE (EngineEvent \/ CancelLifecycle) /\ UNCHANGED streamVars
  <2>1. bound.events \in 0..MaxEvents /\ bound' = bound
    BY <1>0, <1>6, BoundsAssumption DEF HubTypeOK, streamVars
  <2>2. ver' \in 0..MaxEvents /\ down' \in BOOLEAN
    <3>1. CASE EngineEvent
      BY <1>0, <2>1, <3>1, BoundsAssumption DEF HubTypeOK, EngineEvent
    <3>2. CASE CancelLifecycle
      BY <1>0, <3>2 DEF HubTypeOK, CancelLifecycle
    <3> QED
      BY <1>6, <3>1, <3>2
  <2>3. HubTypeOK'
    BY <1>0, <1>6, <2>1, <2>2 DEF HubTypeOK, EngineEvent, CancelLifecycle
  <2> QED
    BY <1>6, <2>3 DEF streamVars, TypeOK
<1>7. CASE UNCHANGED vars
  <2>1. HubTypeOK'
    BY <1>0, <1>7, HubFramed DEF vars, streamVars
  <2> QED
    BY <1>7, <2>1 DEF vars, streamVars, TypeOK
<1> QED
  BY <1>1, <1>2, <1>3, <1>4, <1>5, <1>6, <1>7 DEF HeartbeatStep

-----------------------------------------------------------------------------
(* The three invariants *)

\* attach starts the run after the last one.
LEMMA NewRun ==
  ASSUME TypeOK, RunInv, NEW s \in Streams, Attach(s), ~running
  PROVE  /\ running' /\ cur' = cur + 1 /\ cur' \in Runs
         /\ runPc[cur'] = "none" /\ runPc'[cur'] = "start"
         /\ \A g \in Runs \ {cur'} : runPc'[g] = runPc[g]
<1>1. bound \in Scenarios /\ cur \in 0..MaxRuns /\ runPc \in [Runs -> RunPcs]
  BY DEF TypeOK, HubTypeOK
<1>2. cur < bound.runs /\ running' = TRUE /\ cur' = cur + 1
      /\ runPc' = [runPc EXCEPT ![cur + 1] = "start"]
  BY DEF Attach, AttachLocked
<1>3. cur + 1 \in Runs /\ cur + 1 > cur
  BY <1>1, <1>2, BoundsAssumption
<1>4. runPc[cur + 1] = "none"
  BY <1>3 DEF RunInv
<1> QED
  BY <1>1, <1>2, <1>3, <1>4

\* Every step of a handler keeps the runs, the subscribers and the slots in
\* order.
LEMMA HandlerInv ==
  ASSUME Inv, NEW s \in Streams, Open(s) \/ HandlerStep(s)
  PROVE  RunInv' /\ AttachInv' /\ SlotInv'
<1>0. /\ TypeOK
      /\ spc \in [Streams -> StreamPcs] /\ dev \in [Streams -> Devices]
      /\ active \in [Devices -> Streams \cup {NoStream}]
      /\ old \in [Streams -> Streams \cup {NoStream}]
      /\ run \in [Streams -> 0..MaxRuns]
      /\ HubTypeOK /\ RunInv /\ AttachInv /\ SlotInv
  BY DEF Inv, TypeOK
<1>1. CASE Open(s)
  <2>1. RunInv' /\ AttachInv'
    BY <1>0, <1>1, RunFramed, AttachFramed DEF Open, hubVars
  <2>2. dev' = dev /\ superseded' = superseded /\ spc[s] = "idle"
        /\ active' = [active EXCEPT ![dev[s]] = s]
        /\ old' = [old EXCEPT ![s] = active[dev[s]]]
        /\ spc' = [spc EXCEPT ![s] = IF active[dev[s]] = NoStream THEN "attach" ELSE "supersede"]
    BY <1>1 DEF Open
  <2>3. ASSUME NEW q \in Streams, q # s,
               spc'[q] \in {"supersede", "evict", "attach", "wait", "states", "snapshot", "loop", "blocked"},
               active'[dev[q]] # q
        PROVE  Evicting(q)'
    <3>1. spc'[q] = spc[q]
      BY <1>0, <2>2, <2>3
    <3>2. CASE active[dev[q]] = q
      <4>1. dev[q] = dev[s]
        BY <1>0, <2>2, <2>3, <3>2
      <4>2. spc'[s] = "supersede" /\ old'[s] = q
        BY <1>0, <2>2, <3>2, <4>1, NoStreamAssumption
      <4> QED
        BY <4>2 DEF Evicting
    <3>3. CASE active[dev[q]] # q
      <4>1. Evicting(q)
        BY <1>0, <2>3, <3>1, <3>3 DEF SlotInv
      <4> QED
        BY <1>0, <2>2, <4>1 DEF Evicting
    <3> QED
      BY <3>2, <3>3
  <2>4. active'[dev[s]] = s
    BY <1>0, <2>2
  <2>5. \A q \in Streams : spc'[q] \in {"supersede", "evict"} => old'[q] \in Streams
    BY <1>0, <2>2 DEF SlotInv
  <2>6. SlotInv'
    BY <2>2, <2>3, <2>4, <2>5 DEF SlotInv
  <2> QED
    BY <2>1, <2>6
<1>2. CASE CloseSuperseded(s)
  <2>1. RunInv' /\ AttachInv'
    BY <1>0, <1>2, RunFramed, AttachFramed DEF CloseSuperseded, hubVars
  <2>2. SlotInv'
    BY <1>0, <1>2 DEF CloseSuperseded, SlotInv, Evicting
  <2> QED
    BY <2>1, <2>2
<1>3. CASE Evict(s)
  BY <1>0, <1>3, RunFramed, AttachFramed, SlotFramed DEF Evict, hubVars
<1>4. CASE Attach(s)
  <2>1. SlotInv'
    BY <1>0, <1>4, SlotFramed DEF Attach
  <2>2. AttachInv'
    <3>1. subs' = subs \cup {s} /\ closed' = closed /\ pending' = pending
      BY <1>4 DEF Attach, AttachLocked
    <3>2. \A g \in Runs : runPc[g] # "none" => runPc'[g] = runPc[g]
      <4>1. CASE running
        BY <1>4, <4>1 DEF Attach, AttachLocked
      <4>2. CASE ~running
        BY <1>0, <1>4, <4>2, NewRun
      <4> QED
        BY <4>1, <4>2
    <3> QED
      BY <1>0, <1>4, <3>1, <3>2 DEF Attach, AttachInv, Attached
  <2>3. RunInv'
    <3>1. /\ pos' = pos /\ subs' # {}
          /\ \A q \in Streams : spc'[q] = "lastgone" => spc[q] = "lastgone" /\ run'[q] = run[q]
      BY <1>0, <1>4 DEF Attach, AttachLocked
    <3>2. CASE running
      <4>1. UNCHANGED <<running, cur, runPc>>
        BY <1>4, <3>2 DEF Attach, AttachLocked
      <4> QED
        BY <1>0, <3>1, <3>2, <4>1 DEF RunInv
    <3>3. CASE ~running
      <4>1. \A g \in Runs : runPc[g] \notin Subscribed
        BY <1>0, <3>3 DEF RunInv
      <4>2. \A g \in Runs : runPc'[g] \in Subscribed => g = cur'
        BY <1>0, <1>4, <3>3, <4>1, NewRun DEF Subscribed
      <4>3. \A g \in Runs : g > cur' => runPc'[g] = "none"
        BY <1>0, <1>4, <3>3, NewRun DEF RunInv, HubTypeOK
      <4>4. \A g \in Runs : runPc'[g] \in {"fanout", "dropping", "lastgone"} => pos[g] # 0
        BY <1>0, <1>4, <3>3, NewRun DEF RunInv
      <4>5. running' /\ cur' \in Runs /\ runPc'[cur'] \in Subscribed
        BY <1>0, <1>4, <3>3, NewRun DEF Subscribed
      <4> QED
        BY <1>0, <3>1, <4>2, <4>3, <4>4, <4>5 DEF RunInv
    <3> QED
      BY <3>2, <3>3
  <2> QED
    BY <2>1, <2>2, <2>3
<1>5. CASE AttachWait(s)
  BY <1>0, <1>5, RunFramed, AttachFramed, SlotFramed DEF AttachWait, hubVars
<1>6. CASE Snapshot(s)
  BY <1>0, <1>6, RunFramed, AttachFramed, SlotFramed DEF Snapshot, hubVars
<1>7. CASE ContainerStates(s)
  BY <1>0, <1>7, RunFramed, AttachFramed, SlotFramed DEF ContainerStates, hubVars
<1>8. CASE LoopSuperseded(s)
  BY <1>0, <1>8, RunFramed, AttachFramed, SlotFramed DEF LoopSuperseded, hubVars
<1>9. CASE LoopDone(s)
  BY <1>0, <1>9, RunFramed, AttachFramed, SlotFramed DEF LoopDone, hubVars
<1>10. CASE LoopEvent(s)
  BY <1>0, <1>10, RunFramed, AttachFramed, SlotFramed DEF LoopEvent, TakeEvent
<1>11. CASE LoopClosed(s)
  BY <1>0, <1>11, RunFramed, AttachFramed, SlotFramed DEF LoopClosed, hubVars
<1>12. CASE Detach(s)
  <2>1. SlotInv'
    BY <1>0, <1>12, SlotFramed DEF Detach
  <2>2. AttachInv'
    BY <1>0, <1>12 DEF Detach, DetachLocked, AttachInv, Attached
  <2>3. RunInv'
    <3>1. /\ subs' = subs \ {s} /\ UNCHANGED <<runPc, cur, running, pos>>
      BY <1>12 DEF Detach, DetachLocked
    <3>2. \A q \in Streams : spc'[q] = "lastgone" => run'[q] \in Runs
      BY <1>0, <1>12 DEF Detach, LastOne, RunInv
    <3> QED
      BY <1>0, <3>1, <3>2 DEF RunInv
  <2> QED
    BY <2>1, <2>2, <2>3
<1>13. CASE LastStreamGone(s)
  BY <1>0, <1>13, RunFramed, AttachFramed, SlotFramed DEF LastStreamGone, CancelRun
<1>14. CASE Release(s)
  <2>1. RunInv' /\ AttachInv'
    BY <1>0, <1>14, RunFramed, AttachFramed DEF Release, hubVars
  <2>2. SlotInv'
    BY <1>0, <1>14, NoStreamAssumption DEF Release, SlotInv, Evicting
  <2> QED
    BY <2>1, <2>2
<1>15. CASE Join(s)
  BY <1>0, <1>15, RunFramed, AttachFramed, SlotFramed DEF Join, hubVars
<1>16. CASE LoopBlocks(s)
  BY <1>0, <1>16, RunFramed, AttachFramed, SlotFramed DEF LoopBlocks, hubVars
<1>17. CASE WriteReturns(s)
  BY <1>0, <1>17, RunFramed, AttachFramed, SlotFramed DEF WriteReturns, hubVars
<1> QED
  BY <1>1, <1>2, <1>3, <1>4, <1>5, <1>6, <1>7, <1>8, <1>9, <1>10, <1>11, <1>12,
     <1>13, <1>14, <1>15, <1>16, <1>17 DEF HandlerStep

\* So does every other step.
LEMMA OtherInv ==
  ASSUME Inv,
         \/ \E s \in Streams : HeartbeatStep(s) \/ ClientGone(s) \/ Stall(s)
         \/ (\E g \in Runs : RunStep(g)) /\ UNCHANGED streamVars
         \/ (EngineEvent \/ CancelLifecycle) /\ UNCHANGED streamVars
         \/ \E d \in Devices : Revoke(d)
         \/ UNCHANGED vars
  PROVE  RunInv' /\ AttachInv' /\ SlotInv'
<1>0. TypeOK /\ RunInv /\ AttachInv /\ SlotInv
  BY DEF Inv
<1>1. ASSUME NEW s \in Streams, HeartbeatStep(s)
      PROVE  RunInv' /\ AttachInv' /\ SlotInv'
  <2>1. UNCHANGED <<hubVars, idVars, spc, run, superseded>>
    BY <1>1 DEF HeartbeatStep, HeartbeatTick, HeartbeatBlocks, HeartbeatReturns,
      HeartbeatFrame, HeartbeatCancel, HeartbeatDone
  <2> QED
    BY <1>0, <2>1, RunFramed, AttachFramed, SlotFramed DEF hubVars
<1>2. ASSUME NEW s \in Streams, ClientGone(s) \/ Stall(s)
      PROVE  RunInv' /\ AttachInv' /\ SlotInv'
  <2>1. UNCHANGED <<hubVars, spc, run, active, dev, old, superseded>>
    BY <1>2 DEF ClientGone, Stall
  <2> QED
    BY <1>0, <2>1, RunFramed, AttachFramed, SlotFramed DEF hubVars
<1>3. ASSUME NEW d \in Devices, Revoke(d)
      PROVE  RunInv' /\ AttachInv' /\ SlotInv'
  BY <1>0, <1>3, RunFramed, AttachFramed, SlotFramed DEF Revoke, hubVars
<1>4. CASE (\E g \in Runs : RunStep(g)) /\ UNCHANGED streamVars
  <2>1. SlotInv'
    BY <1>0, <1>4, SlotFramed DEF streamVars
  <2> QED
    BY <1>0, <1>4, <2>1, RunStepRuns, RunStepAttached
<1>5. CASE (EngineEvent \/ CancelLifecycle) /\ UNCHANGED streamVars
  BY <1>0, <1>5, RunFramed, AttachFramed, SlotFramed
     DEF EngineEvent, CancelLifecycle, streamVars
<1>6. CASE UNCHANGED vars
  BY <1>0, <1>6, RunFramed, AttachFramed, SlotFramed DEF vars, hubVars, streamVars
<1> QED
  BY <1>1, <1>2, <1>3, <1>4, <1>5, <1>6

\* The inductive invariant holds in every behaviour.
THEOREM Invariance == Spec => []Inv
<1>1. Init => Inv
  <2> SUFFICES ASSUME Init PROVE Inv
    OBVIOUS
  <2>1. HubTypeOK
    <3>1. buf \in [Streams -> Seq(1..MaxEvents)] /\ \A s \in Streams : Len(buf[s]) = 0
      BY DEF Init, HubInit
    <3>2. ver \in 0..MaxEvents /\ cur \in 0..MaxRuns /\ pos \in [Runs -> 0..MaxEvents]
      BY BoundsAssumption DEF Init, HubInit
    <3>3. \A s \in Streams : Len(buf[s]) <= BufferCap
      BY <3>1, BoundsAssumption
    <3> QED
      BY <3>1, <3>2, <3>3 DEF Init, HubInit, HubTypeOK
  <2>2. run \in [Streams -> 0..MaxRuns] /\ wire \in [Streams -> Seq(Frames)]
        /\ seen \in [Streams -> -1..MaxEvents]
    BY BoundsAssumption DEF Init
  <2>3. TypeOK
    BY <2>1, <2>2 DEF Init, TypeOK
  <2>4. RunInv /\ AttachInv /\ SlotInv
    BY DEF Init, HubInit, RunInv, AttachInv, SlotInv, Subscribed
  <2> QED
    BY <2>3, <2>4 DEF Inv
<1>2. Inv /\ [Next]_vars => Inv'
  <2> SUFFICES ASSUME Inv, [Next]_vars PROVE Inv'
    OBVIOUS
  <2>1. ASSUME NEW s \in Streams, Open(s) \/ HandlerStep(s)
        PROVE  Inv'
    BY <2>1, HandlerTypes, HandlerInv DEF Inv
  <2>2. CASE \/ \E s \in Streams : HeartbeatStep(s) \/ ClientGone(s) \/ Stall(s)
             \/ (\E g \in Runs : RunStep(g)) /\ UNCHANGED streamVars
             \/ (EngineEvent \/ CancelLifecycle) /\ UNCHANGED streamVars
             \/ \E d \in Devices : Revoke(d)
             \/ UNCHANGED vars
    BY <2>2, OtherTypes, OtherInv DEF Inv
  <2> QED
    BY <2>1, <2>2 DEF Next
<1> QED
  BY <1>1, <1>2, PTL DEF Spec

\* The state of hub, registry and handlers keeps its type; in particular no
\* subscriber's channel ever holds more than eventClientBuffer events.
THEOREM EventTypes == Spec => []TypeOK
<1>1. Inv => TypeOK
  BY DEF Inv
<1> QED
  BY <1>1, Invariance, PTL

\* However often the hub stops and restarts, and however slowly its old runs
\* wind down, the agent holds at most one Engine subscription (attach, run).
THEOREM SingleSubscription == Spec => []OneSubscription
<1>1. Inv => OneSubscription
  <2> SUFFICES ASSUME Inv PROVE OneSubscription
    OBVIOUS
  <2> DEFINE S == {g \in Runs : runPc[g] \in {"start", "opened", "live",
                                              "fanout", "dropping", "lastgone"}}
  <2>1. S \subseteq {cur}
    BY DEF Inv, RunInv, Subscribed
  <2>2. IsFiniteSet({cur}) /\ Cardinality({cur}) = 1
    BY FS_Singleton
  <2> HIDE DEF S
  <2>3. Cardinality(S) <= 1
    BY <2>1, <2>2, FS_Subset
  <2> QED
    BY <2>3 DEF S, OneSubscription
<1> QED
  BY <1>1, Invariance, PTL

\* An attached stream is fed by a running hub, or its end has been signalled
\* or is on a run's list (attach, fanout, run's teardown).
THEOREM StreamsNeverSilent == Spec => []NoSilentStream
<1>1. Inv => NoSilentStream
  BY DEF Inv, RunInv, AttachInv, Attached, NoSilentStream
<1> QED
  BY <1>1, Invariance, PTL

\* A registered stream that does not hold its device's slot has been evicted
\* or is about to be (eventRegistry.register and release).
THEOREM NewestStreamWins == Spec => []NewestWins
<1>1. Inv => NewestWins
  BY DEF Inv, SlotInv, Evicting, NewestWins
<1> QED
  BY <1>1, Invariance, PTL

-----------------------------------------------------------------------------
(* Letting go of the Engine *)

\* The hub's run has been cancelled, or whoever removed its last subscriber is
\* about to cancel it.
LetGo ==
  \/ cur \in cancelled
  \/ runPc[cur] = "lastgone"
  \/ \E s \in Streams : spc[s] = "lastgone" /\ run[s] = cur

\* Where a handler may have a subscriber in the hub.
Holding == {"wait", "states", "snapshot", "loop", "blocked", "detach"}

\* A hub without a subscriber is being stopped, and no handler that is past its
\* detach has left a subscriber behind.
LeaveInv ==
  /\ running /\ subs = {} => LetGo
  /\ \A s \in subs : spc[s] \in Holding

\* A step that touches no subscriber and no run, and takes no handler out of
\* detach's cancel.
LEMMA LeaveFramed ==
  ASSUME LeaveInv, UNCHANGED <<running, subs, cur, cancelled, runPc, run>>,
         \A s \in Streams : spc[s] = "lastgone" => spc'[s] = "lastgone",
         \A s \in subs : spc[s] \in Holding => spc'[s] \in Holding
  PROVE  LeaveInv'
BY DEF LeaveInv, LetGo

\* A run that loses its last subscriber to a full buffer cancels itself.
LEMMA RunLeaves ==
  ASSUME Inv, LeaveInv, NEW g \in Runs, RunStep(g), UNCHANGED streamVars
  PROVE  LeaveInv'
<1>0. /\ runPc \in [Runs -> RunPcs] /\ spc' = spc /\ run' = run /\ RunInv
      /\ subs \subseteq Streams
  BY DEF Inv, TypeOK, HubTypeOK, streamVars
<1> USE DEF LeaveInv, LetGo
<1>1. ASSUME NEW l, runPc[g] # "lastgone", runPc' = [runPc EXCEPT ![g] = l],
             UNCHANGED <<running, subs, cur, cancelled>>
      PROVE  LeaveInv'
  <2>1. running => cur \in Runs
    BY <1>0 DEF RunInv
  <2>2. running /\ runPc[cur] = "lastgone" => runPc'[cur] = "lastgone"
    BY <1>0, <1>1, <2>1
  <2> QED
    BY <1>0, <1>1, <2>2
<1>2. CASE Subscribe(g) \/ markReady(g) \/ FanoutDone(g)
  BY <1>1, <1>2 DEF Subscribe, markReady, FanoutDone
<1>3. CASE Receive(g) \/ CloseFailed(g) \/ RunReturns(g)
  BY <1>1, <1>3 DEF Receive, CloseFailed, RunReturns
<1>4. CASE LastGone(g)
  BY <1>0, <1>4 DEF LastGone
<1>5. CASE RunStops(g) \/ FeedBreaks(g)
  BY <1>0, <1>5 DEF RunStops, FeedBreaks, RunEnds
<1>6. ASSUME NEW s \in Streams, Send(g, s) \/ CloseSubs(g, s)
      PROVE  LeaveInv'
  <2>1. UNCHANGED <<subs, running, cur, runPc, cancelled>>
    BY <1>6 DEF Send, CloseSubs
  <2> QED
    BY <1>0, <2>1
<1>7. ASSUME NEW s \in Streams, Lag(g, s)
      PROVE  LeaveInv'
  BY <1>1, <1>7 DEF Lag
<1>8. ASSUME NEW s \in Streams, Drop(g, s)
      PROVE  LeaveInv'
  <2>1. /\ runPc[g] = "dropping" /\ g = cur /\ running /\ cur' = cur /\ cancelled' = cancelled
        /\ running' = running /\ subs' = subs \ {s}
        /\ runPc' = [runPc EXCEPT ![g] = IF LastOne(s) THEN "lastgone" ELSE "fanout"]
    BY <1>0, <1>8 DEF Drop, RunInv, Subscribed
  <2>2. CASE LastOne(s)
    BY <1>0, <2>1, <2>2
  <2>3. CASE ~LastOne(s)
    <3>1. subs' = {} => subs = {}
      BY <2>1, <2>3 DEF LastOne
    <3> QED
      BY <1>0, <2>1, <2>3, <3>1
  <2> QED
    BY <2>2, <2>3
<1> QED
  BY <1>2, <1>3, <1>4, <1>5, <1>6, <1>7, <1>8, RunCases

\* A handler that takes the last subscriber with it goes on to cancel the run.
LEMMA HandlerLeaves ==
  ASSUME Inv, LeaveInv, NEW s \in Streams, Open(s) \/ HandlerStep(s)
  PROVE  LeaveInv'
<1>0. /\ spc \in [Streams -> StreamPcs] /\ run \in [Streams -> 0..MaxRuns]
      /\ subs \subseteq Streams
  BY DEF Inv, TypeOK, HubTypeOK
<1> USE DEF Holding
<1>1. CASE Open(s)
  BY <1>0, <1>1, LeaveFramed DEF Open, hubVars
<1>2. CASE CloseSuperseded(s) \/ Evict(s)
  BY <1>0, <1>2, LeaveFramed DEF CloseSuperseded, Evict, hubVars
<1>3. CASE Attach(s)
  <2>1. subs' = subs \cup {s} /\ spc' = [spc EXCEPT ![s] = "wait"]
    BY <1>3 DEF Attach, AttachLocked
  <2> QED
    BY <1>0, <2>1 DEF LeaveInv
<1>4. CASE AttachWait(s) \/ ContainerStates(s) \/ Snapshot(s)
  BY <1>0, <1>4, LeaveFramed DEF AttachWait, ContainerStates, Snapshot, hubVars
<1>5. CASE LoopSuperseded(s) \/ LoopDone(s) \/ LoopClosed(s)
  BY <1>0, <1>5, LeaveFramed DEF LoopSuperseded, LoopDone, LoopClosed, hubVars
<1>6. CASE LoopEvent(s)
  BY <1>0, <1>6, LeaveFramed DEF LoopEvent, TakeEvent
<1>7. CASE Detach(s)
  <2>1. /\ subs' = subs \ {s} /\ UNCHANGED <<running, cur, cancelled, runPc>>
        /\ spc[s] = "detach"
        /\ spc' = [spc EXCEPT ![s] = IF LastOne(s) THEN "lastgone" ELSE "release"]
        /\ run' = IF LastOne(s) THEN [run EXCEPT ![s] = cur] ELSE run
    BY <1>7 DEF Detach, DetachLocked
  <2>2. \A q \in subs' : spc'[q] \in Holding
    BY <1>0, <2>1 DEF LeaveInv
  <2>3. CASE LastOne(s)
    <3>1. spc'[s] = "lastgone" /\ run'[s] = cur'
      BY <1>0, <2>1, <2>3
    <3> QED
      BY <2>2, <3>1 DEF LeaveInv, LetGo
  <2>4. CASE ~LastOne(s)
    <3>1. running /\ subs' = {} => subs = {}
      BY <2>1, <2>4 DEF LastOne
    <3>2. \A q \in Streams : spc[q] = "lastgone" => spc'[q] = "lastgone" /\ run'[q] = run[q]
      BY <1>0, <2>1, <2>4
    <3> QED
      BY <2>1, <2>2, <3>1, <3>2 DEF LeaveInv, LetGo
  <2> QED
    BY <2>3, <2>4
<1>8. CASE LastStreamGone(s)
  <2>1. /\ cancelled' = cancelled \cup {run[s]} /\ run' = run /\ spc[s] = "lastgone"
        /\ UNCHANGED <<running, subs, cur, runPc>>
        /\ spc' = [spc EXCEPT ![s] = "release"]
    BY <1>8 DEF LastStreamGone, CancelRun
  <2> QED
    BY <1>0, <2>1 DEF LeaveInv, LetGo
<1>9. CASE Release(s) \/ Join(s)
  BY <1>0, <1>9, LeaveFramed DEF Release, Join, hubVars
<1>10. CASE LoopBlocks(s) \/ WriteReturns(s)
  BY <1>0, <1>10, LeaveFramed DEF LoopBlocks, WriteReturns, hubVars
<1> QED
  BY <1>1, <1>2, <1>3, <1>4, <1>5, <1>6, <1>7, <1>8, <1>9, <1>10 DEF HandlerStep

\* No other step has to do with it.
LEMMA LeaveStep ==
  ASSUME Inv, LeaveInv, [Next]_vars
  PROVE  LeaveInv'
<1>1. ASSUME NEW s \in Streams, HeartbeatStep(s)
      PROVE  LeaveInv'
  <2>1. UNCHANGED <<hubVars, spc, run>>
    BY <1>1 DEF HeartbeatStep, HeartbeatTick, HeartbeatBlocks, HeartbeatReturns,
      HeartbeatFrame, HeartbeatCancel, HeartbeatDone
  <2> QED
    BY <2>1, LeaveFramed DEF hubVars
<1>2. ASSUME NEW s \in Streams, ClientGone(s) \/ Stall(s)
      PROVE  LeaveInv'
  BY <1>2, LeaveFramed DEF ClientGone, Stall, hubVars
<1>3. ASSUME NEW d \in Devices, Revoke(d)
      PROVE  LeaveInv'
  BY <1>3, LeaveFramed DEF Revoke, hubVars
<1>4. CASE (EngineEvent \/ CancelLifecycle) /\ UNCHANGED streamVars
  BY <1>4, LeaveFramed DEF EngineEvent, CancelLifecycle, streamVars
<1>5. CASE UNCHANGED vars
  BY <1>5, LeaveFramed DEF vars, hubVars, streamVars
<1> QED
  BY <1>1, <1>2, <1>3, <1>4, <1>5, RunLeaves, HandlerLeaves DEF Next

\* Whoever leaves last, a handler or a client that is dropped for lagging, and
\* however that races with a new attach, a hub without subscribers has its run
\* cancelled or about to be; once every handler has returned only the run itself
\* can still have it to do (detach, fanout).
THEOREM SubscriptionNeverLeaks ==
  Spec => [](/\ running /\ subs = {} => LetGo
             /\ running /\ (\A s \in Streams : spc[s] \in {"idle", "done"}) =>
                  cur \in cancelled \/ runPc[cur] = "lastgone")
<1>1. Init => LeaveInv
  BY DEF Init, HubInit, LeaveInv
<1>2. LeaveInv /\ Inv =>
        /\ running /\ subs = {} => LetGo
        /\ running /\ (\A s \in Streams : spc[s] \in {"idle", "done"}) =>
             cur \in cancelled \/ runPc[cur] = "lastgone"
  <2> SUFFICES ASSUME LeaveInv, subs \subseteq Streams, running,
                      \A s \in Streams : spc[s] \in {"idle", "done"}
               PROVE  cur \in cancelled \/ runPc[cur] = "lastgone"
    BY DEF LeaveInv, Inv, TypeOK, HubTypeOK
  <2>1. subs = {}
    BY DEF LeaveInv, Holding
  <2> QED
    BY <2>1 DEF LeaveInv, LetGo
<1> QED
  BY <1>1, <1>2, LeaveStep, Invariance, PTL DEF Spec

-----------------------------------------------------------------------------
(* The promised feed: the inductive invariant of the refinement *)

\* The handler has attached and has not left its loop.
Listening(s) == spc[s] \in {"wait", "states", "snapshot", "loop"}

\* The last event the stream's client was sent, or 0; and the last one that
\* is in its channel or was taken from it, or 0.
Told(s) == Feed!LastEvent(wire[s])

Final(s) == IF buf[s] = <<>> THEN Told(s) ELSE buf[s][Len(buf[s])]

\* Consecutive events from the next one on wait in the channel, or, before the
\* first event was sent, from one not beyond the first after the snapshot.
Queued(s) ==
  /\ Told(s) \in 0..ver
  /\ \A i \in 1..Len(buf[s]) : buf[s][i] = buf[s][1] + (i - 1) /\ buf[s][i] <= ver
  /\ buf[s] # <<>> /\ Told(s) # 0 => buf[s][1] = Told(s) + 1
  /\ buf[s] # <<>> /\ Told(s) = 0 /\ seen[s] >= 0 => buf[s][1] <= seen[s] + 1

QueueInv == \A s \in Streams : Listening(s) => Queued(s)

\* What the current run has fanned out to a subscriber.
Fanning(g) == runPc[g] \in {"fanout", "dropping", "lastgone"}

Offered(s) == IF Fanning(cur) /\ s \in pending[cur] THEN pos[cur] - 1 ELSE pos[cur]

\* A subscriber has all its run has fanned out; one that has nothing yet has
\* missed nothing since its snapshot.
Synced(s) ==
  /\ run[s] = cur
  /\ runPc[cur] = "start" => buf[s] = <<>> /\ seen[s] = -1
  /\ runPc[cur] # "start" /\ Final(s) # 0 => Final(s) = Offered(s)
  /\ runPc[cur] # "start" /\ Final(s) = 0 /\ seen[s] >= 0 => Offered(s) <= seen[s]

SyncInv == \A s \in subs : Listening(s) => Synced(s)

\* A stream that is dropped for lagging has missed an event, and fanout visits
\* no stream that has left.
LagInv ==
  /\ \A s \in Streams : Listening(s) /\ closed[s] = "lagged" => Final(s) < ver
  /\ \A g \in Runs, s \in Streams :
       Listening(s) /\ Fanning(g) /\ s \in pending[g] => s \in subs

\* The handler has yet to attach.
Early(s) == spc[s] \in {"idle", "supersede", "evict", "attach"}

\* A stream belongs to the run it attached to, and to no other before or after.
OwnInv ==
  /\ \A s \in subs : run[s] = cur
  /\ \A g \in Runs : \A s \in pending[g] : run[s] = g
  /\ \A s \in Streams : Early(s) => run[s] = 0

\* The one subscriber that can be closed is the one that fanout is dropping.
DropInv ==
  \A s \in Streams : closed[s] # "none" =>
    /\ s \in subs => runPc[cur] = "dropping" /\ s \in pending[cur]
    /\ \A g \in Runs : Fanning(g) /\ s \in pending[g] =>
         runPc[g] = "dropping" /\ \A q \in pending[g] : closed[q] # "none" => q = s

\* A stream that is told, or about to be told, that the Engine is unavailable
\* had its feed broken off, or belongs to a run that was cancelled.
EngineInv ==
  \A s \in Streams :
    \/ closed[s] = "engine"
    \/ \E g \in Runs : s \in pending[g] /\ runPc[g] \in {"ended", "closing"}
    => s \in cut \/ run[s] \in cancelled \/ down

\* What a stream has not got before it attaches, before its snapshot and after.
FreshInv ==
  \A s \in Streams :
    /\ spc[s] \in {"idle", "supersede", "evict", "attach"} =>
         /\ s \notin subs /\ buf[s] = <<>> /\ closed[s] = "none"
         /\ \A g \in Runs : s \notin pending[g]
    /\ spc[s] \in {"idle", "supersede", "evict", "attach", "wait", "states"} => seen[s] = -1
    /\ spc[s] \in {"idle", "supersede", "evict", "attach", "wait", "states", "snapshot"} =>
         wire[s] = <<>> /\ s \notin once /\ hb[s] = "none"
    /\ wire[s] # <<>> => seen[s] >= 0
    /\ spc[s] = "loop" \/ hb[s] # "none" => wire[s] # <<>>

\* A run is ready once it is subscribed, and delivers nothing that has not
\* happened; a stream goes on only when its run is ready.
ReadyInv ==
  /\ \A g \in Runs : runPc[g] \in {"none", "start", "opened"} => g \notin ready
  /\ \A s \in Streams : spc[s] \in {"states", "snapshot", "loop"} => run[s] \in ready
  /\ \A g \in Runs : pos[g] <= ver

\* None of the terminal frames follows another, and a revocation is a fact.
ReasonInv ==
  /\ \A s \in Streams \ once : \A i \in DOMAIN wire[s] : wire[s][i].kind \notin Terminals
  /\ \A s \in Streams : hb[s] = "frame" => dev[s] \in revoked

Rival(q, s) == q # s /\ spc[q] # "idle" /\ dev[q] = dev[s]

\* A stream is evicted only for another one of its device.
EvictInv ==
  /\ \A d \in Devices :
       active[d] # NoStream => dev[active[d]] = d /\ spc[active[d]] # "idle"
  /\ \A s \in Streams : spc[s] \in {"supersede", "evict"} => Rival(s, old[s])
  /\ \A s \in superseded : \E q \in Streams : Rival(q, s)

\* The streams and what their runs do to them.
SharedInv == OwnInv /\ DropInv /\ EngineInv

FeedInv ==
  /\ QueueInv /\ SyncInv /\ LagInv /\ SharedInv
  /\ FreshInv /\ ReadyInv /\ ReasonInv /\ EvictInv

-----------------------------------------------------------------------------
\* A set of positions in a sequence has a greatest one.
LEMMA GreatestExists ==
  ASSUME NEW n \in Nat, NEW I \in SUBSET (1..n), I # {}
  PROVE  \E x \in I : \A y \in I : y <= x
<1> DEFINE R == OpToRel(<, Nat)
           J == {n - i : i \in I}
<1>1. IsWellFoundedOn(R, Nat)
  BY NatLessThanWellFounded
<1>2. R = {p \in Nat \X Nat : p[1] < p[2]}
  BY DEF OpToRel
<1>3. J \subseteq Nat /\ J # {}
  <2>1. \A i \in I : n - i \in Nat
    OBVIOUS
  <2> QED
    BY <2>1
<1> HIDE DEF R
<1>4. PICK j \in J : \A k \in J : ~(<<k, j>> \in R)
  <2> HIDE DEF J
  <2> QED
    BY <1>1, <1>3, WFMin
<1>5. PICK x \in I : j = n - x
  OBVIOUS
<1>6. ASSUME NEW y \in I
      PROVE  y <= x
  <2>1. n - y \in J /\ n - y \in Nat /\ n - x \in Nat
    OBVIOUS
  <2>2. ~(n - y < n - x)
    BY <1>2, <1>4, <1>5, <2>1
  <2> QED
    BY <2>2
<1> QED
  BY <1>6

\* Frames that are not events do not change the last event; an event does.
LEMMA LastAppend ==
  ASSUME NEW w \in Seq(Frames), NEW f \in Frames
  PROVE  Feed!LastEvent(Append(w, f)) = IF f.kind = "health" THEN f.n ELSE Feed!LastEvent(w)
<1> DEFINE v == Append(w, f)
           E == Feed!Events(w)
           F == Feed!Events(v)
           Top(S) == CHOOSE i \in S : \A j \in S : j <= i
<1>1. /\ v \in Seq(Frames) /\ Len(v) = Len(w) + 1 /\ v[Len(w) + 1] = f
      /\ \A i \in 1..Len(w) : v[i] = w[i]
      /\ DOMAIN v = 1..(Len(w) + 1) /\ DOMAIN w = 1..Len(w) /\ Len(w) \in Nat
  BY AppendProperties
<1> HIDE DEF v
<1>2. E \in SUBSET (1..Len(w)) /\ F \in SUBSET (1..(Len(w) + 1))
  BY <1>1 DEF Feed!Events
<1>3. CASE f.kind = "health"
  <2>1. Len(w) + 1 \in F /\ \A j \in F : j <= Len(w) + 1
    BY <1>1, <1>2, <1>3 DEF Feed!Events
  <2>2. Top(F) \in F /\ \A j \in F : j <= Top(F)
    <3> HIDE DEF F
    <3> QED
      BY <2>1
  <2>3. Top(F) = Len(w) + 1
    <3> DEFINE t == Top(F)
    <3>1. t \in F /\ \A j \in F : j <= t
      BY <2>2
    <3> HIDE DEF F, t
    <3>2. t \in 1..(Len(w) + 1) /\ Len(w) + 1 <= t /\ t <= Len(w) + 1
      BY <1>2, <2>1, <3>1
    <3>3. t = Len(w) + 1
      BY <1>1, <3>2
    <3> QED
      BY <3>3 DEF t
  <2>4. Feed!LastEvent(v) = v[Top(F)].n
    BY <2>1 DEF Feed!LastEvent
  <2> QED
    BY <1>1, <1>3, <2>3, <2>4 DEF v
<1>4. CASE f.kind # "health"
  <2>1. F = E
    BY <1>1, <1>4 DEF Feed!Events
  <2>2. CASE E = {}
    BY <1>4, <2>1, <2>2 DEF Feed!LastEvent, v
  <2>3. CASE E # {}
    <3>1. \E i \in E : \A j \in E : j <= i
      <4> HIDE DEF E
      <4> QED
        BY <1>1, <1>2, <2>3, GreatestExists
    <3>2. Top(E) \in E
      <4> HIDE DEF E
      <4> QED
        BY <3>1
    <3>3. Feed!LastEvent(w) = w[Top(E)].n
      BY <2>3 DEF Feed!LastEvent
    <3>4. Feed!LastEvent(v) = v[Top(F)].n
      BY <2>1, <2>3 DEF Feed!LastEvent
    <3>5. v[Top(E)] = w[Top(E)]
      <4> HIDE DEF E, Top
      <4> QED
        BY <1>1, <1>2, <3>2
    <3> QED
      BY <1>4, <2>1, <3>3, <3>4, <3>5 DEF v
  <2> QED
    BY <2>2, <2>3
<1> QED
  BY <1>3, <1>4

\* The last event is one.
LEMMA LastType ==
  ASSUME NEW w \in Seq(Frames)
  PROVE  Feed!LastEvent(w) \in Nat
<1> DEFINE E == Feed!Events(w)
           Top(S) == CHOOSE i \in S : \A j \in S : j <= i
<1>1. E \in SUBSET (1..Len(w)) /\ Len(w) \in Nat
  BY DEF Feed!Events
<1>2. CASE E = {}
  BY <1>2 DEF Feed!LastEvent
<1>3. CASE E # {}
  <2>1. Top(E) \in E
    <3> HIDE DEF E
    <3>1. \E i \in E : \A j \in E : j <= i
      BY <1>1, <1>3, GreatestExists
    <3> QED
      BY <3>1
  <2>2. Feed!LastEvent(w) = w[Top(E)].n
    BY <1>3 DEF Feed!LastEvent
  <2>3. w[Top(E)] \in Frames
    <3> DEFINE t == Top(E)
    <3>1. t \in 1..Len(w)
      BY <1>1, <2>1
    <3> HIDE DEF t
    <3>2. w[t] \in Frames
      BY <3>1
    <3> QED
      BY <3>2 DEF t
  <2> QED
    BY <2>2, <2>3, BoundsAssumption DEF Frames
<1> QED
  BY <1>2, <1>3

\* No frames, no event.
LEMMA LastEmpty == Feed!LastEvent(<<>>) = 0
  BY DEF Feed!LastEvent, Feed!Events

\* Nor is a sequence empty that something was appended to.
LEMMA NotEmpty ==
  ASSUME NEW w \in Seq(Frames), NEW f
  PROVE  Append(w, f) # <<>>
<1>1. Len(Append(w, f)) = Len(w) + 1 /\ Len(w) \in Nat
  OBVIOUS
<1>2. Len(<<>>) = 0
  OBVIOUS
<1> QED
  BY <1>1, <1>2

\* A sequence that is not empty has a first and a last element.
LEMMA Ends ==
  ASSUME NEW S, NEW w \in Seq(S), w # <<>>
  PROVE  /\ Len(w) \in Nat /\ Len(w) >= 1 /\ 1 \in 1..Len(w) /\ Len(w) \in 1..Len(w)
         /\ w[1] \in S /\ w[Len(w)] \in S
<1>1. Len(w) \in Nat /\ Len(w) # 0
  BY EmptySeq
<1>2. 1 \in 1..Len(w) /\ Len(w) \in 1..Len(w)
  BY <1>1
<1> QED
  BY <1>1, <1>2

-----------------------------------------------------------------------------
(* What a stream has and what its run has fanned out *)
\* Nothing happens to what a stream has been sent, or will be.
SameFeed(s) == buf'[s] = buf[s] /\ Told(s)' = Told(s) /\ seen'[s] = seen[s]

\* A stream is sent the same when neither its channel nor its wire changes.
LEMMA SameWire ==
  ASSUME NEW s \in Streams, buf'[s] = buf[s], wire'[s] = wire[s], seen'[s] = seen[s]
  PROVE  SameFeed(s)
  BY DEF SameFeed, Told

\* The last event a client was sent has a number.
LEMMA ToldType ==
  ASSUME TypeOK, NEW s \in Streams
  PROVE  Told(s) \in Nat
  BY LastType DEF TypeOK, Told

\* A frame that is not an event.
LEMMA SameTold ==
  ASSUME TypeOK, NEW s \in Streams, NEW f \in Frames, f.kind # "health",
         wire'[s] = Append(wire[s], f), buf'[s] = buf[s], seen'[s] = seen[s]
  PROVE  SameFeed(s)
<1>1. wire[s] \in Seq(Frames)
  BY DEF TypeOK
<1>2. Told(s)' = Feed!LastEvent(wire'[s])
  BY DEF Told
<1>3. Feed!LastEvent(wire'[s]) = Feed!LastEvent(wire[s])
  BY <1>1, LastAppend
<1> QED
  BY <1>2, <1>3 DEF SameFeed, Told

\* New events leave what waits in the channel in order.
LEMMA QueuedKept ==
  ASSUME TypeOK, NEW s \in Streams, Queued(s), SameFeed(s), ver' \in Nat, ver' >= ver
  PROVE  Queued(s)'
<1>1. buf[s] \in Seq(1..MaxEvents) /\ ver \in Nat
  BY BoundsAssumption DEF TypeOK, HubTypeOK
<1>2. Told(s)' = Told(s) /\ Told(s) \in 0..ver /\ buf'[s] = buf[s]
  BY DEF SameFeed, Queued
<1>3. Told(s)' \in 0..ver'
  BY <1>1, <1>2
<1>4. \A i \in 1..Len(buf'[s]) : buf'[s][i] = buf'[s][1] + (i - 1) /\ buf'[s][i] <= ver'
  <2> SUFFICES ASSUME NEW i \in 1..Len(buf[s])
               PROVE  buf[s][i] = buf[s][1] + (i - 1) /\ buf[s][i] <= ver'
    BY <1>2
  <2>0. \A j \in 1..Len(buf[s]) : buf[s][j] = buf[s][1] + (j - 1) /\ buf[s][j] <= ver
    BY Zenon DEF Queued
  <2>1. buf[s][i] = buf[s][1] + (i - 1) /\ buf[s][i] <= ver
    BY <2>0
  <2>2. buf[s][i] \in Nat
    BY <1>1, BoundsAssumption
  <2> QED
    BY <1>1, <2>1, <2>2
<1>5. buf'[s] # <<>> /\ Told(s)' # 0 => buf'[s][1] = Told(s)' + 1
  BY <1>2 DEF Queued
<1>6. buf'[s] # <<>> /\ Told(s)' = 0 /\ seen'[s] >= 0 => buf'[s][1] <= seen'[s] + 1
  BY <1>2 DEF Queued, SameFeed
<1> QED
  BY <1>3, <1>4, <1>5, <1>6 DEF Queued

\* The last event a stream has stays the last while it gets nothing.
LEMMA FinalKept ==
  ASSUME NEW s \in Streams, SameFeed(s)
  PROVE  Final(s)' = Final(s)
  BY DEF SameFeed, Final

\* A subscriber keeps up while neither it nor its run moves on.
LEMMA SyncedKept ==
  ASSUME NEW s \in Streams, Synced(s), SameFeed(s), run'[s] = run[s], cur' = cur,
         runPc'[cur] = "start" <=> runPc[cur] = "start", Offered(s)' = Offered(s)
  PROVE  Synced(s)'
<1>1. Final(s)' = Final(s)
  BY FinalKept
<1> QED
  BY <1>1 DEF SameFeed, Synced

\* A step that concerns neither the hub's feed nor what is on the wire.
LEMMA Quiet ==
  ASSUME TypeOK, QueueInv, SyncInv, LagInv,
         UNCHANGED <<ver, subs, cur, runPc, pos, pending, buf, closed, wire, seen>>,
         \A s \in Streams : Listening(s)' => Listening(s) /\ run'[s] = run[s]
  PROVE  QueueInv' /\ SyncInv' /\ LagInv'
<1>1. \A s \in Streams : SameFeed(s)
  BY SameWire
<1>2. QueueInv'
  <2>1. ver' \in Nat /\ ver' >= ver
    BY BoundsAssumption DEF TypeOK, HubTypeOK
  <2>2. ASSUME NEW s \in Streams, Listening(s)'
        PROVE  Queued(s)'
    BY <1>1, <2>1, <2>2, QueuedKept DEF QueueInv
  <2> QED
    BY <2>2 DEF QueueInv
<1>3. ASSUME NEW s \in subs', Listening(s)'
      PROVE  Synced(s)'
  <2>1. s \in Streams /\ Listening(s) /\ Synced(s) /\ run'[s] = run[s]
    BY <1>3 DEF SyncInv, TypeOK, HubTypeOK
  <2>2. Offered(s)' = Offered(s)
    BY DEF Offered, Fanning
  <2>3. cur' = cur /\ runPc'[cur] = runPc[cur]
    OBVIOUS
  <2> QED
    BY <1>1, <2>1, <2>2, <2>3, SyncedKept
<1>4. LagInv'
  BY <1>1, FinalKept DEF LagInv, Fanning
<1> QED
  BY <1>2, <1>3, <1>4 DEF SyncInv

\* A run that fans out, or is about to be subscribed, is the current one.
LEMMA CurrentRun ==
  ASSUME RunInv, NEW g \in Runs, runPc[g] \in Subscribed
  PROVE  g = cur /\ running
  BY DEF RunInv

\* What a step of a run other than a send does to the subscribers: they are
\* offered what they were.
LEMMA RunFeeds ==
  ASSUME TypeOK, RunInv, QueueInv, SyncInv, LagInv, FreshInv, UNCHANGED streamVars,
         NEW g \in Runs,
         \/ Subscribe(g) \/ markReady(g) \/ Receive(g) \/ LastGone(g)
         \/ FanoutDone(g) \/ CloseFailed(g) \/ RunReturns(g)
         \/ \E s \in Streams : CloseSubs(g, s)
  PROVE  QueueInv' /\ SyncInv' /\ LagInv'
<1>0. /\ UNCHANGED <<ver, subs, cur, buf, wire, seen, spc, run>>
      /\ \A s \in Streams : closed'[s] = "lagged" => closed[s] = "lagged"
  BY DEF TypeOK, HubTypeOK, streamVars, Subscribe, markReady, Receive, LastGone, FanoutDone,
    CloseFailed, RunReturns, CloseSubs, CloseSub
<1>1. \A s \in Streams : SameFeed(s) /\ (Listening(s)' <=> Listening(s))
  BY <1>0, SameWire DEF Listening
<1>2. QueueInv'
  <2>1. ver' \in Nat /\ ver' >= ver
    BY <1>0, BoundsAssumption DEF TypeOK, HubTypeOK
  <2>2. ASSUME NEW s \in Streams, Listening(s)'
        PROVE  Queued(s)'
    BY <1>1, <2>1, <2>2, QueuedKept DEF QueueInv
  <2> QED
    BY <2>2 DEF QueueInv
<1>3. ASSUME NEW s \in subs', Listening(s)'
      PROVE  Synced(s)'
  <2>1. s \in Streams /\ s \in subs /\ Synced(s) /\ SameFeed(s)
    BY <1>0, <1>1, <1>3 DEF SyncInv, TypeOK, HubTypeOK
  <2>2. Final(s)' = Final(s)
    BY <2>1, FinalKept
  <2>3. CASE Subscribe(g)
    <3>1. g = cur /\ buf[s] = <<>> /\ seen[s] = -1 /\ wire[s] = <<>>
      BY <2>1, <2>3, CurrentRun DEF Subscribe, Subscribed, Synced, FreshInv
    <3>2. Final(s)' = 0
      BY <2>2, <3>1, LastEmpty DEF Final, Told
    <3>3. run'[s] = cur' /\ buf'[s] = <<>> /\ seen'[s] = -1 /\ ~(seen'[s] >= 0)
      BY <1>0, <2>1, <3>1 DEF Synced
    <3> QED
      BY <3>2, <3>3 DEF Synced
  <2>4. CASE ~Subscribe(g)
    <3>1. Offered(s)' = Offered(s)
      <4>1. CASE Receive(g)
        <5>1. g = cur
          BY <4>1, CurrentRun DEF Receive, Subscribed
        <5>2. Offered(s) = pos[g]
          BY <4>1, <5>1 DEF Receive, Offered, Fanning
        <5>3. Offered(s)' = pos'[g] - 1
          BY <1>0, <2>1, <4>1, <5>1 DEF Receive, Offered, Fanning, TypeOK, HubTypeOK
        <5>4. pos'[g] = pos[g] + 1 /\ pos[g] \in Nat
          BY <4>1, BoundsAssumption DEF Receive, TypeOK, HubTypeOK
        <5> QED
          BY <5>2, <5>3, <5>4
      <4>2. CASE FanoutDone(g)
        BY <1>0, <4>2 DEF FanoutDone, Offered, Fanning, TypeOK, HubTypeOK
      <4>3. CASE markReady(g)
        BY <1>0, <4>3 DEF markReady, Offered, Fanning, TypeOK, HubTypeOK
      <4>4. CASE LastGone(g)
        BY <1>0, <4>4 DEF LastGone, Offered, Fanning, TypeOK, HubTypeOK
      <4>5. CASE CloseFailed(g)
        BY <1>0, <4>5 DEF CloseFailed, Offered, Fanning, TypeOK, HubTypeOK
      <4>6. CASE RunReturns(g)
        BY <1>0, <4>6 DEF RunReturns, Offered, Fanning, TypeOK, HubTypeOK
      <4>7. ASSUME NEW q \in Streams, CloseSubs(g, q)
            PROVE  Offered(s)' = Offered(s)
        BY <1>0, <4>7 DEF CloseSubs, Offered, Fanning, TypeOK, HubTypeOK
      <4> QED
        BY <2>4, <4>1, <4>2, <4>3, <4>4, <4>5, <4>6, <4>7
    <3>2. runPc'[cur] = "start" <=> runPc[cur] = "start"
      <4>0. cur \in Runs /\ runPc \in [Runs -> RunPcs]
        BY <2>1 DEF RunInv, TypeOK, HubTypeOK
      <4>1. CASE Receive(g) \/ LastGone(g) \/ FanoutDone(g)
        BY <4>0, <4>1 DEF Receive, LastGone, FanoutDone
      <4>2. CASE markReady(g) \/ CloseFailed(g) \/ RunReturns(g)
        BY <4>0, <4>2 DEF markReady, CloseFailed, RunReturns
      <4>3. ASSUME NEW q \in Streams, CloseSubs(g, q)
            PROVE  runPc' = runPc
        BY <4>3 DEF CloseSubs
      <4> QED
        BY <2>4, <4>1, <4>2, <4>3
    <3> QED
      BY <1>0, <2>1, <3>1, <3>2, SyncedKept
  <2> QED
    BY <2>3, <2>4
<1>4. \A s \in Streams : Listening(s)' /\ closed'[s] = "lagged" => Final(s)' < ver'
  BY <1>0, <1>1, FinalKept DEF LagInv
<1>5. \A h \in Runs, s \in Streams :
        Fanning(h)' /\ s \in pending'[h] => s \in subs \/ (Fanning(h) /\ s \in pending[h])
  <2>1. CASE Receive(g)
    BY <2>1 DEF Receive, Fanning, TypeOK, HubTypeOK
  <2>2. CASE Subscribe(g) \/ markReady(g) \/ FanoutDone(g) \/ CloseFailed(g) \/ RunReturns(g)
    BY <2>2 DEF Subscribe, markReady, FanoutDone, CloseFailed, RunReturns, Fanning,
      TypeOK, HubTypeOK
  <2>3. CASE LastGone(g)
    BY <2>3 DEF LastGone, Fanning, TypeOK, HubTypeOK
  <2>4. ASSUME NEW q \in Streams, CloseSubs(g, q)
        PROVE \A h \in Runs, s \in Streams :
                Fanning(h)' /\ s \in pending'[h] => s \in subs \/ (Fanning(h) /\ s \in pending[h])
    BY <2>4 DEF CloseSubs, Fanning, TypeOK, HubTypeOK
  <2> QED
    BY <2>1, <2>2, <2>3, <2>4
<1>6. LagInv'
  BY <1>0, <1>1, <1>4, <1>5 DEF LagInv
<1> QED
  BY <1>2, <1>3, <1>6 DEF SyncInv

\* The end of a run leaves no subscriber.
LEMMA EndFeeds ==
  ASSUME TypeOK, RunInv, QueueInv, LagInv, UNCHANGED streamVars,
         NEW g \in Runs, RunEnds(g)
  PROVE  QueueInv' /\ SyncInv' /\ LagInv'
<1>0. /\ UNCHANGED <<ver, cur, buf, wire, seen, spc, run, closed>> /\ subs' = {} /\ g = cur
  BY CurrentRun DEF streamVars, RunEnds, Subscribed
<1>1. \A s \in Streams : SameFeed(s) /\ (Listening(s)' <=> Listening(s))
  BY <1>0, SameWire DEF Listening
<1>2. QueueInv'
  <2>1. ver' \in Nat /\ ver' >= ver
    BY <1>0, BoundsAssumption DEF TypeOK, HubTypeOK
  <2>2. ASSUME NEW s \in Streams, Listening(s)'
        PROVE  Queued(s)'
    BY <1>1, <2>1, <2>2, QueuedKept DEF QueueInv
  <2> QED
    BY <2>2 DEF QueueInv
<1>3. \A h \in Runs : ~Fanning(h)'
  BY <1>0 DEF RunInv, RunEnds, Fanning, Subscribed, TypeOK, HubTypeOK
<1>4. LagInv'
  BY <1>0, <1>1, <1>3, FinalKept DEF LagInv
<1> QED
  BY <1>0, <1>2, <1>4 DEF SyncInv

\* A step of one handler, or of its heartbeat, changes what its own stream has
\* been sent and nothing of another's.
LEMMA OneFeeds ==
  ASSUME TypeOK, QueueInv, SyncInv, LagInv, NEW s \in Streams,
         UNCHANGED <<ver, cur, runPc, pos, pending, closed>>, subs' \subseteq subs,
         \A q \in Streams \ {s} :
           /\ SameFeed(q) /\ run'[q] = run[q]
           /\ Listening(q)' => Listening(q)
           /\ q \in subs => q \in subs',
         Listening(s)' => /\ Listening(s) /\ subs' = subs /\ Queued(s)'
                          /\ s \in subs => Synced(s)'
                          /\ Final(s)' = Final(s)
  PROVE  QueueInv' /\ SyncInv' /\ LagInv'
<1>1. ASSUME NEW q \in Streams, Listening(q)'
      PROVE  Queued(q)'
  <2>1. CASE q = s
    BY <1>1, <2>1
  <2>2. CASE q # s
    <3>1. Listening(q) /\ SameFeed(q) /\ ver' \in Nat /\ ver' >= ver
      BY <1>1, <2>2, BoundsAssumption DEF TypeOK, HubTypeOK
    <3> QED
      BY <3>1, QueuedKept DEF QueueInv
  <2> QED
    BY <2>1, <2>2
<1>2. ASSUME NEW q \in subs', Listening(q)'
      PROVE  Synced(q)'
  <2>0. q \in Streams /\ q \in subs
    BY <1>2 DEF TypeOK, HubTypeOK
  <2>1. CASE q = s
    BY <1>2, <2>0, <2>1
  <2>2. CASE q # s
    <3>1. Listening(q) /\ SameFeed(q) /\ run'[q] = run[q]
      BY <1>2, <2>0, <2>2
    <3>2. Offered(q)' = Offered(q)
      BY DEF Offered, Fanning
    <3>3. cur' = cur /\ runPc'[cur] = runPc[cur]
      OBVIOUS
    <3>4. Synced(q)
      BY <2>0, <3>1 DEF SyncInv
    <3> QED
      BY <2>0, <3>1, <3>2, <3>3, <3>4, SyncedKept
  <2> QED
    BY <2>1, <2>2
<1>3. ASSUME NEW q \in Streams, Listening(q)', closed'[q] = "lagged"
      PROVE  Final(q)' < ver'
  <2>1. Listening(q) /\ Final(q)' = Final(q)
    BY <1>3, FinalKept
  <2> QED
    BY <1>3, <2>1 DEF LagInv
<1>4. ASSUME NEW g \in Runs, NEW q \in Streams, Listening(q)', Fanning(g)', q \in pending'[g]
      PROVE  q \in subs'
  <2>1. Listening(q) /\ Fanning(g) /\ q \in pending[g]
    BY <1>4 DEF Fanning
  <2>2. q \in subs
    BY <2>1 DEF LagInv
  <2> QED
    BY <1>4, <2>2
<1>5. LagInv'
  BY <1>3, <1>4 DEF LagInv
<1> QED
  BY <1>1, <1>2, <1>5 DEF QueueInv, SyncInv

\* A subscriber that fanout still has to visit has what came before.
LEMMA Behind ==
  ASSUME TypeOK, RunInv, SyncInv, LagInv, ReadyInv, NEW g \in Runs, NEW s \in Streams,
         runPc[g] = "fanout", s \in pending[g], Listening(s)
  PROVE  /\ g = cur /\ s \in subs /\ run[s] = cur
         /\ pos[g] \in 1..ver
         /\ Final(s) \in Nat /\ (Final(s) # 0 => Final(s) = pos[g] - 1)
         /\ Final(s) = 0 /\ seen[s] >= 0 => pos[g] - 1 <= seen[s]
<1>1. g = cur
  BY CurrentRun DEF Subscribed
<1>2. s \in subs
  BY DEF LagInv, Fanning
<1>3. Synced(s)
  BY <1>2 DEF SyncInv
<1>4. Offered(s) = pos[g] - 1
  BY <1>1 DEF Offered, Fanning
<1>5. pos[g] \in 1..ver
  <2>1. pos[g] \in 0..MaxEvents /\ ver \in 0..MaxEvents
    BY DEF TypeOK, HubTypeOK
  <2>2. pos[g] # 0 /\ pos[g] <= ver
    BY DEF RunInv, ReadyInv
  <2> QED
    BY <2>1, <2>2, BoundsAssumption
<1>6. Final(s) \in Nat
  <2>1. buf[s] \in Seq(1..MaxEvents)
    BY DEF TypeOK, HubTypeOK
  <2>2. buf[s] # <<>> => buf[s][Len(buf[s])] \in 1..MaxEvents
    BY <2>1, Ends
  <2> QED
    BY <2>2, ToldType, BoundsAssumption DEF Final
<1> QED
  BY <1>1, <1>2, <1>3, <1>4, <1>5, <1>6 DEF Synced

\* fanout's send: the next event is queued.
LEMMA SendFeeds ==
  ASSUME TypeOK, RunInv, QueueInv, SyncInv, LagInv, ReadyInv, DropInv, UNCHANGED streamVars,
         NEW g \in Runs, NEW q \in Streams, Send(g, q)
  PROVE  QueueInv' /\ SyncInv' /\ LagInv'
<1>0. /\ UNCHANGED <<ver, cur, pos, wire, seen, spc, run, subs, runPc, closed>>
      /\ runPc[g] = "fanout" /\ q \in pending[g] /\ g = cur
      /\ pending' = [pending EXCEPT ![g] = @ \ {q}]
      /\ \A s \in Streams \ {q} : buf'[s] = buf[s]
  <2>1. g = cur
    BY CurrentRun DEF Send, Subscribed
  <2>2. \A s \in Streams \ {q} : buf'[s] = buf[s]
    BY DEF Send, TypeOK, HubTypeOK
  <2> QED
    BY <2>1, <2>2 DEF Send, streamVars
<1>1. \A s \in Streams : Listening(s)' <=> Listening(s)
  BY <1>0 DEF Listening
<1>2. \A s \in Streams \ {q} : SameFeed(s) /\ Offered(s)' = Offered(s)
  <2>1. \A s \in Streams \ {q} : SameFeed(s)
    BY <1>0, SameWire
  <2>2. ASSUME NEW s \in Streams \ {q}
        PROVE  Offered(s)' = Offered(s)
    <3>1. s \in pending'[cur] <=> s \in pending[cur]
      BY <1>0 DEF TypeOK, HubTypeOK
    <3>2. Fanning(cur)' <=> Fanning(cur)
      BY <1>0 DEF Fanning
    <3> QED
      BY <1>0, <3>1, <3>2 DEF Offered
  <2> QED
    BY <2>1, <2>2
<1>3. q \notin pending'[g]
  BY <1>0 DEF TypeOK, HubTypeOK
<1>4. ASSUME Listening(q)
      PROVE  Queued(q)' /\ Synced(q)'
  <2> DEFINE b == buf[q]
             p == pos[g]
  <2>1. /\ q \in subs /\ run[q] = cur /\ p \in 1..ver
        /\ Final(q) \in Nat /\ (Final(q) # 0 => Final(q) = p - 1)
        /\ Final(q) = 0 /\ seen[q] >= 0 => p - 1 <= seen[q]
    BY <1>0, <1>4, Behind
  <2>2. /\ b \in Seq(1..MaxEvents) /\ ver \in Nat /\ Told(q) \in Nat /\ p \in Nat
        /\ seen[q] \in Int
    <3>1. b \in Seq(1..MaxEvents) /\ ver \in Nat /\ seen[q] \in Int
      BY BoundsAssumption DEF TypeOK, HubTypeOK
    <3> QED
      BY <2>1, <3>1, ToldType
  <2>3. buf'[q] = Append(b, p)
    BY <1>4 DEF Send, TypeOK, HubTypeOK
  <2>4. Told(q)' = Told(q) /\ seen' = seen
    BY <1>0 DEF Told
  <2>5. Queued(q)
    BY <1>4 DEF QueueInv
  <2>6. /\ Len(buf'[q]) = Len(b) + 1 /\ buf'[q][Len(b) + 1] = p /\ buf'[q] # <<>>
        /\ \A i \in 1..Len(b) : buf'[q][i] = b[i]
        /\ Len(b) \in Nat
    BY <2>2, <2>3
  <2>7. b # <<>> => /\ Len(b) \in 1..Len(b) /\ b[Len(b)] \in Nat \ {0} /\ Final(q) = b[Len(b)]
                    /\ 1 \in 1..Len(b) /\ b[1] \in Nat \ {0}
    <3>1. b # <<>> => /\ Len(b) \in 1..Len(b) /\ b[Len(b)] \in 1..MaxEvents
                      /\ 1 \in 1..Len(b) /\ b[1] \in 1..MaxEvents
      BY <2>2, Ends
    <3>2. \A n \in 1..MaxEvents : n \in Nat \ {0}
      BY BoundsAssumption
    <3> QED
      BY <3>1, <3>2 DEF Final
  <2>8. b # <<>> => b[Len(b)] = p - 1 /\ b[Len(b)] = b[1] + (Len(b) - 1)
    <3>1. \A i \in 1..Len(b) : b[i] = b[1] + (i - 1)
      BY <2>5, Zenon DEF Queued
    <3> QED
      BY <2>1, <2>7, <3>1
  <2>9. buf'[q][1] = IF b = <<>> THEN p ELSE b[1]
    BY <2>6, <2>7, <2>2
  <2>10. p = buf'[q][1] + Len(b)
    <3>1. CASE b = <<>>
      BY <2>2, <2>9, <3>1
    <3>2. CASE b # <<>>
      <4>1. p - 1 = b[1] + (Len(b) - 1) /\ b[1] \in Nat /\ Len(b) \in Nat /\ p \in Nat
        BY <2>2, <2>6, <2>7, <2>8, <3>2
      <4>2. \A x, l, y \in Nat : y - 1 = x + (l - 1) => y = x + l
        OBVIOUS
      <4>3. p = b[1] + Len(b)
        BY <4>1, <4>2
      <4> QED
        BY <2>9, <3>2, <4>3
    <3> QED
      BY <3>1, <3>2
  <2>11. ASSUME NEW i \in 1..Len(buf'[q])
         PROVE  buf'[q][i] = buf'[q][1] + (i - 1) /\ buf'[q][i] <= ver'
    <3>1. CASE i = Len(b) + 1
      BY <1>0, <2>1, <2>2, <2>6, <2>10, <3>1
    <3>2. CASE i \in 1..Len(b)
      <4>1. \A j \in 1..Len(b) : b[j] = b[1] + (j - 1) /\ b[j] <= ver
        BY <2>5, Zenon DEF Queued
      <4>2. b # <<>>
        BY <2>2, <3>2
      <4> QED
        BY <1>0, <2>6, <2>9, <3>2, <4>1, <4>2
    <3> QED
      BY <2>6, <3>1, <3>2
  <2>12. Told(q) # 0 => buf'[q][1] = Told(q) + 1
    <3>1. CASE b = <<>>
      BY <2>1, <2>2, <2>9, <3>1 DEF Final
    <3>2. CASE b # <<>>
      BY <2>5, <2>9, <3>2 DEF Queued
    <3> QED
      BY <3>1, <3>2
  <2>13. Told(q) = 0 /\ seen[q] >= 0 => buf'[q][1] <= seen[q] + 1
    <3>1. CASE b = <<>>
      BY <2>1, <2>2, <2>9, <3>1 DEF Final
    <3>2. CASE b # <<>>
      BY <2>5, <2>9, <3>2 DEF Queued
    <3> QED
      BY <3>1, <3>2
  <2>14. Queued(q)'
    BY <1>0, <2>4, <2>5, <2>11, <2>12, <2>13 DEF Queued
  <2>15. Final(q)' = p
    BY <2>2, <2>6 DEF Final
  <2>16. Offered(q)' = p /\ runPc'[cur'] # "start"
    BY <1>0, <1>3 DEF Offered
  <2>17. p # 0
    BY <2>1
  <2> QED
    BY <1>0, <2>1, <2>14, <2>15, <2>16, <2>17 DEF Synced
<1>5. QueueInv'
  <2>1. ver' \in Nat /\ ver' >= ver
    BY <1>0, BoundsAssumption DEF TypeOK, HubTypeOK
  <2>2. ASSUME NEW s \in Streams, Listening(s), SameFeed(s)
        PROVE  Queued(s)'
    BY <2>1, <2>2, QueuedKept DEF QueueInv
  <2> QED
    BY <1>1, <1>2, <1>4, <2>2 DEF QueueInv
<1>6. ASSUME NEW s \in subs', Listening(s)'
      PROVE  Synced(s)'
  <2>1. s \in Streams /\ s \in subs /\ Listening(s) /\ Synced(s)
    BY <1>0, <1>1, <1>6 DEF SyncInv, TypeOK, HubTypeOK
  <2>2. CASE s = q
    BY <1>4, <2>1, <2>2
  <2>3. CASE s # q
    <3>1. /\ SameFeed(s) /\ Offered(s)' = Offered(s) /\ run'[s] = run[s] /\ cur' = cur
          /\ runPc'[cur] = "start" <=> runPc[cur] = "start"
      BY <1>0, <1>2, <2>1, <2>3
    <3> QED
      BY <2>1, <3>1, SyncedKept
  <2> QED
    BY <2>2, <2>3
<1>7. ASSUME NEW s \in Streams, Listening(s)', closed'[s] = "lagged"
      PROVE  Final(s)' < ver'
  <2>1. s # q
    BY <1>0, <1>7 DEF DropInv, Fanning
  <2>2. Final(s)' = Final(s)
    BY <1>2, <2>1, FinalKept
  <2> QED
    BY <1>0, <1>1, <1>7, <2>2 DEF LagInv
<1>8. ASSUME NEW h \in Runs, NEW s \in Streams, Listening(s)', Fanning(h)', s \in pending'[h]
      PROVE  s \in subs'
  <2>1. s \in pending[h] /\ Fanning(h)
    BY <1>0, <1>8 DEF Fanning, TypeOK, HubTypeOK
  <2> QED
    BY <1>0, <1>1, <1>8, <2>1 DEF LagInv
<1>9. LagInv'
  BY <1>7, <1>8 DEF LagInv
<1> QED
  BY <1>5, <1>6, <1>9 DEF SyncInv

\* fanout closes a client whose buffer is full: there is an event it has not got.
LEMMA LagFeeds ==
  ASSUME TypeOK, RunInv, QueueInv, SyncInv, LagInv, ReadyInv, UNCHANGED streamVars,
         NEW g \in Runs, NEW q \in Streams, Lag(g, q)
  PROVE  QueueInv' /\ SyncInv' /\ LagInv'
<1>0. /\ UNCHANGED <<ver, cur, pos, pending, buf, wire, seen, spc, run, subs>>
      /\ runPc[g] = "fanout" /\ q \in pending[g] /\ g = cur
      /\ \A s \in Streams \ {q} : closed'[s] = closed[s]
      /\ \A h \in Runs : Fanning(h)' <=> Fanning(h)
      /\ Fanning(cur) /\ Fanning(cur)' /\ runPc'[cur] # "start"
  <2>1. g = cur
    BY CurrentRun DEF Lag, Subscribed
  <2>2. \A s \in Streams \ {q} : closed'[s] = closed[s]
    BY DEF Lag, CloseSub, TypeOK, HubTypeOK
  <2>3. /\ \A h \in Runs : Fanning(h)' <=> Fanning(h)
        /\ Fanning(g) /\ Fanning(g)' /\ runPc'[g] # "start"
    BY DEF Lag, Fanning, TypeOK, HubTypeOK
  <2> QED
    BY <2>1, <2>2, <2>3 DEF Lag, streamVars
<1>1. \A s \in Streams : SameFeed(s) /\ (Listening(s)' <=> Listening(s)) /\ Final(s)' = Final(s)
  <2>1. \A s \in Streams : SameFeed(s) /\ (Listening(s)' <=> Listening(s))
    BY <1>0, SameWire DEF Listening
  <2> QED
    BY <2>1, FinalKept
<1>2. QueueInv'
  <2>1. ver' \in Nat /\ ver' >= ver
    BY <1>0, BoundsAssumption DEF TypeOK, HubTypeOK
  <2> QED
    BY <1>1, <2>1, QueuedKept DEF QueueInv
<1>3. ASSUME NEW s \in subs', Listening(s)'
      PROVE  Synced(s)'
  <2>1. s \in Streams /\ Synced(s) /\ SameFeed(s)
    BY <1>0, <1>1, <1>3 DEF SyncInv, TypeOK, HubTypeOK
  <2>2. Offered(s)' = Offered(s)
    BY <1>0 DEF Offered
  <2>3. run'[s] = run[s] /\ cur' = cur /\ (runPc'[cur] = "start" <=> runPc[cur] = "start")
    BY <1>0
  <2> QED
    BY <2>1, <2>2, <2>3, SyncedKept
<1>4. ASSUME NEW s \in Streams, Listening(s)', closed'[s] = "lagged"
      PROVE  Final(s)' < ver'
  <2>1. CASE s = q
    <3>1. ver \in Nat
      BY BoundsAssumption DEF TypeOK, HubTypeOK
    <3>2. Final(s) < ver
      BY <1>0, <1>1, <1>4, <2>1, <3>1, Behind
    <3> QED
      BY <1>0, <1>1, <3>2
  <2>2. CASE s # q
    BY <1>0, <1>1, <1>4, <2>2 DEF LagInv
  <2> QED
    BY <2>1, <2>2
<1>5. LagInv'
  BY <1>0, <1>1, <1>4 DEF LagInv
<1> QED
  BY <1>2, <1>3, <1>5 DEF SyncInv

\* and detaches it.
LEMMA DropFeeds ==
  ASSUME TypeOK, RunInv, QueueInv, SyncInv, LagInv, UNCHANGED streamVars,
         NEW g \in Runs, NEW q \in Streams, Drop(g, q)
  PROVE  QueueInv' /\ SyncInv' /\ LagInv'
<1>0. /\ UNCHANGED <<ver, cur, pos, buf, wire, seen, spc, run, closed>>
      /\ g = cur /\ pending' = [pending EXCEPT ![g] = @ \ {q}]
      /\ subs' = subs \ {q}
      /\ \A h \in Runs : Fanning(h)' <=> Fanning(h)
      /\ Fanning(cur) /\ Fanning(cur)' /\ runPc'[cur] # "start" /\ runPc[cur] # "start"
  <2>1. g = cur
    BY CurrentRun DEF Drop, Subscribed
  <2>2. /\ \A h \in Runs : Fanning(h)' <=> Fanning(h)
        /\ Fanning(g) /\ Fanning(g)' /\ runPc'[g] # "start" /\ runPc[g] # "start"
    BY DEF Drop, Fanning, TypeOK, HubTypeOK
  <2> QED
    BY <2>1, <2>2 DEF Drop, streamVars
<1>1. \A s \in Streams : SameFeed(s) /\ (Listening(s)' <=> Listening(s)) /\ Final(s)' = Final(s)
  <2>1. \A s \in Streams : SameFeed(s) /\ (Listening(s)' <=> Listening(s))
    BY <1>0, SameWire DEF Listening
  <2> QED
    BY <2>1, FinalKept
<1>2. QueueInv'
  <2>1. ver' \in Nat /\ ver' >= ver
    BY <1>0, BoundsAssumption DEF TypeOK, HubTypeOK
  <2> QED
    BY <1>1, <2>1, QueuedKept DEF QueueInv
<1>3. ASSUME NEW s \in subs', Listening(s)'
      PROVE  Synced(s)'
  <2>1. s \in Streams /\ s # q /\ Synced(s) /\ SameFeed(s)
    BY <1>0, <1>1, <1>3 DEF SyncInv, TypeOK, HubTypeOK
  <2>2. s \in pending'[cur] <=> s \in pending[cur]
    BY <1>0, <2>1 DEF TypeOK, HubTypeOK
  <2>3. Offered(s)' = Offered(s)
    BY <1>0, <2>2 DEF Offered
  <2>4. run'[s] = run[s] /\ cur' = cur /\ (runPc'[cur] = "start" <=> runPc[cur] = "start")
    BY <1>0
  <2> QED
    BY <2>1, <2>3, <2>4, SyncedKept
<1>4. ASSUME NEW h \in Runs, NEW s \in Streams, Listening(s)', Fanning(h)', s \in pending'[h]
      PROVE  s \in subs'
  <2>1. s \in pending[h] /\ Fanning(h) /\ h = cur
    BY <1>0, <1>4, CurrentRun DEF Fanning, Subscribed, TypeOK, HubTypeOK
  <2>2. s # q
    BY <1>0, <1>4, <2>1 DEF TypeOK, HubTypeOK
  <2> QED
    BY <1>0, <1>1, <1>4, <2>1, <2>2 DEF LagInv
<1>5. LagInv'
  BY <1>0, <1>1, <1>4 DEF LagInv
<1> QED
  BY <1>2, <1>3, <1>5 DEF SyncInv

\* A stream attaches with nothing queued, to the run that will feed it.
LEMMA AttachFeeds ==
  ASSUME TypeOK, RunInv, QueueInv, SyncInv, LagInv, FreshInv, NEW s \in Streams, Attach(s)
  PROVE  QueueInv' /\ SyncInv' /\ LagInv'
<1>0. /\ UNCHANGED <<ver, pos, pending, buf, closed, wire, seen>> /\ subs' = subs \cup {s}
      /\ \A q \in Streams \ {s} : spc'[q] = spc[q] /\ run'[q] = run[q]
      /\ run'[s] = cur' /\ ver \in Nat
      /\ running => cur' = cur /\ runPc' = runPc
      /\ \A g \in Runs : Fanning(g)' => Fanning(g)
  <2>1. \A q \in Streams \ {s} : spc'[q] = spc[q] /\ run'[q] = run[q]
    BY DEF Attach, TypeOK
  <2>2. run'[s] = cur'
    BY DEF Attach, TypeOK
  <2>3. \A g \in Runs : Fanning(g)' => Fanning(g)
    BY DEF Attach, AttachLocked, Fanning, TypeOK, HubTypeOK
  <2>4. ver \in Nat
    BY BoundsAssumption DEF TypeOK, HubTypeOK
  <2> QED
    BY <2>1, <2>2, <2>3, <2>4 DEF Attach, AttachLocked
<1>1. /\ buf[s] = <<>> /\ wire[s] = <<>> /\ seen[s] = -1 /\ closed[s] = "none" /\ \A g \in Runs : s \notin pending[g]
      /\ s \notin subs
  BY DEF Attach, FreshInv
<1>2. Told(s)' = 0 /\ Final(s)' = 0
  BY <1>0, <1>1, LastEmpty DEF Told, Final
<1>s. seen'[s] = -1 /\ ~(seen'[s] >= 0)
  BY <1>0, <1>1
<1>3. Queued(s)'
  BY <1>0, <1>1, <1>2, <1>s DEF Queued
<1>4. Synced(s)'
  BY <1>0, <1>1, <1>2, <1>s DEF Synced
<1>5. \A q \in Streams \ {s} : SameFeed(q) /\ (Listening(q)' <=> Listening(q))
  BY <1>0, SameWire DEF Listening
<1>6. ASSUME NEW q \in Streams, Listening(q)'
      PROVE  Queued(q)'
  <2>1. CASE q = s
    BY <1>3, <2>1
  <2>2. CASE q # s
    <3>1. Queued(q) /\ SameFeed(q) /\ ver' \in Nat /\ ver' >= ver
      BY <1>0, <1>5, <1>6, <2>2 DEF QueueInv
    <3> QED
      BY <3>1, QueuedKept
  <2> QED
    BY <2>1, <2>2
<1>7. ASSUME NEW q \in subs', Listening(q)'
      PROVE  Synced(q)'
  <2>1. CASE q = s
    BY <1>4, <2>1
  <2>2. CASE q # s
    <3>1. q \in Streams /\ q \in subs /\ Listening(q) /\ Synced(q) /\ SameFeed(q) /\ run'[q] = run[q]
      BY <1>0, <1>5, <1>7, <2>2 DEF TypeOK, HubTypeOK, SyncInv
    <3>2. running
      BY <3>1 DEF RunInv
    <3>3. cur' = cur /\ runPc' = runPc /\ Offered(q)' = Offered(q)
      BY <1>0, <3>2 DEF Offered, Fanning
    <3> QED
      BY <3>1, <3>3, SyncedKept
  <2> QED
    BY <2>1, <2>2
<1>8. ASSUME NEW q \in Streams, Listening(q)', closed'[q] = "lagged"
      PROVE  Final(q)' < ver'
  <2>1. q # s
    BY <1>0, <1>1, <1>8
  <2>2. Final(q)' = Final(q)
    BY <1>5, <2>1, FinalKept
  <2> QED
    BY <1>0, <1>5, <1>8, <2>1, <2>2 DEF LagInv
<1>9. ASSUME NEW g \in Runs, NEW q \in Streams, Listening(q)', Fanning(g)', q \in pending'[g]
      PROVE  q \in subs'
  <2>1. q # s
    BY <1>0, <1>1, <1>9
  <2> QED
    BY <1>0, <1>5, <1>9, <2>1 DEF LagInv
<1>10. LagInv'
  BY <1>8, <1>9 DEF LagInv
<1> QED
  BY <1>6, <1>7, <1>10 DEF QueueInv, SyncInv

\* The snapshot covers all that was fanned out before it was taken.
LEMMA StatesFeeds ==
  ASSUME TypeOK, RunInv, QueueInv, SyncInv, LagInv, FreshInv, ReadyInv,
         NEW s \in Streams, ContainerStates(s)
  PROVE  QueueInv' /\ SyncInv' /\ LagInv'
<1>0. /\ UNCHANGED <<ver, cur, runPc, pos, pending, closed, subs, buf, run, wire>>
      /\ \A q \in Streams \ {s} : spc'[q] = spc[q] /\ seen'[q] = seen[q]
      /\ Listening(s) /\ wire[s] = <<>> /\ ver \in 0..MaxEvents
  <2>1. \A q \in Streams \ {s} : spc'[q] = spc[q] /\ seen'[q] = seen[q]
    BY DEF ContainerStates, TypeOK
  <2>2. wire[s] = <<>> /\ Listening(s)
    BY DEF ContainerStates, FreshInv, Listening
  <2> QED
    BY <2>1, <2>2 DEF ContainerStates, hubVars, TypeOK, HubTypeOK
<1>1. \A q \in Streams \ {s} : SameFeed(q) /\ (Listening(q)' <=> Listening(q))
  BY <1>0, SameWire DEF Listening
<1>2. ASSUME Listening(s)'
      PROVE  /\ Queued(s)' /\ (s \in subs => Synced(s)') /\ Final(s)' = Final(s)
  <2>1. seen'[s] = ver
    BY <1>2 DEF ContainerStates, TypeOK, Listening
  <2>2. Told(s) = 0 /\ Told(s)' = 0 /\ Final(s)' = Final(s)
    BY <1>0, LastEmpty DEF Told, Final
  <2>3. Queued(s)
    BY <1>0 DEF QueueInv
  <2>4. buf[s] # <<>> => buf[s][1] <= ver + 1
    <3>1. buf[s] \in Seq(1..MaxEvents)
      BY DEF TypeOK, HubTypeOK
    <3>2. \A i \in 1..Len(buf[s]) : buf[s][i] <= ver
      BY <2>3, Zenon DEF Queued
    <3>3. buf[s] # <<>> => buf[s][1] \in 1..MaxEvents /\ buf[s][1] <= ver
      BY <3>1, <3>2, Ends
    <3> QED
      BY <1>0, <3>3, BoundsAssumption
  <2>5. Queued(s)'
    <3>1. \A i \in 1..Len(buf'[s]) : buf'[s][i] = buf'[s][1] + (i - 1) /\ buf'[s][i] <= ver'
      BY <1>0, <2>3 DEF Queued
    <3>2. Told(s)' \in 0..ver'
      BY <1>0, <2>2, BoundsAssumption
    <3> QED
      BY <1>0, <2>1, <2>2, <2>4, <3>1, <3>2 DEF Queued
  <2>6. ASSUME s \in subs
        PROVE  Synced(s)'
    <3>1. Synced(s) /\ run[s] = cur /\ cur \in ready
      BY <1>0, <2>6 DEF SyncInv, Synced, ReadyInv, ContainerStates
    <3>2. runPc[cur] # "start"
      BY <3>1 DEF ReadyInv, TypeOK, HubTypeOK
    <3>3. Offered(s) <= ver
      <4>1. pos[cur] \in 0..MaxEvents /\ pos[cur] <= ver
        BY <3>1 DEF ReadyInv, TypeOK, HubTypeOK
      <4>2. pos[cur] \in Nat /\ ver \in Nat
        BY <1>0, <4>1, BoundsAssumption
      <4> QED
        BY <4>1, <4>2 DEF Offered
    <3>4. Offered(s)' = Offered(s)
      BY <1>0 DEF Offered, Fanning
    <3> QED
      BY <1>0, <2>1, <2>2, <3>1, <3>2, <3>3, <3>4 DEF Synced
  <2> QED
    BY <2>2, <2>5, <2>6
<1> QED
  BY <1>0, <1>1, <1>2, OneFeeds

\* The handler passes the next event on: it was the first in the channel and
\* is now the last on the wire.
LEMMA LoopEventFeeds ==
  ASSUME TypeOK, RunInv, QueueInv, SyncInv, LagInv, NEW s \in Streams, LoopEvent(s)
  PROVE  QueueInv' /\ SyncInv' /\ LagInv'
<1>0. /\ UNCHANGED <<ver, cur, runPc, pos, pending, closed, subs, run, seen>>
      /\ \A q \in Streams \ {s} : spc'[q] = spc[q] /\ wire'[q] = wire[q] /\ buf'[q] = buf[q]
      /\ Listening(s) /\ wire[s] \in Seq(Frames)
      /\ buf[s] # <<>> /\ buf[s] \in Seq(1..MaxEvents) /\ buf'[s] = Tail(buf[s])
  <2>1. \A q \in Streams \ {s} : spc'[q] = spc[q] /\ wire'[q] = wire[q] /\ buf'[q] = buf[q]
    BY DEF LoopEvent, TakeEvent, TypeOK, HubTypeOK
  <2>2. Listening(s)
    BY DEF LoopEvent, Listening
  <2>3. buf'[s] = Tail(buf[s])
    BY DEF LoopEvent, TakeEvent, TypeOK, HubTypeOK
  <2> QED
    BY <2>1, <2>2, <2>3 DEF LoopEvent, TakeEvent, TypeOK, HubTypeOK
<1>1. \A q \in Streams \ {s} : SameFeed(q) /\ (Listening(q)' <=> Listening(q))
  BY <1>0, SameWire DEF Listening
<1>2. ASSUME Listening(s)'
      PROVE  /\ Queued(s)' /\ (s \in subs => Synced(s)') /\ Final(s)' = Final(s)
  <2> DEFINE b == buf[s]
             f == Frame("health", Head(buf[s]))
  <2>1. wire'[s] = Append(wire[s], f)
    BY <1>2 DEF LoopEvent, TypeOK, Listening
  <2>2. /\ Len(b) \in Nat /\ Len(b) >= 1 /\ Head(b) = b[1] /\ b[1] \in 1..MaxEvents
        /\ 1 \in 1..Len(b)
    <3>1. Head(b) = b[1]
      BY <1>0, HeadTailProperties
    <3> QED
      BY <1>0, <3>1, Ends
  <2>3. f \in Frames /\ f.kind = "health" /\ f.n = b[1] /\ b[1] \in Nat \ {0}
    BY <2>2, BoundsAssumption DEF Frame, Frames
  <2> HIDE DEF f
  <2>5. Told(s)' = b[1]
    BY <1>0, <2>1, <2>3, LastAppend DEF Told
  <2>6. /\ buf'[s] \in Seq(1..MaxEvents) /\ Len(buf'[s]) = Len(b) - 1
        /\ \A i \in 1..Len(buf'[s]) : buf'[s][i] = b[i + 1]
        /\ buf'[s] = <<>> <=> Len(b) = 1
    <3>1. /\ Tail(b) \in Seq(1..MaxEvents) /\ Len(Tail(b)) = Len(b) - 1
          /\ \A i \in 1..Len(Tail(b)) : Tail(b)[i] = b[i + 1]
      BY <1>0, HeadTailProperties
    <3> HIDE DEF b
    <3>2. Tail(b) = <<>> <=> Len(Tail(b)) = 0
      BY <3>1, EmptySeq
    <3> QED
      BY <1>0, <2>2, <3>1, <3>2 DEF b
  <2>7. Queued(s) /\ \A i \in 1..Len(b) : b[i] = b[1] + (i - 1) /\ b[i] <= ver
    <3>1. Queued(s)
      BY <1>0 DEF QueueInv
    <3> QED
      BY <3>1, Zenon DEF Queued
  <2>8. Final(s)' = Final(s)
    <3>1. CASE Len(b) = 1
      BY <1>0, <2>5, <2>6, <3>1 DEF Final
    <3>2. CASE Len(b) # 1
      <4>1. Len(b) - 1 \in 1..Len(buf'[s]) /\ Len(b) - 1 + 1 = Len(b)
        BY <2>2, <2>6, <3>2
      <4>2. buf'[s][Len(b) - 1] = b[Len(b)]
        BY <2>6, <4>1
      <4> QED
        BY <1>0, <2>6, <3>2, <4>2 DEF Final
    <3> QED
      BY <3>1, <3>2
  <2>9. ASSUME NEW i \in 1..Len(buf'[s])
        PROVE  buf'[s][i] = b[1] + i /\ buf'[s][i] <= ver
    <3>1. i + 1 \in 1..Len(b) /\ i + 1 - 1 = i
      BY <2>2, <2>6
    <3> QED
      BY <2>6, <2>7, <3>1
  <2>10. buf'[s] # <<>> => buf'[s][1] = b[1] + 1
    <3>1. buf'[s] # <<>> => 1 \in 1..Len(buf'[s])
      BY <2>6, Ends
    <3> QED
      BY <2>9, <3>1
  <2>11. Queued(s)'
    <3>1. Told(s)' \in 0..ver' /\ Told(s)' # 0
      BY <1>0, <2>2, <2>3, <2>5, <2>7, BoundsAssumption DEF TypeOK, HubTypeOK
    <3>2. ASSUME NEW i \in 1..Len(buf'[s])
          PROVE  buf'[s][i] = buf'[s][1] + (i - 1) /\ buf'[s][i] <= ver'
      <4>1. buf'[s] # <<>>
        BY <2>6
      <4>2. b[1] + i = b[1] + 1 + (i - 1)
        BY <2>3
      <4> QED
        BY <1>0, <2>9, <2>10, <4>1, <4>2
    <3>3. buf'[s] # <<>> => buf'[s][1] = Told(s)' + 1
      BY <2>5, <2>10
    <3> QED
      BY <3>1, <3>2, <3>3 DEF Queued
  <2>12. ASSUME s \in subs
         PROVE  Synced(s)'
    <3>1. Synced(s) /\ runPc[cur] # "start"
      BY <1>0, <2>12 DEF SyncInv, Synced
    <3>2. Offered(s)' = Offered(s)
      BY <1>0 DEF Offered, Fanning
    <3> QED
      BY <1>0, <2>5, <2>8, <3>1, <3>2 DEF Synced
  <2> QED
    BY <2>8, <2>11, <2>12
<1> QED
  BY <1>0, <1>1, <1>2, OneFeeds

\* A stream that leaves its loop takes nothing with it that another has.
LEMMA LeaveFeeds ==
  ASSUME TypeOK, RunInv, QueueInv, SyncInv, LagInv, NEW s \in Streams,
         LoopSuperseded(s) \/ LoopClosed(s) \/ Detach(s)
  PROVE  QueueInv' /\ SyncInv' /\ LagInv'
<1>1. /\ UNCHANGED <<ver, cur, runPc, pos, pending, closed, buf, seen>>
      /\ subs' \subseteq subs /\ subs \ {s} \subseteq subs'
  BY DEF LoopSuperseded, LoopClosed, Detach, DetachLocked, hubVars
<1>2. \A q \in Streams \ {s} : spc'[q] = spc[q] /\ wire'[q] = wire[q] /\ run'[q] = run[q]
  <2>1. \A q \in Streams \ {s} : spc'[q] = spc[q]
    BY DEF LoopSuperseded, LoopClosed, Detach, TypeOK
  <2>2. \A q \in Streams \ {s} : wire'[q] = wire[q]
    BY DEF LoopSuperseded, LoopClosed, Detach, Terminal, TypeOK
  <2>3. \A q \in Streams \ {s} : run'[q] = run[q]
    BY DEF LoopSuperseded, LoopClosed, Detach, TypeOK
  <2> QED
    BY <2>1, <2>2, <2>3
<1>3. ~Listening(s)'
  BY DEF LoopSuperseded, LoopClosed, Detach, TypeOK, Listening
<1>4. \A q \in Streams \ {s} : SameFeed(q) /\ (Listening(q)' <=> Listening(q))
  BY <1>1, <1>2, SameWire DEF Listening
<1> QED
  BY <1>1, <1>2, <1>3, <1>4, OneFeeds

\* The snapshot's frame and the heartbeat's last word are no events.
LEMMA WordFeeds ==
  ASSUME TypeOK, RunInv, QueueInv, SyncInv, LagInv, NEW s \in Streams,
         Snapshot(s) \/ HeartbeatFrame(s)
  PROVE  QueueInv' /\ SyncInv' /\ LagInv'
<1>1. /\ UNCHANGED <<ver, cur, runPc, pos, pending, closed, buf, subs, run, seen>>
      /\ \A q \in Streams \ {s} : wire'[q] = wire[q] /\ spc'[q] = spc[q]
      /\ Listening(s)' => Listening(s)
  <2>1. CASE Snapshot(s)
    BY <2>1 DEF Snapshot, Listening, hubVars, TypeOK
  <2>2. CASE HeartbeatFrame(s)
    BY <2>2 DEF HeartbeatFrame, Terminal, Listening, hubVars, TypeOK
  <2> QED
    BY <2>1, <2>2
<1>2. SameFeed(s)
  <2>1. CASE wire' = wire
    BY <1>1, <2>1, SameWire
  <2>2. CASE wire' # wire /\ HeartbeatFrame(s)
    <3>1. wire'[s] = Append(wire[s], Frame("revoked", 0))
      BY <2>2 DEF HeartbeatFrame, Terminal, TypeOK
    <3>2. Frame("revoked", 0) \in Frames /\ Frame("revoked", 0).kind # "health"
      BY BoundsAssumption DEF Frame, Frames
    <3> QED
      BY <1>1, <3>1, <3>2, SameTold
  <2>3. CASE wire' # wire /\ Snapshot(s)
    <3>1. wire'[s] = Append(wire[s], Frame("snapshot", seen[s]))
      BY <2>3 DEF Snapshot, TypeOK
    <3>2. seen[s] \in -1..MaxEvents /\ seen[s] >= 0
      BY <2>3 DEF Snapshot, TypeOK
    <3>3. Frame("snapshot", seen[s]) \in Frames /\ Frame("snapshot", seen[s]).kind # "health"
      BY <3>2, BoundsAssumption DEF Frame, Frames
    <3> QED
      BY <1>1, <3>1, <3>3, SameTold
  <2> QED
    BY <2>1, <2>2, <2>3
<1>3. \A q \in Streams : SameFeed(q) /\ (Listening(q)' => Listening(q))
  BY <1>1, <1>2, SameWire DEF Listening
<1>4. ASSUME Listening(s)'
      PROVE  Queued(s)' /\ (s \in subs => Synced(s)') /\ Final(s)' = Final(s)
  <2>1. Queued(s)'
    <3>1. Queued(s) /\ ver' \in Nat /\ ver' >= ver
      BY <1>1, <1>3, <1>4, BoundsAssumption DEF QueueInv, TypeOK, HubTypeOK
    <3> QED
      BY <1>3, <3>1, QueuedKept
  <2>2. ASSUME s \in subs
        PROVE  Synced(s)'
    <3>1. Synced(s) /\ run'[s] = run[s] /\ cur' = cur /\ runPc'[cur] = runPc[cur]
      BY <1>1, <1>3, <1>4, <2>2 DEF SyncInv
    <3>2. Offered(s)' = Offered(s)
      BY <1>1 DEF Offered, Fanning
    <3> QED
      BY <1>3, <3>1, <3>2, SyncedKept
  <2>3. Final(s)' = Final(s)
    BY <1>3, FinalKept
  <2> QED
    BY <2>1, <2>2, <2>3
<1> QED
  BY <1>1, <1>3, <1>4, OneFeeds

\* An event that happens is not yet sent, and makes no stream lag less.
LEMMA EngineFeeds ==
  ASSUME TypeOK, QueueInv, SyncInv, LagInv, EngineEvent, UNCHANGED streamVars
  PROVE  QueueInv' /\ SyncInv' /\ LagInv'
<1>1. /\ UNCHANGED <<cur, runPc, pos, pending, closed, buf, subs, spc, run, wire, seen>>
      /\ ver' = ver + 1 /\ ver \in Nat /\ ver' \in Nat /\ ver' >= ver
  BY BoundsAssumption DEF EngineEvent, streamVars, TypeOK, HubTypeOK
<1>2. \A q \in Streams : SameFeed(q) /\ (Listening(q)' <=> Listening(q))
  BY <1>1, SameWire DEF Listening
<1>3. QueueInv'
  <2>1. ASSUME NEW s \in Streams, Listening(s)'
        PROVE  Queued(s)'
    BY <1>1, <1>2, <2>1, QueuedKept DEF QueueInv
  <2> QED
    BY <2>1 DEF QueueInv
<1>4. ASSUME NEW q \in subs', Listening(q)'
      PROVE  Synced(q)'
  <2>1. q \in Streams /\ Synced(q) /\ SameFeed(q)
    BY <1>1, <1>2, <1>4 DEF SyncInv, TypeOK, HubTypeOK
  <2>2. Offered(q)' = Offered(q)
    BY <1>1 DEF Offered, Fanning
  <2> QED
    BY <1>1, <2>1, <2>2, SyncedKept
<1>5. ASSUME NEW q \in Streams, Listening(q)', closed'[q] = "lagged"
      PROVE  Final(q)' < ver'
  <2>1. Final(q) < ver /\ Final(q)' = Final(q)
    BY <1>1, <1>2, <1>5, FinalKept DEF LagInv
  <2>2. Final(q) \in Nat
    <3>1. buf[q] \in Seq(1..MaxEvents)
      BY DEF TypeOK, HubTypeOK
    <3>2. buf[q] # <<>> => buf[q][Len(buf[q])] \in 1..MaxEvents
      BY <3>1, Ends
    <3> QED
      BY <3>2, ToldType, BoundsAssumption DEF Final
  <2> QED
    BY <1>1, <2>1, <2>2
<1>6. LagInv'
  BY <1>1, <1>2, <1>5 DEF LagInv, Fanning
<1> QED
  BY <1>3, <1>4, <1>6 DEF SyncInv

\* What a stream has been sent is what its run has fanned out, whatever happens.
LEMMA StepFeeds ==
  ASSUME Inv, FeedInv, [Next]_vars
  PROVE  QueueInv' /\ SyncInv' /\ LagInv'
<1>0. /\ TypeOK /\ RunInv /\ QueueInv /\ SyncInv /\ LagInv /\ FreshInv /\ ReadyInv /\ DropInv
      /\ spc \in [Streams -> StreamPcs]
  BY DEF Inv, FeedInv, SharedInv, TypeOK
<1>1. ASSUME NEW s \in Streams, HandlerStep(s)
      PROVE  QueueInv' /\ SyncInv' /\ LagInv'
  <2>1. CASE \/ CloseSuperseded(s) \/ Evict(s) \/ LoopDone(s) \/ LoopBlocks(s) \/ WriteReturns(s)
             \/ Release(s) \/ Join(s)
    <3>1. UNCHANGED <<ver, subs, cur, runPc, pos, pending, buf, closed, wire, seen, run>>
      BY <2>1 DEF CloseSuperseded, Evict, LoopDone, LoopBlocks, WriteReturns, Release, Join, hubVars
    <3>2. \A q \in Streams : Listening(q)' => Listening(q)
      BY <1>0, <2>1 DEF CloseSuperseded, Evict, LoopDone, LoopBlocks, WriteReturns, Release, Join,
        Listening
    <3> QED
      BY <1>0, <3>1, <3>2, Quiet
  <2>2. CASE AttachWait(s)
    <3>1. UNCHANGED <<ver, subs, cur, runPc, pos, pending, buf, closed, wire, seen, run>>
      BY <2>2 DEF AttachWait, hubVars
    <3>2. \A q \in Streams : Listening(q)' => Listening(q)
      BY <1>0, <2>2 DEF AttachWait, Listening
    <3> QED
      BY <1>0, <3>1, <3>2, Quiet
  <2>3. CASE LastStreamGone(s)
    <3>1. UNCHANGED <<ver, subs, cur, runPc, pos, pending, buf, closed, wire, seen, run>>
      BY <2>3 DEF LastStreamGone, CancelRun
    <3>2. \A q \in Streams : Listening(q)' => Listening(q)
      BY <1>0, <2>3 DEF LastStreamGone, Listening
    <3> QED
      BY <1>0, <3>1, <3>2, Quiet
  <2>4. CASE Attach(s)
    BY <1>0, <2>4, AttachFeeds
  <2>5. CASE ContainerStates(s)
    BY <1>0, <2>5, StatesFeeds
  <2>8. CASE Snapshot(s)
    BY <1>0, <2>8, WordFeeds
  <2>6. CASE LoopEvent(s)
    BY <1>0, <2>6, LoopEventFeeds
  <2>7. CASE LoopSuperseded(s) \/ LoopClosed(s) \/ Detach(s)
    BY <1>0, <2>7, LeaveFeeds
  <2> QED
    BY <1>1, <2>1, <2>2, <2>3, <2>4, <2>5, <2>6, <2>7, <2>8 DEF HandlerStep
<1>2. ASSUME NEW s \in Streams, HeartbeatStep(s) \/ Open(s) \/ ClientGone(s) \/ Stall(s)
      PROVE  QueueInv' /\ SyncInv' /\ LagInv'
  <2>1. CASE HeartbeatFrame(s)
    BY <1>0, <2>1, WordFeeds
  <2>2. CASE \/ HeartbeatTick(s) \/ HeartbeatBlocks(s) \/ HeartbeatReturns(s)
             \/ HeartbeatCancel(s) \/ HeartbeatDone(s) \/ ClientGone(s) \/ Stall(s)
    <3>1. UNCHANGED <<ver, subs, cur, runPc, pos, pending, buf, closed, wire, seen, run, spc>>
      BY <2>2 DEF HeartbeatTick, HeartbeatBlocks, HeartbeatReturns, HeartbeatCancel,
        HeartbeatDone, ClientGone, Stall, hubVars
    <3> QED
      BY <1>0, <3>1, Quiet DEF Listening
  <2>3. CASE Open(s)
    <3>1. UNCHANGED <<ver, subs, cur, runPc, pos, pending, buf, closed, wire, seen, run>>
      BY <2>3 DEF Open, hubVars
    <3>2. \A q \in Streams : Listening(q)' => Listening(q)
      BY <1>0, <2>3 DEF Open, Listening
    <3> QED
      BY <1>0, <3>1, <3>2, Quiet
  <2> QED
    BY <1>2, <2>1, <2>2, <2>3 DEF HeartbeatStep
<1>3. ASSUME NEW g \in Runs, RunStep(g), UNCHANGED streamVars
      PROVE  QueueInv' /\ SyncInv' /\ LagInv'
  <2>1. CASE RunStops(g) \/ FeedBreaks(g)
    BY <1>0, <1>3, <2>1, EndFeeds DEF RunStops, FeedBreaks
  <2>2. ASSUME NEW s \in Streams, Send(g, s)
        PROVE  QueueInv' /\ SyncInv' /\ LagInv'
    BY <1>0, <1>3, <2>2, SendFeeds
  <2>3. ASSUME NEW s \in Streams, Lag(g, s)
        PROVE  QueueInv' /\ SyncInv' /\ LagInv'
    BY <1>0, <1>3, <2>3, LagFeeds
  <2>4. ASSUME NEW s \in Streams, Drop(g, s)
        PROVE  QueueInv' /\ SyncInv' /\ LagInv'
    BY <1>0, <1>3, <2>4, DropFeeds
  <2> QED
    BY <1>0, <1>3, <2>1, <2>2, <2>3, <2>4, RunCases, RunFeeds
<1>4. CASE EngineEvent /\ UNCHANGED streamVars
  BY <1>0, <1>4, EngineFeeds
<1>5. CASE \/ CancelLifecycle /\ UNCHANGED streamVars
           \/ \E d \in Devices : Revoke(d)
           \/ UNCHANGED vars
  <2>1. UNCHANGED <<ver, subs, cur, runPc, pos, pending, buf, closed, wire, seen, run, spc>>
    BY <1>5 DEF CancelLifecycle, streamVars, Revoke, vars, hubVars
  <2> QED
    BY <1>0, <2>1, Quiet DEF Listening
<1> QED
  BY <1>1, <1>2, <1>3, <1>4, <1>5 DEF Next

-----------------------------------------------------------------------------
(* Handlers, heartbeats and the registry *)

\* A run visits only streams that have attached.
LEMMA RunFresh ==
  ASSUME TypeOK, FreshInv, NEW g \in Runs, RunStep(g), UNCHANGED streamVars
  PROVE  FreshInv'
<1>0. UNCHANGED <<spc, wire, seen, once, hb>>
  BY DEF streamVars
<1> DEFINE Out(s) == spc[s] \in {"idle", "supersede", "evict", "attach"}
           Empty(s) == /\ s \notin subs /\ buf[s] = <<>> /\ closed[s] = "none"
                       /\ \A h \in Runs : s \notin pending[h]
<1>1. \A s \in Streams : Out(s) => Empty(s)
  BY DEF FreshInv
<1>2. ASSUME NEW s \in Streams, Empty(s)
      PROVE  Empty(s)'
  <2> USE DEF TypeOK, HubTypeOK
  <2>1. CASE Subscribe(g) \/ markReady(g) \/ LastGone(g) \/ FanoutDone(g)
    BY <1>2, <2>1 DEF Subscribe, markReady, LastGone, FanoutDone
  <2>2. CASE CloseFailed(g) \/ RunReturns(g)
    BY <1>2, <2>2 DEF CloseFailed, RunReturns
  <2>3. CASE Receive(g)
    BY <1>2, <2>3 DEF Receive
  <2>4. CASE RunStops(g) \/ FeedBreaks(g)
    BY <1>2, <2>4 DEF RunStops, FeedBreaks, RunEnds
  <2>5. ASSUME NEW q \in Streams, Send(g, q)
        PROVE  Empty(s)'
    <3>1. q # s /\ pending' = [pending EXCEPT ![g] = @ \ {q}]
      BY <1>2, <2>5 DEF Send
    <3>2. s \notin subs' /\ buf'[s] = buf[s] /\ closed'[s] = closed[s]
      BY <1>2, <2>5, <3>1 DEF Send
    <3> QED
      BY <1>2, <3>1, <3>2
  <2>6. ASSUME NEW q \in Streams, CloseSubs(g, q)
        PROVE  Empty(s)'
    <3>1. q # s
      BY <1>2, <2>6 DEF CloseSubs
    <3> QED
      BY <1>2, <2>6, <3>1 DEF CloseSubs, CloseSub
  <2>7. ASSUME NEW q \in Streams, Lag(g, q)
        PROVE  Empty(s)'
    <3>1. q # s
      BY <1>2, <2>7 DEF Lag
    <3> QED
      BY <1>2, <2>7, <3>1 DEF Lag, CloseSub
  <2>8. ASSUME NEW q \in Streams, Drop(g, q)
        PROVE  Empty(s)'
    BY <1>2, <2>8 DEF Drop
  <2> QED
    BY <2>1, <2>2, <2>3, <2>4, <2>5, <2>6, <2>7, <2>8, RunCases
<1>3. \A s \in Streams : Out(s)' => Empty(s)'
  BY <1>0, <1>1, <1>2
<1> QED
  BY <1>0, <1>3 DEF FreshInv

\* A step that leaves the hub alone and moves no handler back.
LEMMA FreshFramed ==
  ASSUME TypeOK, FreshInv, NEW s \in Streams,
         \A q \in Streams \ {s} :
           /\ spc'[q] = spc[q] /\ wire'[q] = wire[q] /\ hb'[q] = hb[q] /\ buf'[q] = buf[q]
           /\ seen'[q] = seen[q]
           /\ q \in once' => q \in once
           /\ q \in subs' => q \in subs,
         UNCHANGED <<closed, pending>>,
         spc'[s] \in {"idle", "supersede", "evict", "attach"} =>
           /\ spc[s] \in {"idle", "supersede", "evict", "attach"}
           /\ UNCHANGED <<subs, buf>>,
         spc'[s] \in {"idle", "supersede", "evict", "attach", "wait", "states"} => seen'[s] = -1,
         spc'[s] \in {"idle", "supersede", "evict", "attach", "wait", "states", "snapshot"} =>
           wire'[s] = <<>> /\ s \notin once' /\ hb'[s] = "none",
         wire'[s] # <<>> => seen'[s] >= 0,
         spc'[s] = "loop" \/ hb'[s] # "none" => wire'[s] # <<>>
  PROVE  FreshInv'
<1>1. ASSUME NEW q \in Streams
      PROVE  /\ spc'[q] \in {"idle", "supersede", "evict", "attach"} =>
                  /\ q \notin subs' /\ buf'[q] = <<>> /\ closed'[q] = "none"
                  /\ \A g \in Runs : q \notin pending'[g]
             /\ spc'[q] \in {"idle", "supersede", "evict", "attach", "wait", "states"} => seen'[q] = -1
             /\ spc'[q] \in {"idle", "supersede", "evict", "attach", "wait", "states", "snapshot"} =>
                  wire'[q] = <<>> /\ q \notin once' /\ hb'[q] = "none"
             /\ wire'[q] # <<>> => seen'[q] >= 0
             /\ spc'[q] = "loop" \/ hb'[q] # "none" => wire'[q] # <<>>
  <2>1. CASE q = s
    BY <2>1 DEF FreshInv
  <2>2. CASE q # s
    BY <2>2 DEF FreshInv
  <2> QED
    BY <2>1, <2>2
<1> QED
  BY <1>1 DEF FreshInv

\* A terminal frame leaves a stream that had frames with frames.
LEMMA Spoken ==
  ASSUME TypeOK, NEW s \in Streams, NEW k, Terminal(s, k), wire[s] # <<>>
  PROVE  wire'[s] # <<>> /\ \A q \in Streams \ {s} : wire'[q] = wire[q] /\ (q \in once' <=> q \in once)
<1>1. wire \in [Streams -> Seq(Frames)] /\ wire[s] \in Seq(Frames)
  BY DEF TypeOK
<1>2. Append(wire[s], Frame(k, 0)) # <<>>
  BY <1>1
<1> QED
  BY <1>1, <1>2 DEF Terminal

\* A handler gets a queue when it attaches, frames from its snapshot on, and
\* its heartbeat after that.
LEMMA HandlerFresh ==
  ASSUME TypeOK, FreshInv, NEW s \in Streams, Open(s) \/ HandlerStep(s)
  PROVE  FreshInv'
<1>0. /\ spc \in [Streams -> StreamPcs] /\ wire \in [Streams -> Seq(Frames)]
      /\ hb \in [Streams -> Beats]
      /\ run \in [Streams -> 0..MaxRuns] /\ wire[s] \in Seq(Frames)
      /\ buf \in [Streams -> Seq(1..MaxEvents)]
  BY DEF TypeOK, HubTypeOK
<1>f. /\ spc[s] \in {"idle", "supersede", "evict", "attach", "wait", "states"} => seen[s] = -1
      /\ spc[s] \in {"idle", "supersede", "evict", "attach", "wait", "states", "snapshot"} =>
           wire[s] = <<>> /\ s \notin once /\ hb[s] = "none"
      /\ wire[s] # <<>> => seen[s] >= 0
      /\ spc[s] = "loop" \/ hb[s] # "none" => wire[s] # <<>>
  BY DEF FreshInv
<1>1. CASE Open(s)
  BY <1>0, <1>1, <1>f, FreshFramed DEF Open, hubVars
<1>2. CASE CloseSuperseded(s) \/ Evict(s)
  BY <1>0, <1>2, <1>f, FreshFramed DEF CloseSuperseded, Evict, hubVars
<1>3. CASE Attach(s)
  BY <1>0, <1>3, <1>f, FreshFramed DEF Attach, AttachLocked
<1>4. CASE AttachWait(s)
  <2>1. spc' = [spc EXCEPT ![s] = spc'[s]] /\ spc'[s] \in {"states", "detach"}
    BY <1>0, <1>4 DEF AttachWait
  <2> QED
    BY <1>0, <1>4, <1>f, <2>1, FreshFramed DEF AttachWait, hubVars
<1>5. CASE Snapshot(s)
  <2>1. CASE wire' = wire /\ hb' = hb /\ Goto(s, "detach")
    BY <1>0, <1>5, <1>f, <2>1, FreshFramed DEF Snapshot, hubVars
  <2>2. CASE /\ wire' = [wire EXCEPT ![s] = Append(@, Frame("snapshot", seen[s]))]
             /\ hb' = [hb EXCEPT ![s] = "ticking"] /\ Goto(s, "loop")
    <3>1. Append(wire[s], Frame("snapshot", seen[s])) # <<>>
      BY <1>0, NotEmpty
    <3>2. UNCHANGED <<subs, buf, closed, pending, once, seen>> /\ seen[s] >= 0
      BY <1>5 DEF Snapshot, hubVars, TypeOK
    <3> QED
      BY <1>0, <1>5, <1>f, <2>2, <3>1, <3>2, FreshFramed
  <2> QED
    BY <1>5, <2>1, <2>2 DEF Snapshot
<1>6. CASE ContainerStates(s)
  <2>1. /\ UNCHANGED <<subs, buf, closed, pending, once, wire, hb>>
        /\ \A q \in Streams \ {s} : spc'[q] = spc[q] /\ seen'[q] = seen[q]
        /\ spc'[s] \in {"snapshot", "detach"} /\ spc[s] = "states"
    BY <1>0, <1>6 DEF ContainerStates, hubVars, TypeOK
  <2> QED
    BY <1>0, <1>f, <2>1, FreshFramed
<1>7. CASE LoopSuperseded(s) \/ LoopClosed(s)
  <2>1. /\ UNCHANGED <<subs, buf, closed, pending, hb, seen>> /\ wire[s] # <<>>
        /\ Goto(s, "detach")
    BY <1>7, <1>f DEF LoopSuperseded, LoopClosed, hubVars
  <2>2. wire'[s] # <<>> /\ \A q \in Streams \ {s} : wire'[q] = wire[q] /\ (q \in once' <=> q \in once)
    BY <1>7, <2>1, Spoken DEF LoopSuperseded, LoopClosed
  <2> QED
    BY <1>0, <1>f, <2>1, <2>2, FreshFramed
<1>8. CASE LoopDone(s) \/ LoopBlocks(s) \/ WriteReturns(s)
  BY <1>0, <1>8, <1>f, FreshFramed DEF LoopDone, LoopBlocks, WriteReturns, hubVars
<1>9. CASE LoopEvent(s)
  <2>1. /\ UNCHANGED <<subs, closed, pending, once, hb, seen>> /\ spc[s] = "loop"
        /\ \A q \in Streams \ {s} : buf'[q] = buf[q]
    BY <1>0, <1>9 DEF LoopEvent, TakeEvent
  <2>2. \A q \in Streams \ {s} : wire'[q] = wire[q] /\ spc'[q] = spc[q]
    BY <1>0, <1>9 DEF LoopEvent
  <2>3. spc'[s] \in {"loop", "detach"} /\ wire'[s] # <<>>
    <3>1. Append(wire[s], Frame("health", Head(buf[s]))) # <<>>
      BY <1>0, NotEmpty
    <3> QED
      BY <1>0, <1>9, <1>f, <2>1, <3>1 DEF LoopEvent
  <2> QED
    BY <1>f, <2>1, <2>2, <2>3, FreshFramed
<1>10. CASE Detach(s)
  BY <1>0, <1>10, <1>f, FreshFramed DEF Detach, DetachLocked
<1>11. CASE LastStreamGone(s)
  BY <1>0, <1>11, <1>f, FreshFramed DEF LastStreamGone, CancelRun
<1>12. CASE Release(s) \/ Join(s)
  BY <1>0, <1>12, <1>f, FreshFramed DEF Release, Join, hubVars
<1> QED
  BY <1>1, <1>2, <1>3, <1>4, <1>5, <1>6, <1>7, <1>8, <1>9, <1>10, <1>11, <1>12 DEF HandlerStep

\* A heartbeat runs only on a stream that has its snapshot.
LEMMA OtherFresh ==
  ASSUME TypeOK, FreshInv,
         \/ \E s \in Streams : HeartbeatStep(s) \/ ClientGone(s) \/ Stall(s)
         \/ (\E g \in Runs : RunStep(g)) /\ UNCHANGED streamVars
         \/ (EngineEvent \/ CancelLifecycle) /\ UNCHANGED streamVars
         \/ \E d \in Devices : Revoke(d)
         \/ UNCHANGED vars
  PROVE  FreshInv'
<1>0. /\ wire \in [Streams -> Seq(Frames)]
      /\ hb \in [Streams -> Beats]
  BY DEF TypeOK
<1>1. ASSUME NEW s \in Streams, HeartbeatStep(s)
      PROVE  FreshInv'
  <2>1. /\ UNCHANGED <<subs, buf, closed, pending, spc, seen>> /\ hb[s] # "none"
        /\ \A q \in Streams \ {s} : hb'[q] = hb[q]
    BY <1>0, <1>1 DEF HeartbeatStep, HeartbeatTick, HeartbeatBlocks, HeartbeatReturns,
      HeartbeatFrame, HeartbeatCancel, HeartbeatDone, hubVars
  <2>2. wire[s] # <<>> /\ seen[s] >= 0
        /\ spc[s] \notin {"idle", "supersede", "evict", "attach", "wait", "states", "snapshot"}
    BY <2>1 DEF FreshInv
  <2>3. wire'[s] # <<>> /\ \A q \in Streams \ {s} : wire'[q] = wire[q] /\ (q \in once' <=> q \in once)
    <3>1. CASE HeartbeatFrame(s)
      BY <2>2, <3>1, Spoken DEF HeartbeatFrame
    <3>2. CASE ~HeartbeatFrame(s)
      BY <1>1, <2>2, <3>2 DEF HeartbeatStep, HeartbeatTick, HeartbeatBlocks, HeartbeatReturns,
        HeartbeatCancel, HeartbeatDone
    <3> QED
      BY <3>1, <3>2
  <2> QED
    BY <2>1, <2>2, <2>3, FreshFramed
<1>2. ASSUME NEW s \in Streams, ClientGone(s) \/ Stall(s)
      PROVE  FreshInv'
  BY <1>2 DEF ClientGone, Stall, hubVars, FreshInv
<1>3. ASSUME NEW d \in Devices, Revoke(d)
      PROVE  FreshInv'
  BY <1>3 DEF Revoke, hubVars, FreshInv
<1>4. CASE (EngineEvent \/ CancelLifecycle) /\ UNCHANGED streamVars
  BY <1>4 DEF EngineEvent, CancelLifecycle, streamVars, FreshInv
<1>5. CASE UNCHANGED vars
  BY <1>5 DEF vars, hubVars, streamVars, FreshInv
<1> QED
  BY <1>1, <1>2, <1>3, <1>4, <1>5, RunFresh

\* A stream starts on its snapshot only after its run has subscribed.
LEMMA StepReady ==
  ASSUME Inv, ReadyInv, [Next]_vars
  PROVE  ReadyInv'
<1>0. /\ TypeOK /\ RunInv
      /\ spc \in [Streams -> StreamPcs] /\ run \in [Streams -> 0..MaxRuns]
      /\ runPc \in [Runs -> RunPcs] /\ pos \in [Runs -> 0..MaxEvents] /\ ver \in Nat
      /\ ready \subseteq Runs /\ \A g \in Runs : pos[g] \in Nat
  <2>1. TypeOK /\ RunInv /\ MaxEvents \in Nat
    BY BoundsAssumption DEF Inv
  <2>2. pos \in [Runs -> 0..MaxEvents] /\ ver \in 0..MaxEvents
    BY <2>1 DEF TypeOK, HubTypeOK
  <2>3. ver \in Nat /\ \A g \in Runs : pos[g] \in Nat
    BY <2>1, <2>2
  <2>4. spc \in [Streams -> StreamPcs] /\ run \in [Streams -> 0..MaxRuns]
    BY <2>1 DEF TypeOK
  <2>5. runPc \in [Runs -> RunPcs] /\ ready \subseteq Runs
    BY <2>1 DEF TypeOK, HubTypeOK
  <2> QED
    BY <2>1, <2>2, <2>3, <2>4, <2>5
<1>1. ASSUME UNCHANGED <<runPc, pos, ready, ver>>,
             \A s \in Streams : spc'[s] \in {"states", "snapshot", "loop"} =>
               run'[s] \in ready
      PROVE  ReadyInv'
  BY <1>1 DEF ReadyInv
<1>2. ASSUME NEW s \in Streams, Open(s) \/ HandlerStep(s)
      PROVE  ReadyInv'
  <2>1. CASE Open(s) \/ CloseSuperseded(s) \/ Evict(s) \/ Release(s) \/ Join(s)
    BY <1>0, <1>1, <2>1 DEF Open, CloseSuperseded, Evict, Release, Join, hubVars, ReadyInv
  <2>2. CASE AttachWait(s) \/ ContainerStates(s) \/ Snapshot(s)
    <3>1. UNCHANGED <<runPc, pos, ready, ver, run>>
      BY <2>2 DEF AttachWait, ContainerStates, Snapshot, hubVars
    <3>2. CASE AttachWait(s)
      BY <1>0, <1>1, <3>1, <3>2 DEF AttachWait, ReadyInv
    <3>3. CASE ContainerStates(s)
      BY <1>0, <1>1, <3>1, <3>3 DEF ContainerStates, ReadyInv
    <3>4. CASE Snapshot(s)
      BY <1>0, <1>1, <3>1, <3>4 DEF Snapshot, ReadyInv
    <3> QED
      BY <2>2, <3>2, <3>3, <3>4
  <2>3. CASE LoopSuperseded(s) \/ LoopDone(s) \/ LoopClosed(s) \/ LoopBlocks(s) \/ WriteReturns(s)
    BY <1>0, <1>1, <2>3 DEF LoopSuperseded, LoopDone, LoopClosed, LoopBlocks, WriteReturns, hubVars,
      ReadyInv
  <2>4. CASE LoopEvent(s)
    BY <1>0, <1>1, <2>4 DEF LoopEvent, TakeEvent, ReadyInv
  <2>5. CASE Detach(s) \/ LastStreamGone(s)
    BY <1>0, <1>1, <2>5 DEF Detach, DetachLocked, LastStreamGone, CancelRun, ReadyInv
  <2>6. CASE Attach(s)
    <3>1. /\ UNCHANGED <<pos, ready, ver>>
          /\ \A q \in Streams : spc'[q] \in {"states", "snapshot", "loop"} =>
               spc[q] = spc'[q] /\ run'[q] = run[q]
      BY <1>0, <2>6 DEF Attach, AttachLocked
    <3>2. ASSUME NEW g \in Runs, runPc'[g] \in {"none", "start", "opened"}
          PROVE  g \notin ready
      <4>1. CASE running
        BY <2>6, <3>2, <4>1 DEF Attach, AttachLocked, ReadyInv
      <4>2. CASE ~running
        <5>1. runPc' = [runPc EXCEPT ![cur + 1] = "start"] /\ cur \in Nat
          BY <2>6, <4>2, BoundsAssumption DEF Attach, AttachLocked, Inv, TypeOK, HubTypeOK
        <5>2. CASE g = cur + 1
          <6>1. runPc[g] = "none"
            BY <1>0, <5>1, <5>2 DEF RunInv
          <6> QED
            BY <6>1 DEF ReadyInv
        <5>3. CASE g # cur + 1
          BY <1>0, <3>2, <5>1, <5>3 DEF ReadyInv
        <5> QED
          BY <5>2, <5>3
      <4> QED
        BY <4>1, <4>2
    <3> QED
      BY <3>1, <3>2 DEF ReadyInv
  <2> QED
    BY <1>2, <2>1, <2>2, <2>3, <2>4, <2>5, <2>6 DEF HandlerStep
<1>3. ASSUME NEW s \in Streams, HeartbeatStep(s) \/ ClientGone(s) \/ Stall(s)
      PROVE  ReadyInv'
  <2>1. UNCHANGED <<runPc, pos, ready, ver, spc, run>>
    BY <1>3 DEF HeartbeatStep, HeartbeatTick, HeartbeatBlocks, HeartbeatReturns, HeartbeatFrame,
      HeartbeatCancel, HeartbeatDone, ClientGone, Stall, hubVars
  <2> QED
    BY <2>1 DEF ReadyInv
<1>4. ASSUME NEW g \in Runs, RunStep(g), UNCHANGED streamVars
      PROVE  ReadyInv'
  <2>0. UNCHANGED <<spc, run, ver>> /\ ready \subseteq ready'
    BY <1>4, RunCases DEF streamVars, Subscribe, markReady, Receive, LastGone, FanoutDone, RunStops,
      FeedBreaks, RunEnds, CloseFailed, RunReturns, Send, Lag, Drop, CloseSubs
  <2>1. CASE Subscribe(g)
    BY <1>0, <2>0, <2>1 DEF Subscribe, ReadyInv
  <2>2. CASE markReady(g)
    BY <1>0, <2>0, <2>2 DEF markReady, ReadyInv
  <2>3. CASE Receive(g)
    <3>1. pos'[g] = pos[g] + 1 /\ pos[g] < ver
      BY <1>0, <2>3 DEF Receive
    <3>2. \A h \in Runs : pos'[h] <= ver
      <4>1. \A h \in Runs \ {g} : pos'[h] = pos[h]
        BY <1>0, <2>3 DEF Receive
      <4> QED
        BY <1>0, <3>1, <4>1 DEF ReadyInv
    <3>3. \A h \in Runs : runPc'[h] \in {"none", "start", "opened"} => runPc[h] = runPc'[h]
      BY <1>0, <2>3 DEF Receive
    <3> QED
      BY <2>0, <2>3, <3>2, <3>3 DEF Receive, ReadyInv
  <2>4. CASE LastGone(g) \/ FanoutDone(g) \/ RunStops(g) \/ FeedBreaks(g)
    BY <1>0, <2>0, <2>4 DEF LastGone, FanoutDone, RunStops, FeedBreaks, RunEnds, ReadyInv
  <2>5. CASE CloseFailed(g) \/ RunReturns(g)
    BY <1>0, <2>0, <2>5 DEF CloseFailed, RunReturns, ReadyInv
  <2>6. ASSUME NEW s \in Streams, Lag(g, s) \/ Drop(g, s)
        PROVE  ReadyInv'
    <3>1. \A h \in Runs : runPc'[h] \in {"none", "start", "opened"} => runPc[h] = runPc'[h]
      BY <1>0, <2>6 DEF Lag, Drop
    <3>2. UNCHANGED <<pos, ready>>
      BY <2>6 DEF Lag, Drop
    <3> QED
      BY <2>0, <3>1, <3>2 DEF ReadyInv
  <2>7. ASSUME NEW s \in Streams, Send(g, s) \/ CloseSubs(g, s)
        PROVE  ReadyInv'
    BY <2>0, <2>7 DEF Send, CloseSubs, ReadyInv
  <2> QED
    BY <1>4, <2>1, <2>2, <2>3, <2>4, <2>5, <2>6, <2>7, RunCases
<1>5. CASE EngineEvent /\ UNCHANGED streamVars
  BY <1>0, <1>5 DEF EngineEvent, streamVars, ReadyInv
<1>6. CASE CancelLifecycle /\ UNCHANGED streamVars
  BY <1>6 DEF CancelLifecycle, streamVars, ReadyInv
<1>7. CASE (\E d \in Devices : Revoke(d)) \/ UNCHANGED vars
  BY <1>7 DEF Revoke, vars, hubVars, streamVars, ReadyInv
<1> QED
  BY <1>2, <1>3, <1>4, <1>5, <1>6, <1>7 DEF Next

\* The Once lets one terminal frame through.
LEMMA StepReason ==
  ASSUME TypeOK, ReasonInv, [Next]_vars
  PROVE  ReasonInv'
<1>0. /\ wire \in [Streams -> Seq(Frames)] /\ once \subseteq Streams
      /\ hb \in [Streams -> Beats]
  BY DEF TypeOK
<1> DEFINE Clean(w) == \A i \in DOMAIN w : w[i].kind \notin Terminals
<1>1. ASSUME NEW w \in Seq(Frames), NEW k, NEW n, k \notin Terminals, Clean(w)
      PROVE  Clean(Append(w, Frame(k, n)))
  <2>1. Frame(k, n).kind = k
    BY DEF Frame
  <2> HIDE DEF Frame
  <2>2. /\ DOMAIN Append(w, Frame(k, n)) = 1..(Len(w) + 1) /\ DOMAIN w = 1..Len(w)
        /\ Append(w, Frame(k, n))[Len(w) + 1] = Frame(k, n)
        /\ \A i \in 1..Len(w) : Append(w, Frame(k, n))[i] = w[i] /\ Len(w) \in Nat
    OBVIOUS
  <2> QED
    BY <1>1, <2>1, <2>2
<1>2. \A s \in Streams \ once : Clean(wire[s])
  BY DEF ReasonInv
<1>3. ASSUME once \subseteq once', \A s \in Streams \ once' : Clean(wire'[s]),
             UNCHANGED dev, revoked \subseteq revoked',
             \A s \in Streams : hb'[s] = "frame" => hb[s] = "frame" \/ dev[s] \in revoked
      PROVE  ReasonInv'
  BY <1>3 DEF ReasonInv
<1> HIDE DEF Clean
<1>4. ASSUME NEW s \in Streams, NEW k, Terminal(s, k), UNCHANGED <<dev, revoked>>,
             \A q \in Streams : hb'[q] = "frame" => hb[q] = "frame"
      PROVE  ReasonInv'
  <2>1. once \subseteq once' /\ \A q \in Streams \ once' : wire'[q] = wire[q] /\ q \notin once
    BY <1>0, <1>4 DEF Terminal
  <2> QED
    BY <1>2, <1>3, <1>4, <2>1
<1>5. ASSUME NEW s \in Streams, LoopSuperseded(s) \/ LoopClosed(s) \/ HeartbeatFrame(s)
      PROVE  ReasonInv'
  <2>1. UNCHANGED <<dev, revoked>> /\ \A q \in Streams : hb'[q] = "frame" => hb[q] = "frame"
    BY <1>0, <1>5 DEF LoopSuperseded, LoopClosed, HeartbeatFrame
  <2> QED
    BY <1>4, <1>5, <2>1 DEF LoopSuperseded, LoopClosed, HeartbeatFrame
<1>6. ASSUME NEW s \in Streams, Snapshot(s) \/ LoopEvent(s)
      PROVE  ReasonInv'
  <2>1. UNCHANGED <<dev, revoked, once>> /\ \A q \in Streams : hb'[q] = "frame" => hb[q] = "frame"
    BY <1>0, <1>6 DEF Snapshot, LoopEvent
  <2>2. \A q \in Streams \ {s} : wire'[q] = wire[q]
    BY <1>0, <1>6 DEF Snapshot, LoopEvent
  <2>3. \/ wire'[s] = wire[s]
        \/ \E k, n : k \notin Terminals /\ wire'[s] = Append(wire[s], Frame(k, n))
    <3>1. CASE Snapshot(s)
      <4>1. wire'[s] = wire[s] \/ wire'[s] = Append(wire[s], Frame("snapshot", seen[s]))
        BY <1>0, <3>1 DEF Snapshot
      <4> QED
        BY <4>1
    <3>2. CASE LoopEvent(s)
      BY <1>0, <3>2 DEF LoopEvent
    <3> QED
      BY <1>6, <3>1, <3>2
  <2>4. s \notin once => Clean(wire'[s])
    BY <1>0, <1>1, <1>2, <2>3
  <2> QED
    BY <1>2, <1>3, <2>1, <2>2, <2>4
<1>7. ASSUME UNCHANGED <<wire, once, dev>>, revoked \subseteq revoked',
             \A s \in Streams : hb'[s] = "frame" => hb[s] = "frame" \/ dev[s] \in revoked
      PROVE  ReasonInv'
  BY <1>2, <1>3, <1>7
<1>8. ASSUME NEW s \in Streams,
             \/ Open(s) \/ CloseSuperseded(s) \/ Evict(s) \/ Attach(s) \/ AttachWait(s)
             \/ ContainerStates(s) \/ LoopDone(s) \/ LoopBlocks(s) \/ WriteReturns(s) \/ Detach(s)
             \/ LastStreamGone(s) \/ Release(s) \/ Join(s) \/ ClientGone(s) \/ Stall(s)
      PROVE  ReasonInv'
  <2>1. UNCHANGED <<wire, once, dev, revoked, hb>>
    BY <1>8 DEF Open, CloseSuperseded, Evict, Attach, AttachWait, ContainerStates, LoopDone,
      LoopBlocks, WriteReturns, Detach, LastStreamGone, Release, Join, ClientGone, Stall
  <2> QED
    BY <1>7, <2>1
<1>9. ASSUME NEW s \in Streams,
             \/ HeartbeatTick(s) \/ HeartbeatBlocks(s) \/ HeartbeatReturns(s)
             \/ HeartbeatCancel(s) \/ HeartbeatDone(s)
      PROVE  ReasonInv'
  <2>1. UNCHANGED <<wire, once, dev, revoked>>
    BY <1>9 DEF HeartbeatTick, HeartbeatBlocks, HeartbeatReturns, HeartbeatCancel, HeartbeatDone
  <2>2. \A q \in Streams : hb'[q] = "frame" => hb[q] = "frame" \/ dev[q] \in revoked
    BY <1>0, <1>9 DEF HeartbeatTick, HeartbeatBlocks, HeartbeatReturns, HeartbeatCancel, HeartbeatDone
  <2> QED
    BY <1>7, <2>1, <2>2
<1>10. CASE \/ (\E g \in Runs : RunStep(g)) /\ UNCHANGED streamVars
            \/ (EngineEvent \/ CancelLifecycle) /\ UNCHANGED streamVars
            \/ \E d \in Devices : Revoke(d)
            \/ UNCHANGED vars
  <2>1. UNCHANGED <<wire, once, dev, hb>> /\ revoked \subseteq revoked'
    BY <1>10 DEF streamVars, vars, Revoke
  <2> QED
    BY <1>7, <2>1
<1> QED
  BY <1>5, <1>6, <1>8, <1>9, <1>10 DEF Next, HandlerStep, HeartbeatStep

\* Only another stream of the same device evicts a stream.
LEMMA StepEvict ==
  ASSUME TypeOK, EvictInv, SlotInv, [Next]_vars
  PROVE  EvictInv'
<1>0. /\ spc \in [Streams -> StreamPcs] /\ dev \in [Streams -> Devices]
      /\ active \in [Devices -> Streams \cup {NoStream}]
      /\ old \in [Streams -> Streams \cup {NoStream}]
      /\ superseded \subseteq Streams /\ NoStream \notin Streams
  BY NoStreamAssumption DEF TypeOK
<1>1. ASSUME UNCHANGED dev, \A s \in Streams : spc'[s] = "idle" => spc[s] = "idle"
      PROVE  \A q, s \in Streams : Rival(q, s) => Rival(q, s)'
  BY <1>1 DEF Rival
<1>2. ASSUME UNCHANGED dev, \A s \in Streams : spc'[s] = "idle" => spc[s] = "idle",
             \A s \in Streams : spc'[s] \in {"supersede", "evict"} =>
               spc[s] \in {"supersede", "evict"} /\ old'[s] = old[s],
             \A d \in Devices : active'[d] \in {active[d], NoStream},
             UNCHANGED superseded
      PROVE  EvictInv'
  <2>1. \A d \in Devices :
          active'[d] # NoStream => dev'[active'[d]] = d /\ spc'[active'[d]] # "idle"
    BY <1>0, <1>2 DEF EvictInv
  <2>2. \A s \in Streams : spc'[s] \in {"supersede", "evict"} => Rival(s, old[s])'
    <3>1. \A s \in Streams : spc[s] \in {"supersede", "evict"} => old[s] \in Streams
      BY DEF SlotInv
    <3>2. ASSUME NEW s \in Streams, spc'[s] \in {"supersede", "evict"}
          PROVE  Rival(s, old[s])' /\ old'[s] = old[s]
      BY <1>2, <3>1, <3>2 DEF EvictInv, Rival
    <3> QED
      BY <3>2
  <2>3. \A s \in superseded' : \E q \in Streams : Rival(q, s)'
    BY <1>0, <1>1, <1>2 DEF EvictInv
  <2> QED
    BY <2>1, <2>2, <2>3 DEF EvictInv
<1>3. ASSUME NEW s \in Streams, Open(s)
      PROVE  EvictInv'
  <2> DEFINE o == active[dev[s]]
  <2>1. /\ UNCHANGED <<dev, superseded>> /\ dev[s] \in Devices /\ o \in Streams \cup {NoStream}
        /\ active' = [active EXCEPT ![dev[s]] = s] /\ old' = [old EXCEPT ![s] = o]
        /\ spc' = [spc EXCEPT ![s] = IF o = NoStream THEN "attach" ELSE "supersede"]
        /\ spc[s] = "idle"
    BY <1>0, <1>3 DEF Open
  <2>2. \A q \in Streams : spc'[q] = "idle" => spc[q] = "idle" /\ q # s
    BY <1>0, <2>1
  <2>3. ASSUME NEW d \in Devices, active'[d] # NoStream
        PROVE  dev'[active'[d]] = d /\ spc'[active'[d]] # "idle"
    <3>1. CASE d = dev[s]
      BY <1>0, <2>1, <2>2, <3>1
    <3>2. CASE d # dev[s]
      BY <1>0, <2>1, <2>2, <2>3, <3>2 DEF EvictInv
    <3> QED
      BY <3>1, <3>2
  <2>4. ASSUME NEW q \in Streams, spc'[q] \in {"supersede", "evict"}
        PROVE  Rival(q, old[q])'
    <3>1. CASE q = s
      <4>1. old'[s] = o /\ o \in Streams /\ o # NoStream
        BY <1>0, <2>1, <2>4, <3>1
      <4>2. dev[o] = dev[s] /\ spc[o] # "idle"
        BY <1>0, <2>1, <4>1 DEF EvictInv
      <4>3. o # s /\ spc'[s] # "idle"
        BY <2>1, <2>2, <4>2
      <4> QED
        BY <2>1, <3>1, <4>1, <4>2, <4>3 DEF Rival
    <3>2. CASE q # s
      <4>1. spc[q] = spc'[q] /\ old'[q] = old[q]
        BY <1>0, <2>1, <3>2
      <4>2. Rival(q, old[q])
        BY <2>4, <4>1 DEF EvictInv
      <4> QED
        BY <2>1, <2>2, <4>1, <4>2 DEF Rival
    <3> QED
      BY <3>1, <3>2
  <2>5. \A q \in superseded' : \E r \in Streams : Rival(r, q)'
    BY <1>0, <1>1, <2>1, <2>2 DEF EvictInv
  <2> QED
    BY <2>3, <2>4, <2>5 DEF EvictInv
<1>4. ASSUME NEW s \in Streams, CloseSuperseded(s)
      PROVE  EvictInv'
  <2>1. /\ UNCHANGED <<dev, active, old>> /\ superseded' = superseded \cup {old[s]}
        /\ spc' = [spc EXCEPT ![s] = "evict"] /\ spc[s] = "supersede"
    BY <1>4 DEF CloseSuperseded
  <2>2. \A q \in Streams : spc'[q] = "idle" => spc[q] = "idle"
    BY <1>0, <2>1
  <2>3. old[s] \in Streams /\ Rival(s, old[s])
    BY <2>1 DEF SlotInv, EvictInv
  <2>4. \A q, r \in Streams : Rival(q, r) => Rival(q, r)'
    BY <1>1, <2>1, <2>2
  <2>5. \A q \in superseded' : \E r \in Streams : Rival(r, q)'
    <3>1. \A q \in superseded' : q \in Streams /\ \E r \in Streams : Rival(r, q)
      BY <1>0, <2>1, <2>3 DEF EvictInv
    <3> QED
      BY <2>4, <3>1
  <2>6. \A q \in Streams : spc'[q] \in {"supersede", "evict"} => Rival(q, old[q])'
    <3>1. \A q \in Streams : spc'[q] \in {"supersede", "evict"} => spc[q] \in {"supersede", "evict"}
      BY <1>0, <2>1
    <3>2. \A q \in Streams : spc'[q] \in {"supersede", "evict"} => Rival(q, old[q])
      BY <3>1 DEF EvictInv
    <3> QED
      BY <2>1, <2>2, <3>2 DEF Rival
  <2>7. \A d \in Devices :
          active'[d] # NoStream => dev'[active'[d]] = d /\ spc'[active'[d]] # "idle"
    BY <1>0, <2>1, <2>2 DEF EvictInv
  <2> QED
    BY <2>5, <2>6, <2>7 DEF EvictInv
<1>5. ASSUME NEW s \in Streams,
             \/ Evict(s) \/ Attach(s)
             \/ LoopSuperseded(s) \/ LoopDone(s) \/ LoopClosed(s) \/ LoopBlocks(s) \/ WriteReturns(s)
             \/ Detach(s) \/ LastStreamGone(s) \/ Join(s)
      PROVE  EvictInv'
  <2>1. UNCHANGED <<dev, active, old, superseded>>
    BY <1>5 DEF Evict, Attach, LoopSuperseded, LoopDone, LoopClosed, LoopBlocks, WriteReturns,
      Detach, LastStreamGone, Join
  <2>2. \E l \in StreamPcs \ {"idle", "supersede", "evict"} : spc' = [spc EXCEPT ![s] = l]
    BY <1>5 DEF Evict, Attach, LoopSuperseded, LoopDone, LoopClosed, LoopBlocks, WriteReturns,
      Detach, LastStreamGone, Join
  <2> QED
    BY <1>0, <1>2, <2>1, <2>2
<1>6. ASSUME NEW s \in Streams,
             AttachWait(s) \/ ContainerStates(s) \/ Snapshot(s) \/ LoopEvent(s) \/ Release(s)
      PROVE  EvictInv'
  <2>1. UNCHANGED <<dev, old, superseded>> /\ \A d \in Devices : active'[d] \in {active[d], NoStream}
    BY <1>0, <1>6 DEF AttachWait, ContainerStates, Snapshot, LoopEvent, Release
  <2>2. spc' = spc \/ \E l \in StreamPcs \ {"idle", "supersede", "evict"} : spc' = [spc EXCEPT ![s] = l]
    BY <1>6 DEF AttachWait, ContainerStates, Snapshot, LoopEvent, Release
  <2> QED
    BY <1>0, <1>2, <2>1, <2>2
<1>7. CASE \/ \E s \in Streams : HeartbeatStep(s) \/ ClientGone(s) \/ Stall(s)
           \/ (\E g \in Runs : RunStep(g)) /\ UNCHANGED streamVars
           \/ (EngineEvent \/ CancelLifecycle) /\ UNCHANGED streamVars
           \/ \E d \in Devices : Revoke(d)
           \/ UNCHANGED vars
  <2>1. UNCHANGED <<dev, active, old, superseded, spc>>
    BY <1>7 DEF HeartbeatStep, HeartbeatTick, HeartbeatBlocks, HeartbeatReturns, HeartbeatFrame,
      HeartbeatCancel, HeartbeatDone, ClientGone, Stall, streamVars, Revoke, vars
  <2> QED
    BY <1>0, <1>2, <2>1
<1> QED
  BY <1>3, <1>4, <1>5, <1>6, <1>7 DEF Next, HandlerStep

\* A step that attaches no stream and takes no run further.
LEMMA SharedFramed ==
  ASSUME SharedInv, UNCHANGED <<cur, runPc, pending, closed, run>>,
         subs' \subseteq subs, cut \subseteq cut', cancelled \subseteq cancelled', down => down',
         \A s \in Streams : Early(s)' => Early(s)
  PROVE  SharedInv'
<1>1. OwnInv'
  BY DEF SharedInv, OwnInv
<1>2. DropInv'
  BY DEF SharedInv, DropInv, Fanning
<1>3. EngineInv'
  BY DEF SharedInv, EngineInv
<1> QED
  BY <1>1, <1>2, <1>3 DEF SharedInv

\* A stream attaches, to the current run or to a new one.
LEMMA AttachShares ==
  ASSUME TypeOK, RunInv, FreshInv, SharedInv, NEW s \in Streams, Attach(s)
  PROVE  SharedInv'
<1>0. /\ spc[s] = "attach" /\ subs' = subs \cup {s} /\ run' = [run EXCEPT ![s] = cur']
      /\ UNCHANGED <<pending, closed, cut, cancelled, down>>
      /\ run \in [Streams -> 0..MaxRuns] /\ subs \subseteq Streams
      /\ \A q \in Streams : Early(q)' => Early(q) /\ q # s
  BY DEF Attach, AttachLocked, TypeOK, HubTypeOK, Early
<1>1. s \notin subs /\ closed[s] = "none" /\ \A g \in Runs : s \notin pending[g]
  BY <1>0 DEF FreshInv
<1>2. run'[s] = cur' /\ \A q \in Streams \ {s} : run'[q] = run[q]
  BY <1>0
<1>3. /\ subs # {} => cur' = cur /\ runPc' = runPc
      /\ \A g \in Runs : Fanning(g)' => runPc'[g] = runPc[g]
      /\ \A g \in Runs : runPc'[g] \in {"ended", "closing"} => runPc'[g] = runPc[g]
  <2>1. CASE running
    BY <2>1 DEF Attach, AttachLocked
  <2>2. CASE ~running
    BY <2>2, NewRun DEF RunInv, Fanning
  <2> QED
    BY <2>1, <2>2
<1>4. OwnInv'
  <2>1. \A q \in subs' : run'[q] = cur'
    BY <1>0, <1>1, <1>2, <1>3 DEF SharedInv, OwnInv
  <2>2. \A g \in Runs : \A q \in pending'[g] : run'[q] = g
    <3> SUFFICES ASSUME NEW g \in Runs, NEW q \in pending[g]
                 PROVE  run'[q] = g
      BY <1>0
    <3>1. pending[g] \subseteq Streams
      BY DEF TypeOK, HubTypeOK
    <3>2. q # s /\ run[q] = g
      BY <1>1 DEF SharedInv, OwnInv
    <3> QED
      BY <1>2, <3>1, <3>2
  <2>3. \A q \in Streams : Early(q)' => run'[q] = 0
    BY <1>0, <1>2 DEF SharedInv, OwnInv
  <2> QED
    BY <2>1, <2>2, <2>3 DEF OwnInv
<1>5. DropInv'
  <2> SUFFICES ASSUME NEW q \in Streams, closed'[q] # "none"
               PROVE  /\ q \in subs' => runPc'[cur'] = "dropping" /\ q \in pending'[cur']
                      /\ \A g \in Runs : Fanning(g)' /\ q \in pending'[g] =>
                           runPc'[g] = "dropping" /\ \A u \in pending'[g] : closed'[u] # "none" => u = q
    BY DEF DropInv
  <2>1. q # s /\ closed[q] # "none"
    BY <1>0, <1>1
  <2>2. q \in subs' => runPc'[cur'] = "dropping" /\ q \in pending'[cur']
    BY <1>0, <1>3, <2>1 DEF SharedInv, DropInv
  <2>3. ASSUME NEW g \in Runs, Fanning(g)', q \in pending'[g]
        PROVE  runPc'[g] = "dropping" /\ \A u \in pending'[g] : closed'[u] # "none" => u = q
    <3>1. Fanning(g) /\ runPc'[g] = runPc[g]
      BY <1>3, <2>3 DEF Fanning
    <3> QED
      BY <1>0, <2>1, <2>3, <3>1 DEF SharedInv, DropInv
  <2> QED
    BY <2>2, <2>3
<1>6. EngineInv'
  BY <1>0, <1>1, <1>2, <1>3 DEF SharedInv, EngineInv
<1> QED
  BY <1>4, <1>5, <1>6 DEF SharedInv

\* What a run does to its streams.
LEMMA RunShares ==
  ASSUME TypeOK, RunInv, SharedInv, NEW g \in Runs, RunStep(g), UNCHANGED streamVars
  PROVE  SharedInv'
<1>0. /\ UNCHANGED <<run, spc>>
      /\ runPc \in [Runs -> RunPcs] /\ pending \in [Runs -> SUBSET Streams]
      /\ closed \in [Streams -> Reasons] /\ subs \subseteq Streams
      /\ runPc[g] \in Subscribed => g = cur
      /\ subs # {} => runPc[cur] \in Subscribed
  BY DEF TypeOK, HubTypeOK, RunInv, streamVars
<1>c. \A s \in Streams : closed[s] # "none" /\ runPc[g] \in Subscribed \ {"dropping"} =>
        s \notin subs /\ (Fanning(g) => s \notin pending[g])
  BY <1>0 DEF SharedInv, DropInv
<1>e. \A s \in Streams : Early(s)' <=> Early(s)
  BY <1>0 DEF Early
<1>1. ASSUME UNCHANGED <<cur, subs, pending, closed, cut, down>>, cancelled \subseteq cancelled',
             NEW l \in RunPcs, runPc' = [runPc EXCEPT ![g] = l],
             runPc[g] # "dropping", l # "dropping",
             l \in {"fanout", "lastgone"} => Fanning(g),
             l \in {"ended", "closing"} => runPc[g] \in {"ended", "closing"}
      PROVE  SharedInv'
  <2>1. OwnInv'
    BY <1>0, <1>1, <1>e DEF SharedInv, OwnInv
  <2>2. /\ \A h \in Runs : Fanning(h)' => Fanning(h) /\ (runPc[h] = "dropping" => runPc'[h] = "dropping")
        /\ \A h \in Runs : runPc'[h] \in {"ended", "closing"} => runPc[h] \in {"ended", "closing"}
        /\ runPc[cur] = "dropping" => cur # g
    BY <1>0, <1>1 DEF Fanning
  <2>3. runPc[cur] = "dropping" /\ cur \in Runs => runPc'[cur] = "dropping"
    BY <1>0, <1>1, <2>2
  <2>4. subs # {} => cur \in Runs
    BY DEF RunInv
  <2>5. DropInv'
    BY <1>1, <2>2, <2>3, <2>4 DEF SharedInv, DropInv
  <2>6. EngineInv'
    BY <1>0, <1>1, <2>2 DEF SharedInv, EngineInv
  <2> QED
    BY <2>1, <2>5, <2>6 DEF SharedInv
<1>2. CASE Subscribe(g) \/ markReady(g) \/ FanoutDone(g) \/ RunReturns(g)
  BY <1>1, <1>2 DEF Subscribe, markReady, FanoutDone, RunReturns
<1>3. CASE LastGone(g) \/ CloseFailed(g)
  BY <1>1, <1>3 DEF LastGone, CloseFailed, Fanning
<1>4. CASE Receive(g)
  <2>1. /\ runPc[g] = "live" /\ g = cur /\ UNCHANGED <<cur, subs, closed, cut, down, cancelled>>
        /\ pending' = [pending EXCEPT ![g] = subs] /\ runPc' = [runPc EXCEPT ![g] = "fanout"]
    BY <1>0, <1>4 DEF Receive, Subscribed
  <2>2. \A s \in subs : closed[s] = "none" /\ run[s] = g
    BY <1>0, <1>c, <2>1 DEF Subscribed, SharedInv, OwnInv
  <2>3. OwnInv'
    BY <1>0, <1>e, <2>1, <2>2 DEF SharedInv, OwnInv
  <2>4. DropInv'
    BY <1>0, <2>1, <2>2 DEF SharedInv, DropInv, Fanning
  <2>5. EngineInv'
    BY <1>0, <2>1 DEF SharedInv, EngineInv
  <2> QED
    BY <2>3, <2>4, <2>5 DEF SharedInv
<1>5. CASE RunStops(g) \/ FeedBreaks(g)
  <2>1. /\ runPc[g] = "live" /\ g = cur /\ subs' = {} /\ UNCHANGED <<cur, closed, down, cancelled>>
        /\ pending' = [pending EXCEPT ![g] = subs] /\ runPc' = [runPc EXCEPT ![g] = "ended"]
        /\ cut \subseteq cut'
    BY <1>0, <1>5 DEF RunStops, FeedBreaks, RunEnds, Subscribed
  <2>2. \A s \in subs : run[s] = g /\ (s \in cut' \/ run[s] \in cancelled \/ down)
    BY <1>5, <2>1 DEF SharedInv, OwnInv, RunStops, FeedBreaks, RunDone
  <2>3. OwnInv'
    BY <1>0, <1>e, <2>1, <2>2 DEF SharedInv, OwnInv
  <2>4. \A h \in Runs : ~Fanning(h)'
    BY <1>0, <2>1 DEF Fanning, RunInv, Subscribed
  <2>5. DropInv'
    BY <2>1, <2>4 DEF DropInv
  <2>6. EngineInv'
    <3> SUFFICES ASSUME NEW s \in Streams,
                        \/ closed'[s] = "engine"
                        \/ \E h \in Runs : s \in pending'[h] /\ runPc'[h] \in {"ended", "closing"}
                 PROVE  s \in cut' \/ run'[s] \in cancelled' \/ down'
      BY DEF EngineInv
    <3>1. CASE s \in subs
      BY <1>0, <2>1, <2>2, <3>1
    <3>2. CASE s \notin subs
      <4>1. \/ closed[s] = "engine"
            \/ \E h \in Runs : s \in pending[h] /\ runPc[h] \in {"ended", "closing"}
        BY <1>0, <2>1, <3>2
      <4> QED
        BY <1>0, <2>1, <4>1 DEF SharedInv, EngineInv
    <3> QED
      BY <3>1, <3>2
  <2> QED
    BY <2>3, <2>5, <2>6 DEF SharedInv
<1>6. ASSUME NEW q \in Streams, Send(g, q)
      PROVE  SharedInv'
  <2>1. /\ UNCHANGED <<cur, subs, closed, runPc, cut, down, cancelled>>
        /\ pending' = [pending EXCEPT ![g] = @ \ {q}] /\ runPc[g] = "fanout" /\ g = cur
    BY <1>0, <1>6 DEF Send, Subscribed
  <2>2. \A h \in Runs : pending'[h] \subseteq pending[h]
    BY <1>0, <2>1
  <2>3. OwnInv'
    BY <1>0, <1>e, <2>1, <2>2 DEF SharedInv, OwnInv
  <2>4. \A s \in Streams : closed[s] # "none" => s \notin subs
    BY <1>c, <2>1 DEF Subscribed
  <2>5. DropInv'
    BY <2>1, <2>2, <2>4 DEF SharedInv, DropInv, Fanning
  <2>6. EngineInv'
    BY <1>0, <2>1, <2>2 DEF SharedInv, EngineInv
  <2> QED
    BY <2>3, <2>5, <2>6 DEF SharedInv
<1>7. ASSUME NEW q \in Streams, Lag(g, q)
      PROVE  SharedInv'
  <2>1. /\ UNCHANGED <<cur, subs, pending, cut, down, cancelled>>
        /\ runPc' = [runPc EXCEPT ![g] = "dropping"] /\ runPc[g] = "fanout" /\ g = cur
        /\ q \in pending[g]
    BY <1>0, <1>7 DEF Lag, Subscribed
  <2>2. /\ \A s \in Streams \ {q} : closed'[s] = closed[s]
        /\ closed'[q] = "engine" => closed[q] = "engine"
    BY <1>0, <1>7 DEF Lag, CloseSub
  <2>3. OwnInv'
    BY <1>0, <1>e, <2>1 DEF SharedInv, OwnInv
  <2>4. \A s \in Streams \ {q} : closed[s] # "none" => s \notin subs /\ s \notin pending[g]
    BY <1>c, <2>1 DEF Subscribed, Fanning
  <2>5. \A h \in Runs : Fanning(h)' => h = g
    BY <1>0, <2>1 DEF RunInv, Fanning, Subscribed
  <2>6. DropInv'
    <3>1. runPc'[g] = "dropping"
      BY <1>0, <2>1
    <3>2. \A u \in pending[g] : closed'[u] # "none" => u = q
      BY <1>0, <2>2, <2>4
    <3>3. \A u \in subs : closed'[u] # "none" => u = q
      BY <1>0, <2>2, <2>4
    <3> QED
      BY <2>1, <2>5, <3>1, <3>2, <3>3 DEF DropInv
  <2>7. EngineInv'
    <3>1. \A h \in Runs : runPc'[h] \in {"ended", "closing"} => runPc[h] = runPc'[h]
      BY <1>0, <2>1
    <3>2. \A s \in Streams : closed'[s] = "engine" => closed[s] = "engine"
      BY <2>2
    <3> QED
      BY <1>0, <2>1, <3>1, <3>2 DEF SharedInv, EngineInv
  <2> QED
    BY <2>3, <2>6, <2>7 DEF SharedInv
<1>8. ASSUME NEW q \in Streams, Drop(g, q)
      PROVE  SharedInv'
  <2>1. /\ UNCHANGED <<cur, closed, cut, down, cancelled>> /\ subs' = subs \ {q}
        /\ pending' = [pending EXCEPT ![g] = @ \ {q}] /\ runPc[g] = "dropping" /\ g = cur
        /\ q \in pending[g] /\ closed[q] # "none"
    BY <1>0, <1>8 DEF Drop, Subscribed
  <2>2. \A h \in Runs : pending'[h] \subseteq pending[h]
    BY <1>0, <2>1
  <2>3. OwnInv'
    BY <1>0, <1>e, <2>1, <2>2 DEF SharedInv, OwnInv
  <2>4. Fanning(g) /\ q \notin pending'[g]
    BY <1>0, <2>1 DEF Fanning
  <2>5. \A s \in Streams : closed[s] # "none" => s \notin subs' /\ s \notin pending'[g]
    <3> SUFFICES ASSUME NEW s \in Streams, closed[s] # "none", s # q
                 PROVE  s \notin subs /\ s \notin pending[g]
      BY <2>1, <2>2, <2>4
    <3>1. s \notin pending[g]
      BY <2>1, <2>4 DEF SharedInv, DropInv
    <3> QED
      BY <2>1, <3>1 DEF SharedInv, DropInv
  <2>6. \A h \in Runs : Fanning(h)' => h = g
    <3>1. \A h \in Runs \ {g} : runPc'[h] = runPc[h]
      BY <1>0, <1>8 DEF Drop
    <3> QED
      BY <2>1, <3>1 DEF RunInv, Fanning, Subscribed
  <2>7. DropInv'
    BY <2>1, <2>5, <2>6 DEF DropInv
  <2>8. EngineInv'
    <3>1. \A h \in Runs : runPc'[h] \in {"ended", "closing"} => runPc[h] = runPc'[h]
      BY <1>0, <1>8 DEF Drop
    <3> QED
      BY <1>0, <2>1, <2>2, <3>1 DEF SharedInv, EngineInv
  <2> QED
    BY <2>3, <2>7, <2>8 DEF SharedInv
<1>9. ASSUME NEW q \in Streams, CloseSubs(g, q)
      PROVE  SharedInv'
  <2>1. /\ UNCHANGED <<cur, subs, runPc, cut, down, cancelled>> /\ runPc[g] = "closing"
        /\ pending' = [pending EXCEPT ![g] = @ \ {q}] /\ q \in pending[g]
        /\ \A s \in Streams \ {q} : closed'[s] = closed[s]
    BY <1>0, <1>9 DEF CloseSubs, CloseSub
  <2>2. \A h \in Runs : pending'[h] \subseteq pending[h]
    BY <1>0, <2>1
  <2>3. OwnInv'
    BY <1>0, <1>e, <2>1, <2>2 DEF SharedInv, OwnInv
  <2>4. q \notin subs
    BY <1>0, <2>1 DEF SharedInv, OwnInv, Subscribed
  <2>5. \A h \in Runs : Fanning(h) => q \notin pending[h]
    BY <2>1 DEF SharedInv, OwnInv, Fanning
  <2>6. DropInv'
    <3> SUFFICES ASSUME NEW s \in Streams, closed'[s] # "none"
                 PROVE  /\ s \in subs => runPc[cur] = "dropping" /\ s \in pending'[cur]
                        /\ \A h \in Runs : Fanning(h) /\ s \in pending'[h] =>
                             runPc[h] = "dropping" /\ \A u \in pending'[h] : closed'[u] # "none" => u = s
      BY <2>1 DEF DropInv, Fanning
    <3>1. CASE s = q
      BY <2>2, <2>4, <2>5, <3>1
    <3>2. CASE s # q
      <4>1. closed[s] # "none"
        BY <2>1, <3>2
      <4>2. ASSUME s \in subs
            PROVE  runPc[cur] = "dropping" /\ s \in pending'[cur]
        <5>1. runPc[cur] = "dropping" /\ s \in pending[cur] /\ cur \in Runs
          BY <4>1, <4>2 DEF SharedInv, DropInv, RunInv
        <5> QED
          BY <1>0, <2>1, <3>2, <5>1
      <4>3. ASSUME NEW h \in Runs, Fanning(h), s \in pending'[h]
            PROVE  runPc[h] = "dropping" /\ \A u \in pending'[h] : closed'[u] # "none" => u = s
        <5>1. s \in pending[h] /\ q \notin pending[h] /\ pending[h] \subseteq Streams
          BY <1>0, <2>2, <2>5, <4>3
        <5>2. runPc[h] = "dropping" /\ \A u \in pending[h] : closed[u] # "none" => u = s
          BY <4>1, <4>3, <5>1 DEF SharedInv, DropInv
        <5> QED
          BY <2>1, <2>2, <5>1, <5>2
      <4> QED
        BY <4>2, <4>3
    <3> QED
      BY <3>1, <3>2
  <2>7. EngineInv'
    <3>1. q \in cut \/ run[q] \in cancelled \/ down
      BY <2>1 DEF SharedInv, EngineInv
    <3> QED
      BY <1>0, <2>1, <2>2, <3>1 DEF SharedInv, EngineInv
  <2> QED
    BY <2>3, <2>6, <2>7 DEF SharedInv
<1> QED
  BY <1>2, <1>3, <1>4, <1>5, <1>6, <1>7, <1>8, <1>9, RunCases

\* No step closes a subscriber that is not being dropped, or blames the Engine
\* for a run that nobody gave up.
LEMMA StepShared ==
  ASSUME Inv, FreshInv, SharedInv, [Next]_vars
  PROVE  SharedInv'
<1>0. TypeOK /\ RunInv /\ spc \in [Streams -> StreamPcs] /\ run \in [Streams -> 0..MaxRuns]
  BY DEF Inv, TypeOK
<1>1. ASSUME NEW s \in Streams, Open(s) \/ HandlerStep(s)
      PROVE  SharedInv'
  <2>1. CASE Attach(s)
    BY <1>0, <2>1, AttachShares
  <2>2. CASE \/ Open(s) \/ CloseSuperseded(s) \/ Evict(s) \/ AttachWait(s) \/ ContainerStates(s)
             \/ Snapshot(s)
    <3>1. /\ UNCHANGED <<cur, runPc, pending, closed, run, subs, cut, cancelled, down>>
          /\ \A q \in Streams : Early(q)' => Early(q)
      BY <1>0, <2>2 DEF Open, CloseSuperseded, Evict, AttachWait, ContainerStates, Snapshot,
        hubVars, Early
    <3> QED
      BY <3>1, SharedFramed
  <2>3. CASE LoopSuperseded(s) \/ LoopDone(s) \/ LoopEvent(s) \/ LoopClosed(s) \/ LoopBlocks(s)
    <3>1. /\ UNCHANGED <<cur, runPc, pending, closed, run, subs, cut, cancelled, down>>
          /\ \A q \in Streams : Early(q)' => Early(q)
      BY <1>0, <2>3 DEF LoopSuperseded, LoopDone, LoopEvent, TakeEvent, LoopClosed, LoopBlocks,
        hubVars, Early
    <3> QED
      BY <3>1, SharedFramed
  <2>4. CASE WriteReturns(s) \/ LastStreamGone(s) \/ Release(s) \/ Join(s)
    <3>1. /\ UNCHANGED <<cur, runPc, pending, closed, run, subs, cut, down>>
          /\ cancelled \subseteq cancelled' /\ \A q \in Streams : Early(q)' => Early(q)
      BY <1>0, <2>4 DEF WriteReturns, LastStreamGone, CancelRun, Release, Join, hubVars, Early
    <3> QED
      BY <3>1, SharedFramed
  <2>5. CASE Detach(s)
    <3>1. /\ UNCHANGED <<cur, runPc, pending, closed, cut, cancelled, down>> /\ subs' \subseteq subs
          /\ \A q \in Streams : Early(q)' => Early(q)
      BY <1>0, <2>5 DEF Detach, DetachLocked, Early
    <3>2. run' = run
      <4>1. LastOne(s) => run[s] = cur
        BY DEF LastOne, SharedInv, OwnInv
      <4> QED
        BY <1>0, <2>5, <4>1 DEF Detach
    <3> QED
      BY <3>1, <3>2, SharedFramed
  <2> QED
    BY <1>1, <2>1, <2>2, <2>3, <2>4, <2>5 DEF HandlerStep
<1>2. ASSUME NEW s \in Streams, HeartbeatStep(s) \/ ClientGone(s) \/ Stall(s)
      PROVE  SharedInv'
  <2>1. UNCHANGED <<cur, runPc, pending, closed, run, subs, cut, cancelled, down, spc>>
    BY <1>2 DEF HeartbeatStep, HeartbeatTick, HeartbeatBlocks, HeartbeatReturns, HeartbeatFrame,
      HeartbeatCancel, HeartbeatDone, ClientGone, Stall, hubVars
  <2> QED
    BY <2>1, SharedFramed DEF Early
<1>3. ASSUME NEW g \in Runs, RunStep(g), UNCHANGED streamVars
      PROVE  SharedInv'
  BY <1>0, <1>3, RunShares
<1>4. CASE \/ (EngineEvent \/ CancelLifecycle) /\ UNCHANGED streamVars
           \/ (\E d \in Devices : Revoke(d)) \/ UNCHANGED vars
  <2>1. UNCHANGED <<cur, runPc, pending, closed, run, subs, cut, cancelled, spc>> /\ (down => down')
    BY <1>4 DEF EngineEvent, CancelLifecycle, streamVars, Revoke, hubVars, vars
  <2> QED
    BY <2>1, SharedFramed DEF Early
<1> QED
  BY <1>1, <1>2, <1>3, <1>4 DEF Next

\* The invariant the refinement needs holds in every behaviour.
THEOREM FeedInvariance == Spec => []FeedInv
<1>1. Init => FeedInv
  <2> SUFFICES ASSUME Init PROVE FeedInv
    OBVIOUS
  <2>1. \A s \in Streams : spc[s] = "idle" /\ wire[s] = <<>> /\ hb[s] = "none" /\ buf[s] = <<>>
                           /\ closed[s] = "none"
    BY DEF Init, HubInit
  <2>2. QueueInv /\ SyncInv /\ LagInv
    BY <2>1 DEF Init, HubInit, QueueInv, SyncInv, LagInv, Listening
  <2>3. FreshInv
    BY <2>1 DEF Init, HubInit, FreshInv
  <2>7. SharedInv
    BY <2>1 DEF Init, HubInit, SharedInv, OwnInv, DropInv, EngineInv
  <2>4. ReadyInv
    BY <2>1 DEF Init, HubInit, ReadyInv
  <2>5. ReasonInv
    BY <2>1 DEF ReasonInv
  <2>6. EvictInv
    BY <2>1 DEF Init, EvictInv
  <2> QED
    BY <2>2, <2>3, <2>4, <2>5, <2>6, <2>7 DEF FeedInv
<1>2. Inv /\ FeedInv /\ [Next]_vars => FeedInv'
  <2> SUFFICES ASSUME Inv, FeedInv, [Next]_vars PROVE FeedInv'
    OBVIOUS
  <2>1. QueueInv' /\ SyncInv' /\ LagInv'
    BY StepFeeds
  <2>2. FreshInv'
    <3>1. TypeOK /\ FreshInv
      BY DEF Inv, FeedInv
    <3>2. ASSUME NEW s \in Streams, Open(s) \/ HandlerStep(s)
          PROVE  FreshInv'
      BY <3>1, <3>2, HandlerFresh
    <3> QED
      BY <3>1, <3>2, OtherFresh DEF Next
  <2>3. ReadyInv'
    BY StepReady DEF FeedInv
  <2>4. ReasonInv'
    BY StepReason DEF Inv, FeedInv
  <2>5. EvictInv'
    BY StepEvict DEF Inv, FeedInv
  <2>6. SharedInv'
    BY StepShared DEF FeedInv
  <2> QED
    BY <2>1, <2>2, <2>3, <2>4, <2>5, <2>6 DEF FeedInv
<1> QED
  BY <1>1, <1>2, Invariance, PTL DEF Spec

-----------------------------------------------------------------------------
(* The promised feed *)

Opened == {s \in Streams : spc[s] # "idle"}

\* The streams of runs that the agent gave up.
Abandoned == {s \in Streams : run[s] \in cancelled}

\* What the feed counts as sent is what the invariant counts as told.
LEMMA ToldIsLastSent ==
  ASSUME NEW s \in Streams
  PROVE  Feed!LastSent(s) = Told(s)
  BY DEF Feed!LastSent, Told

\* A handler past registration does not become idle again.
LEMMA StaysOpened ==
  ASSUME TypeOK, NEW s \in Streams, spc[s] # "idle", NEW l, l # "idle",
         spc' = spc \/ spc' = [spc EXCEPT ![s] = l]
  PROVE  Opened' = Opened
  BY DEF TypeOK, Opened

\* A terminal frame is the one end of its stream, if it is a true one.
LEMMA EndsTruly ==
  ASSUME TypeOK, ReasonInv, NEW s \in Streams, NEW why \in Terminals, Terminal(s, why),
         wire[s] # <<>>, UNCHANGED <<ver, dev, revoked, cut, seen>>, Opened' = Opened,
         Abandoned' = Abandoned,
         why = "engine" => s \in cut \/ run[s] \in cancelled \/ down,
         why = "lagged" => Told(s) < ver,
         why = "superseded" => \E q \in Opened \ {s} : dev[q] = dev[s],
         why = "revoked" => dev[s] \in revoked
  PROVE  [Feed!Next]_(Feed!vars)
<1>1. CASE s \in once \/ RequestDone(s)
  BY <1>1 DEF Terminal, Feed!vars, Opened, Abandoned
<1>2. CASE ~(s \in once \/ RequestDone(s))
  <2>1. wire' = [wire EXCEPT ![s] = Append(@, [kind |-> why, n |-> 0])]
    BY <1>2 DEF Terminal, Frame
  <2>2. Feed!Say(s, why, 0)
    BY <2>1 DEF Feed!Say, Opened, Abandoned
  <2>3. Feed!Truthful(s, why)
    <3>1. why = "engine" => s \in cut \cup {q \in Streams : run[q] \in cancelled}
      BY <1>2 DEF RequestDone
    <3> QED
      BY <3>1, ToldIsLastSent DEF Feed!Truthful, Opened
  <2>4. \A i \in DOMAIN wire[s] : wire[s][i].kind \notin Feed!Reasons
    BY <1>2 DEF ReasonInv, Feed!Reasons
  <2>5. Feed!End(s, why)
    BY <2>2, <2>3, <2>4 DEF Feed!End
  <2>6. why \in Feed!Reasons
    BY DEF Feed!Reasons
  <2> QED
    BY <2>5, <2>6 DEF Feed!Next
<1> QED
  BY <1>1, <1>2

\* A step that sends no frame and takes no snapshot: at most, runs are given up.
LEMMA OnlyAbandons ==
  ASSUME UNCHANGED <<ver, dev, revoked, cut, seen, wire>>, Opened' = Opened,
         Abandoned \subseteq Abandoned'
  PROVE  [Feed!Next]_(Feed!vars)
<1>1. Abandoned' = Abandoned \cup Abandoned' /\ Abandoned' \in SUBSET Streams
  BY DEF Abandoned
<1> HIDE DEF Abandoned
<1>2. PICK A : A = Abandoned'
  OBVIOUS
<1>3. Feed!Abandon(A)
  BY <1>1, <1>2 DEF Feed!Abandon, Opened, Abandoned
<1>4. A \in SUBSET Streams
  BY <1>1, <1>2
<1> QED
  BY <1>3, <1>4 DEF Feed!Next

\* Which handler steps can change which streams belong to a run given up.
LEMMA HandlerAbandons ==
  ASSUME TypeOK, SharedInv, NEW s \in Streams, HandlerStep(s)
  PROVE  /\ Attach(s) \/ LastStreamGone(s) => Abandoned \subseteq Abandoned'
         /\ ~Attach(s) /\ ~LastStreamGone(s) => Abandoned' = Abandoned
<1>0. run \in [Streams -> 0..MaxRuns] /\ cancelled \subseteq Runs
  BY DEF TypeOK, HubTypeOK
<1>1. CASE Attach(s)
  <2>1. run' = [run EXCEPT ![s] = cur'] /\ cancelled' = cancelled /\ run[s] = 0
    BY <1>1 DEF Attach, AttachLocked, SharedInv, OwnInv, Early
  <2>2. \A q \in Streams \ {s} : run'[q] = run[q]
    BY <1>0, <2>1
  <2>3. run[s] \notin cancelled
    BY <1>0, <2>1
  <2> QED
    BY <1>1, <2>1, <2>2, <2>3 DEF Abandoned
<1>2. CASE LastStreamGone(s)
  BY <1>2 DEF LastStreamGone, CancelRun, Abandoned
<1>3. CASE Detach(s)
  <2>1. LastOne(s) => run[s] = cur
    BY DEF LastOne, SharedInv, OwnInv
  <2>2. run' = run /\ cancelled' = cancelled
    BY <1>0, <1>3, <2>1 DEF Detach, DetachLocked
  <2>3. ~Attach(s) /\ ~LastStreamGone(s)
    BY <1>3 DEF Detach, Attach, LastStreamGone
  <2> QED
    BY <2>2, <2>3 DEF Abandoned
<1>4. CASE ~Attach(s) /\ ~LastStreamGone(s) /\ ~Detach(s)
  <2>1. UNCHANGED <<run, cancelled>>
    BY <1>4 DEF HandlerStep, CloseSuperseded, Evict, AttachWait, ContainerStates, Snapshot,
      LoopSuperseded, LoopDone, LoopEvent, TakeEvent, LoopClosed, LoopBlocks, WriteReturns, Release,
      Join, hubVars
  <2> QED
    BY <1>4, <2>1 DEF Abandoned
<1> QED
  BY <1>1, <1>2, <1>3, <1>4

\* Every step of a handler is a step of the promised feed or leaves it alone.
LEMMA HandlerServes ==
  ASSUME Inv, FeedInv, NEW s \in Streams, HandlerStep(s)
  PROVE  [Feed!Next]_(Feed!vars)
<1>0. /\ TypeOK /\ FreshInv /\ ReasonInv /\ SharedInv /\ UNCHANGED <<dev, revoked>>
      /\ spc \in [Streams -> StreamPcs] /\ wire \in [Streams -> Seq(Frames)]
  BY DEF Inv, FeedInv, TypeOK, HandlerStep, CloseSuperseded, Evict, Attach, AttachWait,
    ContainerStates, Snapshot, LoopSuperseded, LoopDone, LoopEvent, LoopClosed, LoopBlocks,
    WriteReturns, Detach, LastStreamGone, Release, Join
<1>1. spc[s] # "idle" /\ UNCHANGED <<ver, cut>>
  BY DEF HandlerStep, CloseSuperseded, Evict, Attach, AttachLocked, AttachWait, ContainerStates,
    Snapshot, LoopSuperseded, LoopDone, LoopEvent, TakeEvent, LoopClosed, LoopBlocks, WriteReturns,
    Detach, DetachLocked, LastStreamGone, CancelRun, Release, Join, hubVars
<1>2. Opened' = Opened
  <2>1. \E l : l # "idle" /\ (spc' = spc \/ spc' = [spc EXCEPT ![s] = l])
    <3>1. CASE CloseSuperseded(s) \/ Evict(s) \/ Attach(s) \/ LoopDone(s) \/ LoopBlocks(s)
      BY <3>1 DEF CloseSuperseded, Evict, Attach, LoopDone, LoopBlocks
    <3>2. CASE LoopSuperseded(s) \/ LoopClosed(s) \/ LastStreamGone(s) \/ Release(s) \/ Join(s)
      BY <3>2 DEF LoopSuperseded, LoopClosed, LastStreamGone, Release, Join
    <3>3. CASE AttachWait(s) \/ ContainerStates(s) \/ Snapshot(s) \/ LoopEvent(s) \/ WriteReturns(s)
      BY <3>3 DEF AttachWait, ContainerStates, Snapshot, LoopEvent, WriteReturns
    <3>4. CASE Detach(s)
      BY <3>4 DEF Detach
    <3> QED
      BY <3>1, <3>2, <3>3, <3>4 DEF HandlerStep
  <2> QED
    BY <1>0, <1>1, <2>1, StaysOpened
<1>a. /\ Attach(s) \/ LastStreamGone(s) => Abandoned \subseteq Abandoned'
      /\ ~Attach(s) /\ ~LastStreamGone(s) => Abandoned' = Abandoned
  BY <1>0, HandlerAbandons
<1>3. ASSUME UNCHANGED <<wire, seen>>
      PROVE  [Feed!Next]_(Feed!vars)
  <2>1. Abandoned \subseteq Abandoned'
    BY <1>a
  <2> QED
    BY <1>0, <1>1, <1>2, <1>3, <2>1, OnlyAbandons
<1>4. CASE \/ CloseSuperseded(s) \/ Evict(s) \/ Attach(s) \/ AttachWait(s)
           \/ LoopDone(s) \/ LoopBlocks(s) \/ WriteReturns(s)
           \/ Detach(s) \/ LastStreamGone(s) \/ Release(s) \/ Join(s)
  BY <1>3, <1>4 DEF CloseSuperseded, Evict, Attach, AttachWait, LoopDone, LoopBlocks, WriteReturns,
    Detach, LastStreamGone, Release, Join
<1>b. ASSUME spc[s] \notin {"attach", "lastgone"}
      PROVE  Abandoned' = Abandoned
  BY <1>a, <1>b DEF Attach, LastStreamGone
<1>9. CASE ContainerStates(s)
  <2>1. CASE seen' = [seen EXCEPT ![s] = ver]
    <3>1. wire[s] = <<>> /\ s \in Opened /\ wire' = wire /\ Abandoned' = Abandoned
      BY <1>0, <1>1, <1>9, <1>b DEF ContainerStates, FreshInv, Opened
    <3>2. Feed!Look(s)
      BY <1>0, <1>1, <1>2, <2>1, <3>1 DEF Feed!Look, Opened, Abandoned
    <3> QED
      BY <3>2 DEF Feed!Next
  <2>2. CASE seen' = seen
    BY <1>3, <1>9, <2>2 DEF ContainerStates
  <2> QED
    BY <1>9, <2>1, <2>2 DEF ContainerStates
<1>5. CASE Snapshot(s)
  <2>1. CASE wire' = [wire EXCEPT ![s] = Append(@, Frame("snapshot", seen[s]))]
    <3>1. wire[s] = <<>> /\ seen' = seen /\ Abandoned' = Abandoned /\ seen[s] >= 0
      BY <1>0, <1>5, <1>b DEF Snapshot, FreshInv, TypeOK
    <3>2. Feed!Say(s, "snapshot", seen[s])
      BY <1>0, <1>1, <1>2, <2>1, <3>1 DEF Feed!Say, Frame, Opened, Abandoned
    <3>3. Feed!Snapshot(s)
      BY <3>1, <3>2 DEF Feed!Snapshot
    <3> QED
      BY <3>3 DEF Feed!Next
  <2>2. CASE wire' = wire
    BY <1>3, <1>5, <2>2 DEF Snapshot
  <2> QED
    BY <1>5, <2>1, <2>2 DEF Snapshot
<1>6. CASE LoopEvent(s)
  <2>1. CASE wire' = [wire EXCEPT ![s] = Append(@, Frame("health", Head(buf[s])))]
    <3> DEFINE i == Head(buf[s])
    <3>1. /\ buf[s] # <<>> /\ buf[s] \in Seq(1..MaxEvents) /\ wire[s] # <<>> /\ Queued(s)
      BY <1>0, <1>6 DEF LoopEvent, TakeEvent, FreshInv, TypeOK, HubTypeOK, FeedInv, QueueInv, Listening
    <3>2. i = buf[s][1] /\ 1 \in 1..Len(buf[s]) /\ i \in 1..MaxEvents
      <4>1. i = buf[s][1]
        BY <3>1, HeadTailProperties
      <4> QED
        BY <3>1, <4>1, Ends
    <3>3. i <= ver
      BY <3>1, <3>2 DEF Queued
    <3>4. i \in 1..ver
      BY <1>0, <3>2, <3>3, BoundsAssumption DEF TypeOK, HubTypeOK
    <3>5. IF Told(s) = 0 THEN i <= seen[s] + 1 ELSE i = Told(s) + 1
      <4>1. seen[s] >= 0
        BY <1>0, <3>1 DEF FreshInv
      <4> QED
        BY <3>1, <3>2, <4>1 DEF Queued
    <3>8. seen' = seen /\ Abandoned' = Abandoned
      BY <1>6, <1>b DEF LoopEvent
    <3> HIDE DEF i
    <3>6. Feed!Say(s, "health", i)
      BY <1>0, <1>1, <1>2, <2>1, <3>8 DEF Feed!Say, Frame, Opened, Abandoned, i
    <3>7. Feed!Event(s, i)
      BY <3>1, <3>3, <3>5, <3>6, ToldIsLastSent DEF Feed!Event
    <3> QED
      BY <3>4, <3>7 DEF Feed!Next
  <2>2. CASE wire' = wire
    BY <1>3, <1>6, <2>2 DEF LoopEvent
  <2> QED
    BY <1>6, <2>1, <2>2 DEF LoopEvent
<1>7. CASE LoopSuperseded(s)
  <2>1. /\ Terminal(s, "superseded") /\ wire[s] # <<>> /\ s \in superseded
        /\ seen' = seen /\ Abandoned' = Abandoned
    BY <1>0, <1>7, <1>b DEF LoopSuperseded, FreshInv
  <2>2. \E q \in Opened \ {s} : dev[q] = dev[s]
    BY <2>1 DEF FeedInv, EvictInv, Rival, Opened
  <2> QED
    BY <1>0, <1>1, <1>2, <2>1, <2>2, EndsTruly
<1>8. CASE LoopClosed(s)
  <2>1. /\ Terminal(s, closed[s]) /\ wire[s] # <<>> /\ Listening(s) /\ closed[s] \in {"engine", "lagged"}
        /\ seen' = seen /\ Abandoned' = Abandoned
    BY <1>0, <1>8, <1>b DEF LoopClosed, FreshInv, Listening, TypeOK, HubTypeOK
  <2>3. closed[s] = "engine" => s \in cut \/ run[s] \in cancelled \/ down
    BY <1>0 DEF SharedInv, EngineInv
  <2>2. ASSUME closed[s] = "lagged"
        PROVE  Told(s) < ver
    <3>1. Final(s) < ver /\ Queued(s)
      BY <2>1, <2>2 DEF FeedInv, LagInv, QueueInv
    <3>2. Told(s) \in 0..ver /\ ver \in Nat
      BY <1>0, <3>1, BoundsAssumption DEF Queued, TypeOK, HubTypeOK
    <3>3. CASE buf[s] = <<>>
      BY <3>1, <3>3 DEF Final
    <3>4. CASE buf[s] # <<>>
      <4>1. buf[s] \in Seq(1..MaxEvents)
        BY <1>0 DEF TypeOK, HubTypeOK
      <4>2. 1 \in 1..Len(buf[s]) /\ buf[s][1] \in 1..MaxEvents
        BY <3>4, <4>1, Ends
      <4>3. buf[s][1] <= ver /\ (Told(s) # 0 => buf[s][1] = Told(s) + 1)
        BY <3>1, <3>4, <4>2 DEF Queued
      <4> QED
        BY <3>2, <4>2, <4>3, BoundsAssumption
    <3> QED
      BY <3>3, <3>4
  <2> QED
    BY <1>0, <1>1, <1>2, <2>1, <2>2, <2>3, EndsTruly
<1> QED
  BY <1>4, <1>5, <1>6, <1>7, <1>8, <1>9 DEF HandlerStep

\* Hub, registry, handler and heartbeat together give each client the feed that
\* EventFeed describes: a snapshot, every event since in order and none twice,
\* and at most one word about the end.  That it lagged, was superseded or was
\* revoked is then true.  That the Engine is unavailable is true, or the stream
\* had joined a subscription that the agent itself gave up.
THEOREM EventsImplementFeed == Spec => ImplementsFeed
<1>1. Init => Feed!Init
  <2> SUFFICES ASSUME Init PROVE Feed!Init
    OBVIOUS
  <2>1. {s \in Streams : spc[s] # "idle"} = {} /\ {s \in Streams : run[s] \in cancelled} = {}
    BY DEF Init, HubInit
  <2> QED
    BY <2>1 DEF Init, HubInit, Feed!Init
<1>2. Inv /\ FeedInv /\ [Next]_vars => [Feed!Next]_(Feed!vars)
  <2> SUFFICES ASSUME Inv, FeedInv, [Next]_vars PROVE [Feed!Next]_(Feed!vars)
    OBVIOUS
  <2>0. TypeOK /\ FreshInv /\ ReasonInv
    BY DEF Inv, FeedInv
  <2>1. ASSUME NEW s \in Streams, Open(s)
        PROVE  [Feed!Next]_(Feed!vars)
    <3>1. Opened' = Opened \cup {s}
      BY <2>0, <2>1 DEF Open, Opened, TypeOK
    <3>2. Feed!Open(s)
      BY <2>1, <3>1 DEF Open, hubVars, Feed!Open, Opened, Abandoned
    <3> QED
      BY <3>2 DEF Feed!Next
  <2>2. ASSUME NEW s \in Streams, HandlerStep(s)
        PROVE  [Feed!Next]_(Feed!vars)
    BY <2>2, HandlerServes
  <2>3. ASSUME NEW s \in Streams, HeartbeatStep(s)
        PROVE  [Feed!Next]_(Feed!vars)
    <3>1. CASE HeartbeatFrame(s)
      <4>1. /\ UNCHANGED <<ver, dev, revoked, spc, cut, seen, run, cancelled>>
            /\ Terminal(s, "revoked") /\ wire[s] # <<>> /\ dev[s] \in revoked
        BY <2>0, <3>1 DEF HeartbeatFrame, hubVars, FreshInv, ReasonInv
      <4>2. Opened' = Opened /\ Abandoned' = Abandoned
        BY <4>1 DEF Opened, Abandoned
      <4> QED
        BY <2>0, <4>1, <4>2, EndsTruly
    <3>2. CASE \/ HeartbeatTick(s) \/ HeartbeatBlocks(s) \/ HeartbeatReturns(s)
               \/ HeartbeatCancel(s) \/ HeartbeatDone(s)
      BY <3>2 DEF HeartbeatTick, HeartbeatBlocks, HeartbeatReturns, HeartbeatCancel, HeartbeatDone,
        hubVars, Feed!vars
    <3> QED
      BY <2>3, <3>1, <3>2 DEF HeartbeatStep
  <2>4. ASSUME NEW s \in Streams, ClientGone(s) \/ Stall(s)
        PROVE  [Feed!Next]_(Feed!vars)
    BY <2>4 DEF ClientGone, Stall, hubVars, Feed!vars
  <2>5. ASSUME NEW g \in Runs, RunStep(g), UNCHANGED streamVars
        PROVE  [Feed!Next]_(Feed!vars)
    <3>1. CASE FeedBreaks(g)
      <4>1. PICK S : S = subs
        OBVIOUS
      <4>2. S \in SUBSET Streams
        BY <2>0, <4>1 DEF TypeOK, HubTypeOK
      <4>3. Feed!Cut(S)
        BY <2>5, <3>1, <4>1 DEF FeedBreaks, RunEnds, streamVars, Feed!Cut
      <4> QED
        BY <4>2, <4>3 DEF Feed!Next
    <3>2. CASE ~FeedBreaks(g)
      <4>1. UNCHANGED <<ver, cut>> /\ cancelled \subseteq cancelled'
        BY <2>5, <3>2, RunCases DEF Subscribe, markReady, Receive, LastGone, FanoutDone, RunStops,
          RunEnds, CloseFailed, RunReturns, Send, Lag, Drop, CloseSubs
      <4>2. Opened' = Opened /\ Abandoned \subseteq Abandoned'
        BY <2>5, <4>1 DEF streamVars, Opened, Abandoned
      <4> QED
        BY <2>5, <4>1, <4>2, OnlyAbandons DEF streamVars
    <3> QED
      BY <3>1, <3>2
  <2>6. CASE EngineEvent /\ UNCHANGED streamVars
    <3>1. Feed!Happen
      BY <2>6 DEF EngineEvent, streamVars, Feed!Happen
    <3> QED
      BY <3>1 DEF Feed!Next
  <2>7. CASE CancelLifecycle /\ UNCHANGED streamVars
    BY <2>7 DEF CancelLifecycle, streamVars, Feed!vars
  <2>8. ASSUME NEW d \in Devices, Revoke(d)
        PROVE  [Feed!Next]_(Feed!vars)
    <3>1. Feed!Bar(d)
      BY <2>8 DEF Revoke, hubVars, Feed!Bar
    <3> QED
      BY <3>1 DEF Feed!Next
  <2>9. CASE UNCHANGED vars
    BY <2>9 DEF vars, hubVars, streamVars, Feed!vars
  <2> QED
    BY <2>1, <2>2, <2>3, <2>4, <2>5, <2>6, <2>7, <2>8, <2>9 DEF Next
<1> QED
  BY <1>1, <1>2, Invariance, FeedInvariance, PTL DEF Spec, ImplementsFeed, Feed!Spec
=============================================================================
