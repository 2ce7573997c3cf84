-------------------------- MODULE LogStreamProofs --------------------------
(***************************************************************************)
(* Proofs about the live log stream, for any requests, devices and caps    *)
(* and any length of log: the slots of the budget, the keepalive goroutine *)
(* and the terminal frame.                                                 *)
(***************************************************************************)
EXTENDS LogStream, FiniteSetTheorems, TLAPS

Holders == {s \in Streams : Holding(s)}

HoldersOf(d) == {s \in Streams : Holding(s) /\ dev[s] = d}

\* The budget counts the holders, of which there are finitely many, and only
\* a stream that is over has used its release.
SlotInv ==
  /\ IsFiniteSet(Holders)
  /\ SlotsAccounted
  /\ \A s \in released : spc[s] = "done"

\* The keepalive goroutine lives between the handler's start and its join.
KeepaliveInv ==
  \A s \in Streams :
    /\ spc[s] \in {"idle", "acquire", "start"} => kpc[s] = "none"
    /\ spc[s] = "release" => kpc[s] = "done"
    /\ spc[s] = "done" => kpc[s] \in {"none", "done"}

\* There is no terminal frame before terminalOnce has fired, and one after.
FrameInv ==
  /\ \A s \in Streams \ once : \A i \in DOMAIN wire[s] : wire[s][i] \notin Terminals
  /\ OneTerminalFrame

Inv == TypeOK /\ SlotInv /\ KeepaliveInv /\ FrameInv

USE DEF Pcs, KPcs, Writes, Terminals, Goto, KGoto, Fails, budgetVars, envVars,
        sseVars, maxTotal, maxPerDevice

-----------------------------------------------------------------------------
(* Slots *)

\* A step that leaves the budget and the holders alone keeps the account.
LEMMA SlotsFramed ==
  ASSUME SlotInv, UNCHANGED <<budgetVars, dev>>,
         \A s \in Streams : Holding(s)' <=> Holding(s),
         \A s \in Streams : spc[s] = "done" => spc'[s] = "done",
         released \subseteq Streams
  PROVE  SlotInv'
<1>1. Holders' = Holders /\ \A d \in Devices : HoldersOf(d)' = HoldersOf(d)
  BY DEF Holders, HoldersOf
<1>2. SlotsAccounted'
  BY <1>1 DEF SlotInv, SlotsAccounted, Holders, HoldersOf
<1> QED
  BY <1>1, <1>2 DEF SlotInv

\* A slot is granted.
LEMMA GrantedSlots ==
  ASSUME TypeOK, SlotInv, NEW s \in Streams, Granted(s)
  PROVE  SlotInv' /\ BudgetTypeOK'
<1>1. spc' = [spc EXCEPT ![s] = "start"] /\ dev' = dev /\ caps' = caps
      /\ released' = released /\ spc[s] = "acquire"
  BY DEF Granted, acquire
<1>0. PICK e \in Devices : e = dev[s]
  BY DEF TypeOK
<1>2. caps \in (Nat \ {0}) \X (Nat \ {0})
  BY CapsAssumption DEF TypeOK, BudgetTypeOK
<1>3. Holders' = Holders \cup {s} /\ s \notin Holders
  BY <1>1 DEF Holders, Holding, TypeOK
<1>4. HoldersOf(e)' = HoldersOf(e) \cup {s} /\ s \notin HoldersOf(e)
  BY <1>0, <1>1 DEF HoldersOf, Holding, TypeOK
<1>5. \A d \in Devices \ {e} : HoldersOf(d)' = HoldersOf(d)
  BY <1>0, <1>1 DEF HoldersOf, Holding, TypeOK
<1>6. IsFiniteSet(Holders') /\ Cardinality(Holders') = Cardinality(Holders) + 1
      /\ Cardinality(Holders) \in Nat
  BY <1>3, FS_AddElement, FS_CardinalityType DEF SlotInv
<1>7. IsFiniteSet(HoldersOf(e))
  BY FS_Subset DEF SlotInv, Holders, HoldersOf
<1>8. Cardinality(HoldersOf(e)') = Cardinality(HoldersOf(e)) + 1
  BY <1>4, <1>7, FS_AddElement
<1>9. total = Cardinality(Holders)
      /\ \A d \in Devices : byDevice[d] = Cardinality(HoldersOf(d)) /\ byDevice[d] <= caps[2]
  BY DEF SlotInv, SlotsAccounted, Holders, HoldersOf
<1>10. total < caps[1] /\ byDevice[e] < caps[2]
  <2>1. ~(total >= caps[1]) /\ ~(byDevice[e] >= caps[2])
    BY <1>0 DEF Granted, acquire, DeviceFull, HostFull
  <2>2. caps[1] \in Nat /\ caps[2] \in Nat /\ total \in Nat
    BY <1>2, <1>6, <1>9
  <2>3. byDevice[e] \in Nat
    BY <1>2, <1>9, <1>7, FS_CardinalityType
  <2> QED
    BY <2>1, <2>2, <2>3
<1>11. total' = Cardinality(Holders') /\ total' <= caps[1]
  <2>1. caps[1] \in Nat /\ total \in Nat /\ total' = total + 1
    BY <1>2, <1>6, <1>9 DEF Granted, acquire
  <2> QED
    BY <1>6, <1>9, <1>10, <2>1
<1>12. byDevice' = [byDevice EXCEPT ![e] = @ + 1]
  BY <1>0 DEF Granted, acquire
<1>13. \A d \in Devices : byDevice'[d] = Cardinality(HoldersOf(d)') /\ byDevice'[d] <= caps[2]
  BY <1>2, <1>5, <1>8, <1>9, <1>10, <1>12 DEF TypeOK, BudgetTypeOK
<1>14. SlotsAccounted'
  BY <1>1, <1>11, <1>13 DEF SlotsAccounted, Holders, HoldersOf
<1>15. byDevice' \in [Devices -> 0..caps[1]]
  <2>1. \A d \in Devices : IsFiniteSet(HoldersOf(d)') /\ Cardinality(HoldersOf(d)') <= Cardinality(Holders')
    BY <1>6, FS_Subset DEF Holders, HoldersOf
  <2>2. \A d \in Devices : Cardinality(HoldersOf(d)') \in Nat
    BY <2>1, FS_CardinalityType
  <2>3. Cardinality(Holders') \in Nat
    BY <1>6
  <2> QED
    BY <1>2, <1>11, <1>12, <1>13, <2>1, <2>2, <2>3 DEF TypeOK, BudgetTypeOK
<1>16. BudgetTypeOK'
  BY <1>1, <1>2, <1>6, <1>11, <1>15 DEF TypeOK, BudgetTypeOK
<1>17. \A q \in released' : spc'[q] = "done"
  BY <1>1 DEF SlotInv, TypeOK, BudgetTypeOK
<1> QED
  BY <1>6, <1>14, <1>16, <1>17 DEF SlotInv

\* A slot comes back: the release function runs once, and the device has an
\* entry for the slot it returns.
LEMMA ReleaseSlots ==
  ASSUME TypeOK, SlotInv, NEW s \in Streams, Release(s)
  PROVE  SlotInv' /\ BudgetTypeOK'
<1>1. s \notin released /\ spc[s] = "release"
  BY DEF Release, SlotInv
<1>0. PICK e \in Devices : e = dev[s]
  BY DEF TypeOK
<1>2. caps \in (Nat \ {0}) \X (Nat \ {0})
  BY CapsAssumption DEF TypeOK, BudgetTypeOK
<1>3. spc' = [spc EXCEPT ![s] = "done"] /\ dev' = dev /\ caps' = caps
      /\ released' = released \cup {s} /\ total' = total - 1
      /\ byDevice' = [byDevice EXCEPT ![e] = IF @ - 1 <= 0 THEN 0 ELSE @ - 1]
  BY <1>0, <1>1 DEF Release, release
<1>4. Holders' = Holders \ {s} /\ s \in Holders
  BY <1>1, <1>3 DEF Holders, Holding, TypeOK
<1>5. HoldersOf(e)' = HoldersOf(e) \ {s} /\ s \in HoldersOf(e)
  BY <1>0, <1>1, <1>3 DEF HoldersOf, Holding, TypeOK
<1>6. \A d \in Devices \ {e} : HoldersOf(d)' = HoldersOf(d)
  BY <1>0, <1>1, <1>3 DEF HoldersOf, Holding, TypeOK
<1>7. IsFiniteSet(Holders') /\ Cardinality(Holders') = Cardinality(Holders) - 1
      /\ Cardinality(Holders') \in Nat /\ Cardinality(Holders) \in Nat
  BY <1>4, FS_RemoveElement, FS_CardinalityType DEF SlotInv
<1>8. IsFiniteSet(HoldersOf(e))
  BY FS_Subset DEF SlotInv, Holders, HoldersOf
<1>9. Cardinality(HoldersOf(e)') = Cardinality(HoldersOf(e)) - 1
      /\ Cardinality(HoldersOf(e)') \in Nat
  BY <1>5, <1>8, FS_RemoveElement, FS_CardinalityType
<1>10. total = Cardinality(Holders) /\ total <= caps[1]
      /\ \A d \in Devices : byDevice[d] = Cardinality(HoldersOf(d)) /\ byDevice[d] <= caps[2]
  BY DEF SlotInv, SlotsAccounted, Holders, HoldersOf
<1>11. total' = Cardinality(Holders') /\ total' <= caps[1] /\ total' \in Nat
  BY <1>2, <1>3, <1>7, <1>10
<1>12. byDevice'[e] = Cardinality(HoldersOf(e)')
       /\ byDevice'[e] <= byDevice[e] /\ byDevice'[e] \in Nat
  BY <1>2, <1>3, <1>9, <1>10 DEF TypeOK, BudgetTypeOK
<1>13. \A d \in Devices \ {e} : byDevice'[d] = byDevice[d]
  BY <1>3 DEF TypeOK, BudgetTypeOK
<1>14. \A d \in Devices : byDevice'[d] = Cardinality(HoldersOf(d)') /\ byDevice'[d] <= caps[2]
  <2>1. byDevice'[e] <= caps[2]
    <3>1. byDevice[e] \in Nat /\ caps[2] \in Nat /\ byDevice[e] <= caps[2]
      BY <1>2, <1>8, <1>10, FS_CardinalityType
    <3> QED
      BY <1>12, <3>1
  <2> QED
    <3>1. ASSUME NEW d \in Devices, d # e
          PROVE  byDevice'[d] = Cardinality(HoldersOf(d)') /\ byDevice'[d] <= caps[2]
      <4>1. byDevice'[d] = byDevice[d] /\ HoldersOf(d)' = HoldersOf(d)
        BY <1>6, <1>13, <3>1
      <4> QED
        BY <1>10, <4>1
    <3> QED
      BY <1>12, <2>1, <3>1
<1>15. SlotsAccounted'
  BY <1>3, <1>11, <1>14 DEF SlotsAccounted, Holders, HoldersOf
<1>16. byDevice' \in [Devices -> 0..caps[1]]
  BY <1>2, <1>3, <1>12, <1>13 DEF TypeOK, BudgetTypeOK
<1>17. BudgetTypeOK'
  BY <1>2, <1>3, <1>11, <1>16 DEF TypeOK, BudgetTypeOK
<1>18. \A q \in released' : spc'[q] = "done"
  BY <1>3 DEF SlotInv, TypeOK, BudgetTypeOK
<1> QED
  BY <1>7, <1>15, <1>17, <1>18 DEF SlotInv

-----------------------------------------------------------------------------
(* Frames *)

\* Appending to the response of stream s what is no terminal frame.
LEMMA PlainFrame ==
  ASSUME TypeOK, FrameInv, NEW s \in Streams, NEW k \in Writes \ Terminals,
         wire' = wire \/ wire' = [wire EXCEPT ![s] = Append(@, k)], once' = once
  PROVE  FrameInv' /\ wire' \in [Streams -> Seq(Writes)]
<1>1. CASE wire' = wire
  BY <1>1 DEF TypeOK, FrameInv, OneTerminalFrame
<1>2. CASE wire' = [wire EXCEPT ![s] = Append(@, k)]
  <2>1. wire[s] \in Seq(Writes)
    BY DEF TypeOK
  <2>2. wire'[s] = Append(wire[s], k) /\ Len(wire'[s]) = Len(wire[s]) + 1
    BY <1>2, <2>1 DEF TypeOK
  <2>3. DOMAIN wire'[s] = 1..(Len(wire[s]) + 1) /\ DOMAIN wire[s] = 1..Len(wire[s])
        /\ Len(wire[s]) \in Nat
    BY <2>1, <2>2
  <2>4. \A i \in DOMAIN wire'[s] : wire'[s][i] \in Terminals =>
          i \in DOMAIN wire[s] /\ wire'[s][i] = wire[s][i]
    BY <2>1, <2>2, <2>3
  <2>5. \A q \in Streams \ {s} : wire'[q] = wire[q]
    BY <1>2 DEF TypeOK
  <2>6. \A q \in Streams \ once : \A i \in DOMAIN wire'[q] : wire'[q][i] \notin Terminals
    BY <2>4, <2>5 DEF FrameInv
  <2>7. OneTerminalFrame'
    BY <2>4, <2>5 DEF FrameInv, OneTerminalFrame
  <2>8. wire' \in [Streams -> Seq(Writes)]
    BY <1>2, <2>1 DEF TypeOK
  <2> QED
    BY <2>6, <2>7, <2>8 DEF FrameInv
<1> QED
  BY <1>1, <1>2

\* terminalOnce lets the first terminal frame through and no other.
LEMMA TerminalStep ==
  ASSUME TypeOK, FrameInv, NEW s \in Streams, NEW k \in Terminals, TerminalOnce(s, k)
  PROVE  /\ FrameInv' /\ wire' \in [Streams -> Seq(Writes)]
         /\ once' \subseteq Streams /\ started' \subseteq Streams
<1>0. once' = once \cup {s} /\ once' \subseteq Streams /\ started' \subseteq Streams
  BY DEF TerminalOnce, Frame, TypeOK
<1>1. CASE wire' = wire
  BY <1>0, <1>1 DEF TypeOK, FrameInv, OneTerminalFrame
<1>2. CASE wire' # wire
  <2>0. wire' = [wire EXCEPT ![s] = Append(@, k)] /\ s \notin once
    BY <1>2 DEF TerminalOnce, Frame
  <2>1. wire[s] \in Seq(Writes) /\ k \in Writes
    BY DEF TypeOK
  <2>2. wire'[s] = Append(wire[s], k) /\ Len(wire'[s]) = Len(wire[s]) + 1
    BY <2>0, <2>1 DEF TypeOK
  <2>3. DOMAIN wire'[s] = 1..(Len(wire[s]) + 1) /\ DOMAIN wire[s] = 1..Len(wire[s])
        /\ Len(wire[s]) \in Nat
    BY <2>1, <2>2
  <2>4. \A i \in DOMAIN wire[s] : wire'[s][i] \notin Terminals
    BY <2>0, <2>1, <2>2, <2>3 DEF FrameInv
  <2>5. \A i \in DOMAIN wire'[s] : wire'[s][i] \in Terminals => i = Len(wire[s]) + 1
    BY <2>3, <2>4
  <2>6. \A q \in Streams \ {s} : wire'[q] = wire[q]
    BY <2>0 DEF TypeOK
  <2>7. \A q \in Streams \ once' : \A i \in DOMAIN wire'[q] : wire'[q][i] \notin Terminals
    BY <1>0, <2>6 DEF FrameInv
  <2>8. OneTerminalFrame'
    BY <2>5, <2>6 DEF FrameInv, OneTerminalFrame
  <2>9. wire' \in [Streams -> Seq(Writes)]
    BY <2>0, <2>1 DEF TypeOK
  <2> QED
    BY <1>0, <2>7, <2>8, <2>9 DEF FrameInv
<1> QED
  BY <1>1, <1>2

-----------------------------------------------------------------------------
(* Steps *)

\* What a handler step that neither takes nor returns a slot has to show.
LEMMA Quiet ==
  ASSUME Inv, UNCHANGED <<budgetVars, dev>>,
         \A s \in Streams : Holding(s)' <=> Holding(s),
         \A s \in Streams : spc[s] = "done" => spc'[s] = "done"
  PROVE  SlotInv' /\ BudgetTypeOK'
BY SlotsFramed DEF Inv, TypeOK, BudgetTypeOK

\* Every step of a handler, of a keepalive goroutine and of the environment
\* keeps the invariant.
LEMMA Inductive == Inv /\ [Next]_vars => Inv'
<1> SUFFICES ASSUME Inv, [Next]_vars
             PROVE  Inv'
  OBVIOUS
<1> USE DEF Inv, KeepaliveInv
<1>1. ASSUME NEW s \in Streams, Open(s)
      PROVE  Inv'
  <2>1. SlotInv' /\ BudgetTypeOK'
    BY <1>1, Quiet DEF Open, Holding, TypeOK
  <2>2. TypeOK' /\ KeepaliveInv'
    BY <1>1, <2>1 DEF Open, TypeOK
  <2>3. FrameInv'
    BY <1>1 DEF Open, FrameInv, OneTerminalFrame
  <2> QED
    BY <2>1, <2>2, <2>3
<1>2. ASSUME NEW s \in Streams, Granted(s)
      PROVE  Inv'
  <2>1. SlotInv' /\ BudgetTypeOK'
    BY <1>2, GrantedSlots
  <2>2. TypeOK' /\ KeepaliveInv'
    BY <1>2, <2>1 DEF Granted, TypeOK
  <2>3. FrameInv'
    BY <1>2 DEF Granted, FrameInv, OneTerminalFrame
  <2> QED
    BY <2>1, <2>2, <2>3
<1>3. ASSUME NEW s \in Streams, Refused(s) \/ StartKeepalive(s)
      PROVE  Inv'
  <2>1. SlotInv' /\ BudgetTypeOK'
    BY <1>3, Quiet DEF Refused, StartKeepalive, Holding, TypeOK
  <2>2. TypeOK' /\ KeepaliveInv'
    BY <1>3, <2>1 DEF Refused, StartKeepalive, TypeOK
  <2>3. FrameInv'
    BY <1>3 DEF Refused, StartKeepalive, FrameInv, OneTerminalFrame
  <2> QED
    BY <2>1, <2>2, <2>3
<1>4. ASSUME NEW s \in Streams, Inspect(s) \/ OpenLogs(s) \/ EmitBlocks(s) \/ EmitReturns(s)
      PROVE  Inv'
  <2>1. SlotInv' /\ BudgetTypeOK'
    BY <1>4, Quiet DEF Inspect, OpenLogs, EmitBlocks, EmitReturns, Holding, TypeOK
  <2>2. TypeOK' /\ KeepaliveInv'
    BY <1>4, <2>1 DEF Inspect, OpenLogs, EmitBlocks, EmitReturns, TypeOK
  <2>3. FrameInv'
    BY <1>4 DEF Inspect, OpenLogs, EmitBlocks, EmitReturns, FrameInv, OneTerminalFrame
  <2> QED
    BY <2>1, <2>2, <2>3
<1>5. ASSUME NEW s \in Streams, Emit(s)
      PROVE  Inv'
  <2>1. SlotInv' /\ BudgetTypeOK'
    BY <1>5, Quiet DEF Emit, Holding, TypeOK
  <2>2. wire' = wire \/ wire' = [wire EXCEPT ![s] = Append(@, "log")]
    BY <1>5 DEF Emit, Frame
  <2>3. once' = once
    BY <1>5 DEF Emit
  <2>4. FrameInv' /\ wire' \in [Streams -> Seq(Writes)]
    BY <2>2, <2>3, PlainFrame
  <2>5. TypeOK' /\ KeepaliveInv'
    BY <1>5, <2>1, <2>4 DEF Emit, Frame, TypeOK
  <2> QED
    BY <2>1, <2>4, <2>5
<1>6. ASSUME NEW s \in Streams, LogEnds(s) \/ EngineFails(s) \/ ReadCancelled(s)
      PROVE  Inv'
  <2>1. SlotInv' /\ BudgetTypeOK'
    BY <1>6, Quiet DEF LogEnds, EngineFails, ReadCancelled, Holding, TypeOK
  <2>2. TypeOK' /\ KeepaliveInv'
    BY <1>6, <2>1 DEF LogEnds, EngineFails, ReadCancelled, TypeOK
  <2>3. FrameInv'
    BY <1>6 DEF LogEnds, EngineFails, ReadCancelled, FrameInv, OneTerminalFrame
  <2> QED
    BY <2>1, <2>2, <2>3
<1>7. ASSUME NEW s \in Streams, Classify(s)
      PROVE  Inv'
  <2>0. PICK l \in {"docker_error", "cancel", "terminal"} : spc' = [spc EXCEPT ![s] = l]
    BY <1>7 DEF Classify
  <2>00. spc[s] = "failed" /\ UNCHANGED <<budgetVars, envVars, sseVars, inspected, err, ctxDone, kpc>>
    BY <1>7 DEF Classify
  <2>1. SlotInv' /\ BudgetTypeOK'
    BY <2>0, <2>00, Quiet DEF Holding, TypeOK
  <2>2. TypeOK' /\ KeepaliveInv'
    BY <2>0, <2>00, <2>1 DEF TypeOK
  <2>3. FrameInv'
    BY <2>00 DEF FrameInv, OneTerminalFrame
  <2> QED
    BY <2>1, <2>2, <2>3
<1>8. ASSUME NEW s \in Streams, WriteDockerError(s)
      PROVE  Inv'
  <2>1. SlotInv' /\ BudgetTypeOK'
    BY <1>8, Quiet DEF WriteDockerError, Holding, TypeOK
  <2>2. wire' = wire \/ wire' = [wire EXCEPT ![s] = Append(@, "json")]
    BY <1>8 DEF WriteDockerError
  <2>3. once' = once
    BY <1>8 DEF WriteDockerError
  <2>4. FrameInv' /\ wire' \in [Streams -> Seq(Writes)]
    BY <2>2, <2>3, PlainFrame
  <2>5. TypeOK' /\ KeepaliveInv'
    BY <1>8, <2>1, <2>4 DEF WriteDockerError, TypeOK
  <2> QED
    BY <2>1, <2>4, <2>5
<1>9. ASSUME NEW s \in Streams, TerminalFrame(s)
      PROVE  Inv'
  <2>1. SlotInv' /\ BudgetTypeOK'
    BY <1>9, Quiet DEF TerminalFrame, Holding, TypeOK
  <2>2. FrameInv' /\ wire' \in [Streams -> Seq(Writes)]
        /\ once' \subseteq Streams /\ started' \subseteq Streams
    BY <1>9, TerminalStep DEF TerminalFrame
  <2>3. TypeOK' /\ KeepaliveInv'
    BY <1>9, <2>1, <2>2 DEF TerminalFrame, TypeOK
  <2> QED
    BY <2>1, <2>2, <2>3
<1>10. ASSUME NEW s \in Streams, Cancel(s) \/ Join(s)
       PROVE  Inv'
  <2>1. SlotInv' /\ BudgetTypeOK'
    BY <1>10, Quiet DEF Cancel, Join, Holding, TypeOK
  <2>2. TypeOK' /\ KeepaliveInv'
    BY <1>10, <2>1 DEF Cancel, Join, TypeOK
  <2>3. FrameInv'
    BY <1>10 DEF Cancel, Join, FrameInv, OneTerminalFrame
  <2> QED
    BY <2>1, <2>2, <2>3
<1>11. ASSUME NEW s \in Streams, Release(s)
       PROVE  Inv'
  <2>1. SlotInv' /\ BudgetTypeOK'
    BY <1>11, ReleaseSlots
  <2>2. TypeOK' /\ KeepaliveInv'
    BY <1>11, <2>1 DEF Release, TypeOK
  <2>3. FrameInv'
    BY <1>11 DEF Release, FrameInv, OneTerminalFrame
  <2> QED
    BY <2>1, <2>2, <2>3
<1>12. ASSUME NEW s \in Streams, RevokedFrame(s)
       PROVE  Inv'
  <2>1. SlotInv' /\ BudgetTypeOK'
    BY <1>12, Quiet DEF RevokedFrame, Holding
  <2>2. FrameInv' /\ wire' \in [Streams -> Seq(Writes)]
        /\ once' \subseteq Streams /\ started' \subseteq Streams
    BY <1>12, TerminalStep DEF RevokedFrame
  <2>3. TypeOK' /\ KeepaliveInv'
    BY <1>12, <2>1, <2>2 DEF RevokedFrame, TypeOK
  <2> QED
    BY <2>1, <2>2, <2>3
<1>13. ASSUME NEW s \in Streams,
              \/ Keepalive(s) \/ KeepaliveBlocks(s) \/ KeepaliveReturns(s)
              \/ streamRevoked(s) \/ LookupFails(s) \/ RevokedCancel(s) \/ KeepaliveDone(s)
       PROVE  Inv'
  <2> USE DEF Keepalive, KeepaliveBlocks, KeepaliveReturns, streamRevoked, LookupFails, RevokedCancel, KeepaliveDone
  <2>1. SlotInv' /\ BudgetTypeOK'
    BY <1>13, Quiet DEF Holding
  <2>2. TypeOK' /\ KeepaliveInv'
    BY <1>13, <2>1 DEF TypeOK
  <2>3. FrameInv'
    BY <1>13 DEF FrameInv, OneTerminalFrame
  <2> QED
    BY <2>1, <2>2, <2>3
<1>14. CASE (\E s \in Streams : ClientGone(s) \/ Stall(s)) \/ (\E d \in Devices : Revoke(d)) \/ Shutdown
  <2> USE DEF ClientGone, Stall, Revoke, Shutdown
  <2>1. SlotInv' /\ BudgetTypeOK'
    BY <1>14, Quiet DEF Holding
  <2>2. TypeOK' /\ KeepaliveInv'
    BY <1>14, <2>1 DEF TypeOK
  <2>3. FrameInv'
    BY <1>14 DEF FrameInv, OneTerminalFrame
  <2> QED
    BY <2>1, <2>2, <2>3
<1>15. CASE UNCHANGED vars
  <2>1. SlotInv' /\ BudgetTypeOK'
    BY <1>15, Quiet DEF Holding, vars, streamVars
  <2> QED
    BY <1>15, <2>1 DEF vars, streamVars, TypeOK, FrameInv, OneTerminalFrame
<1> QED
  BY <1>1, <1>2, <1>3, <1>4, <1>5, <1>6, <1>7, <1>8, <1>9, <1>10, <1>11, <1>12,
     <1>13, <1>14, <1>15 DEF Next, HandlerStep, KeepaliveStep

\* The inductive invariant holds in every behaviour.
THEOREM Invariance == Spec => []Inv
<1>1. Init => Inv
  <2> SUFFICES ASSUME Init PROVE Inv
    OBVIOUS
  <2>1. Holders = {} /\ \A d \in Devices : HoldersOf(d) = {}
    BY DEF Init, Holders, HoldersOf, Holding
  <2>2. IsFiniteSet({}) /\ Cardinality({}) = 0
    BY FS_EmptySet
  <2>3. caps \in (Nat \ {0}) \X (Nat \ {0})
    BY CapsAssumption DEF Init, BudgetInit
  <2>4. SlotInv
    <3>1. caps[1] \in Nat /\ caps[2] \in Nat
      BY <2>3
    <3>2. total = 0 /\ released = {} /\ \A d \in Devices : byDevice[d] = 0
      BY DEF Init, BudgetInit
    <3>3. SlotsAccounted
      <4>1. total = Cardinality(Holders) /\ total <= caps[1]
        BY <2>1, <2>2, <3>1, <3>2
      <4>2. \A d \in Devices : byDevice[d] = Cardinality(HoldersOf(d)) /\ byDevice[d] <= caps[2]
        BY <2>1, <2>2, <3>1, <3>2
      <4> QED
        BY <4>1, <4>2 DEF SlotsAccounted, Holders, HoldersOf
    <3> QED
      BY <2>1, <2>2, <3>2, <3>3 DEF SlotInv
  <2>5. TypeOK
    <3>1. caps[1] \in Nat /\ caps[2] \in Nat
      BY <2>3
    <3>2. BudgetTypeOK
      <4>1. caps \in Caps /\ total = 0 /\ released = {}
            /\ byDevice = [d \in Devices |-> 0]
        BY DEF Init, BudgetInit
      <4> QED
        BY <3>1, <4>1 DEF BudgetTypeOK
    <3> QED
      <4>1. wire \in [Streams -> Seq(Writes)]
        BY DEF Init
      <4>2. down \in BOOLEAN
        BY DEF Init
      <4> HIDE DEF Writes
      <4> QED
        BY <3>2, <4>1, <4>2 DEF Init, TypeOK
  <2>6. KeepaliveInv /\ FrameInv
    BY DEF Init, KeepaliveInv, FrameInv, OneTerminalFrame
  <2> QED
    BY <2>4, <2>5, <2>6 DEF Inv
<1> QED
  BY <1>1, Inductive, PTL DEF Spec

\* The state of the streams keeps its type: no counter of the budget is ever
\* negative or above the host's ceiling.
THEOREM StreamTypes == Spec => []TypeOK
<1>1. Inv => TypeOK
  BY DEF Inv
<1> QED
  BY <1>1, Invariance, PTL

\* The budget counts exactly the running streams, of the host and of each
\* device, and stays within both caps (streamBudget.acquire and its release).
THEOREM SlotsNeverLeak == Spec => []SlotsAccounted
<1>1. Inv => SlotsAccounted
  BY DEF Inv, SlotInv
<1> QED
  BY <1>1, Invariance, PTL

\* A revocation and an Engine fault that coincide leave one terminal frame
\* (terminalOnce).
THEOREM TerminalFrameOnce == Spec => []OneTerminalFrame
<1>1. Inv => OneTerminalFrame
  BY DEF Inv, FrameInv
<1> QED
  BY <1>1, Invariance, PTL

\* A handler that returns has joined its keepalive goroutine.
THEOREM KeepaliveJoined == Spec => []NoWriterLeftBehind
<1>1. Inv => NoWriterLeftBehind
  BY DEF Inv, KeepaliveInv, NoWriterLeftBehind
<1> QED
  BY <1>1, Invariance, PTL
=============================================================================
