---------------------------- MODULE StreamBudget ----------------------------
(***************************************************************************)
(* The budget of concurrent live log streams                               *)
(* (internal/httpapi/streambudget.go): a ceiling for the host and a cap    *)
(* per device under it.  acquire and release each run under one mutex and  *)
(* are one step.                                                           *)
(***************************************************************************)
EXTENDS Integers

CONSTANTS Streams,       \* log stream requests, each used once
          Devices,
          Caps           \* the <<ceiling, cap>> pairs newStreamBudget may be given

ASSUME CapsAssumption == Caps \subseteq (Nat \ {0}) \X (Nat \ {0})

VARIABLES
  caps,       \* <<b.maxTotal, b.maxPerDevice>>, fixed once the budget is built
  total,      \* b.total
  byDevice,   \* b.byDevice; 0 where the map has no entry
  released    \* streams whose release Once has fired

maxTotal     == caps[1]
maxPerDevice == caps[2]

budgetVars == <<caps, total, byDevice, released>>

BudgetTypeOK ==
  /\ caps \in Caps
  /\ total \in 0..maxTotal
  /\ byDevice \in [Devices -> 0..maxTotal]
  /\ released \subseteq Streams

BudgetInit ==
  /\ caps \in Caps
  /\ total = 0
  /\ byDevice = [d \in Devices |-> 0]
  /\ released = {}

DeviceFull(d) == byDevice[d] >= maxPerDevice

HostFull == total >= maxTotal

\* streamGranted.
acquire(d) ==
  /\ ~DeviceFull(d) /\ ~HostFull
  /\ byDevice' = [byDevice EXCEPT ![d] = @ + 1]
  /\ total' = total + 1
  /\ UNCHANGED <<caps, released>>

\* The release function acquire returned to stream s: only its first call
\* counts.  An entry that reaches zero is deleted.
release(s, d) ==
  IF s \in released THEN UNCHANGED budgetVars
  ELSE /\ total' = total - 1
       /\ byDevice' = [byDevice EXCEPT ![d] = IF @ - 1 <= 0 THEN 0 ELSE @ - 1]
       /\ released' = released \cup {s}
       /\ UNCHANGED caps
=============================================================================
