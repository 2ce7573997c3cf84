--------------------------- MODULE AuditRetention ---------------------------
(***************************************************************************)
(* The audit table of the state store and its retention                    *)
(* (internal/state: AppendAudit, PruneAudit, pruneAuditByDeviceShare and   *)
(* the Pruner's loop).  A row is identified by its AUTOINCREMENT id, which *)
(* is never reused; the operation, target and outcome it records do not    *)
(* matter to retention and are left out.                                   *)
(*                                                                         *)
(* PruneAudit is one transaction on a pool of one connection and is one    *)
(* step; a failed pass rolls back and changes nothing.                     *)
(***************************************************************************)
EXTENDS Integers, FiniteSets

CONSTANTS Buckets,     \* device IDs, and "" for rows without one
          MaxRows,     \* DEVMON_AUDIT_MAX_ROWS
          MaxAge,      \* DEVMON_AUDIT_MAX_AGE_DAYS, in ticks of the clock
          MaxClock,    \* bound: the clock stops here
          MaxAppends   \* bound: rows ever written

ASSUME BoundsAssumption ==
  /\ MaxRows \in Nat \ {0} /\ MaxAge \in Nat
  /\ MaxClock \in Nat /\ MaxAppends \in Nat
ASSUME BucketsAssumption == IsFiniteSet(Buckets) /\ Buckets # {}

VARIABLES
  audit,     \* the rows of the table
  history,   \* history: every row ever written
  clock,     \* time.Now().Unix()
  unpruned,  \* history: rows written since the last pass that committed
  pruner     \* the Pruner: "starting", "waiting", or "due" for a tick

vars == <<audit, history, clock, unpruned, pruner>>

Rows == [id : Nat, dev : Buckets, at : Nat]

TypeOK ==
  /\ audit \subseteq history
  /\ history \subseteq Rows
  /\ \A q, r \in history : q.id = r.id => q = r
  /\ clock \in Nat
  /\ unpruned \in Nat
  /\ pruner \in {"starting", "waiting", "due"}

Init ==
  /\ audit = {} /\ history = {}
  /\ clock = 0 /\ unpruned = 0
  /\ pruner = "starting"

-----------------------------------------------------------------------------
(* The three passes of PruneAudit, each on the rows the one before left *)

AgePass(T, cutoff) == {r \in T : r.at >= cutoff}

\* Mutant: the share is not divided among the buckets.
PerDevice_Whole(T) == MaxRows

\* An even share of MaxRows, at least 1, for each device still in the table.
PerDevice(T) ==
  LET buckets == Cardinality({r.dev : r \in T})
  IN  IF MaxRows \div buckets < 1 THEN 1 ELSE MaxRows \div buckets

\* ROW_NUMBER() OVER (PARTITION BY device_id ORDER BY id DESC)
RowNumber(T, r) == Cardinality({q \in T : q.dev = r.dev /\ q.id >= r.id})

SharePass(T) ==
  IF T = {} THEN T ELSE {r \in T : RowNumber(T, r) <= PerDevice(T)}

\* Mutant: no backstop.
CountPass_None(T) == T

\* id NOT IN (SELECT id FROM audit ORDER BY id DESC LIMIT maxRows)
CountPass(T) == {r \in T : Cardinality({q \in T : q.id >= r.id}) <= MaxRows}

Pruned(T, now) == CountPass(SharePass(AgePass(T, now - MaxAge)))

PruneAudit ==
  /\ audit' = Pruned(audit, clock)
  /\ unpruned' = 0
  /\ UNCHANGED <<history, clock>>

-----------------------------------------------------------------------------
(* Writers *)

\* AppendAudit reads the clock before its INSERT gets the connection, so a
\* row may be one tick older than the rows written before it.
AppendAudit(d, at) ==
  /\ Cardinality(history) < MaxAppends
  /\ LET row == [id |-> Cardinality(history) + 1, dev |-> d, at |-> at]
     IN  audit' = audit \cup {row} /\ history' = history \cup {row}
  /\ unpruned' = unpruned + 1
  /\ UNCHANGED <<clock, pruner>>

-----------------------------------------------------------------------------
(* The Pruner's Run loop *)

\* Mutant: the first pass waits for the ticker.
StartupPass_Skipped ==
  /\ pruner = "starting"
  /\ pruner' = "waiting"
  /\ UNCHANGED <<audit, history, clock, unpruned>>

\* The pass Run makes before its loop.
StartupPass ==
  /\ pruner = "starting"
  /\ PruneAudit
  /\ pruner' = "waiting"

IntervalPasses ==
  /\ pruner = "waiting"
  /\ pruner' = "due"
  /\ UNCHANGED <<audit, history, clock, unpruned>>

TickerPass ==
  /\ pruner = "due"
  /\ PruneAudit
  /\ pruner' = "waiting"

\* A pass that fails is logged, and the loop goes on.
PassFails ==
  /\ pruner # "waiting"
  /\ pruner' = "waiting"
  /\ UNCHANGED <<audit, history, clock, unpruned>>

\* The agent is redeployed, or crashes, and starts again.
Restart ==
  /\ pruner' = "starting"
  /\ UNCHANGED <<audit, history, clock, unpruned>>

Tick ==
  /\ clock < MaxClock
  /\ clock' = clock + 1
  /\ UNCHANGED <<audit, history, unpruned, pruner>>

-----------------------------------------------------------------------------
Next ==
  \/ \E d \in Buckets : \E at \in {clock, clock - 1} \cap Nat : AppendAudit(d, at)
  \/ StartupPass \/ IntervalPasses \/ TickerPass \/ PassFails
  \/ Restart \/ Tick

Spec == Init /\ [][Next]_vars

\* A pass that is tried over and over succeeds sooner or later.  An agent that
\* keeps restarting need not ever stay up for a whole interval.
FairSpec == Spec /\ SF_vars(StartupPass) /\ SF_vars(TickerPass)
                 /\ WF_vars(IntervalPasses) /\ WF_vars(Tick)

-----------------------------------------------------------------------------
(* Properties *)

\* How far a row is from the newest of its device, over all time.
Recency(r) == RowNumber(history, r)

\* One device can never evict another's recent rows: whatever is written by
\* whom and however passes and restarts fall, the newest rows of each device,
\* up to an even share of the table among the devices that ever wrote, are
\* there until they are too old.
RecentRowsKept ==
  \A r \in history :
    /\ r.at >= clock - MaxAge
    /\ Recency(r) <= MaxRows \div Cardinality({q.dev : q \in history})
    => r \in audit

\* The disk budget holds with any number of devices: a pass leaves at most
\* MaxRows rows, so only what was written since then can exceed it.
DiskBudget == Cardinality(audit) <= MaxRows + unpruned

\* Retention by age is enforced even by an agent that never stays up for a
\* whole prune interval: a row that is too old goes away.
ExpiredRowsGo ==
  \A i \in 1..MaxAppends :
    (\E r \in audit : r.id = i /\ r.at < MaxClock - MaxAge)
      ~> ~(\E r \in audit : r.id = i)
=============================================================================
