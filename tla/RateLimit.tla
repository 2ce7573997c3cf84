----------------------------- MODULE RateLimit -----------------------------
(***************************************************************************)
(* The rate limiter (internal/ratelimit Registry) and the tiers that use   *)
(* it (internal/httpapi withGlobalUnauthLimit, withIPLimit,                *)
(* withDeviceLimit).                                                       *)
(*                                                                         *)
(* A token bucket (golang.org/x/time/rate, external) is its token count;   *)
(* one tick of the clock is the time one token takes.  A request's reading *)
(* of the clock and the locked step that uses it are one step.  Requests   *)
(* pass the tiers concurrently.                                            *)
(***************************************************************************)
EXTENDS Naturals, FiniteSets

CONSTANTS Requests,
          Keys,         \* client addresses, or device IDs
          MaxKeys,      \* rateLimitMaxKeys
          Burst,        \* the burst of a key's bucket
          GlobalBurst,  \* unauthGlobalBurst
          Tiers         \* the tiers considered: "ip" (status and pair), "device" (guarded)

ASSUME SizesAssumption ==
  MaxKeys \in Nat \ {0} /\ Burst \in Nat \ {0} /\ GlobalBurst \in Nat \ {0}
ASSUME KeysAssumption == IsFiniteSet(Keys)
ASSUME TierAssumption == Tiers \subseteq {"ip", "device"}

VARIABLES
  tier,     \* whose registry this is; each tier has its own
  pc,       \* where each request is
  key,      \* its key
  buckets,  \* the keys of Registry.buckets
  tokens,   \* the tokens in each of them; Burst for the others
  global,   \* the tokens of unauthGlobal
  ideal     \* history: the tokens of a bucket that is never dropped

vars == <<tier, pc, key, buckets, tokens, global, ideal>>

Steps == {"idle", "registry", "fallback", "served", "refused"}

\* Invariant: the registry never holds more than its cap.
TypeOK ==
  /\ tier \in Tiers
  /\ pc \in [Requests -> Steps]
  /\ key \in [Requests -> Keys]
  /\ buckets \subseteq Keys /\ Cardinality(buckets) <= MaxKeys
  /\ tokens \in [Keys -> 0..Burst]
  /\ global \in 0..GlobalBurst
  /\ ideal \in [Keys -> 0..Burst]

Init ==
  /\ tier \in Tiers
  /\ pc = [r \in Requests |-> "idle"]
  /\ key \in [Requests -> Keys]
  /\ buckets = {} /\ tokens = [k \in Keys |-> Burst]
  /\ global = GlobalBurst
  /\ ideal = [k \in Keys |-> Burst]

-----------------------------------------------------------------------------
Refill(n, cap) == IF n < cap THEN n + 1 ELSE cap

Tick ==
  /\ tokens' = [k \in Keys |-> Refill(tokens[k], Burst)]
  /\ ideal' = [k \in Keys |-> Refill(ideal[k], Burst)]
  /\ global' = Refill(global, GlobalBurst)
  /\ UNCHANGED <<tier, pc, key, buckets>>

Spent(n) == IF n > 0 THEN n - 1 ELSE 0

Goto(r, step) == pc' = [pc EXCEPT ![r] = step]

\* A request comes in; the pre-authentication tiers pass the global bucket
\* first (withGlobalUnauthLimit), the guarded one has none.
Arrive(r) ==
  /\ pc[r] = "idle"
  /\ \/ /\ tier = "device"
        /\ Goto(r, "registry") /\ UNCHANGED global
     \/ /\ tier = "ip" /\ global > 0
        /\ Goto(r, "registry") /\ global' = global - 1
     \/ /\ tier = "ip" /\ global = 0
        /\ Goto(r, "refused") /\ UNCHANGED global
  /\ UNCHANGED <<tier, key, buckets, tokens, ideal>>

\* A finished request's goroutine makes way for another request of any key.
Again(r, k) ==
  /\ pc[r] \in {"served", "refused"}
  /\ pc' = [pc EXCEPT ![r] = "idle"]
  /\ key' = [key EXCEPT ![r] = k]
  /\ UNCHANGED <<tier, buckets, tokens, global, ideal>>

-----------------------------------------------------------------------------
(* Registry.Allow *)

\* Mutant: a bucket counts as idle before it has refilled.
Idle_TooSoon(k) == tokens[k] >= Burst - 1

Idle(k) == tokens[k] >= Burst

AtCapacity(held) == Cardinality(held) >= MaxKeys

sweepIdleLocked == {k \in buckets : ~Idle(k)}

\* The keys held after a sweep, if there is one; a new key joins them or not.
Swept == IF AtCapacity(buckets) THEN sweepIdleLocked ELSE buckets

\* AllowN(now, 1) on the bucket of k among those held; a dropped bucket is
\* as good as a new one.
Take(r, k, held, left) ==
  /\ buckets' = held
  /\ tokens' = [j \in Keys |->
                  CASE j = k -> Spent(left)
                    [] j # k /\ j \in held -> tokens[j]
                    [] OTHER -> Burst]
  /\ ideal' = [ideal EXCEPT ![k] = Spent(@)]
  /\ Goto(r, IF left > 0 THEN "served" ELSE "refused")

Known(r) ==
  /\ key[r] \in buckets
  /\ Take(r, key[r], buckets, tokens[key[r]])

Admitted(r) ==
  /\ key[r] \notin buckets /\ ~AtCapacity(Swept)
  /\ Take(r, key[r], Swept \cup {key[r]}, Burst)

\* Mutant: the key is refused outright.
Unkeyed_Refused(r) == Goto(r, "refused")

\* withIPLimit falls back to the global bucket, withDeviceLimit does not.
Unkeyed(r) == Goto(r, IF tier = "ip" THEN "fallback" ELSE "refused")

NotKeyed(r) ==
  /\ key[r] \notin buckets /\ AtCapacity(Swept)
  /\ buckets' = Swept /\ UNCHANGED <<tokens, ideal>>
  /\ Unkeyed(r)

Allow(r) ==
  /\ pc[r] = "registry"
  /\ Known(r) \/ Admitted(r) \/ NotKeyed(r)
  /\ UNCHANGED <<tier, key, global>>

Fallback(r) ==
  /\ pc[r] = "fallback"
  /\ global' = Spent(global)
  /\ Goto(r, IF global > 0 THEN "served" ELSE "refused")
  /\ UNCHANGED <<tier, key, buckets, tokens, ideal>>

Next ==
  \/ Tick
  \/ \E r \in Requests : \/ Arrive(r) \/ Allow(r) \/ Fallback(r)
                         \/ \E k \in Keys : Again(r, k)

Spec == Init /\ [][Next]_vars

-----------------------------------------------------------------------------
(* Properties *)

\* Dropping buckets to make room never gives a key a token early: a key that
\* returns finds what a bucket that is never dropped would hold, so however
\* the registry is swept a key is served at most Burst requests plus one a
\* tick from its own bucket (Allow, sweepIdleLocked).
NoExtraBurst == tokens = ideal

\* An unauthenticated request is refused only if its own bucket or the global
\* one is empty, never because the registry has no room for its key; for a
\* guarded request a registry full of busy keys is the only other reason
\* (Allow, withIPLimit, withDeviceLimit).
RefusalJustified ==
  [][\A r \in Requests : pc[r] # "refused" /\ pc'[r] = "refused" =>
       \/ ideal[key[r]] = 0
       \/ tier = "ip" /\ global = 0
       \/ tier = "device" /\ Cardinality({k \in Keys : ideal[k] < Burst}) >= MaxKeys]_vars

-----------------------------------------------------------------------------
(* Claims of the repository that the code does not keep *)

\* registry.go: when there is no room for a key "the caller must then fall
\* back to its global bucket" (D9): no tier refuses for want of room.
NeverRefusedForRoom ==
  [][\A r \in Requests : pc[r] # "refused" /\ pc'[r] = "refused" =>
       ideal[key[r]] = 0 \/ global = 0]_vars
=============================================================================
