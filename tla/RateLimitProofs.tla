-------------------------- MODULE RateLimitProofs --------------------------
(***************************************************************************)
(* Proofs about the rate limiter, for any requests, any finite set of keys *)
(* and any sizes: that the registry keeps to its cap, that sweeping it     *)
(* gives no key a token early, and that every refusal has a reason.        *)
(***************************************************************************)
EXTENDS RateLimit, FiniteSetTheorems, TLAPS

\* A bucket that is not held is full, as the one made in its place will be.
DroppedFull == \A k \in Keys \ buckets : tokens[k] = Burst

\* Only a pre-authentication tier falls back to the global bucket.
FallbackTier == \A r \in Requests : pc[r] = "fallback" => tier = "ip"

Inv == TypeOK /\ NoExtraBurst /\ DroppedFull /\ FallbackTier

\* What the registry holds can be counted.
LEMMA HeldFinite ==
  ASSUME NEW S \in SUBSET Keys
  PROVE  IsFiniteSet(S) /\ Cardinality(S) \in Nat
BY KeysAssumption, FS_Subset, FS_CardinalityType

\* A sweep only drops keys, each with a full bucket, and drops every one that
\* is full (sweepIdleLocked).
LEMMA SweptKeys ==
  ASSUME Inv
  PROVE  /\ Swept \subseteq buckets
         /\ Cardinality(Swept) <= MaxKeys
         /\ \A k \in Keys \ Swept : tokens[k] = Burst
         /\ AtCapacity(Swept) => \A k \in Swept : tokens[k] < Burst
<1>1. Swept \subseteq buckets /\ buckets \subseteq Keys
  BY DEF Inv, TypeOK, Swept, sweepIdleLocked
<1>2. IsFiniteSet(buckets) /\ Cardinality(buckets) \in Nat /\ Cardinality(Swept) \in Nat
  BY <1>1, HeldFinite
<1>3. Cardinality(Swept) <= MaxKeys
  <2>1. Cardinality(Swept) <= Cardinality(buckets)
    BY <1>1, <1>2, FS_Subset
  <2> QED
    BY <1>2, <2>1, SizesAssumption DEF Inv, TypeOK
<1>4. \A k \in Keys : tokens[k] \in 0..Burst /\ (Idle(k) <=> tokens[k] = Burst)
  BY SizesAssumption DEF Inv, TypeOK, Idle
<1>5. \A k \in Keys \ Swept : tokens[k] = Burst
  BY <1>4 DEF Inv, DroppedFull, Swept, sweepIdleLocked
<1>6. ASSUME AtCapacity(Swept)
      PROVE  \A k \in Swept : tokens[k] < Burst
  BY <1>1, <1>4, <1>6, SizesAssumption DEF Swept, sweepIdleLocked
<1> QED
  BY <1>1, <1>3, <1>5, <1>6

\* One request through one bucket: what Take does to the tokens.
LEMMA TakeStep ==
  ASSUME Inv, NEW r \in Requests, NEW k \in Keys, NEW held \in SUBSET Keys,
         k \in held, Cardinality(held) <= MaxKeys,
         NEW left \in 0..Burst, left = tokens[k],
         \A j \in Keys \ held : tokens[j] = Burst,
         Take(r, k, held, left), UNCHANGED <<tier, key, global>>
  PROVE  Inv'
<1>1. tokens' = [tokens EXCEPT ![k] = Spent(left)]
  <2>1. \A j \in Keys :
          tokens'[j] = IF j = k THEN Spent(left) ELSE tokens[j]
    BY DEF Take
  <2>2. tokens' = [j \in Keys |-> tokens'[j]]
    BY DEF Take
  <2>3. tokens' = [j \in Keys |-> IF j = k THEN Spent(left) ELSE tokens[j]]
    BY <2>1, <2>2
  <2> QED
    BY <2>3 DEF Inv, TypeOK
<1>2. ideal' = [ideal EXCEPT ![k] = Spent(left)]
  BY DEF Take, Inv, NoExtraBurst
<1>3. Spent(left) \in 0..Burst
  BY SizesAssumption DEF Spent
<1>4. pc' \in [Requests -> Steps]
  BY DEF Take, Goto, Inv, TypeOK, Steps
<1>5. buckets' = held
  BY DEF Take
<1>6. FallbackTier'
  BY DEF Take, Goto, Inv, TypeOK, FallbackTier
<1> QED
  BY <1>1, <1>2, <1>3, <1>4, <1>5, <1>6 DEF Inv, TypeOK, NoExtraBurst, DroppedFull

\* The three answers of Registry.Allow.
LEMMA AllowStep ==
  ASSUME Inv, NEW r \in Requests, Allow(r)
  PROVE  Inv'
<1>1. key[r] \in Keys /\ buckets \subseteq Keys /\ tokens[key[r]] \in 0..Burst
  BY DEF Inv, TypeOK
<1>2. UNCHANGED <<tier, key, global>>
  BY DEF Allow
<1>3. CASE Known(r)
  <2>1. \A j \in Keys \ buckets : tokens[j] = Burst
    BY DEF Inv, DroppedFull
  <2>2. Cardinality(buckets) <= MaxKeys
    BY DEF Inv, TypeOK
  <2> QED
    BY <1>1, <1>2, <1>3, <2>1, <2>2, TakeStep DEF Known
<1>4. CASE Admitted(r)
  <2> DEFINE held == Swept \cup {key[r]}
  <2>1. Swept \subseteq Keys /\ Cardinality(Swept) \in Nat /\ IsFiniteSet(Swept)
    BY <1>1, SweptKeys, HeldFinite
  <2>2. Cardinality(held) <= Cardinality(Swept) + 1
    BY <2>1, FS_AddElement
  <2>3. Cardinality(Swept) < MaxKeys
    BY <1>4, <2>1, SizesAssumption DEF Admitted, AtCapacity
  <2>4. held \in SUBSET Keys /\ key[r] \in held
    BY <1>1, <2>1
  <2>5. Cardinality(held) <= MaxKeys
    BY <2>1, <2>2, <2>3, <2>4, HeldFinite, SizesAssumption
  <2>6. tokens[key[r]] = Burst
    BY <1>1, <1>4 DEF Admitted, Inv, DroppedFull
  <2>7. \A j \in Keys \ held : tokens[j] = Burst
    BY SweptKeys
  <2>8. Take(r, key[r], held, tokens[key[r]])
    BY <1>4, <2>6 DEF Admitted
  <2> HIDE DEF held
  <2> QED
    BY <1>1, <1>2, <2>4, <2>5, <2>7, <2>8, TakeStep
<1>5. CASE NotKeyed(r)
  <2>1. Swept \subseteq Keys /\ Cardinality(Swept) <= MaxKeys
        /\ \A k \in Keys \ Swept : tokens[k] = Burst
    BY <1>1, SweptKeys
  <2>2. buckets' = Swept /\ UNCHANGED <<tokens, ideal>>
    BY <1>5 DEF NotKeyed
  <2>3. pc' \in [Requests -> Steps]
    BY <1>5 DEF NotKeyed, Unkeyed, Goto, Inv, TypeOK, Steps
  <2>4. FallbackTier'
    BY <1>2, <1>5 DEF NotKeyed, Unkeyed, Goto, Inv, TypeOK, FallbackTier
  <2> QED
    BY <1>2, <2>1, <2>2, <2>3, <2>4 DEF Inv, TypeOK, NoExtraBurst, DroppedFull
<1> QED
  BY <1>3, <1>4, <1>5 DEF Allow

\* Every step keeps the registry within its cap and its tokens exact.
LEMMA Inductive == Inv /\ [Next]_vars => Inv'
<1> SUFFICES ASSUME Inv, [Next]_vars
             PROVE  Inv'
  OBVIOUS
<1> USE SizesAssumption
<1>1. CASE Tick
  <2>1. \A n \in 0..Burst : Refill(n, Burst) \in 0..Burst
    BY DEF Refill
  <2>2. Refill(global, GlobalBurst) \in 0..GlobalBurst
    BY DEF Refill, Inv, TypeOK
  <2>3. Refill(Burst, Burst) = Burst
    BY DEF Refill
  <2> QED
    BY <1>1, <2>1, <2>2, <2>3 DEF Tick, Inv, TypeOK, NoExtraBurst, DroppedFull, FallbackTier
<1>2. ASSUME NEW r \in Requests, Arrive(r)
      PROVE  Inv'
  BY <1>2 DEF Arrive, Goto, Inv, TypeOK, Steps, NoExtraBurst, DroppedFull, FallbackTier
<1>3. ASSUME NEW r \in Requests, Allow(r)
      PROVE  Inv'
  BY <1>3, AllowStep
<1>4. ASSUME NEW r \in Requests, Fallback(r)
      PROVE  Inv'
  BY <1>4 DEF Fallback, Goto, Spent, Inv, TypeOK, Steps, NoExtraBurst, DroppedFull, FallbackTier
<1>5. ASSUME NEW r \in Requests, NEW k \in Keys, Again(r, k)
      PROVE  Inv'
  BY <1>5 DEF Again, Inv, TypeOK, Steps, NoExtraBurst, DroppedFull, FallbackTier
<1>6. CASE UNCHANGED vars
  BY <1>6 DEF vars, Inv, TypeOK, NoExtraBurst, DroppedFull, FallbackTier
<1> QED
  BY <1>1, <1>2, <1>3, <1>4, <1>5, <1>6 DEF Next

\* The inductive invariant holds in every behaviour.
THEOREM Invariance == Spec => []Inv
<1>1. Init => Inv
  <2>1. Cardinality({}) = 0
    BY FS_EmptySet
  <2> QED
    BY <2>1, SizesAssumption DEF Init, Inv, TypeOK, Steps, NoExtraBurst, DroppedFull, FallbackTier
<1> QED
  BY <1>1, Inductive, PTL DEF Spec

\* The registry's state keeps its type, and it never holds more keys than
\* rateLimitMaxKeys, whatever keys come (Registry.Allow).
THEOREM RegistryBounded == Spec => []TypeOK
<1>1. Inv => TypeOK
  BY DEF Inv
<1> QED
  BY <1>1, Invariance, PTL

\* However the registry is swept, every key has exactly the tokens of a
\* bucket that is never dropped (Allow, sweepIdleLocked).
THEOREM SweepsGiveNothing == Spec => []NoExtraBurst
<1>1. Inv => NoExtraBurst
  BY DEF Inv
<1> QED
  BY <1>1, Invariance, PTL

\* A request is refused only for an empty bucket, its own or the global one,
\* or, if it is a guarded one, because as many other keys as the registry
\* holds have spent tokens (Allow, withIPLimit, withDeviceLimit).
THEOREM RefusalsJustified == Spec => RefusalJustified
<1> DEFINE Because(r) ==
      \/ ideal[key[r]] = 0
      \/ tier = "ip" /\ global = 0
      \/ tier = "device" /\ Cardinality({k \in Keys : ideal[k] < Burst}) >= MaxKeys
<1>1. ASSUME Inv, Next, NEW r \in Requests, pc[r] # "refused", pc'[r] = "refused"
      PROVE  Because(r)
  <2>1. pc \in [Requests -> Steps] /\ key[r] \in Keys /\ ideal[key[r]] \in 0..Burst
    BY <1>1 DEF Inv, TypeOK
  <2>2. CASE Tick
    BY <1>1, <2>2 DEF Tick
  <2>3. ASSUME NEW q \in Requests, Arrive(q)
        PROVE  Because(r)
    BY <1>1, <2>1, <2>3 DEF Arrive, Goto
  <2>4. ASSUME NEW q \in Requests, Fallback(q)
        PROVE  Because(r)
    BY <1>1, <2>1, <2>4 DEF Fallback, Goto, Inv, TypeOK, FallbackTier
  <2>5. ASSUME NEW q \in Requests, NEW k \in Keys, Again(q, k)
        PROVE  Because(r)
    BY <1>1, <2>1, <2>5 DEF Again
  <2>6. ASSUME NEW q \in Requests, Allow(q)
        PROVE  Because(r)
    <3>1. CASE Known(q)
      BY <1>1, <2>1, <3>1 DEF Known, Take, Goto, Inv, NoExtraBurst, TypeOK
    <3>2. CASE Admitted(q)
      BY <1>1, <2>1, <3>2, SizesAssumption DEF Admitted, Take, Goto
    <3>3. CASE NotKeyed(q)
      <4> DEFINE busy == {k \in Keys : ideal[k] < Burst}
      <4>1. AtCapacity(Swept) /\ q = r /\ tier # "ip"
        BY <1>1, <2>1, <3>3 DEF NotKeyed, Unkeyed, Goto
      <4>2. Swept \subseteq busy
        BY <1>1, <4>1, SweptKeys DEF Inv, NoExtraBurst, TypeOK
      <4>3. Cardinality(Swept) <= Cardinality(busy) /\ Cardinality(busy) \in Nat
        <5> HIDE DEF busy
        <5>1. IsFiniteSet(busy) /\ Cardinality(busy) \in Nat
          BY HeldFinite DEF busy
        <5> QED
          BY <4>2, <5>1, FS_Subset
      <4>4. Cardinality(Swept) \in Nat
        BY <1>1, SweptKeys, HeldFinite DEF Inv, TypeOK
      <4>5. Cardinality(busy) >= MaxKeys
        BY <4>1, <4>3, <4>4, SizesAssumption DEF AtCapacity
      <4> QED
        BY <1>1, <4>1, <4>5, TierAssumption DEF Inv, TypeOK
    <3> QED
      BY <2>6, <3>1, <3>2, <3>3 DEF Allow
  <2> QED
    BY <1>1, <2>2, <2>3, <2>4, <2>5, <2>6 DEF Next
<1>2. Inv /\ [Next]_vars =>
        [\A r \in Requests : pc[r] # "refused" /\ pc'[r] = "refused" => Because(r)]_vars
  BY <1>1
<1> QED
  BY <1>2, Invariance, PTL DEF Spec, RefusalJustified
=============================================================================
