-------------------------- MODULE RetentionProofs --------------------------
(***************************************************************************)
(* Proofs about what the agent keeps and for how long: its own log         *)
(* (LogRotation), the audit table (AuditRetention) and, in memory, the     *)
(* lines of a container's log it reads (LogRead), for any ages, intervals, *)
(* limits and number of devices.                                           *)
(*                                                                         *)
(* The log: by the next tick of the ticker, which empties the file unless  *)
(* the rotation fails, its first line is not older than the age and one    *)
(* interval, and one more for each pass in a row that failed.              *)
(*                                                                         *)
(* The audit table: no set of rows is counted out.  The rows that a pass   *)
(* leaves are told apart by their rank, a number up to MaxRows, and those  *)
(* of its share by their device and their number among its rows; so the    *)
(* count follows from an injection, and a row within an even share is out  *)
(* of reach of both.                                                       *)
(*                                                                         *)
(* A read: a buffer takes what fits, and the list is at every moment the   *)
(* beginning of the lines that were given to it.  The lines: of the bytes  *)
(* of a stream that have been pushed, those up to the last newline have    *)
(* been given as lines, and the rest is in the buffer or, if it was too    *)
(* long, has been given and is being dropped.  Positions are only ever     *)
(* added after the ones there are, so no induction over the bytes is       *)
(* needed: a round of push adds one line, or none.                         *)
(***************************************************************************)
EXTENDS LogRotation, AuditRetention, LogRead, FiniteSetTheorems,
        SequenceTheorems, WellFoundedInduction, TLAPS

-----------------------------------------------------------------------------
(* The log *)

\* What the passes that failed since the last rotation have added to the age a
\* line may reach.
Allowance == LogMaxAge + Interval * (1 + misses)

\* The file is within its allowance, and will be until the next tick of the
\* ticker, which empties it or adds to the allowance.
YoungAtTick ==
  current.lines =>
    /\ uptime <= current.first + Allowance
    /\ rotator = "waiting" => uptime + ticker <= current.first + Allowance

LogInv == LogTypeOK /\ YoungAtTick

USE LimitsAssumption

\* One failed pass more allows one interval more.
LEMMA OneMoreMiss ==
  ASSUME NEW m \in Nat
  PROVE  /\ Interval * (1 + m) \in Nat
         /\ Interval * (1 + m) >= Interval
         /\ Interval * (1 + (m + 1)) = Interval * (1 + m) + Interval
<1>1. Interval \in Nat
  OBVIOUS
<1>2. Interval * m \in Nat
  BY <1>1, SMT
<1>3. Interval * (1 + m) = Interval + Interval * m
  BY <1>1, SMT
<1>4. Interval * (1 + (m + 1)) = Interval + (Interval + Interval * m)
  BY <1>1, SMT
<1> QED
  BY <1>1, <1>2, <1>3, <1>4

\* So the allowance is a number that a failed pass raises by an interval and
\* that nothing but a rotation lowers.
LEMMA AllowanceGrows ==
  ASSUME LogTypeOK
  PROVE  /\ Allowance \in Nat /\ Allowance >= LogMaxAge + Interval
         /\ misses' = misses => Allowance' = Allowance
         /\ Missed => Allowance' = Allowance + Interval /\ misses' \in Nat
<1>1. misses \in Nat
  BY DEF LogTypeOK
<1>2. /\ Interval * (1 + misses) \in Nat
      /\ Interval * (1 + misses) >= Interval
      /\ Interval * (1 + (misses + 1)) = Interval * (1 + misses) + Interval
  BY <1>1, OneMoreMiss
<1>3. misses' = misses => Allowance' = Allowance
  BY DEF Allowance
<1>4. ASSUME Missed PROVE Allowance' = Allowance + Interval
  <2>1. Interval * (1 + misses') = Interval * (1 + (misses + 1))
    BY <1>4 DEF Missed
  <2> DEFINE a == Interval * (1 + misses)
             b == Interval * (1 + misses')
  <2>2. b = a + Interval /\ a \in Nat
    BY <1>2, <2>1
  <2>3. Allowance = LogMaxAge + a /\ Allowance' = LogMaxAge + b
    BY DEF Allowance
  <2> HIDE DEF a, b
  <2> QED
    BY <2>2, <2>3
<1>5. Missed => misses' \in Nat
  BY <1>1 DEF Missed
<1>6. Allowance \in Nat /\ Allowance >= LogMaxAge + Interval
  <2> DEFINE a == Interval * (1 + misses)
  <2>1. a \in Nat /\ a >= Interval /\ Allowance = LogMaxAge + a
    BY <1>2 DEF Allowance
  <2> HIDE DEF a
  <2> QED
    BY <2>1
<1> QED
  BY <1>3, <1>4, <1>5, <1>6

\* A rotation leaves an empty file and one backup more.
LEMMA RotatedKeeps ==
  ASSUME LogTypeOK, Rotated, uptime' = uptime
  PROVE  /\ current' = Empty /\ current' \in Files /\ current'.first <= uptime'
         /\ ~current'.lines /\ misses' \in Nat
         /\ backups' \subseteq 0..uptime' /\ mill' \in BOOLEAN
BY DEF LogTypeOK, Rotated, Empty, Files

\* One line more makes no file older.
LEMMA OneMoreLineKeeps ==
  ASSUME LogTypeOK, current' = OneMoreLine, uptime' = uptime
  PROVE  /\ current' \in Files /\ current'.lines
         /\ current'.first <= uptime' /\ current'.first \in Nat
         /\ current'.first = (IF current.lines THEN current.first ELSE uptime)
<1>1. CASE current.lines
  <2>1. current' = [first |-> current.first, lines |-> current.lines,
                    garbled |-> current.garbled, own |-> TRUE]
    BY <1>1 DEF OneMoreLine, LogTypeOK, Files
  <2> QED
    BY <1>1, <2>1 DEF LogTypeOK, Files
<1>2. CASE ~current.lines
  <2>1. current' = [first |-> uptime, lines |-> TRUE, garbled |-> FALSE, own |-> TRUE]
    BY <1>2 DEF OneMoreLine, Empty
  <2> QED
    BY <1>2, <2>1 DEF LogTypeOK, Files
<1> QED
  BY <1>1, <1>2

\* Every step keeps the types.
LEMMA LogTypeStep ==
  ASSUME LogTypeOK, [LogNext]_logVars
  PROVE  LogTypeOK'
<1>1. CASE Log
  BY <1>1, OneMoreLineKeeps DEF Log, LogTypeOK
<1>2. CASE SizeRotation
  BY <1>2, RotatedKeeps DEF SizeRotation, LogTypeOK
<1>3. CASE Mill
  BY <1>3 DEF Mill, Newest, LogTypeOK
<1>4. CASE StartupRotate
  <2>1. uptime' = uptime /\ rotator' = "waiting" /\ ticker' = Interval
    BY <1>4 DEF StartupRotate
  <2>2. CASE Rotated /\ moved' = (moved \/ (current.own /\ ~current.garbled))
    <3>1. moved' \in BOOLEAN
      BY <2>2
    <3> QED
      BY <2>1, <2>2, <3>1, RotatedKeeps DEF LogTypeOK
  <2>3. CASE RotationFails /\ UNCHANGED moved
    BY <2>1, <2>3, OneMoreLineKeeps, AllowanceGrows DEF RotationFails, LogTypeOK
  <2>4. CASE Missed /\ UNCHANGED <<current, backups, mill, moved>>
    BY <2>1, <2>4, AllowanceGrows DEF LogTypeOK
  <2>5. CASE UNCHANGED <<current, backups, mill, misses, moved>>
    BY <2>1, <2>5 DEF LogTypeOK
  <2> QED
    BY <1>4, <2>2, <2>3, <2>4, <2>5 DEF StartupRotate
<1>5. CASE RotateOnce
  <2>1. CASE Rotated
    BY <1>5, <2>1, RotatedKeeps DEF RotateOnce, NextTick, LogTypeOK
  <2>2. CASE RotationFails
    BY <1>5, <2>2, OneMoreLineKeeps, AllowanceGrows
       DEF RotateOnce, NextTick, RotationFails, LogTypeOK
  <2> QED
    BY <1>5, <2>1, <2>2 DEF RotateOnce
<1>6. CASE LogTick
  BY <1>6 DEF LogTick, LogTypeOK, Files
<1>7. CASE Crash
  <2>1. PICK cut \in BOOLEAN :
          /\ cut => current.lines /\ current.own /\ current.first = uptime
          /\ current' = [current EXCEPT !.own = FALSE, !.garbled = @ \/ cut]
    BY <1>7 DEF Crash
  <2>2. current' = [first |-> current.first, lines |-> current.lines,
                    garbled |-> current.garbled \/ cut, own |-> FALSE]
    BY <2>1 DEF LogTypeOK, Files
  <2>3. (current.garbled \/ cut) \in BOOLEAN
    OBVIOUS
  <2>4. current' \in Files /\ current'.first = current.first
    BY <2>2, <2>3 DEF LogTypeOK, Files
  <2>5. ~current.lines => current' = Empty
    <3> SUFFICES ASSUME ~current.lines PROVE current' = Empty
      OBVIOUS
    <3>1. ~cut /\ current = Empty
      BY <2>1 DEF LogTypeOK
    <3> QED
      BY <2>1, <3>1 DEF Empty
  <2>6. current'.lines = current.lines
    BY <2>2
  <2> QED
    BY <1>7, <2>4, <2>5, <2>6 DEF Crash, LogTypeOK
<1>8. CASE Boot
  BY <1>8 DEF Boot, LogTypeOK
<1>9. CASE UNCHANGED logVars
  BY <1>9 DEF logVars, LogTypeOK
<1> QED
  BY <1>1, <1>2, <1>3, <1>4, <1>5, <1>6, <1>7, <1>8, <1>9 DEF LogNext

\* Every step leaves the current file within its allowance.
LEMMA YoungStep ==
  ASSUME LogInv, [LogNext]_logVars
  PROVE  YoungAtTick'
<1>0. LogTypeOK /\ LogTypeOK'
  BY LogTypeStep DEF LogInv
<1>a. /\ Allowance \in Nat /\ Allowance >= LogMaxAge + Interval
      /\ misses' = misses => Allowance' = Allowance
      /\ Missed => Allowance' = Allowance + Interval
  BY <1>0, AllowanceGrows
<1>t. /\ uptime \in Nat /\ current.first \in Nat /\ ticker \in Nat
      /\ uptime' \in Nat /\ current'.first \in Nat /\ ticker' \in Nat
      /\ ticker' <= Interval /\ current.first <= uptime
      /\ LogMaxAge \in Nat /\ Interval \in Nat
  BY <1>0 DEF LogTypeOK, Files
<1> USE DEF LogInv, YoungAtTick
\* A pass that fails keeps the first line and restarts the ticker.
<1>m. ASSUME Missed, uptime' = uptime, ticker' = Interval,
             current'.first = IF current.lines THEN current.first ELSE uptime
      PROVE  YoungAtTick'
  <2>1. Allowance' = Allowance + Interval
    BY <1>m, <1>a
  <2>2. CASE current.lines
    BY <1>m, <1>a, <1>t, <2>1, <2>2
  <2>3. CASE ~current.lines
    BY <1>m, <1>a, <1>t, <2>1, <2>3
  <2> QED
    BY <2>2, <2>3
<1>1. CASE Log
  <2>1. /\ current'.first = (IF current.lines THEN current.first ELSE uptime)
        /\ uptime' = uptime /\ ticker' = ticker /\ rotator' = rotator
        /\ Allowance' = Allowance
    BY <1>0, <1>1, <1>a, OneMoreLineKeeps DEF Log
  <2>2. ticker <= Interval
    BY <1>0 DEF LogTypeOK
  <2> QED
    BY <2>1, <2>2, <1>a, <1>t
<1>2. CASE SizeRotation
  BY <1>0, <1>2, RotatedKeeps DEF SizeRotation
<1>3. CASE Mill
  BY <1>3, <1>a DEF Mill
<1>4. CASE StartupRotate
  <2>1. uptime' = uptime /\ rotator' = "waiting" /\ ticker' = Interval
    BY <1>4 DEF StartupRotate
  <2>2. CASE Rotated
    BY <1>0, <2>1, <2>2, RotatedKeeps
  <2>3. CASE RotationFails
    BY <1>0, <2>1, <2>3, <1>m, OneMoreLineKeeps DEF RotationFails
  <2>4. CASE Missed /\ UNCHANGED <<current, backups, mill, moved>>
    <3>1. CASE current.lines
      BY <2>1, <2>4, <3>1, <1>m
    <3>2. CASE ~current.lines
      BY <2>4, <3>2
    <3> QED
      BY <3>1, <3>2
  <2>5. CASE ~Stale /\ UNCHANGED <<current, backups, mill, misses, moved>>
    BY <2>1, <2>5, <1>a, <1>t DEF Stale
  <2> QED
    BY <1>4, <2>2, <2>3, <2>4, <2>5 DEF StartupRotate
<1>5. CASE RotateOnce
  <2>1. CASE Rotated
    BY <1>0, <1>5, <2>1, RotatedKeeps DEF RotateOnce
  <2>2. CASE RotationFails
    BY <1>0, <1>5, <2>2, <1>m, OneMoreLineKeeps DEF RotateOnce, NextTick, RotationFails
  <2> QED
    BY <1>5, <2>1, <2>2 DEF RotateOnce
<1>6. CASE LogTick
  BY <1>6, <1>a, <1>t DEF LogTick
<1>7. CASE Crash \/ Boot
  <2>1. /\ uptime' = uptime /\ misses' = misses /\ rotator' # "waiting"
        /\ current'.first = current.first /\ current'.lines = current.lines
    BY <1>0, <1>7 DEF Crash, Boot, LogTypeOK, Files
  <2> QED
    BY <2>1, <1>a
<1>8. CASE UNCHANGED logVars
  BY <1>8, <1>a DEF logVars
<1> QED
  BY <1>1, <1>2, <1>3, <1>4, <1>5, <1>6, <1>7, <1>8 DEF LogNext

\* The inductive invariant holds in every behaviour.
THEOREM LogInvariance == LogSpec => []LogInv
<1>1. LogInit => LogInv
  <2> SUFFICES ASSUME LogInit PROVE LogInv
    OBVIOUS
  <2>1. Empty \in Files /\ Empty.first = 0 /\ ~Empty.lines
    BY DEF Files, Empty
  <2> QED
    <3>1. /\ uptime = 0 /\ current = Empty /\ backups = {} /\ rotator = "booting"
          /\ ticker = Interval /\ mill \in BOOLEAN /\ misses = 0 /\ moved \in BOOLEAN
      BY DEF LogInit
    <3> QED
      BY <2>1, <3>1 DEF LogInv, LogTypeOK, YoungAtTick
<1>2. LogInv /\ [LogNext]_logVars => LogInv'
  BY LogTypeStep, YoungStep DEF LogInv
<1> QED
  BY <1>1, <1>2, PTL DEF LogSpec

\* While the agent runs no line of agent.log is older than
\* DEVMON_LOG_MAX_AGE_DAYS and one interval, and one more for each pass in a row
\* that failed, however often it has crashed or restarted (Rotator.Run,
\* startupRotate, rotateOnce).
THEOREM LogStaysYoung == LogSpec => [](LogTypeOK /\ CurrentIsYoung)
<1>1. LogInv => LogTypeOK /\ CurrentIsYoung
  <2> SUFFICES ASSUME LogInv, rotator = "waiting", current.lines
               PROVE  uptime <= current.first + LogMaxAge + Interval * (1 + misses)
    BY DEF LogInv, CurrentIsYoung
  <2>1. uptime <= current.first + Allowance
    BY DEF LogInv, YoungAtTick
  <2>2. misses \in Nat /\ current.first \in Nat /\ uptime \in Nat
    BY DEF LogInv, LogTypeOK, Files
  <2> DEFINE a == Interval * (1 + misses)
  <2>3. a \in Nat /\ Allowance = LogMaxAge + a
    BY <2>2, OneMoreMiss DEF Allowance
  <2>4. LogMaxAge \in Nat
    OBVIOUS
  <2> HIDE DEF a
  <2>5. uptime <= current.first + LogMaxAge + a
    BY <2>1, <2>2, <2>3, <2>4
  <2> QED
    BY <2>5 DEF a
<1> QED
  BY <1>1, LogInvariance, PTL

-----------------------------------------------------------------------------
(* Counting the rows of a table *)

\* What \div gives.
LEMMA Quotient ==
  ASSUME NEW m \in Nat, NEW b \in Nat \ {0}
  PROVE  /\ m \div b \in Nat /\ b * (m \div b) <= m /\ m < b * (m \div b) + b
OBVIOUS

\* Dividing among more leaves less for each.
LEMMA QuotientOrder ==
  ASSUME NEW m \in Nat, NEW a \in Nat \ {0}, NEW b \in Nat \ {0}, a <= b
  PROVE  m \div b <= m \div a
<1> DEFINE qa == m \div a
           qb == m \div b
<1>1. qa \in Nat /\ qb \in Nat /\ b * qb <= m /\ m < a * qa + a
  BY Quotient
<1> HIDE DEF qa, qb
<1>2. SUFFICES ASSUME qb >= qa + 1
               PROVE  FALSE
  BY <1>1 DEF qa, qb
<1>3. a * qb <= b * qb
  BY <1>1
<1>4. a * (qa + 1) <= a * qb
  BY <1>1, <1>2
<1>5. a * (qa + 1) = a * qa + a
  BY <1>1
<1>6. QED
  BY <1>1, <1>3, <1>4, <1>5

\* Tables as they can be: finitely many rows, no two with one id.
IsTable(T) ==
  /\ IsFiniteSet(T) /\ T \subseteq Rows
  /\ \A q, r \in T : q.id = r.id => q = r

\* A part of a table is a table.
LEMMA PartOfTable ==
  ASSUME NEW T, IsTable(T), NEW S \in SUBSET T
  PROVE  IsTable(S) /\ Cardinality(S) \in Nat /\ Cardinality(S) <= Cardinality(T)
<1>1. IsFiniteSet(S) /\ Cardinality(S) <= Cardinality(T)
  BY FS_Subset DEF IsTable
<1>2. Cardinality(S) \in Nat
  BY <1>1, FS_CardinalityType
<1>3. QED
  BY <1>1, <1>2 DEF IsTable

\* The rows of a part of a table from some id on: fewer of them the newer
\* the id.
LEMMA RankStrict ==
  ASSUME NEW T, IsTable(T), NEW q \in T, NEW r \in T, q.id < r.id
  PROVE  /\ Cardinality({x \in T : x.id >= r.id}) < Cardinality({x \in T : x.id >= q.id})
<1> DEFINE Q == {x \in T : x.id >= q.id}
           R == {x \in T : x.id >= r.id}
<1>0. \A x \in T : x.id \in Nat
  BY DEF IsTable, Rows
<1>1. R \in SUBSET Q /\ q \in Q /\ q \notin R
  BY <1>0
<1>2. IsFiniteSet(Q) /\ Cardinality(Q) \in Nat
  BY PartOfTable DEF IsTable
<1>3. Cardinality(R) <= Cardinality(Q) /\ Cardinality(R) # Cardinality(Q)
  BY <1>1, <1>2, FS_Subset
<1>4. Cardinality(R) \in Nat
  BY PartOfTable
<1>5. QED
  BY <1>2, <1>3, <1>4

\* The rank of a row in a table is at least 1, and its own.
LEMMA RankInjective ==
  ASSUME NEW T, IsTable(T), NEW q \in T, NEW r \in T,
         Cardinality({x \in T : x.id >= q.id}) = Cardinality({x \in T : x.id >= r.id})
  PROVE  q = r
<1>0. q.id \in Nat /\ r.id \in Nat
  BY DEF IsTable, Rows
<1>1. Cardinality({x \in T : x.id >= q.id}) \in Nat
  BY PartOfTable
<1>2. ~(q.id < r.id) /\ ~(r.id < q.id)
  BY <1>1, RankStrict
<1>3. QED
  BY <1>0, <1>2 DEF IsTable

\* The rank of a row counts the row itself.
LEMMA RankPositive ==
  ASSUME NEW T, IsTable(T), NEW r \in T
  PROVE  /\ Cardinality({x \in T : x.id >= r.id}) \in Nat
         /\ Cardinality({x \in T : x.id >= r.id}) >= 1
<1> DEFINE R == {x \in T : x.id >= r.id}
<1>1. r.id \in Nat
  BY DEF IsTable, Rows
<1>2. r \in R
  BY <1>1
<1>3. IsFiniteSet(R) /\ Cardinality(R) \in Nat
  BY PartOfTable DEF IsTable
<1>4. Cardinality(R) # 0
  BY <1>2, <1>3, FS_EmptySet
<1>5. QED
  BY <1>3, <1>4

\* The count pass leaves at most MaxRows rows: their ranks are different
\* numbers up to MaxRows.
LEMMA CountBounded ==
  ASSUME NEW T, IsTable(T)
  PROVE  IsFiniteSet(CountPass(T)) /\ Cardinality(CountPass(T)) <= MaxRows
<1> DEFINE S == CountPass(T)
           f == [r \in S |-> Cardinality({q \in T : q.id >= r.id})]
<1>1. S \subseteq T /\ \A r \in S : Cardinality({q \in T : q.id >= r.id}) <= MaxRows
  BY DEF CountPass
<1>2. \A r \in S : Cardinality({q \in T : q.id >= r.id}) \in 1..MaxRows
  BY <1>1, RankPositive, BoundsAssumption
<1>3. f \in [S -> 1..MaxRows]
  BY <1>2
<1>4. \A q, r \in S : f[q] = f[r] => q = r
  BY <1>1, RankInjective
<1>5. f \in Injection(S, 1..MaxRows)
  BY <1>3, <1>4 DEF Injection, IsInjective
<1>6. IsFiniteSet(1..MaxRows) /\ Cardinality(1..MaxRows) = MaxRows
  BY FS_Interval, BoundsAssumption
<1>7. QED
  BY <1>5, <1>6, FS_Injection

\* The devices with rows in a table.
DevsOf(T) == {r.dev : r \in T}

\* There are finitely many, at least one if there is a row, and no more in a
\* part of the table.
LEMMA DevsAre ==
  ASSUME NEW T, IsTable(T), NEW S \in SUBSET T, S # {}
  PROVE  /\ IsFiniteSet(DevsOf(S)) /\ Cardinality(DevsOf(S)) \in Nat \ {0}
         /\ Cardinality(DevsOf(T)) \in Nat \ {0}
         /\ Cardinality(DevsOf(S)) <= Cardinality(DevsOf(T))
<1>1. DevsOf(T) \subseteq Buckets /\ DevsOf(S) \subseteq DevsOf(T)
  BY DEF DevsOf, IsTable, Rows
<1>2. IsFiniteSet(DevsOf(T))
  BY <1>1, FS_Subset, BucketsAssumption
<1>3. IsFiniteSet(DevsOf(S)) /\ Cardinality(DevsOf(S)) <= Cardinality(DevsOf(T))
  BY <1>1, <1>2, FS_Subset
<1>4. Cardinality(DevsOf(S)) \in Nat /\ Cardinality(DevsOf(T)) \in Nat
  BY <1>2, <1>3, FS_CardinalityType
<1>5. DevsOf(S) # {}
  BY DEF DevsOf
<1>6. Cardinality(DevsOf(S)) # 0
  BY <1>3, <1>5, FS_EmptySet
<1>7. QED
  BY <1>3, <1>4, <1>6

\* The rows of one device are a table, in which RowNumber is the rank.
LEMMA RowNumberIs ==
  ASSUME NEW T, IsTable(T), NEW r \in T
  PROVE  /\ IsTable({q \in T : q.dev = r.dev})
         /\ RowNumber(T, r) = Cardinality({x \in {q \in T : q.dev = r.dev} : x.id >= r.id})
         /\ RowNumber(T, r) \in Nat /\ RowNumber(T, r) >= 1
<1> DEFINE D == {q \in T : q.dev = r.dev}
<1>1. IsTable(D)
  BY PartOfTable
<1>2. {q \in T : q.dev = r.dev /\ q.id >= r.id} = {x \in D : x.id >= r.id}
  OBVIOUS
<1>3. RowNumber(T, r) = Cardinality({x \in D : x.id >= r.id})
  BY <1>2 DEF RowNumber
<1>4. r \in D
  OBVIOUS
<1> HIDE DEF D
<1>5. Cardinality({x \in D : x.id >= r.id}) \in Nat
      /\ Cardinality({x \in D : x.id >= r.id}) >= 1
  BY <1>1, <1>4, RankPositive
<1>6. QED
  BY <1>1, <1>3, <1>5 DEF D

\* Among more rows, the number of a row is greater.
LEMMA RowNumberGrows ==
  ASSUME NEW T, IsTable(T), NEW S \in SUBSET T, NEW r \in S
  PROVE  RowNumber(S, r) <= RowNumber(T, r)
<1> DEFINE X == {q \in S : q.dev = r.dev /\ q.id >= r.id}
           Y == {q \in T : q.dev = r.dev /\ q.id >= r.id}
<1>1. X \in SUBSET Y /\ Y \in SUBSET T
  OBVIOUS
<1>2. IsFiniteSet(Y)
  BY <1>1, PartOfTable DEF IsTable
<1>3. Cardinality(X) <= Cardinality(Y)
  BY <1>1, <1>2, FS_Subset
<1>4. QED
  BY <1>3 DEF RowNumber

\* The share of a device is at least 1, and what MaxRows gives it if that is
\* more.
LEMMA PerDeviceIs ==
  ASSUME NEW T, IsTable(T), T # {}
  PROVE  /\ PerDevice(T) \in Nat /\ PerDevice(T) >= 1
         /\ PerDevice(T) >= MaxRows \div Cardinality(DevsOf(T))
         /\ MaxRows \div Cardinality(DevsOf(T)) >= 1 =>
              Cardinality(DevsOf(T)) * PerDevice(T) <= MaxRows
<1> DEFINE b == Cardinality(DevsOf(T))
           k == MaxRows \div b
<1>1. b \in Nat \ {0}
  BY DevsAre
<1>2. PerDevice(T) = IF k < 1 THEN 1 ELSE k
  BY DEF PerDevice, DevsOf
<1>3. MaxRows \in Nat
  BY BoundsAssumption
<1> HIDE DEF b
<1>4. k \in Nat /\ b * k <= MaxRows
  BY <1>1, <1>3, Quotient
<1> HIDE DEF k
<1>5. QED
  BY <1>1, <1>2, <1>3, <1>4 DEF k, b

\* The share pass leaves no more rows than its devices have shares: device
\* and number tell its rows apart.
LEMMA ShareBounded ==
  ASSUME NEW T, IsTable(T), T # {}
  PROVE  Cardinality(SharePass(T)) <= Cardinality(DevsOf(T)) * PerDevice(T)
<1> DEFINE S == SharePass(T)
           k == PerDevice(T)
           D == DevsOf(T)
           f == [r \in S |-> <<r.dev, RowNumber(T, r)>>]
<1>0. k \in Nat
  BY PerDeviceIs
<1>1. S \subseteq T /\ \A r \in S : RowNumber(T, r) <= k
  BY DEF SharePass
<1>2. \A r \in S : r.dev \in D /\ RowNumber(T, r) \in 1..k
  <2> SUFFICES ASSUME NEW r \in S
               PROVE  r.dev \in D /\ RowNumber(T, r) \in 1..k
    OBVIOUS
  <2>1. r \in T /\ RowNumber(T, r) <= k
    BY <1>1
  <2>2. RowNumber(T, r) \in Nat /\ RowNumber(T, r) >= 1
    BY <2>1, RowNumberIs
  <2>3. r.dev \in D
    BY <2>1 DEF DevsOf
  <2>4. QED
    BY <1>0, <2>1, <2>2, <2>3
<1> HIDE DEF S, k, D
<1>3. f \in [S -> D \X (1..k)]
  BY <1>2
<1>4. ASSUME NEW q \in S, NEW r \in S, f[q] = f[r]
      PROVE  q = r
  <2> DEFINE E == {x \in T : x.dev = r.dev}
  <2>1. q.dev = r.dev /\ RowNumber(T, q) = RowNumber(T, r)
    BY <1>4
  <2>2. q \in T /\ r \in T
    BY <1>1
  <2>3. IsTable(E) /\ q \in E /\ r \in E
    BY <2>1, <2>2, PartOfTable
  <2>4. RowNumber(T, r) = Cardinality({x \in E : x.id >= r.id})
    BY <2>2, RowNumberIs
  <2>5. RowNumber(T, q) = Cardinality({x \in E : x.id >= q.id})
    <3>1. {x \in T : x.dev = q.dev} = E
      BY <2>1
    <3>2. RowNumber(T, q) = Cardinality({x \in {y \in T : y.dev = q.dev} : x.id >= q.id})
      BY <2>2, RowNumberIs
    <3>3. QED
      BY <3>1, <3>2
  <2> HIDE DEF E
  <2>6. Cardinality({x \in E : x.id >= q.id}) = Cardinality({x \in E : x.id >= r.id})
    BY <2>1, <2>4, <2>5
  <2>7. QED
    BY <2>3, <2>6, RankInjective
<1>5. f \in Injection(S, D \X (1..k))
  BY <1>3, <1>4 DEF Injection, IsInjective
<1>6. IsFiniteSet(1..k) /\ Cardinality(1..k) = k
  BY <1>0, FS_Interval
<1>7. IsFiniteSet(D)
  BY DevsAre DEF D
<1>8. IsFiniteSet(D \X (1..k)) /\ Cardinality(D \X (1..k)) = Cardinality(D) * k
  BY <1>6, <1>7, FS_Product
<1>9. QED
  BY <1>5, <1>8, FS_Injection DEF S, D, k

\* A pass spares the newest rows of each device, up to an even share of the
\* table among the devices that ever wrote: neither its share nor the count
\* reaches them.
LEMMA PassSpares ==
  ASSUME NEW H, IsTable(H), NEW T \in SUBSET H, NEW now \in Int, NEW r \in T,
         r.at >= now - MaxAge, RowNumber(H, r) <= MaxRows \div Cardinality(DevsOf(H))
  PROVE  r \in Pruned(T, now)
<1> DEFINE A == AgePass(T, now - MaxAge)
           S == SharePass(A)
           d == Cardinality(DevsOf(A))
<1>1. r \in A /\ A \in SUBSET H /\ A # {}
  BY DEF AgePass
<1>2. IsTable(A)
  BY <1>1, PartOfTable
<1>3. d \in Nat \ {0} /\ Cardinality(DevsOf(H)) \in Nat \ {0} /\ d <= Cardinality(DevsOf(H))
  BY <1>1, DevsAre
<1>4. MaxRows \div Cardinality(DevsOf(H)) <= MaxRows \div d
      /\ MaxRows \div Cardinality(DevsOf(H)) \in Nat /\ MaxRows \div d \in Nat
  BY <1>3, QuotientOrder, Quotient, BoundsAssumption
<1>5. RowNumber(A, r) <= RowNumber(H, r) /\ RowNumber(A, r) \in Nat /\ RowNumber(A, r) >= 1
      /\ RowNumber(H, r) \in Nat
  BY <1>1, <1>2, RowNumberGrows, RowNumberIs
<1>6. MaxRows \div d >= 1 /\ RowNumber(A, r) <= MaxRows \div d
  BY <1>4, <1>5
<1>7. PerDevice(A) \in Nat /\ PerDevice(A) >= MaxRows \div d /\ d * PerDevice(A) <= MaxRows
  BY <1>1, <1>2, <1>6, PerDeviceIs
<1>8. RowNumber(A, r) <= PerDevice(A)
  BY <1>4, <1>5, <1>6, <1>7
<1>9. r \in S /\ S \in SUBSET A
  BY <1>1, <1>8 DEF SharePass
<1>10. Cardinality(S) <= d * PerDevice(A)
  BY <1>1, <1>2, ShareBounded
<1> HIDE DEF A, d
<1>11. IsTable(S) /\ Cardinality(S) \in Nat
  BY <1>2, <1>9, PartOfTable
<1> HIDE DEF S
<1>12. Cardinality({q \in S : q.id >= r.id}) <= Cardinality(S)
       /\ Cardinality({q \in S : q.id >= r.id}) \in Nat
  BY <1>11, PartOfTable
<1>13. Cardinality({q \in S : q.id >= r.id}) <= MaxRows
  <2>1. d * PerDevice(A) \in Nat /\ MaxRows \in Nat
    BY <1>3, <1>7, BoundsAssumption
  <2>2. QED
    BY <1>7, <1>10, <1>11, <1>12, <2>1
<1>14. r \in CountPass(S)
  BY <1>9, <1>13 DEF CountPass
<1>15. QED
  BY <1>14 DEF Pruned, S, A

\* Every id in use was given out.
AuditInv ==
  /\ TypeOK
  /\ IsFiniteSet(history) /\ \A r \in history : r.id <= Cardinality(history)
  /\ DiskBudget /\ RecentRowsKept

\* The history and the table are tables.
LEMMA AreTables ==
  ASSUME AuditInv
  PROVE  /\ IsTable(history) /\ IsTable(audit)
         /\ Cardinality(history) \in Nat /\ Cardinality(audit) \in Nat
<1>1. IsTable(history)
  BY DEF AuditInv, TypeOK, IsTable
<1>2. audit \in SUBSET history /\ history \in SUBSET history
  BY DEF AuditInv, TypeOK
<1>3. QED
  BY <1>1, <1>2, PartOfTable

\* A pass keeps the invariant, and brings the table within its budget.
LEMMA PassKeeps ==
  ASSUME AuditInv, PruneAudit, pruner' \in {"starting", "waiting", "due"}
  PROVE  AuditInv'
<1> DEFINE S == SharePass(AgePass(audit, clock - MaxAge))
<1>1. /\ audit' = CountPass(S) /\ unpruned' = 0 /\ history' = history /\ clock' = clock
      /\ clock \in Nat
  BY DEF PruneAudit, Pruned, AuditInv, TypeOK
<1>2. S \in SUBSET audit
  BY DEF SharePass, AgePass
<1>3. IsTable(S)
  BY <1>2, AreTables, PartOfTable
<1>4. audit' \subseteq audit
  BY <1>1, <1>2 DEF CountPass
<1> HIDE DEF S
<1>5. DiskBudget'
  BY <1>1, <1>3, CountBounded, BoundsAssumption DEF DiskBudget
<1>6. RecentRowsKept'
  <2> SUFFICES ASSUME NEW r \in history, r.at >= clock - MaxAge,
                      Recency(r) <= MaxRows \div Cardinality({q.dev : q \in history})
               PROVE  r \in audit'
    BY <1>1 DEF RecentRowsKept, Recency
  <2>1. r \in audit
    BY DEF AuditInv, RecentRowsKept
  <2>2. audit \in SUBSET history
    BY DEF AuditInv, TypeOK
  <2>3. RowNumber(history, r) <= MaxRows \div Cardinality(DevsOf(history))
    BY DEF Recency, DevsOf
  <2>4. r \in Pruned(audit, clock)
    BY <1>1, <2>1, <2>2, <2>3, AreTables, PassSpares
  <2>5. QED
    BY <2>4 DEF PruneAudit
<1>7. QED
  BY <1>1, <1>4, <1>5, <1>6 DEF AuditInv, TypeOK

\* A new row keeps the invariant: it is in the table, and makes every other
\* row less recent and every share smaller.
LEMMA AppendKeeps ==
  ASSUME AuditInv, NEW d \in Buckets, NEW at \in Nat, AppendAudit(d, at)
  PROVE  AuditInv'
<1> DEFINE n   == Cardinality(history) + 1
           row == [id |-> n, dev |-> d, at |-> at]
<1>1. /\ audit' = audit \cup {row} /\ history' = history \cup {row}
      /\ unpruned' = unpruned + 1 /\ UNCHANGED <<clock, pruner>>
  BY DEF AppendAudit
<1>2. n \in Nat /\ n = Cardinality(history) + 1 /\ Cardinality(history) \in Nat
  BY AreTables
<1>3. row \in Rows /\ row.id = n
  BY <1>2 DEF Rows
<1>4. \A r \in history : r.id \in Nat /\ r.id < n
  BY <1>2 DEF AuditInv, TypeOK, Rows
<1> HIDE DEF row, n
<1>5. row \notin history
  BY <1>2, <1>3, <1>4
<1>6. IsFiniteSet(history') /\ Cardinality(history') = n
  BY <1>1, <1>2, <1>5, FS_AddElement DEF AuditInv
<1>7. TypeOK'
  <2>1. audit' \subseteq history' /\ history' \subseteq Rows
    BY <1>1, <1>3 DEF AuditInv, TypeOK
  <2>2. \A q, r \in history' : q.id = r.id => q = r
    BY <1>1, <1>2, <1>3, <1>4 DEF AuditInv, TypeOK
  <2>3. QED
    BY <1>1, <2>1, <2>2 DEF AuditInv, TypeOK
<1>8. \A r \in history' : r.id <= Cardinality(history')
  BY <1>1, <1>2, <1>3, <1>4, <1>6
<1>9. DiskBudget'
  <2>1. IsFiniteSet(audit) /\ Cardinality(audit) \in Nat /\ unpruned \in Nat /\ MaxRows \in Nat
        /\ Cardinality(audit) <= MaxRows + unpruned
    BY AreTables, BoundsAssumption DEF IsTable, AuditInv, TypeOK, DiskBudget
  <2>2. Cardinality(audit') \in {Cardinality(audit), Cardinality(audit) + 1}
    BY <1>1, <2>1, FS_AddElement
  <2>3. QED
    BY <1>1, <2>1, <2>2 DEF DiskBudget
<1>10. IsTable(history')
  BY <1>6, <1>7 DEF TypeOK, IsTable
<1>11. RecentRowsKept'
  <2> SUFFICES ASSUME NEW r \in history', r.at >= clock - MaxAge,
                      RowNumber(history', r) <= MaxRows \div Cardinality(DevsOf(history'))
               PROVE  r \in audit'
    BY <1>1 DEF RecentRowsKept, Recency, DevsOf
  <2>1. CASE r = row
    BY <1>1, <2>1
  <2>2. CASE r # row
    <3>1. r \in history /\ history \in SUBSET history' /\ history # {}
      BY <1>1, <2>2
    <3>2. RowNumber(history, r) <= RowNumber(history', r)
          /\ RowNumber(history, r) \in Nat /\ RowNumber(history', r) \in Nat
      BY <1>10, <3>1, AreTables, RowNumberGrows, RowNumberIs
    <3>3. /\ Cardinality(DevsOf(history)) \in Nat \ {0}
          /\ Cardinality(DevsOf(history')) \in Nat \ {0}
          /\ Cardinality(DevsOf(history)) <= Cardinality(DevsOf(history'))
      BY <1>10, <3>1, DevsAre
    <3>4. /\ MaxRows \div Cardinality(DevsOf(history'))
               <= MaxRows \div Cardinality(DevsOf(history))
          /\ MaxRows \div Cardinality(DevsOf(history)) \in Nat
          /\ MaxRows \div Cardinality(DevsOf(history')) \in Nat
      BY <3>3, QuotientOrder, Quotient, BoundsAssumption
    <3>5. Recency(r) <= MaxRows \div Cardinality({q.dev : q \in history})
      BY <3>2, <3>4 DEF Recency, DevsOf
    <3>6. r \in audit
      BY <3>1, <3>5 DEF AuditInv, RecentRowsKept
    <3>7. QED
      BY <1>1, <3>6
  <2>3. QED
    BY <2>1, <2>2
<1>12. QED
  BY <1>6, <1>7, <1>8, <1>9, <1>11 DEF AuditInv

\* The invariant holds in every behaviour.
THEOREM AuditInvariance == Spec => []AuditInv
<1>1. Init => AuditInv
  <2> SUFFICES ASSUME Init PROVE AuditInv
    OBVIOUS
  <2>1. IsFiniteSet({}) /\ Cardinality({}) = 0
    BY FS_EmptySet
  <2>2. QED
    BY <2>1, BoundsAssumption DEF Init, AuditInv, TypeOK, DiskBudget, RecentRowsKept
<1>2. AuditInv /\ [Next]_vars => AuditInv'
  <2> SUFFICES ASSUME AuditInv, [Next]_vars PROVE AuditInv'
    OBVIOUS
  <2>1. CASE \E d \in Buckets : \E at \in {clock, clock - 1} \cap Nat : AppendAudit(d, at)
    BY <2>1, AppendKeeps
  <2>2. CASE StartupPass \/ TickerPass
    BY <2>2, PassKeeps DEF StartupPass, TickerPass
  <2>3. CASE IntervalPasses \/ PassFails \/ Restart \/ UNCHANGED vars
    BY <2>3 DEF IntervalPasses, PassFails, Restart, vars, AuditInv, TypeOK, DiskBudget,
       RecentRowsKept, Recency
  <2>4. CASE Tick
    <3>1. clock' = clock + 1 /\ UNCHANGED <<audit, history, unpruned, pruner>>
      BY <2>4 DEF Tick
    <3>2. TypeOK' /\ DiskBudget'
      BY <3>1 DEF AuditInv, TypeOK, DiskBudget
    <3>3. \A r \in history : r.at \in Nat
      BY DEF AuditInv, TypeOK, Rows
    <3>4. \A r \in history : r.at >= clock' - MaxAge => r.at >= clock - MaxAge
      BY <3>1, <3>3, BoundsAssumption DEF AuditInv, TypeOK
    <3>5. RecentRowsKept'
      BY <3>1, <3>4 DEF AuditInv, RecentRowsKept, Recency
    <3>6. QED
      BY <3>1, <3>2, <3>5 DEF AuditInv
  <2>5. QED
    BY <2>1, <2>2, <2>3, <2>4 DEF Next
<1>3. QED
  BY <1>1, <1>2, PTL DEF Spec

\* The audit table is within DEVMON_AUDIT_MAX_ROWS and what was written since
\* the last pass that committed, with any number of devices and however
\* passes fail and the agent restarts (PruneAudit's count pass).
THEOREM AuditKeepsBudget == Spec => [](TypeOK /\ DiskBudget)
<1>1. AuditInv => TypeOK /\ DiskBudget
  BY DEF AuditInv
<1>2. QED
  BY AuditInvariance, <1>1, PTL

\* No device evicts another's recent rows, whatever is written by whom and
\* however passes and restarts fall (pruneAuditByDeviceShare).
THEOREM RecentRowsStay == Spec => []RecentRowsKept
<1>1. AuditInv => RecentRowsKept
  BY DEF AuditInv
<1>2. QED
  BY AuditInvariance, <1>1, PTL

-----------------------------------------------------------------------------
(* A read of a container's log *)

\* A set of numbers that is not empty has a least one.
LEMMA LeastExists ==
  ASSUME NEW I \in SUBSET Nat, I # {}
  PROVE  \E x \in I : \A y \in I : x <= y
<1> DEFINE R == OpToRel(<, Nat)
<1>1. IsWellFoundedOn(R, Nat)
  BY NatLessThanWellFounded
<1>2. R = {p \in Nat \X Nat : p[1] < p[2]}
  BY DEF OpToRel
<1> HIDE DEF R
<1>3. PICK x \in I : \A y \in I : ~(<<y, x>> \in R)
  BY <1>1, WFMin
<1>4. \A y \in I : ~(y < x)
  BY <1>2, <1>3
<1> QED
  BY <1>4

\* The first newline is a position of the payload.
LEMMA NewlineFound ==
  ASSUME NEW b \in Seq(Bytes)
  PROVE  NewlineIn(b) \in 0..Len(b)
<1> DEFINE I == {i \in 1..Len(b) : b[i] = NL}
<1>1. NewlineIn(b) = IF I # {} THEN Min(I) ELSE 0
  BY DEF NewlineIn, SelectInSeq
<1>2. I \in SUBSET Nat /\ I \subseteq 1..Len(b)
  OBVIOUS
<1> HIDE DEF I
<1>3. ASSUME I # {} PROVE Min(I) \in I
  <2>1. \E x \in I : \A y \in I : x <= y
    BY <1>2, <1>3, LeastExists
  <2> QED
    BY <2>1 DEF Min
<1>4. CASE I = {}
  <2>1. NewlineIn(b) = 0
    BY <1>1, <1>4
  <2> QED
    BY <2>1
<1>5. CASE I # {}
  <2>1. NewlineIn(b) \in 1..Len(b)
    BY <1>1, <1>2, <1>3, <1>5
  <2> QED
    BY <2>1
<1> QED
  BY <1>4, <1>5

\* What push takes off the payload, and what it leaves, are bytes.
LEMMA ChunkType ==
  ASSUME data \in Seq(Bytes)
  PROVE  Chunk \in Seq(Bytes) /\ Remaining \in Seq(Bytes)
<1>1. NewlineIn(data) \in 0..Len(data)
  BY NewlineFound
<1>2. \A i \in 1..Len(data) : data[i] \in Bytes
  OBVIOUS
<1>3. Chunk \in Seq(Bytes)
  <2>1. CASE HasNewline
    <3>1. SubSeq(data, 1, NewlineIn(data) - 1) \in Seq(Bytes)
      BY <1>1, <1>2, SubSeqProperties
    <3> QED
      BY <2>1, <3>1 DEF Chunk
  <2>2. CASE ~HasNewline
    BY <2>2 DEF Chunk
  <2> QED
    BY <2>1, <2>2
<1>4. Remaining \in Seq(Bytes)
  <2>1. CASE HasNewline
    <3>1. SubSeq(data, NewlineIn(data) + 1, Len(data)) \in Seq(Bytes)
      BY <1>1, <1>2, SubSeqProperties
    <3> QED
      BY <2>1, <3>1 DEF Remaining
  <2>2. CASE ~HasNewline
    BY <2>2 DEF Remaining
  <2> QED
    BY <2>1, <2>2
<1> QED
  BY <1>3, <1>4

\* What is added to a buffer with room for it fits.
LEMMA Fits ==
  ASSUME NEW b \in Seq(Bytes), NEW c \in Seq(Bytes), Len(b) <= MaxLine,
         NEW n \in Nat, n = MaxLine - Len(b)
  PROVE  /\ Len(c) > n => /\ b \o SubSeq(c, 1, n) \in Seq(Bytes)
                          /\ Len(b \o SubSeq(c, 1, n)) <= MaxLine
         /\ Len(c) <= n => b \o c \in Seq(Bytes) /\ Len(b \o c) <= MaxLine
<1>1. ASSUME Len(c) > n
      PROVE  SubSeq(c, 1, n) \in Seq(Bytes) /\ Len(SubSeq(c, 1, n)) = n
  <2>1. \A i \in 1..n : c[i] \in Bytes
    BY <1>1
  <2>2. /\ SubSeq(c, 1, n) \in Seq(Bytes)
        /\ Len(SubSeq(c, 1, n)) = IF 1 <= n THEN n - 1 + 1 ELSE 0
    BY <2>1, SubSeqProperties
  <2> QED
    BY <2>2
<1>2. Len(c) > n => /\ b \o SubSeq(c, 1, n) \in Seq(Bytes)
                    /\ Len(b \o SubSeq(c, 1, n)) <= MaxLine
  BY <1>1, ConcatProperties, SplitterAssumption
<1>3. Len(c) <= n => b \o c \in Seq(Bytes) /\ Len(b \o c) <= MaxLine
  BY ConcatProperties, SplitterAssumption
<1> QED
  BY <1>2, <1>3

\* A line without its carriage return is still bytes.
LEMMA TrimType ==
  ASSUME NEW text \in Seq(Bytes)
  PROVE  Trim(text) \in Seq(Bytes)
<1>1. SubSeq(text, 1, Len(text) - 1) \in Seq(Bytes)
  BY SubSeqProperties
<1> QED
  BY <1>1 DEF Trim, Front

\* What a step of the demultiplexer may do to what is held: it gives emit no
\* line, or one more.
Given(line) ==
  line \in Lines /\ emitted' = Append(emitted, line)

\* emitLine gives one line and empties its own stream's buffer.
LEMMA EmitGives ==
  ASSUME SplitterTypeOK, NEW s \in Streams, NEW text \in Seq(Bytes),
         NEW cut \in BOOLEAN, Emit(s, text, cut)
  PROVE  /\ \E line : Given(line)
         /\ buf' = [buf EXCEPT ![s] = <<>>]
<1>1. [stream |-> s, text |-> Trim(text), truncated |-> cut] \in Lines
  BY TrimType DEF Lines
<1> QED
  BY <1>1 DEF Emit, Given, state

\* The part of the invariant that is about the buffers.
HeldInv == SplitterTypeOK /\ \A s \in Streams : Len(buf[s]) <= MaxLine

\* A buffer that is emptied, or set to a text that fits, is still within bounds.
LEMMA BufferSet ==
  ASSUME HeldInv, NEW s \in Streams, NEW text \in Seq(Bytes), Len(text) <= MaxLine,
         buf' = [buf EXCEPT ![s] = text],
         discarding' \in [Streams -> BOOLEAN],
         \A q \in Streams \ {s} : discarding'[q] = discarding[q],
         discarding'[s] => text = <<>>
  PROVE  /\ buf' \in [Streams -> Seq(Bytes)]
         /\ \A q \in Streams : discarding'[q] => buf'[q] = <<>>
         /\ \A q \in Streams : Len(buf'[q]) <= MaxLine
  BY DEF HeldInv, SplitterTypeOK

\* One round of push keeps every buffer within maxLogLineBytes.
LEMMA PushKeeps ==
  ASSUME HeldInv, Push
  PROVE  HeldInv' /\ (UNCHANGED emitted \/ \E line : Given(line))
<1> DEFINE s == stream
           room == MaxLine - Len(buf[s])
<1> USE DEF state, Space
<1>1. /\ s \in Streams /\ buf[s] \in Seq(Bytes) /\ room \in Nat
      /\ Chunk \in Seq(Bytes) /\ Remaining \in Seq(Bytes)
      /\ <<>> \in Seq(Bytes) /\ Len(<<>>) <= MaxLine /\ HasNewline \in BOOLEAN
  BY ChunkType, SplitterAssumption DEF HeldInv, SplitterTypeOK, HasNewline
<1>2. stream' = stream /\ arrived' = arrived /\ phase = "pushing"
  BY DEF Push
<1>3. CASE /\ discarding[s] /\ Skip(s) /\ data' = Remaining
           /\ UNCHANGED <<phase, buf, emitted>>
  <2>1. discarding' \in [Streams -> BOOLEAN] /\ \A q \in Streams \ {s} : discarding'[q] = discarding[q]
    BY <1>1, <1>3 DEF Skip, HeldInv, SplitterTypeOK
  <2>2. buf[s] = <<>>
    BY <1>1, <1>3 DEF HeldInv, SplitterTypeOK
  <2> QED
    BY <1>1, <1>2, <1>3, <2>1, <2>2 DEF HeldInv, SplitterTypeOK
<1>4. ASSUME NEW text \in Seq(Bytes), Len(text) <= MaxLine, ~discarding[s],
             NEW cut \in BOOLEAN, Emit(s, text, cut), data' = Remaining, UNCHANGED phase,
             \/ discarding' = [discarding EXCEPT ![s] = ~HasNewline]
             \/ UNCHANGED discarding
      PROVE  HeldInv' /\ \E line : Given(line)
  <2>1. PICK line : Given(line)
    BY <1>1, <1>4, EmitGives DEF HeldInv
  <2>2. buf' = [buf EXCEPT ![s] = <<>>]
    BY <1>4 DEF Emit
  <2>3. discarding' \in [Streams -> BOOLEAN] /\ \A q \in Streams \ {s} : discarding'[q] = discarding[q]
    BY <1>1, <1>4 DEF HeldInv, SplitterTypeOK
  <2>4. /\ buf' \in [Streams -> Seq(Bytes)]
        /\ \A q \in Streams : discarding'[q] => buf'[q] = <<>>
        /\ \A q \in Streams : Len(buf'[q]) <= MaxLine
    BY <1>1, <2>2, <2>3, BufferSet
  <2>5. emitted' \in Seq(Lines)
    BY <2>1, AppendProperties DEF Given, HeldInv, SplitterTypeOK
  <2> QED
    BY <1>1, <1>2, <1>4, <2>1, <2>3, <2>4, <2>5 DEF HeldInv, SplitterTypeOK
<1>5. ASSUME NEW text \in Seq(Bytes), Len(text) <= MaxLine, ~discarding[s], EmitFails(s, text)
      PROVE  HeldInv' /\ UNCHANGED emitted
  <2>1. /\ phase' = "gone" /\ data' = <<>> /\ discarding' = discarding
        /\ emitted' = emitted /\ buf' = [buf EXCEPT ![s] = text]
    BY <1>5 DEF EmitFails
  <2>2. discarding' \in [Streams -> BOOLEAN]
    BY <2>1 DEF HeldInv, SplitterTypeOK
  <2>3. /\ buf' \in [Streams -> Seq(Bytes)]
        /\ \A q \in Streams : discarding'[q] => buf'[q] = <<>>
        /\ \A q \in Streams : Len(buf'[q]) <= MaxLine
    BY <1>1, <1>5, <2>1, <2>2, BufferSet
  <2> QED
    BY <1>1, <1>2, <2>1, <2>2, <2>3 DEF HeldInv, SplitterTypeOK, Results
<1>6. ASSUME Len(Chunk) > room
      PROVE  /\ buf[s] \o SubSeq(Chunk, 1, room) \in Seq(Bytes)
             /\ Len(buf[s] \o SubSeq(Chunk, 1, room)) <= MaxLine
  BY <1>1, <1>6, Fits DEF HeldInv
<1>7. ASSUME Len(Chunk) <= room
      PROVE  buf[s] \o Chunk \in Seq(Bytes) /\ Len(buf[s] \o Chunk) <= MaxLine
  BY <1>1, <1>7, Fits DEF HeldInv
<1>8. CASE /\ ~discarding[s] /\ Len(Chunk) > room
           /\ \/ /\ Emit(s, buf[s] \o SubSeq(Chunk, 1, room), TRUE)
                 /\ Overflow(s)
                 /\ data' = Remaining /\ UNCHANGED phase
              \/ EmitFails(s, buf[s] \o SubSeq(Chunk, 1, room))
  BY <1>4, <1>5, <1>6, <1>8 DEF Overflow
<1>9. CASE /\ ~discarding[s] /\ Len(Chunk) <= room /\ HasNewline
           /\ \/ /\ Emit(s, buf[s] \o Chunk, FALSE)
                 /\ data' = Remaining /\ UNCHANGED <<phase, discarding>>
              \/ EmitFails(s, buf[s] \o Chunk)
  BY <1>4, <1>5, <1>7, <1>9
<1>10. CASE /\ ~discarding[s] /\ Len(Chunk) <= room /\ ~HasNewline
            /\ buf' = [buf EXCEPT ![s] = @ \o Chunk]
            /\ data' = Remaining /\ UNCHANGED <<phase, discarding, emitted>>
  <2>1. buf[s] \o Chunk \in Seq(Bytes) /\ Len(buf[s] \o Chunk) <= MaxLine
    BY <1>7, <1>10
  <2>2. buf' = [buf EXCEPT ![s] = buf[s] \o Chunk]
    BY <1>10
  <2>3. discarding' \in [Streams -> BOOLEAN] /\ ~discarding'[s]
    BY <1>10 DEF HeldInv, SplitterTypeOK
  <2>4. /\ buf' \in [Streams -> Seq(Bytes)]
        /\ \A q \in Streams : discarding'[q] => buf'[q] = <<>>
        /\ \A q \in Streams : Len(buf'[q]) <= MaxLine
    BY <1>1, <1>10, <2>1, <2>2, <2>3, BufferSet
  <2> QED
    BY <1>1, <1>2, <1>10, <2>3, <2>4 DEF HeldInv, SplitterTypeOK
<1> QED
  BY <1>3, <1>8, <1>9, <1>10 DEF Push

\* So does flush.
LEMMA FlushKeeps ==
  ASSUME HeldInv, NEW s \in Streams, Flush(s)
  PROVE  HeldInv' /\ (UNCHANGED emitted \/ \E line : Given(line))
<1>1. /\ buf[s] \in Seq(Bytes) /\ buf[s] # <<>> /\ ~discarding[s]
      /\ Len(buf[s]) <= MaxLine /\ <<>> \in Seq(Bytes) /\ Len(<<>>) <= MaxLine
  BY SplitterAssumption DEF HeldInv, SplitterTypeOK, Flush, Leftover
<1>2. stream' = stream /\ arrived' = arrived
  BY DEF Flush
<1>3. CASE Emit(s, buf[s], FALSE) /\ UNCHANGED <<phase, data, discarding>>
  <2>1. PICK line : Given(line)
    BY <1>1, <1>3, EmitGives DEF HeldInv
  <2>2. buf' = [buf EXCEPT ![s] = <<>>]
    BY <1>3 DEF Emit, state
  <2>3. discarding' \in [Streams -> BOOLEAN]
    BY <1>3 DEF HeldInv, SplitterTypeOK
  <2>4. /\ buf' \in [Streams -> Seq(Bytes)]
        /\ \A q \in Streams : discarding'[q] => buf'[q] = <<>>
        /\ \A q \in Streams : Len(buf'[q]) <= MaxLine
    BY <1>1, <1>3, <2>2, <2>3, BufferSet
  <2>5. emitted' \in Seq(Lines)
    BY <2>1, AppendProperties DEF Given, HeldInv, SplitterTypeOK
  <2> QED
    BY <1>2, <1>3, <2>1, <2>3, <2>4, <2>5 DEF HeldInv, SplitterTypeOK
<1>4. CASE EmitFails(s, buf[s])
  <2>1. /\ phase' = "gone" /\ data' = <<>> /\ discarding' = discarding
        /\ emitted' = emitted /\ buf' = [buf EXCEPT ![s] = buf[s]]
    BY <1>4 DEF EmitFails, state
  <2>2. buf' = buf
    BY <2>1 DEF HeldInv, SplitterTypeOK
  <2> QED
    BY <1>1, <1>2, <2>1, <2>2 DEF HeldInv, SplitterTypeOK, Results
<1> QED
  BY <1>3, <1>4 DEF Flush

\* So does every other step of the demultiplexers.
LEMMA DemuxKeeps ==
  ASSUME HeldInv, Demux
  PROVE  HeldInv' /\ (UNCHANGED emitted \/ \E line : Given(line))
<1>1. CASE Pushed \/ Eof \/ Cut \/ Flushed
  BY <1>1 DEF Pushed, Eof, Cut, Flushed, HeldInv, SplitterTypeOK, Results
<1> QED
  BY <1>1, PushKeeps, FlushKeeps DEF Demux

\* What the caller's list is at each stage of the call.
ListInv ==
  /\ call \in {"inspect", "open"} => emitted = <<>> /\ items = <<>> /\ ~truncated
  /\ call = "demux" /\ follow => items = <<>> /\ ~truncated
  /\ call = "demux" /\ ~follow => ListIsPrefix
  /\ call = "returned" /\ result = "ok" /\ ~follow => ListIsPrefix
  /\ call = "returned" /\ result = "ok" /\ follow => items = <<>>
  /\ call = "returned" /\ result # "ok" => items = <<>>

ReadInv == ReadTypeOK /\ MemoryBounded /\ ListInv

\* A line given to emit is kept if there is room and flagged if there is not.
LEMMA EmitKeepsPrefix ==
  ASSUME items \in Seq(Lines), emitted \in Seq(Lines), truncated \in BOOLEAN,
         Len(items) <= MaxItems, ListIsPrefix,
         NEW line, Given(line), emit(line)
  PROVE  /\ items' \in Seq(Lines) /\ truncated' \in BOOLEAN
         /\ Len(items') <= MaxItems
         /\ ListIsPrefix'
<1>1. /\ line \in Lines /\ emitted' = Append(emitted, line)
      /\ emitted' \in Seq(Lines) /\ Len(emitted') = Len(emitted) + 1
      /\ \A i \in 1..Len(emitted) : emitted'[i] = emitted[i]
      /\ emitted'[Len(emitted) + 1] = line
  BY AppendProperties DEF Given
<1>2. CASE Len(items) = MaxItems
  <2>1. items' = items /\ truncated' = TRUE /\ Len(items) <= Len(emitted)
    BY <1>2 DEF emit, ListIsPrefix
  <2>2. items = SubSeq(emitted', 1, Len(items))
    <3> DEFINE n == Len(items)
    <3>1. n \in Nat /\ n <= Len(emitted)
      BY <2>1
    <3>2. /\ SubSeq(emitted', 1, n) \in Seq(Lines)
          /\ Len(SubSeq(emitted', 1, n)) = IF 1 <= n THEN n - 1 + 1 ELSE 0
          /\ \A i \in 1..(n - 1 + 1) : SubSeq(emitted', 1, n)[i] = emitted'[1 + i - 1]
      <4>1. \A i \in 1..n : emitted'[i] \in Lines
        BY <1>1, <3>1
      <4> HIDE DEF n
      <4> QED
        BY <3>1, <4>1, SubSeqProperties
    <3>3. /\ SubSeq(emitted, 1, n) \in Seq(Lines)
          /\ Len(SubSeq(emitted, 1, n)) = IF 1 <= n THEN n - 1 + 1 ELSE 0
          /\ \A i \in 1..(n - 1 + 1) : SubSeq(emitted, 1, n)[i] = emitted[1 + i - 1]
      <4>1. \A i \in 1..n : emitted[i] \in Lines
        BY <3>1
      <4> HIDE DEF n
      <4> QED
        BY <3>1, <4>1, SubSeqProperties
    <3>4. items = SubSeq(emitted, 1, n)
      BY DEF ListIsPrefix
    <3> HIDE DEF n
    <3>5. \A i \in 1..n : SubSeq(emitted', 1, n)[i] = SubSeq(emitted, 1, n)[i]
      BY <1>1, <3>1, <3>2, <3>3
    <3>6. SubSeq(emitted', 1, n) = SubSeq(emitted, 1, n)
      <4>1. Len(SubSeq(emitted', 1, n)) = n /\ Len(SubSeq(emitted, 1, n)) = n
        BY <3>1, <3>2, <3>3
      <4> QED
        BY <3>2, <3>3, <3>5, <4>1, SeqEqual
    <3> QED
      BY <3>4, <3>6 DEF n
  <2> QED
    BY <1>1, <1>2, <2>1, <2>2 DEF ListIsPrefix
<1>3. CASE Len(items) # MaxItems
  <2>1. items' = Append(items, line) /\ truncated' = truncated
    BY <1>3 DEF emit
  <2>2. ~truncated /\ Len(items) = Len(emitted)
    BY <1>3 DEF ListIsPrefix
  <2>3. items = emitted
    BY <2>2, SubSeqFull DEF ListIsPrefix
  <2>4. items' = emitted'
    BY <1>1, <2>1, <2>3
  <2>5. emitted' = SubSeq(emitted', 1, Len(emitted'))
    BY <1>1, SubSeqFull
  <2>6. Len(items') <= MaxItems
    BY <1>1, <1>3, <2>2, <2>4, ReadAssumption
  <2> QED
    BY <1>1, <2>1, <2>2, <2>4, <2>5, <2>6 DEF ListIsPrefix
<1> QED
  BY <1>2, <1>3

\* A call begins with nothing.
LEMMA ReadInitInv == ReadInit => ReadInv
<1> SUFFICES ASSUME ReadInit PROVE ReadInv
  OBVIOUS
<1>1. <<>> \in Seq(Bytes) /\ <<>> \in Seq(Lines) /\ Len(<<>>) = 0
      /\ <<>> \in Seq([stream : Streams, byte : Bytes])
  OBVIOUS
<1>2. ReadTypeOK
  BY <1>1 DEF ReadInit, SplitterInit, ReadTypeOK, SplitterTypeOK
<1>3. MemoryBounded
  BY <1>1, SplitterAssumption, ReadAssumption DEF ReadInit, SplitterInit, MemoryBounded
<1>4. ListInv
  BY DEF ReadInit, SplitterInit, ListInv
<1> QED
  BY <1>2, <1>3, <1>4 DEF ReadInv

\* A call that returns an error holds nothing.
LEMMA ReturnKeeps ==
  ASSUME ReadInv, NEW err \in {"invalid", "engine", "gone"}, Return(err)
  PROVE  ReadInv'
<1>1. /\ items' = <<>> /\ Len(<<>>) = 0 /\ <<>> \in Seq(Lines)
      /\ UNCHANGED splitterVars
  BY DEF Return
<1>2. ReadTypeOK'
  BY <1>1 DEF ReadInv, ReadTypeOK, SplitterTypeOK, splitterVars, Return
<1>3. MemoryBounded'
  BY <1>1, ReadAssumption DEF ReadInv, MemoryBounded, splitterVars
<1>4. ListInv'
  BY DEF Return, ListInv
<1> QED
  BY <1>2, <1>3, <1>4 DEF ReadInv

\* A frame is held apart from the buffers, whatever is in it.
LEMMA ReceiveKeeps ==
  ASSUME ReadInv, NEW s \in Streams, NEW p \in Payloads, Receive(s, p)
  PROVE  ReadInv'
<1>1. PICK n \in 0..MaxFrame : p \in [1..n -> Bytes]
  BY DEF Payloads
<1>2. n \in Nat
  BY <1>1, SplitterAssumption
<1>3. p \in Seq(Bytes)
  BY <1>1, <1>2
<1> DEFINE B == [stream : Streams, byte : Bytes]
           more == [i \in DOMAIN p |-> [stream |-> s, byte |-> p[i]]]
<1>4. more \in [1..n -> B]
  BY <1>1
<1>5. more \in Seq(B)
  <2> HIDE DEF more, B
  <2> QED
    BY <1>2, <1>4
<1>6. arrived' = arrived \o more /\ arrived \in Seq(B)
  BY DEF Receive, Frame, ReadInv, ReadTypeOK, SplitterTypeOK
<1>7. arrived' \in Seq(B)
  <2> HIDE DEF more, B
  <2> QED
    BY <1>5, <1>6, ConcatProperties
<1>8. SplitterTypeOK'
  BY <1>3, <1>7 DEF Receive, Frame, ReadInv, ReadTypeOK, SplitterTypeOK
<1>9. ReadTypeOK' /\ MemoryBounded' /\ ListInv'
  BY <1>8 DEF Receive, Frame, readVars, ReadInv, ReadTypeOK, MemoryBounded, ListInv,
    ListIsPrefix
<1> QED
  BY <1>9 DEF ReadInv

\* A step of the demultiplexer keeps the buffers and the list.
LEMMA DemuxStepKeeps ==
  ASSUME ReadInv, DemuxStep
  PROVE  ReadInv'
<1>1. HeldInv
  BY DEF HeldInv, ReadInv, ReadTypeOK, MemoryBounded
<1>2. HeldInv' /\ (UNCHANGED emitted \/ \E line : Given(line))
  BY <1>1, DemuxKeeps DEF DemuxStep
<1>3. /\ call = "demux" /\ call' = call /\ follow' = follow /\ tty' = tty
      /\ result' = result
  BY DEF DemuxStep
<1>4. /\ items \in Seq(Lines) /\ emitted \in Seq(Lines) /\ truncated \in BOOLEAN
      /\ Len(items) <= MaxItems
  BY DEF ReadInv, ReadTypeOK, SplitterTypeOK, MemoryBounded
<1>5. CASE UNCHANGED <<items, truncated>> /\ (follow \/ emitted' = emitted)
  <2>1. ReadTypeOK'
    BY <1>2, <1>3, <1>5 DEF HeldInv, ReadInv, ReadTypeOK
  <2>2. MemoryBounded'
    BY <1>2, <1>4, <1>5 DEF HeldInv, MemoryBounded
  <2>3. ListInv'
    BY <1>3, <1>5 DEF ReadInv, ListInv, ListIsPrefix
  <2> QED
    BY <2>1, <2>2, <2>3 DEF ReadInv
<1>6. CASE ~follow /\ emitted' # emitted
  <2>1. PICK line : Given(line)
    BY <1>2, <1>6
  <2>2. Last(emitted') = line
    BY <1>4, <2>1, AppendProperties DEF Given, Last
  <2>3. emit(line)
    BY <1>6, <2>2 DEF DemuxStep
  <2>4. ListIsPrefix
    BY <1>3, <1>6 DEF ReadInv, ListInv
  <2>5. /\ items' \in Seq(Lines) /\ truncated' \in BOOLEAN
        /\ Len(items') <= MaxItems
        /\ ListIsPrefix'
    BY <1>4, <2>1, <2>3, <2>4, EmitKeepsPrefix
  <2>6. ReadTypeOK'
    BY <1>2, <1>3, <2>5 DEF HeldInv, ReadInv, ReadTypeOK
  <2>7. MemoryBounded'
    BY <1>2, <2>5 DEF HeldInv, MemoryBounded
  <2>8. ListInv'
    BY <1>3, <1>6, <2>5 DEF ListInv
  <2> QED
    BY <2>6, <2>7, <2>8 DEF ReadInv
<1> QED
  BY <1>5, <1>6 DEF DemuxStep

\* Every step does.
LEMMA ReadStep ==
  ASSUME ReadInv, [ReadNext]_logReadVars
  PROVE  ReadInv'
<1>1. CASE containerUsesTTY
  <2>1. CASE /\ call = "inspect" /\ call' = "open" /\ tty' \in BOOLEAN
             /\ UNCHANGED <<splitterVars, follow, items, truncated, result>>
    BY <2>1 DEF splitterVars, ReadInv, ReadTypeOK, SplitterTypeOK, MemoryBounded, ListInv
  <2> QED
    BY <1>1, <2>1, ReturnKeeps DEF containerUsesTTY
<1>2. CASE OpenLog
  <2>1. CASE /\ call = "open" /\ call' = "demux"
             /\ UNCHANGED <<splitterVars, follow, tty, items, truncated, result>>
    <3>1. emitted' = <<>> /\ items' = <<>> /\ ~truncated'
      BY <2>1 DEF splitterVars, ReadInv, ListInv
    <3>2. ListIsPrefix'
      BY <3>1, SubSeqEmpty DEF ListIsPrefix
    <3>3. ListInv'
      BY <2>1, <3>1, <3>2 DEF ListInv
    <3>4. ReadTypeOK' /\ MemoryBounded'
      BY <2>1 DEF splitterVars, ReadInv, ReadTypeOK, SplitterTypeOK, MemoryBounded
    <3> QED
      BY <3>3, <3>4 DEF ReadInv
  <2> QED
    BY <1>2, <2>1, ReturnKeeps DEF OpenLog
<1>3. CASE DemuxReturns
  <2>1. CASE /\ call = "demux" /\ call' = "returned" /\ result' = "ok"
             /\ UNCHANGED <<splitterVars, follow, tty, items, truncated>>
    BY <2>1 DEF splitterVars, ReadInv, ReadTypeOK, SplitterTypeOK, MemoryBounded,
      ListInv, ListIsPrefix
  <2> QED
    BY <1>3, <2>1, ReturnKeeps DEF DemuxReturns
<1>4. CASE UNCHANGED logReadVars
  BY <1>4 DEF logReadVars, readVars, splitterVars, ReadInv, ReadTypeOK,
    SplitterTypeOK, MemoryBounded, ListInv, ListIsPrefix
<1> QED
  BY <1>1, <1>2, <1>3, <1>4, DemuxStepKeeps, ReceiveKeeps DEF ReadNext

\* The inductive invariant of a read.
LEMMA ReadInvariance == ReadSpec => []ReadInv
  BY ReadInitInv, ReadStep, PTL DEF ReadSpec

\* However the Engine cuts a log into frames and whatever the log holds, a read
\* of it never holds more than maxLogLineBytes of a stream and
\* maxHistoricalLines lines (push, ContainerLogs), for any limits.
THEOREM ReadsAreBounded == ReadSpec => [](ReadTypeOK /\ MemoryBounded)
<1>1. ReadInv => ReadTypeOK /\ MemoryBounded
  BY DEF ReadInv
<1> QED
  BY <1>1, ReadInvariance, PTL

-----------------------------------------------------------------------------
(* The lines themselves *)

HIDE LimitsAssumption

\* So has a set of positions a greatest one.
LEMMA LastPosition ==
  ASSUME NEW n \in Nat, NEW I \in SUBSET (1..n), I # {}
  PROVE  \E x \in I : \A y \in I : y <= x
<1> DEFINE J == {n - i : i \in I}
<1>1. J \in SUBSET Nat /\ J # {}
  <2>1. \A i \in I : n - i \in Nat
    OBVIOUS
  <2> QED
    BY <2>1
<1>2. PICK j \in J : \A k \in J : j <= k
  <2> HIDE DEF J
  <2> QED
    BY <1>1, LeastExists
<1>3. PICK x \in I : j = n - x
  OBVIOUS
<1>4. \A y \in I : n - y \in J
  OBVIOUS
<1>5. \A y \in I : n - x <= n - y
  BY <1>2, <1>3, <1>4
<1> QED
  BY <1>5

\* Positions that come after the others keep the rank of those and are counted
\* on from them.
LEMMA NthExtends ==
  ASSUME NEW n \in Nat, NEW S \in SUBSET (1..n), NEW m \in Nat
  PROVE  /\ IsFiniteSet(S) /\ Cardinality(S) \in Nat
         /\ Cardinality(S \cup ((n + 1)..(n + m))) = Cardinality(S) + m
         /\ \A k \in 1..Cardinality(S) : Nth(S \cup ((n + 1)..(n + m)), k) = Nth(S, k)
         /\ \A j \in 1..m : Nth(S \cup ((n + 1)..(n + m)), Cardinality(S) + j) = n + j
<1> DEFINE U == S \cup ((n + 1)..(n + m))
           c == Cardinality(S)
           Below(T, y) == {x \in T : x <= y}
<1>1. IsFiniteSet(S) /\ c \in Nat
  <2>1. IsFiniteSet(1..n)
    BY FS_Interval
  <2>2. IsFiniteSet(S)
    BY <2>1, FS_Subset
  <2> QED
    BY <2>2, FS_CardinalityType
<1>2. ASSUME NEW j \in 0..m
      PROVE  Cardinality(S \cup ((n + 1)..(n + j))) = c + j
  <2> DEFINE T == (n + 1)..(n + j)
  <2>1. IsFiniteSet(T) /\ Cardinality(T) = j
    BY FS_Interval
  <2>2. S \cap T = {}
    OBVIOUS
  <2>3. Cardinality(S \cup T) = c + Cardinality(T) - Cardinality(S \cap T)
    BY <1>1, <2>1, FS_Union
  <2>4. Cardinality({}) = 0
    BY FS_EmptySet
  <2> HIDE DEF T
  <2>5. Cardinality(S \cup T) = c + j - 0
    BY <2>1, <2>2, <2>3, <2>4
  <2>6. Cardinality(S \cup T) = c + j
    BY <1>1, <2>5
  <2> QED
    BY <2>6 DEF T
<1>3. Cardinality(U) = c + m
  BY <1>2
<1>4. ASSUME NEW y \in S
      PROVE  /\ Below(U, y) = Below(S, y)
             /\ Cardinality(Below(S, y)) \in 0..c
  <2>1. Below(U, y) = Below(S, y)
    OBVIOUS
  <2>2. Below(S, y) \in SUBSET S
    OBVIOUS
  <2>3. IsFiniteSet(Below(S, y)) /\ Cardinality(Below(S, y)) <= c
    BY <1>1, <2>2, FS_Subset
  <2>4. Cardinality(Below(S, y)) \in Nat
    BY <2>3, FS_CardinalityType
  <2> QED
    BY <1>1, <2>1, <2>3, <2>4
<1>5. ASSUME NEW j \in 1..m
      PROVE  Cardinality(Below(U, n + j)) = c + j
  <2>1. \A x \in S : x <= n + j
    OBVIOUS
  <2>2. \A x \in (n + 1)..(n + m) : x <= n + j <=> x \in (n + 1)..(n + j)
    OBVIOUS
  <2>3. (n + 1)..(n + j) \subseteq (n + 1)..(n + m)
    OBVIOUS
  <2>4. Below(U, n + j) = S \cup ((n + 1)..(n + j))
    BY <2>1, <2>2, <2>3
  <2>5. j \in 0..m
    OBVIOUS
  <2> QED
    BY <1>2, <2>4, <2>5
<1>6. \A y \in U : y \in S \/ \E j \in 1..m : y = n + j
  <2>1. \A y \in (n + 1)..(n + m) : y - n \in 1..m /\ y = n + (y - n)
    OBVIOUS
  <2> QED
    BY <2>1
<1>7. S \subseteq U /\ \A j \in 1..m : n + j \in U /\ n + j \notin S
  OBVIOUS
<1> DEFINE At(T, k) == {y \in T : Cardinality(Below(T, y)) = k}
<1>8. \A T, k : Nth(T, k) = CHOOSE i \in At(T, k) : TRUE
  BY DEF Nth
<1>9. ASSUME NEW k \in 1..c
      PROVE  Nth(U, k) = Nth(S, k)
  <2> HIDE DEF U, c, Below
  <2>1. \A y \in S : Cardinality(Below(U, y)) = Cardinality(Below(S, y))
    BY <1>4
  <2>2. \A j \in 1..m : Cardinality(Below(U, n + j)) # k
    BY <1>1, <1>5
  <2>3. At(U, k) = At(S, k)
    BY <1>6, <1>7, <2>1, <2>2
  <2> HIDE DEF At
  <2> QED
    BY <1>8, <2>3
<1>10. ASSUME NEW j \in 1..m
       PROVE  Nth(U, c + j) = n + j
  <2> HIDE DEF U, c, Below
  <2>1. \A y \in S : Cardinality(Below(U, y)) # c + j
    BY <1>1, <1>4
  <2>2. \A i \in 1..m : Cardinality(Below(U, n + i)) = c + j <=> i = j
    BY <1>1, <1>5
  <2>3. \A y \in U : Cardinality(Below(U, y)) = c + j <=> y = n + j
    BY <1>6, <1>7, <2>1, <2>2
  <2>4. At(U, c + j) = {n + j}
    BY <1>7, <2>3
  <2> HIDE DEF At
  <2> QED
    BY <1>8, <2>4
<1> QED
  BY <1>1, <1>3, <1>9, <1>10

\* Every rank up to the number of positions is the rank of one of them.
LEMMA NthIn ==
  ASSUME NEW n \in Nat, NEW S \in SUBSET (1..n), NEW k \in 1..Cardinality(S)
  PROVE  Nth(S, k) \in S
<1> DEFINE Misses(T) == \E i \in 1..Cardinality(T) : Nth(T, i) \notin T
           Bad == {c \in Nat : \E T \in SUBSET (1..n) : Cardinality(T) = c /\ Misses(T)}
<1>1. \A T \in SUBSET (1..n) : IsFiniteSet(T) /\ Cardinality(T) \in Nat
  BY NthExtends
<1>2. ASSUME Bad # {} PROVE FALSE
  <2>1. PICK c \in Bad : \A d \in Bad : c <= d
    <3>1. Bad \in SUBSET Nat
      OBVIOUS
    <3> HIDE DEF Bad
    <3> QED
      BY <1>2, <3>1, LeastExists
  <2>2. PICK T \in SUBSET (1..n) : Cardinality(T) = c /\ Misses(T)
    OBVIOUS
  <2>3. T # {}
    BY <2>2, FS_EmptySet
  <2>4. PICK x \in T : \A y \in T : y <= x
    BY <2>3, LastPosition
  <2> DEFINE R == T \ {x}
  <2>5. x \in 1..n /\ x - 1 \in Nat /\ R \in SUBSET (1..(x - 1)) /\ R \in SUBSET (1..n)
    BY <2>4
  <2>6. R \cup (((x - 1) + 1)..((x - 1) + 1)) = T
    <3>1. ((x - 1) + 1)..((x - 1) + 1) = {x}
      BY <2>5
    <3> QED
      BY <3>1
  <2>7. Cardinality(R) = c - 1
    BY <1>1, <2>2, FS_RemoveElement
  <2> HIDE DEF R
  <2>10. R \subseteq T /\ c \in Nat
    BY <1>1, <2>2 DEF R
  <2>8. ~Misses(R)
    <3>1. Cardinality(R) \in Nat
      BY <1>1, <2>5
    <3>2. Misses(R) => Cardinality(R) \in Bad
      BY <2>5, <3>1
    <3> HIDE DEF Misses, Bad
    <3> QED
      BY <2>1, <2>7, <2>10, <3>1, <3>2
  <2>9. /\ \A i \in 1..(c - 1) : Nth(T, i) = Nth(R, i)
        /\ Nth(T, (c - 1) + 1) = (x - 1) + 1
    <3>1. PICK p \in Nat : p = x - 1
      BY <2>5
    <3>2. R \in SUBSET (1..p) /\ R \cup ((p + 1)..(p + 1)) = T /\ 1 \in Nat /\ 1 \in 1..1
      BY <2>5, <2>6, <3>1
    <3>3. /\ \A i \in 1..Cardinality(R) : Nth(R \cup ((p + 1)..(p + 1)), i) = Nth(R, i)
          /\ \A j \in 1..1 : Nth(R \cup ((p + 1)..(p + 1)), Cardinality(R) + j) = p + j
      <4>1. \A m \in Nat :
              /\ \A i \in 1..Cardinality(R) : Nth(R \cup ((p + 1)..(p + m)), i) = Nth(R, i)
              /\ \A j \in 1..m : Nth(R \cup ((p + 1)..(p + m)), Cardinality(R) + j) = p + j
        BY <2>5, <3>2, NthExtends
      <4> QED
        BY <3>2, <4>1
    <3> QED
      BY <2>7, <3>1, <3>2, <3>3
  <2>11. \A i \in 1..(c - 1) : Nth(T, i) \in T
    BY <2>7, <2>8, <2>9, <2>10
  <2>12. Nth(T, c) \in T
    <3>1. (c - 1) + 1 = c /\ (x - 1) + 1 = x
      BY <2>5, <2>10
    <3> QED
      BY <2>9, <3>1
  <2>13. \A i \in 1..c : i = c \/ i \in 1..(c - 1)
    BY <2>10
  <2> QED
    BY <2>2, <2>11, <2>12, <2>13
<1>3. ~Misses(S)
  BY <1>1, <1>2
<1> QED
  BY <1>3

\* g has what f has at the positions S, none of them after n.
Agree(V, f, g, S, n) ==
  /\ n \in Nat /\ S \in SUBSET (1..n)
  /\ \A x \in S : f[x] \in V /\ g[x] = f[x]

\* U has as many positions more as h is long, those after n, where g has h.
Goes(V, f, g, S, n, U, h) ==
  /\ Agree(V, f, g, S, n)
  /\ h \in Seq(V) /\ U = S \cup ((n + 1)..(n + Len(h)))
  /\ \A j \in 1..Len(h) : g[n + j] = h[j]

\* What is at the positions that come after the others comes after what is at
\* the others.
LEMMA InOrderExtends ==
  ASSUME NEW V, NEW f, NEW g, NEW S, NEW n, NEW U, NEW h, Goes(V, f, g, S, n, U, h)
  PROVE  /\ InOrder(f, S) \in Seq(V)
         /\ InOrder(g, U) = InOrder(f, S) \o h
<1> DEFINE c == Cardinality(S)
<1>0. Len(h) \in Nat /\ c \in Nat
  <2>1. Len(h) \in Nat
    BY DEF Goes
  <2> QED
    BY <2>1, NthExtends DEF Goes, Agree
<1>1. /\ Cardinality(U) = c + Len(h)
      /\ \A k \in 1..c : Nth(U, k) = Nth(S, k)
      /\ \A j \in 1..Len(h) : Nth(U, c + j) = n + j
  <2>1. /\ n \in Nat /\ S \in SUBSET (1..n)
        /\ U = S \cup ((n + 1)..(n + Len(h)))
    BY DEF Goes, Agree
  <2> DEFINE m == Len(h)
             W == S \cup ((n + 1)..(n + m))
  <2> HIDE DEF m
  <2>2. m \in Nat
    BY <1>0 DEF m
  <2>3. /\ Cardinality(W) = Cardinality(S) + m
        /\ \A k \in 1..Cardinality(S) : Nth(W, k) = Nth(S, k)
        /\ \A j \in 1..m : Nth(W, Cardinality(S) + j) = n + j
    BY <2>1, <2>2, NthExtends
  <2>4. U = W
    BY <2>1 DEF m
  <2> HIDE DEF W
  <2> QED
    BY <2>3, <2>4 DEF m
<1>2. \A k \in 1..c : Nth(S, k) \in S
  BY NthIn DEF Goes, Agree
<1> DEFINE F == InOrder(f, S)
           G == InOrder(g, U)
<1>3. /\ F = [k \in 1..c |-> f[Nth(S, k)]]
      /\ G = [k \in 1..(c + Len(h)) |-> g[Nth(U, k)]]
  BY <1>1 DEF InOrder
<1> HIDE DEF c, F, G
<1>4. F \in Seq(V) /\ Len(F) = c
  <2>1. \A k \in 1..c : f[Nth(S, k)] \in V
    BY <1>2 DEF Goes, Agree
  <2>2. F \in [1..c -> V]
    BY <1>3, <2>1
  <2> QED
    BY <1>0, <2>2
<1>5. \A k \in 1..c : G[k] = F[k]
  <2>1. \A k \in 1..c : k \in 1..(c + Len(h))
    BY <1>0
  <2> QED
    BY <1>1, <1>2, <1>3, <2>1 DEF Goes, Agree
<1>6. \A j \in 1..Len(h) : G[c + j] = h[j]
  <2>1. \A j \in 1..Len(h) : c + j \in 1..(c + Len(h))
    BY <1>0
  <2> QED
    BY <1>1, <1>3, <2>1 DEF Goes
<1>7. \A k \in 1..(c + Len(h)) : k \in 1..c \/ \E j \in 1..Len(h) : k = c + j
  <2>1. ASSUME NEW k \in 1..(c + Len(h)), k > c
        PROVE  k - c \in 1..Len(h) /\ k = c + (k - c)
    BY <1>0, <2>1
  <2>2. \A k \in 1..(c + Len(h)) : k \in 1..c \/ k > c
    BY <1>0
  <2> QED
    BY <2>1, <2>2
<1>8. \A k \in 1..(c + Len(h)) : G[k] = (F \o h)[k]
  <2>1. /\ Len(F \o h) = c + Len(h)
        /\ \A k \in 1..(c + Len(h)) : (F \o h)[k] = IF k <= c THEN F[k] ELSE h[k - c]
    BY <1>4, ConcatProperties DEF Goes
  <2>2. \A k \in 1..c : (F \o h)[k] = F[k]
    BY <1>0, <2>1
  <2>3. \A j \in 1..Len(h) : (F \o h)[c + j] = h[j]
    BY <1>0, <2>1
  <2> SUFFICES ASSUME NEW k \in 1..(c + Len(h)) PROVE G[k] = (F \o h)[k]
    OBVIOUS
  <2>4. CASE k \in 1..c
    BY <1>5, <2>2, <2>4
  <2>5. CASE \E j \in 1..Len(h) : k = c + j
    BY <1>6, <2>3, <2>5
  <2> QED
    BY <1>7, <2>4, <2>5
<1>9. F \o h \in Seq(V) /\ Len(F \o h) = c + Len(h)
  BY <1>4, ConcatProperties DEF Goes
<1>10. G = F \o h
  <2>1. F \o h \in [1..(c + Len(h)) -> V]
    BY <1>9, LenProperties
  <2>2. F \o h = [k \in 1..(c + Len(h)) |-> (F \o h)[k]]
    BY <2>1
  <2> QED
    BY <1>3, <1>8, <2>2
<1> QED
  BY <1>4, <1>10 DEF F, G

\* The same at the same positions is the same in order.
LEMMA InOrderSame ==
  ASSUME NEW V, NEW f, NEW g, NEW S, NEW n, Agree(V, f, g, S, n)
  PROVE  InOrder(f, S) \in Seq(V) /\ InOrder(g, S) = InOrder(f, S)
<1> DEFINE h == <<>>
<1>1. h \in Seq(V) /\ Len(h) = 0
  BY EmptySeq
<1>2. S \cup ((n + 1)..(n + 0)) = S
  BY DEF Agree
<1>3. InOrder(f, S) \o h = InOrder(f, S) \/ InOrder(f, S) \notin Seq(V)
  BY ConcatEmptySeq
<1> HIDE DEF h
<1>4. Goes(V, f, g, S, n, S, h)
  BY <1>1, <1>2 DEF Goes
<1>5. /\ InOrder(f, S) \in Seq(V)
      /\ InOrder(g, S) = InOrder(f, S) \o h
  BY <1>4, InOrderExtends
<1> QED
  BY <1>3, <1>5

\* U has one position more than S, after n.
GoesOne(V, f, g, S, n, U, h) ==
  /\ Agree(V, f, g, S, n)
  /\ U = S \cup {n + 1} /\ g[n + 1] \in V /\ h = <<g[n + 1]>>

\* It adds what is there.
LEMMA InOrderOne ==
  ASSUME NEW V, NEW f, NEW g, NEW S, NEW n, NEW U, NEW h, GoesOne(V, f, g, S, n, U, h)
  PROVE  InOrder(g, U) = InOrder(f, S) \o h
<1>1. h \in Seq(V) /\ Len(h) = 1 /\ h[1] = g[n + 1]
  BY DEF GoesOne
<1>2. U = S \cup ((n + 1)..(n + 1))
  BY DEF GoesOne, Agree
<1>3. \A j \in 1..1 : g[n + j] = h[j]
  BY <1>1
<1>4. Goes(V, f, g, S, n, U, h)
  BY <1>1, <1>2, <1>3 DEF Goes, GoesOne
<1> QED
  BY <1>4, InOrderExtends

\* A line given to emit is the next of its stream, and of no other.
LEMMA EmittedGrows ==
  ASSUME emitted \in Seq(Lines), NEW line, Given(line), NEW s
  PROVE  /\ EmittedOf(s) \in Seq(Lines)
         /\ EmittedOf(s)' = IF line.stream = s THEN EmittedOf(s) \o <<line>> ELSE EmittedOf(s)
<1> DEFINE n == Len(emitted)
           S == {i \in DOMAIN emitted : emitted[i].stream = s}
           e == Append(emitted, line)
           T == {i \in DOMAIN e : e[i].stream = s}
<1>1. /\ n \in Nat /\ DOMAIN emitted = 1..n /\ DOMAIN e = 1..(n + 1)
      /\ \A i \in 1..n : e[i] = emitted[i] /\ emitted[i] \in Lines
      /\ e[n + 1] = line /\ line \in Lines
  BY AppendProperties DEF Given
<1>2. S \in SUBSET (1..n) /\ T = IF line.stream = s THEN S \cup {n + 1} ELSE S
  <2>1. \A i \in 1..(n + 1) : i \in 1..n \/ i = n + 1
    BY <1>1
  <2>2. n + 1 \in 1..(n + 1) /\ \A i \in 1..n : i \in 1..(n + 1)
    BY <1>1
  <2>3. S \in SUBSET (1..n)
    BY <1>1
  <2>4. \A i \in 1..n : i \in T <=> i \in S
    BY <1>1, <2>2
  <2>5. n + 1 \in T <=> line.stream = s
    BY <1>1, <2>2
  <2>6. T \subseteq 1..(n + 1)
    BY <1>1
  <2> HIDE DEF n, S, T
  <2>7. CASE line.stream = s
    BY <2>1, <2>3, <2>4, <2>5, <2>6, <2>7
  <2>8. CASE line.stream # s
    <3>1. T \subseteq 1..n
      BY <2>1, <2>5, <2>6, <2>8
    <3> QED
      BY <2>3, <2>4, <2>8, <3>1
  <2> QED
    BY <2>3, <2>7, <2>8
<1>3. EmittedOf(s) = InOrder(emitted, S) /\ EmittedOf(s)' = InOrder(e, T)
  BY DEF EmittedOf, Given
<1> HIDE DEF n, S, T, e
<1>4. Agree(Lines, emitted, e, S, n)
  BY <1>1, <1>2 DEF Agree
<1>5. InOrder(emitted, S) \in Seq(Lines) /\ InOrder(e, S) = InOrder(emitted, S)
  BY <1>4, InOrderSame
<1>6. CASE line.stream = s
  <2> DEFINE h == <<line>>
  <2>1. GoesOne(Lines, emitted, e, S, n, T, h)
    BY <1>1, <1>2, <1>4, <1>6 DEF GoesOne
  <2> HIDE DEF h
  <2>2. InOrder(e, T) = InOrder(emitted, S) \o h
    BY <2>1, InOrderOne
  <2> QED
    BY <1>3, <1>5, <1>6, <2>2 DEF h
<1> QED
  BY <1>2, <1>3, <1>5, <1>6

ByteRecords == [stream : Streams, byte : Bytes]

\* The bytes of a stream are bytes.
LEMMA BytesOfType ==
  ASSUME arrived \in Seq(ByteRecords), NEW q
  PROVE  BytesOf(q) \in Seq(Bytes)
<1> DEFINE n == Len(arrived)
           S == {i \in DOMAIN arrived : arrived[i].stream = q}
           f == [i \in DOMAIN arrived |-> arrived[i].byte]
<1>1. /\ n \in Nat /\ DOMAIN arrived = 1..n /\ S \in SUBSET (1..n)
      /\ \A i \in 1..n : arrived[i] \in ByteRecords
  OBVIOUS
<1>2. Agree(Bytes, f, f, S, n)
  BY <1>1 DEF ByteRecords, Agree
<1>3. BytesOf(q) = InOrder(f, S)
  BY DEF BytesOf
<1> HIDE DEF n, S, f
<1> QED
  BY <1>2, <1>3, InOrderSame

\* A payload is what its stream has more than before; the others have nothing.
LEMMA BytesGrow ==
  ASSUME arrived \in Seq(ByteRecords), NEW s \in Streams, NEW p \in Seq(Bytes),
         arrived' = arrived \o [i \in DOMAIN p |-> [stream |-> s, byte |-> p[i]]],
         NEW q
  PROVE  BytesOf(q)' = IF q = s THEN BytesOf(q) \o p ELSE BytesOf(q)
<1> DEFINE n == Len(arrived)
           more == [i \in DOMAIN p |-> [stream |-> s, byte |-> p[i]]]
           a == arrived \o more
           S == {i \in DOMAIN arrived : arrived[i].stream = q}
           T == {i \in DOMAIN a : a[i].stream = q}
           f == [i \in DOMAIN arrived |-> arrived[i].byte]
           g == [i \in DOMAIN a |-> a[i].byte]
<1>1. /\ n \in Nat /\ Len(p) \in Nat /\ DOMAIN arrived = 1..n /\ DOMAIN p = 1..Len(p)
      /\ \A i \in 1..n : arrived[i] \in ByteRecords
      /\ \A i \in 1..Len(p) : p[i] \in Bytes
  OBVIOUS
<1>2. more \in Seq(ByteRecords) /\ Len(more) = Len(p)
  <2>1. more \in [1..Len(p) -> ByteRecords]
    BY <1>1 DEF ByteRecords
  <2> HIDE DEF more
  <2> QED
    BY <1>1, <2>1
<1>3. /\ DOMAIN a = 1..(n + Len(p))
      /\ \A i \in 1..n : a[i] = arrived[i]
      /\ \A j \in 1..Len(p) : a[n + j] = more[j]
  <2> HIDE DEF more
  <2>1. /\ a \in Seq(ByteRecords) /\ Len(a) = n + Len(p)
        /\ \A i \in 1..(n + Len(p)) : a[i] = IF i <= n THEN arrived[i] ELSE more[i - n]
    <3>1. arrived \in Seq(ByteRecords) /\ more \in Seq(ByteRecords)
      BY <1>2
    <3>2. /\ a \in Seq(ByteRecords) /\ Len(a) = Len(arrived) + Len(more)
          /\ \A i \in 1..(Len(arrived) + Len(more)) :
               a[i] = IF i <= Len(arrived) THEN arrived[i] ELSE more[i - Len(arrived)]
      BY <3>1, ConcatProperties
    <3> QED
      BY <1>2, <3>2
  <2>2. \A i \in 1..n : i \in 1..(n + Len(p)) /\ i <= n
    BY <1>1
  <2>3. \A j \in 1..Len(p) : n + j \in 1..(n + Len(p)) /\ ~(n + j <= n) /\ (n + j) - n = j
    BY <1>1
  <2>4. \A i \in 1..n : a[i] = arrived[i]
    BY <2>1, <2>2
  <2>5. \A j \in 1..Len(p) : a[n + j] = more[j]
    BY <2>1, <2>3
  <2>6. DOMAIN a = 1..(n + Len(p))
    BY <2>1
  <2> QED
    BY <2>4, <2>5, <2>6
<1>4. \A j \in 1..Len(p) : more[j].stream = s /\ more[j].byte = p[j]
  BY <1>1
<1>5. BytesOf(q) = InOrder(f, S) /\ BytesOf(q)' = InOrder(g, T)
  BY DEF BytesOf
<1>6. S \in SUBSET (1..n)
  BY <1>1
<1>7. /\ \A i \in 1..n : g[i] = arrived[i].byte /\ f[i] = arrived[i].byte
      /\ \A j \in 1..Len(p) : g[n + j] = p[j]
  <2>1. /\ \A i \in 1..n : i \in 1..(n + Len(p))
        /\ \A j \in 1..Len(p) : n + j \in 1..(n + Len(p))
    BY <1>1
  <2>2. \A i \in 1..(n + Len(p)) : g[i] = a[i].byte
    BY <1>3
  <2>3. \A i \in 1..n : f[i] = arrived[i].byte
    BY <1>1
  <2> HIDE DEF a, f, g, more
  <2> QED
    BY <1>3, <1>4, <2>1, <2>2, <2>3
<1>8. /\ \A i \in 1..n : i \in T <=> i \in S
      /\ \A j \in 1..Len(p) : n + j \in T <=> q = s
      /\ T \subseteq 1..(n + Len(p))
  <2>1. /\ \A i \in 1..n : i \in 1..(n + Len(p))
        /\ \A j \in 1..Len(p) : n + j \in 1..(n + Len(p))
    BY <1>1
  <2>2. \A i \in 1..(n + Len(p)) : i \in T <=> a[i].stream = q
    BY <1>3
  <2>3. \A i \in 1..n : i \in S <=> arrived[i].stream = q
    BY <1>1
  <2>4. T \subseteq 1..(n + Len(p))
    BY <1>3
  <2> HIDE DEF a, S, T, more
  <2>5. \A i \in 1..n : i \in T <=> i \in S
    BY <1>3, <2>1, <2>2, <2>3
  <2>6. \A j \in 1..Len(p) : n + j \in T <=> q = s
    <3> SUFFICES ASSUME NEW j \in 1..Len(p) PROVE n + j \in T <=> q = s
      OBVIOUS
    <3>1. a[n + j].stream = s
      BY <1>3, <1>4
    <3>2. n + j \in T <=> a[n + j].stream = q
      BY <2>1, <2>2
    <3> QED
      BY <3>1, <3>2
  <2> QED
    BY <2>4, <2>5, <2>6
<1>9. \A i \in 1..(n + Len(p)) : i \in 1..n \/ (i \in (n + 1)..(n + Len(p)) /\ i - n \in 1..Len(p) /\ i = n + (i - n))
  BY <1>1
<1>10. Agree(Bytes, f, g, S, n)
  <2>1. \A i \in 1..n : arrived[i].byte \in Bytes
    BY <1>1 DEF ByteRecords
  <2> HIDE DEF f, g, S
  <2> QED
    BY <1>1, <1>6, <1>7, <2>1 DEF Agree
<1> HIDE DEF n, more, a, S, T, f, g
<1>11. CASE q = s
  <2>1. T = S \cup ((n + 1)..(n + Len(p)))
    <3>1. \A x \in T : x \in S \/ x \in (n + 1)..(n + Len(p))
      BY <1>8, <1>9
    <3>2. \A x \in (n + 1)..(n + Len(p)) : x - n \in 1..Len(p) /\ x = n + (x - n)
      BY <1>1
    <3>3. \A x \in (n + 1)..(n + Len(p)) : x \in T
      BY <1>8, <1>11, <3>2
    <3> QED
      BY <1>6, <1>8, <3>1, <3>3
  <2>2. InOrder(g, T) = InOrder(f, S) \o p
    <3>1. Goes(Bytes, f, g, S, n, T, p)
      BY <1>7, <1>10, <2>1 DEF Goes
    <3> QED
      BY <3>1, InOrderExtends
  <2> QED
    BY <1>5, <1>11, <2>2
<1>12. CASE q # s
  <2>1. T = S
    BY <1>6, <1>8, <1>9, <1>12
  <2>2. InOrder(g, S) = InOrder(f, S)
    BY <1>10, InOrderSame
  <2> QED
    BY <1>5, <1>12, <2>1, <2>2
<1> QED
  BY <1>11, <1>12

-----------------------------------------------------------------------------
(* Where lines start and end *)

\* bytes.IndexByte finds the first newline.
LEMMA NewlineIs ==
  ASSUME NEW b \in Seq(Bytes)
  PROVE  /\ NewlineIn(b) \in 0..Len(b)
         /\ NewlineIn(b) # 0 => b[NewlineIn(b)] = NL
         /\ \A j \in 1..Len(b) : j < NewlineIn(b) \/ NewlineIn(b) = 0 => b[j] # NL
<1> DEFINE I == {i \in 1..Len(b) : b[i] = NL}
<1>1. NewlineIn(b) = IF I # {} THEN Min(I) ELSE 0
  BY DEF NewlineIn, SelectInSeq
<1>2. I \in SUBSET Nat /\ I \subseteq 1..Len(b)
  OBVIOUS
<1>3. \A j \in 1..Len(b) : b[j] = NL <=> j \in I
  OBVIOUS
<1> HIDE DEF I
<1>4. ASSUME I # {} PROVE Min(I) \in I /\ \A y \in I : Min(I) <= y
  <2>1. \E x \in I : \A y \in I : x <= y
    BY <1>2, <1>4, LeastExists
  <2> QED
    BY <2>1 DEF Min
<1>5. CASE I = {}
  <2>1. NewlineIn(b) = 0 /\ 0 \in 0..Len(b)
    BY <1>1, <1>5
  <2> QED
    BY <1>3, <1>5, <2>1
<1>6. CASE I # {}
  <2>1. NewlineIn(b) \in I /\ \A y \in I : NewlineIn(b) <= y
    BY <1>1, <1>4, <1>6
  <2>2. NewlineIn(b) \in 1..Len(b) /\ b[NewlineIn(b)] = NL
    BY <1>2, <1>3, <2>1
  <2>3. \A j \in 1..Len(b) : j < NewlineIn(b) => j \notin I
    BY <2>1, <2>2
  <2> QED
    BY <1>3, <2>2, <2>3
<1> QED
  BY <1>5, <1>6

\* The line of b that starts at i goes up to e.
EndsAt(b, i, e) ==
  /\ b \in Seq(Bytes) /\ i \in 1..(Len(b) + 1) /\ e \in (i - 1)..Len(b)
  /\ \A j \in i..e : b[j] # NL
  /\ e = Len(b) \/ b[e + 1] = NL

\* Every line ends somewhere, and LineAt is what is in between.
LEMMA LineEnds ==
  ASSUME NEW b \in Seq(Bytes), NEW i \in 1..(Len(b) + 1)
  PROVE  \E e : /\ EndsAt(b, i, e) /\ LineAt(b, i) = SubSeq(b, i, e)
                /\ Ended(b, i) <=> e < Len(b)
<1> DEFINE r == From(b, i)
           k == NewlineIn(r)
<1>1. /\ r \in Seq(Bytes) /\ Len(r) = Len(b) - i + 1
      /\ \A j \in 1..(Len(b) - i + 1) : r[j] = b[i + j - 1]
  <2>1. \A j \in i..Len(b) : b[j] \in Bytes
    OBVIOUS
  <2>2. /\ SubSeq(b, i, Len(b)) \in Seq(Bytes)
        /\ Len(SubSeq(b, i, Len(b))) = IF i <= Len(b) THEN Len(b) - i + 1 ELSE 0
        /\ \A j \in 1..(Len(b) - i + 1) : SubSeq(b, i, Len(b))[j] = b[i + j - 1]
    BY <2>1, SubSeqProperties
  <2> QED
    BY <2>2 DEF From
<1>2. /\ k \in 0..Len(r) /\ (k # 0 => r[k] = NL)
      /\ \A j \in 1..Len(r) : j < k \/ k = 0 => r[j] # NL
  BY <1>1, NewlineIs
<1>3. Ended(b, i) <=> k > 0
  BY DEF Ended
<1>4. LineAt(b, i) = IF k > 0 THEN SubSeq(b, i, i + k - 2) ELSE SubSeq(b, i, Len(b))
  BY <1>3 DEF LineAt, From
<1> HIDE DEF r, k
<1>5. CASE k = 0
  <2>1. ASSUME NEW j \in i..Len(b) PROVE b[j] # NL
    <3>1. j - i + 1 \in 1..(Len(b) - i + 1) /\ i + (j - i + 1) - 1 = j
      OBVIOUS
    <3>2. r[j - i + 1] = b[j] /\ r[j - i + 1] # NL
      BY <1>1, <1>2, <1>5, <3>1
    <3> QED
      BY <3>2
  <2>2. EndsAt(b, i, Len(b))
    BY <2>1 DEF EndsAt
  <2> QED
    BY <1>3, <1>4, <1>5, <2>2
<1>6. CASE k # 0
  <2> DEFINE e == i + k - 2
  <2>1. /\ k \in 1..(Len(b) - i + 1) /\ e \in (i - 1)..Len(b) /\ e < Len(b)
        /\ i + k - 1 = e + 1
    BY <1>1, <1>2, <1>6
  <2>2. b[e + 1] = NL
    BY <1>1, <1>2, <1>6, <2>1
  <2>3. ASSUME NEW j \in i..e PROVE b[j] # NL
    <3>1. j - i + 1 \in 1..(Len(b) - i + 1) /\ i + (j - i + 1) - 1 = j /\ j - i + 1 < k
      BY <2>1
    <3>2. r[j - i + 1] = b[j] /\ r[j - i + 1] # NL
      BY <1>1, <1>2, <3>1
    <3> QED
      BY <3>2
  <2>4. k > 0
    BY <2>1
  <2>5. EndsAt(b, i, e)
    BY <2>1, <2>2, <2>3 DEF EndsAt
  <2>6. LineAt(b, i) = SubSeq(b, i, e)
    BY <1>4, <2>4
  <2> HIDE DEF e
  <2> QED
    BY <1>3, <2>1, <2>4, <2>5, <2>6
<1> QED
  BY <1>5, <1>6

\* A line ends in one place.
LEMMA EndUnique ==
  ASSUME NEW b, NEW i, NEW e, NEW f, EndsAt(b, i, e), EndsAt(b, i, f)
  PROVE  e = f
<1>1. ASSUME NEW x, NEW y, EndsAt(b, i, x), EndsAt(b, i, y), x < y PROVE FALSE
  <2>1. x \in Nat /\ y \in Nat /\ i \in Nat /\ i - 1 <= x /\ y <= Len(b) /\ Len(b) \in Nat
    BY <1>1 DEF EndsAt
  <2>2. x + 1 \in i..y /\ x # Len(b)
    BY <1>1, <2>1
  <2> QED
    BY <1>1, <2>2 DEF EndsAt
<1>2. e \in Int /\ f \in Int
  BY DEF EndsAt
<1>3. ~(e < f) /\ ~(f < e)
  BY <1>1
<1> QED
  BY <1>2, <1>3

\* What a line is given to emit as, once it is known where it ends.
Line(s, b, i, e) ==
  IF e - i + 1 <= MaxLine
  THEN [stream |-> s, text |-> Trim(SubSeq(b, i, e)), truncated |-> FALSE]
  ELSE [stream |-> s, text |-> Trim(SubSeq(b, i, i + MaxLine - 1)), truncated |-> TRUE]

\* LineOf gives that.
LEMMA LineIs ==
  ASSUME NEW b, NEW i, NEW e, EndsAt(b, i, e), NEW s \in Streams
  PROVE  /\ LineAt(b, i) = SubSeq(b, i, e)
         /\ Ended(b, i) <=> e < Len(b)
         /\ Len(LineAt(b, i)) = e - i + 1
         /\ LineOf(s, b, i) = Line(s, b, i, e)
         /\ LineOf(s, b, i) \in Lines
<1>1. b \in Seq(Bytes) /\ i \in 1..(Len(b) + 1) /\ e \in (i - 1)..Len(b)
      /\ Len(b) \in Nat /\ i \in Nat /\ e \in Nat
  BY DEF EndsAt
<1>2. LineAt(b, i) = SubSeq(b, i, e) /\ (Ended(b, i) <=> e < Len(b))
  <2>1. PICK f : /\ EndsAt(b, i, f) /\ LineAt(b, i) = SubSeq(b, i, f)
                 /\ Ended(b, i) <=> f < Len(b)
    BY <1>1, LineEnds
  <2>2. f = e
    BY <2>1, EndUnique
  <2> QED
    BY <2>1, <2>2
<1>3. SubSeq(b, i, e) \in Seq(Bytes) /\ Len(SubSeq(b, i, e)) = e - i + 1
  <2>1. \A j \in i..e : b[j] \in Bytes
    BY <1>1
  <2>2. /\ SubSeq(b, i, e) \in Seq(Bytes)
        /\ Len(SubSeq(b, i, e)) = IF i <= e THEN e - i + 1 ELSE 0
    BY <1>1, <2>1, SubSeqProperties
  <2> QED
    BY <1>1, <2>2
<1>4. CASE e - i + 1 <= MaxLine
  <2>1. LineOf(s, b, i) = [stream |-> s, text |-> Trim(SubSeq(b, i, e)), truncated |-> FALSE]
    BY <1>2, <1>3, <1>4 DEF LineOf
  <2>2. Trim(SubSeq(b, i, e)) \in Seq(Bytes)
    BY <1>3, TrimType
  <2>3. LineOf(s, b, i) \in Lines
    BY <2>1, <2>2 DEF Lines
  <2>4. Line(s, b, i, e) = LineOf(s, b, i)
    BY <1>4, <2>1 DEF Line
  <2> QED
    BY <1>2, <1>3, <2>3, <2>4
<1>5. CASE e - i + 1 > MaxLine
  <2> DEFINE w == SubSeq(SubSeq(b, i, e), 1, MaxLine)
             v == SubSeq(b, i, i + MaxLine - 1)
  <2>1. MaxLine \in Nat /\ MaxLine >= 1
    BY SplitterAssumption
  <2>2. i \in 1..Len(b) /\ e \in 1..Len(b) /\ 1 \in 1..(e - i + 1) /\ MaxLine \in 1..(e - i + 1)
        /\ i + 1 - 1 = i
    BY <1>1, <1>5, <2>1
  <2>3. w = SubSeq(b, i + 1 - 1, i + MaxLine - 1)
    BY <1>1, <2>2, SubSeqOfSubSeq
  <2>4. w = v
    BY <2>2, <2>3
  <2>5. v \in Seq(Bytes)
    <3>1. i + MaxLine - 1 \in Int /\ \A j \in i..(i + MaxLine - 1) : b[j] \in Bytes
      BY <1>1, <1>5, <2>1
    <3> QED
      BY <1>1, <3>1, SubSeqProperties
  <2>6. LineOf(s, b, i) = [stream |-> s, text |-> Trim(w), truncated |-> TRUE]
    <3>1. ~(e - i + 1 <= MaxLine)
      BY <1>1, <1>5, <2>1
    <3> QED
      BY <1>2, <1>3, <3>1 DEF LineOf
  <2>7. Line(s, b, i, e) = [stream |-> s, text |-> Trim(v), truncated |-> TRUE]
    <3>1. ~(e - i + 1 <= MaxLine)
      BY <1>1, <1>5, <2>1
    <3> QED
      BY <3>1 DEF Line
  <2> HIDE DEF v, w
  <2>8. Trim(v) \in Seq(Bytes)
    BY <2>5, TrimType
  <2>9. LineOf(s, b, i) \in Lines
    BY <2>4, <2>6, <2>8 DEF Lines
  <2> QED
    BY <1>2, <1>3, <2>4, <2>6, <2>7, <2>9
<1> QED
  BY <1>1, <1>4, <1>5, SplitterAssumption

\* A line starts at the first byte and after each newline.
LEMMA StartIs ==
  ASSUME NEW b \in Seq(Bytes)
  PROVE  /\ Starts(b) \subseteq 1..(Len(b) + 1)
         /\ 1 \in Starts(b)
         /\ \A i \in 1..(Len(b) + 1) : i \in Starts(b) <=> i = 1 \/ b[i - 1] = NL
<1>1. DOMAIN b = 1..Len(b) /\ Len(b) \in Nat
  OBVIOUS
<1> DEFINE J == {j \in 1..Len(b) : b[j] = NL}
<1>2. Starts(b) = {1} \cup {i + 1 : i \in J}
  BY <1>1 DEF Starts
<1>3. \A j \in J : j + 1 \in 2..(Len(b) + 1) /\ (j + 1) - 1 = j /\ b[j] = NL
  BY <1>1
<1>4. ASSUME NEW i \in 1..(Len(b) + 1), i # 1
      PROVE  b[i - 1] = NL => i - 1 \in J /\ i = (i - 1) + 1
  BY <1>1, <1>4
<1>5. \A i \in 2..(Len(b) + 1) : i \in 1..(Len(b) + 1) /\ i # 1
  BY <1>1
<1>6. 1 \in 1..(Len(b) + 1)
  BY <1>1
<1> HIDE DEF J
<1>7. ASSUME NEW i \in Starts(b), i # 1 PROVE i \in 1..(Len(b) + 1) /\ b[i - 1] = NL
  <2>1. PICK j \in J : i = j + 1
    BY <1>2, <1>7
  <2> QED
    BY <1>3, <1>5, <2>1
<1>8. ASSUME NEW i \in 1..(Len(b) + 1), i # 1, b[i - 1] = NL PROVE i \in Starts(b)
  BY <1>2, <1>4, <1>8
<1> QED
  BY <1>2, <1>6, <1>7, <1>8

\* Bytes that come later do not change those before.
LEMMA Prefix ==
  ASSUME NEW t \in Seq(Bytes), NEW c \in Seq(Bytes)
  PROVE  /\ t \o c \in Seq(Bytes) /\ Len(t \o c) = Len(t) + Len(c)
         /\ Len(t) \in Nat /\ Len(c) \in Nat
         /\ \A i \in 1..Len(t) : (t \o c)[i] = t[i]
         /\ \A i \in 1..Len(c) : (t \o c)[Len(t) + i] = c[i]
         /\ \A i \in 1..(Len(t) + 1), x \in 0..Len(t) : SubSeq(t \o c, i, x) = SubSeq(t, i, x)
<1>1. Len(t) \in Nat /\ Len(c) \in Nat
  OBVIOUS
<1>2. /\ t \o c \in Seq(Bytes) /\ Len(t \o c) = Len(t) + Len(c)
      /\ \A i \in 1..(Len(t) + Len(c)) : (t \o c)[i] = IF i <= Len(t) THEN t[i] ELSE c[i - Len(t)]
  BY ConcatProperties
<1>3. ASSUME NEW i \in 1..Len(t) PROVE (t \o c)[i] = t[i]
  BY <1>1, <1>2
<1>4. ASSUME NEW i \in 1..Len(c) PROVE (t \o c)[Len(t) + i] = c[i]
  <2>1. Len(t) + i \in 1..(Len(t) + Len(c)) /\ ~(Len(t) + i <= Len(t)) /\ (Len(t) + i) - Len(t) = i
    BY <1>1
  <2> QED
    BY <1>2, <2>1
<1>5. ASSUME NEW i \in 1..(Len(t) + 1), NEW x \in 0..Len(t)
      PROVE  SubSeq(t \o c, i, x) = SubSeq(t, i, x)
  <2>1. i \in Int /\ x \in Int
    BY <1>1
  <2>2. CASE x < i
    BY <2>1, <2>2, SubSeqEmpty
  <2>3. CASE i <= x
    <3>1. i \in 1..Len(t) /\ x \in 1..Len(t)
      BY <1>1, <2>3
    <3> QED
      BY <3>1, SubSeqOfConcat1
  <2> QED
    BY <2>1, <2>2, <2>3
<1> QED
  BY <1>1, <1>2, <1>3, <1>4, <1>5

\* A line that is known stays what it is, whatever comes after it.
LEMMA KnownStays ==
  ASSUME NEW t \in Seq(Bytes), NEW c \in Seq(Bytes), NEW i \in Known(t), NEW s \in Streams
  PROVE  /\ i \in Known(t \o c)
         /\ LineOf(s, t \o c, i) = LineOf(s, t, i)
         /\ LineOf(s, t, i) \in Lines
<1> DEFINE u == t \o c
<1>1. /\ u \in Seq(Bytes) /\ Len(u) = Len(t) + Len(c) /\ Len(t) \in Nat /\ Len(c) \in Nat
      /\ \A j \in 1..Len(t) : u[j] = t[j]
      /\ \A j \in 1..(Len(t) + 1), x \in 0..Len(t) : SubSeq(u, j, x) = SubSeq(t, j, x)
  BY Prefix
<1> HIDE DEF u
<1>2. i \in Starts(t) /\ (Ended(t, i) \/ Len(LineAt(t, i)) > MaxLine)
  BY DEF Known
<1>3. i \in 1..(Len(t) + 1) /\ (i = 1 \/ t[i - 1] = NL) /\ i \in Nat
  BY <1>1, <1>2, StartIs
<1>4. i \in 1..(Len(u) + 1) /\ (i = 1 \/ u[i - 1] = NL)
  <2>1. i # 1 => i - 1 \in 1..Len(t)
    BY <1>1, <1>3
  <2>2. i \in 1..(Len(u) + 1)
    BY <1>1, <1>3
  <2> QED
    BY <1>1, <1>3, <2>1, <2>2
<1>5. i \in Starts(u)
  BY <1>1, <1>4, StartIs
<1>6. PICK e : EndsAt(t, i, e)
  BY <1>3, LineEnds
<1>7. /\ Ended(t, i) <=> e < Len(t)
      /\ Len(LineAt(t, i)) = e - i + 1
      /\ LineOf(s, t, i) = Line(s, t, i, e)
      /\ LineOf(s, t, i) \in Lines
  BY <1>6, LineIs
<1>8. PICK f : EndsAt(u, i, f)
  BY <1>1, <1>4, LineEnds
<1>9. /\ Ended(u, i) <=> f < Len(u)
      /\ Len(LineAt(u, i)) = f - i + 1
      /\ LineOf(s, u, i) = Line(s, u, i, f)
  BY <1>8, LineIs
<1>10. e \in 0..Len(t) /\ e >= i - 1 /\ f \in 0..Len(u)
  BY <1>3, <1>4, <1>6, <1>8, <1>1 DEF EndsAt
<1>11. CASE e < Len(t)
  <2>1. EndsAt(u, i, e)
    <3>1. \A j \in i..e : j \in 1..Len(t) /\ t[j] # NL
      BY <1>1, <1>3, <1>6, <1>10 DEF EndsAt
    <3>2. \A j \in i..e : u[j] # NL
      BY <1>1, <3>1
    <3>3. e + 1 \in 1..Len(t) /\ t[e + 1] = NL
      BY <1>1, <1>6, <1>10, <1>11 DEF EndsAt
    <3>4. e \in (i - 1)..Len(u)
      BY <1>1, <1>3, <1>10
    <3> QED
      BY <1>1, <1>4, <3>2, <3>3, <3>4 DEF EndsAt
  <2>2. f = e
    BY <1>8, <2>1, EndUnique
  <2>3. Ended(u, i)
    BY <1>1, <1>9, <1>10, <1>11, <2>2
  <2>4. SubSeq(u, i, e) = SubSeq(t, i, e)
    BY <1>1, <1>3, <1>10
  <2>5. e - i + 1 > MaxLine => i + MaxLine - 1 \in 0..Len(t)
    BY <1>1, <1>3, <1>10, SplitterAssumption
  <2>6. e - i + 1 > MaxLine => SubSeq(u, i, i + MaxLine - 1) = SubSeq(t, i, i + MaxLine - 1)
    BY <1>1, <1>3, <2>5
  <2>7. ~(e - i + 1 <= MaxLine) => e - i + 1 > MaxLine
    BY <1>3, <1>10, <1>1, SplitterAssumption
  <2>8. Line(s, u, i, e) = Line(s, t, i, e)
    BY <2>4, <2>6, <2>7 DEF Line
  <2> QED
    BY <1>5, <1>7, <1>9, <2>2, <2>3, <2>8 DEF Known, u
<1>12. CASE ~(e < Len(t))
  <2>1. e = Len(t) /\ e - i + 1 > MaxLine
    BY <1>1, <1>2, <1>7, <1>10, <1>12
  <2>2. f >= e
    <3>1. SUFFICES ASSUME f < e PROVE FALSE
      BY <1>1, <1>10
    <3>2. f + 1 \in i..e /\ f + 1 \in 1..Len(t) /\ f # Len(u)
      BY <1>1, <1>3, <1>8, <1>10, <3>1 DEF EndsAt
    <3>3. u[f + 1] = NL /\ t[f + 1] # NL
      BY <1>6, <1>8, <3>2 DEF EndsAt
    <3> QED
      BY <1>1, <3>2, <3>3
  <2>3. f - i + 1 > MaxLine /\ ~(f - i + 1 <= MaxLine) /\ ~(e - i + 1 <= MaxLine)
        /\ i + MaxLine - 1 \in 0..Len(t)
    BY <1>1, <1>3, <1>10, <2>1, <2>2, SplitterAssumption
  <2>4. SubSeq(u, i, i + MaxLine - 1) = SubSeq(t, i, i + MaxLine - 1)
    BY <1>1, <1>3, <2>3
  <2>5. Line(s, u, i, f) = Line(s, t, i, e)
    BY <2>3, <2>4 DEF Line
  <2>6. Len(LineAt(u, i)) > MaxLine
    BY <1>9, <2>3
  <2> QED
    BY <1>5, <1>7, <1>9, <2>5, <2>6 DEF Known, u
<1> QED
  BY <1>11, <1>12

\* The unfinished line of the bytes t starts at st.
Open(t, st) ==
  /\ t \in Seq(Bytes) /\ st \in 1..(Len(t) + 1)
  /\ st = 1 \/ t[st - 1] = NL
  /\ \A j \in st..Len(t) : t[j] # NL

\* The lines before it.
Before(t, st) == {i \in Starts(t) : i < st}

Long(t, st) == Len(t) + 1 - st > MaxLine

\* All of them have ended, so what is known is they and, once it is too long,
\* the unfinished one; what was written, they and it unless it has no byte.
LEMMA OpenLines ==
  ASSUME NEW t, NEW st, Open(t, st)
  PROVE  /\ EndsAt(t, st, Len(t)) /\ st \in Starts(t) /\ \A i \in Starts(t) : i \in 1..st
         /\ Known(t) = IF Long(t, st) THEN Before(t, st) \cup {st} ELSE Before(t, st)
         /\ Written(t) = IF st <= Len(t) THEN Before(t, st) \cup {st} ELSE Before(t, st)
<1>1. t \in Seq(Bytes) /\ st \in 1..(Len(t) + 1) /\ Len(t) \in Nat /\ st \in Nat
      /\ (st = 1 \/ t[st - 1] = NL) /\ (\A j \in st..Len(t) : t[j] # NL)
  BY DEF Open
<1>2. EndsAt(t, st, Len(t))
  <2>1. Len(t) \in (st - 1)..Len(t)
    BY <1>1
  <2> QED
    BY <1>1, <2>1 DEF EndsAt
<1>3. st \in Starts(t)
  BY <1>1, StartIs
<1>4. ASSUME NEW i \in Starts(t) PROVE i \in 1..st
  <2>1. i \in 1..(Len(t) + 1) /\ (i = 1 \/ t[i - 1] = NL)
    BY <1>1, StartIs
  <2>2. i > st => i - 1 \in st..Len(t)
    BY <1>1, <2>1
  <2>3. i > st => i # 1
    BY <1>1
  <2>4. ~(i > st)
    BY <1>1, <2>1, <2>2, <2>3
  <2> QED
    BY <1>1, <2>1, <2>4
<1>5. ASSUME NEW i \in Starts(t), i < st PROVE Ended(t, i)
  <2>1. i \in 1..st /\ i \in 1..(Len(t) + 1)
    BY <1>1, <1>4
  <2>2. PICK e : EndsAt(t, i, e) /\ (Ended(t, i) <=> e < Len(t))
    BY <1>1, <2>1, LineEnds
  <2>3. st - 1 \in i..Len(t) /\ t[st - 1] = NL
    BY <1>1, <1>5, <2>1
  <2>4. e # Len(t)
    BY <2>2, <2>3 DEF EndsAt
  <2>5. e \in (i - 1)..Len(t)
    BY <2>2 DEF EndsAt
  <2> QED
    BY <1>1, <2>1, <2>2, <2>4, <2>5
<1>6. ~Ended(t, st) /\ Len(LineAt(t, st)) = Len(t) + 1 - st /\ LineAt(t, st) \in Seq(Bytes)
  <2>1. PICK s : s \in Streams
    BY ReadAssumption
  <2>2. /\ Ended(t, st) <=> Len(t) < Len(t)
        /\ Len(LineAt(t, st)) = Len(t) - st + 1
        /\ LineAt(t, st) = SubSeq(t, st, Len(t))
    BY <1>2, <2>1, LineIs
  <2>3. \A j \in st..Len(t) : t[j] \in Bytes
    BY <1>1
  <2>4. SubSeq(t, st, Len(t)) \in Seq(Bytes)
    BY <1>1, <2>3, SubSeqProperties
  <2> QED
    BY <1>1, <2>2, <2>4
<1>7. LineAt(t, st) # <<>> <=> st <= Len(t)
  <2>1. LineAt(t, st) = <<>> => Len(LineAt(t, st)) = 0
    BY EmptySeq
  <2>2. LineAt(t, st) # <<>> => Len(LineAt(t, st)) # 0
    BY <1>6, EmptySeq
  <2>3. Len(t) + 1 - st # 0 <=> st <= Len(t)
    BY <1>1
  <2> QED
    BY <1>6, <2>1, <2>2, <2>3
<1>8. \A i \in Starts(t) : i < st \/ i = st
  BY <1>1, <1>4
<1>9. ~(st < st)
  BY <1>1
<1>10. Known(t) = IF Long(t, st) THEN Before(t, st) \cup {st} ELSE Before(t, st)
  <2>1. \A i \in Starts(t) : i \in Known(t) <=> i \in Before(t, st) \/ (i = st /\ Long(t, st))
    BY <1>5, <1>6, <1>8, <1>9 DEF Known, Before, Long
  <2>2. Known(t) \subseteq Starts(t) /\ Before(t, st) \subseteq Starts(t)
    BY DEF Known, Before
  <2> QED
    BY <1>3, <2>1, <2>2
<1>11. Written(t) = IF st <= Len(t) THEN Before(t, st) \cup {st} ELSE Before(t, st)
  <2>1. \A i \in Starts(t) : i \in Written(t) <=> i \in Before(t, st) \/ (i = st /\ st <= Len(t))
    BY <1>5, <1>6, <1>7, <1>8, <1>9 DEF Written, Before
  <2>2. Written(t) \subseteq Starts(t) /\ Before(t, st) \subseteq Starts(t)
    BY DEF Written, Before
  <2> QED
    BY <1>3, <2>1, <2>2
<1> QED
  BY <1>2, <1>3, <1>4, <1>10, <1>11

\* Bytes without a newline lengthen it.
LEMMA OpenGrows ==
  ASSUME NEW t, NEW st, Open(t, st), NEW c \in Seq(Bytes), \A j \in 1..Len(c) : c[j] # NL
  PROVE  Open(t \o c, st) /\ Before(t \o c, st) = Before(t, st)
<1> DEFINE u == t \o c
<1>1. t \in Seq(Bytes) /\ st \in 1..(Len(t) + 1) /\ (st = 1 \/ t[st - 1] = NL)
      /\ (\A j \in st..Len(t) : t[j] # NL)
  BY DEF Open
<1>2. /\ u \in Seq(Bytes) /\ Len(u) = Len(t) + Len(c) /\ Len(t) \in Nat /\ Len(c) \in Nat
      /\ \A j \in 1..Len(t) : u[j] = t[j]
      /\ \A j \in 1..Len(c) : u[Len(t) + j] = c[j]
  BY <1>1, Prefix
<1> HIDE DEF u
<1>3. ASSUME NEW j \in st..Len(u) PROVE u[j] # NL
  <2>1. CASE j <= Len(t)
    <3>1. j \in st..Len(t) /\ j \in 1..Len(t)
      BY <1>1, <1>2, <2>1
    <3> QED
      BY <1>1, <1>2, <3>1
  <2>2. CASE j > Len(t)
    <3>1. j - Len(t) \in 1..Len(c) /\ Len(t) + (j - Len(t)) = j
      BY <1>1, <1>2, <2>2
    <3> QED
      BY <1>2, <3>1
  <2> QED
    BY <1>1, <1>2, <2>1, <2>2
<1>4. st \in 1..(Len(u) + 1) /\ (st # 1 => st - 1 \in 1..Len(t))
  BY <1>1, <1>2
<1>5. Open(u, st)
  BY <1>1, <1>2, <1>3, <1>4 DEF Open
<1>6. ASSUME NEW i \in 1..st, i < st PROVE i \in Starts(u) <=> i \in Starts(t)
  <2>1. i \in 1..(Len(t) + 1) /\ i \in 1..(Len(u) + 1) /\ (i # 1 => i - 1 \in 1..Len(t))
    BY <1>1, <1>2, <1>6
  <2> QED
    BY <1>1, <1>2, <2>1, StartIs
<1>7. (\A i \in Starts(u) : i \in 1..st) /\ (\A i \in Starts(t) : i \in 1..st)
  BY <1>5, OpenLines
<1>8. Before(u, st) = Before(t, st)
  BY <1>6, <1>7 DEF Before
<1> QED
  BY <1>5, <1>8 DEF u

\* A newline ends it and opens the next.
LEMMA OpenEnds ==
  ASSUME NEW t, NEW st, Open(t, st)
  PROVE  /\ t \o <<NL>> \in Seq(Bytes) /\ Len(t \o <<NL>>) = Len(t) + 1
         /\ Open(t \o <<NL>>, Len(t) + 2)
         /\ Before(t \o <<NL>>, Len(t) + 2) = Before(t, st) \cup {st}
         /\ EndsAt(t \o <<NL>>, st, Len(t))
<1> DEFINE c == <<NL>>
           u == t \o c
<1>1. t \in Seq(Bytes) /\ st \in 1..(Len(t) + 1) /\ (st = 1 \/ t[st - 1] = NL)
      /\ (\A j \in st..Len(t) : t[j] # NL)
  BY DEF Open
<1>2. c \in Seq(Bytes) /\ Len(c) = 1 /\ c[1] = NL
  BY DEF Bytes
<1>3. /\ u \in Seq(Bytes) /\ Len(u) = Len(t) + 1 /\ Len(t) \in Nat
      /\ \A j \in 1..Len(t) : u[j] = t[j]
      /\ u[Len(t) + 1] = NL
  <2> HIDE DEF c
  <2>1. /\ u \in Seq(Bytes) /\ Len(u) = Len(t) + Len(c) /\ Len(t) \in Nat
        /\ \A j \in 1..Len(t) : u[j] = t[j]
        /\ \A j \in 1..Len(c) : u[Len(t) + j] = c[j]
    BY <1>1, <1>2, Prefix
  <2>2. 1 \in 1..Len(c)
    BY <1>2
  <2> QED
    BY <1>2, <2>1, <2>2
<1> HIDE DEF u
<1>4. Open(u, Len(t) + 2)
  <2>1. Len(t) + 2 \in 1..(Len(u) + 1) /\ (Len(t) + 2) - 1 = Len(t) + 1
        /\ \A j \in (Len(t) + 2)..Len(u) : FALSE
    BY <1>3
  <2> QED
    BY <1>3, <2>1 DEF Open
<1>5. EndsAt(u, st, Len(t))
  <2>1. Len(t) \in (st - 1)..Len(u) /\ st \in 1..(Len(u) + 1)
        /\ \A j \in st..Len(t) : j \in 1..Len(t)
    BY <1>1, <1>3
  <2> QED
    BY <1>1, <1>3, <2>1 DEF EndsAt
<1>6. ASSUME NEW i \in 1..(Len(t) + 1) PROVE i \in Starts(u) <=> i \in Starts(t)
  <2>1. i \in 1..(Len(u) + 1) /\ (i # 1 => i - 1 \in 1..Len(t))
    BY <1>3
  <2> QED
    BY <1>1, <1>3, <2>1, StartIs
<1>7. st \in Starts(t) /\ \A i \in Starts(t) : i \in 1..st
  BY OpenLines
<1>8. \A i \in Starts(u) : i \in 1..(Len(u) + 1)
  BY <1>3, StartIs
<1>9. Before(u, Len(t) + 2) = Before(t, st) \cup {st}
  <2>1. ASSUME NEW i \in Before(u, Len(t) + 2) PROVE i \in Before(t, st) \cup {st}
    <3>1. i \in Starts(u) /\ i < Len(t) + 2
      BY DEF Before
    <3>2. i \in 1..(Len(t) + 1)
      BY <1>3, <1>8, <3>1
    <3>3. i \in Starts(t)
      BY <1>6, <3>1, <3>2
    <3>4. i \in 1..st /\ st \in Nat
      <4>1. i \in 1..st
        BY <1>7, <3>3
      <4>2. st \in Nat
        BY <1>1, <1>3
      <4> QED
        BY <4>1, <4>2
    <3>5. i < st \/ i = st
      BY <3>4
    <3> QED
      BY <3>3, <3>5 DEF Before
  <2>2. ASSUME NEW i \in Starts(t) PROVE i \in Before(u, Len(t) + 2)
    <3>0. i \in 1..st /\ st \in 1..(Len(t) + 1) /\ Len(t) \in Nat
      BY <1>1, <1>3, <1>7
    <3>1. i \in 1..(Len(t) + 1) /\ i < Len(t) + 2
      BY <3>0
    <3> QED
      BY <1>6, <3>1 DEF Before
  <2>3. Before(t, st) \subseteq Starts(t)
    BY DEF Before
  <2> QED
    BY <1>7, <2>1, <2>2, <2>3
<1> QED
  BY <1>3, <1>4, <1>5, <1>9 DEF u

\* The lines known so far are the same lines once there are more bytes.
LEMMA LinesAgree ==
  ASSUME NEW t \in Seq(Bytes), NEW c \in Seq(Bytes), NEW s \in Streams,
         NEW T, Known(t) \subseteq T, NEW n \in Nat, Known(t) \in SUBSET (1..n)
  PROVE  Agree(Lines, [i \in Known(t) |-> LineOf(s, t, i)],
               [i \in T |-> LineOf(s, t \o c, i)], Known(t), n)
<1> DEFINE f == [i \in Known(t) |-> LineOf(s, t, i)]
           g == [i \in T |-> LineOf(s, t \o c, i)]
<1>1. ASSUME NEW x \in Known(t)
      PROVE  f[x] = LineOf(s, t, x) /\ g[x] = LineOf(s, t \o c, x)
  OBVIOUS
<1>2. ASSUME NEW x \in Known(t)
      PROVE  LineOf(s, t \o c, x) = LineOf(s, t, x) /\ LineOf(s, t, x) \in Lines
  BY KnownStays
<1> HIDE DEF f, g
<1>3. Agree(Lines, f, g, Known(t), n)
  BY <1>1, <1>2 DEF Agree
<1> QED
  BY <1>3 DEF f, g

\* If no line is known that was not, the lines are the same.
LEMMA LinesStay ==
  ASSUME NEW t \in Seq(Bytes), NEW c \in Seq(Bytes), NEW s \in Streams,
         Known(t \o c) = Known(t)
  PROVE  LinesAt(s, t \o c, Known(t \o c)) = LinesAt(s, t, Known(t))
<1> DEFINE f == [i \in Known(t) |-> LineOf(s, t, i)]
           g == [i \in Known(t) |-> LineOf(s, t \o c, i)]
<1>1. Len(t) + 1 \in Nat /\ Known(t) \in SUBSET (1..(Len(t) + 1))
  <2>1. Known(t) \subseteq Starts(t)
    BY DEF Known
  <2> QED
    BY <2>1, StartIs
<1>2. Agree(Lines, f, g, Known(t), Len(t) + 1)
  BY <1>1, LinesAgree
<1>3. LinesAt(s, t, Known(t)) = InOrder(f, Known(t))
      /\ LinesAt(s, t \o c, Known(t)) = InOrder(g, Known(t))
  BY DEF LinesAt
<1> HIDE DEF f, g
<1>4. InOrder(g, Known(t)) = InOrder(f, Known(t))
  BY <1>2, InOrderSame
<1> QED
  BY <1>3, <1>4

\* With the bytes c the line that starts at st is there, after the known ones.
Adds(s, t, c, u, st, e, T, h) ==
  /\ t \in Seq(Bytes) /\ c \in Seq(Bytes) /\ u = t \o c
  /\ st \in Nat \ {0} /\ Known(t) \in SUBSET (1..(st - 1))
  /\ EndsAt(u, st, e)
  /\ T = Known(t) \cup {st} /\ h = <<Line(s, u, st, e)>>

\* It is the last of them.
LEMMA LinesOne ==
  ASSUME NEW s \in Streams, NEW t, NEW c, NEW u, NEW st, NEW e, NEW T, NEW h,
         Adds(s, t, c, u, st, e, T, h)
  PROVE  LinesAt(s, u, T) = LinesAt(s, t, Known(t)) \o h
<1> DEFINE K == Known(t)
           f == [i \in K |-> LineOf(s, t, i)]
           g == [i \in T |-> LineOf(s, u, i)]
<1>1. /\ t \in Seq(Bytes) /\ c \in Seq(Bytes) /\ u = t \o c
      /\ st \in Nat \ {0} /\ K \in SUBSET (1..(st - 1)) /\ EndsAt(u, st, e)
      /\ T = K \cup {st} /\ h = <<Line(s, u, st, e)>>
  BY DEF Adds
<1>2. PICK n \in Nat : n = st - 1 /\ n + 1 = st
  BY <1>1
<1>3. Agree(Lines, f, g, K, n)
  <2>1. K \subseteq T /\ K \in SUBSET (1..n)
    BY <1>1, <1>2
  <2> QED
    BY <1>1, <2>1, LinesAgree
<1>4. LineOf(s, u, st) = Line(s, u, st, e) /\ LineOf(s, u, st) \in Lines
  BY <1>1, LineIs
<1>5. g[st] = LineOf(s, u, st)
  BY <1>1
<1>6. LinesAt(s, t, K) = InOrder(f, K) /\ LinesAt(s, u, T) = InOrder(g, T)
  BY DEF LinesAt
<1> HIDE DEF K, f, g
<1>7. GoesOne(Lines, f, g, K, n, T, h)
  BY <1>1, <1>2, <1>3, <1>4, <1>5 DEF GoesOne
<1>8. InOrder(g, T) = InOrder(f, K) \o h
  BY <1>7, InOrderOne
<1> QED
  BY <1>6, <1>8 DEF K

\* The lines before the unfinished one have smaller positions.
LEMMA BeforeSmaller ==
  ASSUME NEW t, NEW st, Open(t, st)
  PROVE  st \in Nat \ {0} /\ Before(t, st) \in SUBSET (1..(st - 1)) /\ st \notin Before(t, st)
<1>1. st \in Nat \ {0}
  BY DEF Open
<1>2. \A i \in Starts(t) : i \in 1..st
  BY OpenLines
<1>3. \A i \in 1..st : i < st => i \in 1..(st - 1)
  BY <1>1
<1>4. ~(st < st)
  BY <1>1
<1> QED
  BY <1>1, <1>2, <1>3, <1>4 DEF Before

\* Bytes without a newline make a line known exactly if they make it too long.
LEMMA Lengthens ==
  ASSUME NEW t, NEW st, Open(t, st), NEW s \in Streams,
         NEW c \in Seq(Bytes), \A j \in 1..Len(c) : c[j] # NL
  PROVE  /\ Open(t \o c, st)
         /\ Long(t, st) => Long(t \o c, st)
         /\ LinesAt(s, t \o c, Known(t \o c)) =
              IF ~Long(t, st) /\ Long(t \o c, st)
              THEN LinesAt(s, t, Known(t)) \o <<Line(s, t \o c, st, Len(t \o c))>>
              ELSE LinesAt(s, t, Known(t))
<1> DEFINE u == t \o c
<1>1. t \in Seq(Bytes) /\ st \in 1..(Len(t) + 1)
  BY DEF Open
<1>2. Len(u) = Len(t) + Len(c) /\ Len(t) \in Nat /\ Len(c) \in Nat
  BY <1>1, Prefix
<1>3. Open(u, st) /\ Before(u, st) = Before(t, st)
  BY OpenGrows
<1>4. Long(t, st) => Long(u, st)
  BY <1>1, <1>2, SplitterAssumption DEF Long
<1>5. /\ Known(t) = IF Long(t, st) THEN Before(t, st) \cup {st} ELSE Before(t, st)
      /\ Known(u) = IF Long(u, st) THEN Before(t, st) \cup {st} ELSE Before(t, st)
      /\ EndsAt(u, st, Len(u))
  BY <1>3, OpenLines
<1>6. st \in Nat \ {0} /\ Before(t, st) \in SUBSET (1..(st - 1))
  BY BeforeSmaller
<1>7. CASE ~Long(t, st) /\ Long(u, st)
  <2>1. Known(t) = Before(t, st) /\ Known(u) = Known(t) \cup {st}
    BY <1>5, <1>7
  <2> DEFINE h == <<Line(s, u, st, Len(u))>>
  <2>2. Adds(s, t, c, u, st, Len(u), Known(u), h)
    BY <1>1, <1>5, <1>6, <2>1 DEF Adds
  <2> HIDE DEF h
  <2>3. LinesAt(s, u, Known(u)) = LinesAt(s, t, Known(t)) \o h
    BY <2>2, LinesOne
  <2> QED
    BY <1>3, <1>4, <1>7, <2>3 DEF h
<1>8. CASE Long(t, st) \/ ~Long(u, st)
  <2>1. Known(u) = Known(t)
    BY <1>4, <1>5, <1>8
  <2>2. LinesAt(s, u, Known(u)) = LinesAt(s, t, Known(t))
    BY <1>1, <2>1, LinesStay
  <2> QED
    BY <1>3, <1>4, <1>8, <2>2
<1> QED
  BY <1>7, <1>8

\* The bytes c and a newline, of which the unfinished line t is made u.
Closes(s, t, st, c, u, h) ==
  /\ Open(t, st) /\ c \in Seq(Bytes) /\ \A j \in 1..Len(c) : c[j] # NL
  /\ u = t \o (c \o <<NL>>) /\ h = <<Line(s, u, st, Len(t) + Len(c))>>

\* A newline makes the line known, if it was not too long before.
LEMMA Finishes ==
  ASSUME NEW s \in Streams, NEW t, NEW st, NEW c, NEW u, NEW h, Closes(s, t, st, c, u, h)
  PROVE  /\ Open(u, Len(u) + 1)
         /\ Long(t, st) => LinesAt(s, u, Known(u)) = LinesAt(s, t, Known(t))
         /\ ~Long(t, st) => LinesAt(s, u, Known(u)) = LinesAt(s, t, Known(t)) \o h
<1> DEFINE v == t \o c
           d == c \o <<NL>>
           n == Len(t) + Len(c)
<1>0. /\ Open(t, st) /\ c \in Seq(Bytes) /\ \A j \in 1..Len(c) : c[j] # NL
      /\ u = t \o d /\ h = <<Line(s, u, st, n)>>
  BY DEF Closes
<1>1. t \in Seq(Bytes) /\ st \in 1..(Len(t) + 1)
  BY <1>0 DEF Open
<1>2. Len(v) = n /\ Len(t) \in Nat /\ Len(c) \in Nat /\ n \in Nat
  BY <1>0, <1>1, Prefix
<1>3. Open(v, st) /\ Before(v, st) = Before(t, st)
  BY <1>0, OpenGrows
<1>4. <<NL>> \in Seq(Bytes)
  BY DEF Bytes
<1>5. d \in Seq(Bytes) /\ u = v \o <<NL>>
  <2>1. d \in Seq(Bytes)
    BY <1>0, <1>4, Prefix
  <2> QED
    BY <1>0, <1>1, <1>4, <2>1, ConcatAssociative
<1> HIDE DEF v, d
<1>6. /\ u \in Seq(Bytes) /\ Len(u) = n + 1 /\ Open(u, n + 2) /\ Len(u) + 1 = n + 2
      /\ Before(u, n + 2) = Before(t, st) \cup {st} /\ EndsAt(u, st, n)
  <2>1. /\ v \o <<NL>> \in Seq(Bytes) /\ Len(v \o <<NL>>) = Len(v) + 1
        /\ Open(v \o <<NL>>, Len(v) + 2)
        /\ Before(v \o <<NL>>, Len(v) + 2) = Before(v, st) \cup {st}
        /\ EndsAt(v \o <<NL>>, st, Len(v))
    BY <1>3, OpenEnds
  <2> HIDE DEF n
  <2> QED
    BY <1>2, <1>3, <1>5, <2>1
<1>7. ~Long(u, n + 2)
  BY <1>2, <1>6, SplitterAssumption DEF Long
<1>8. /\ Known(t) = IF Long(t, st) THEN Before(t, st) \cup {st} ELSE Before(t, st)
      /\ Known(u) = Before(t, st) \cup {st}
  BY <1>0, <1>6, <1>7, OpenLines
<1>9. st \in Nat \ {0} /\ Before(t, st) \in SUBSET (1..(st - 1))
  BY <1>0, BeforeSmaller
<1>10. CASE Long(t, st)
  <2>1. Known(u) = Known(t)
    BY <1>8, <1>10
  <2>2. LinesAt(s, u, Known(u)) = LinesAt(s, t, Known(t))
    <3>1. Known(t \o d) = Known(t)
      BY <1>0, <2>1
    <3>2. LinesAt(s, t \o d, Known(t \o d)) = LinesAt(s, t, Known(t))
      BY <1>1, <1>5, <3>1, LinesStay
    <3> QED
      BY <1>0, <3>2
  <2> QED
    BY <1>2, <1>6, <1>10, <2>2
<1>11. CASE ~Long(t, st)
  <2>1. Known(t) = Before(t, st) /\ Known(u) = Known(t) \cup {st}
    BY <1>8, <1>11
  <2>2. Adds(s, t, d, u, st, n, Known(u), h)
    BY <1>0, <1>1, <1>5, <1>6, <1>9, <2>1 DEF Adds
  <2> HIDE DEF n
  <2>3. LinesAt(s, u, Known(u)) = LinesAt(s, t, Known(t)) \o h
    BY <2>2, LinesOne
  <2> QED
    BY <1>2, <1>6, <1>11, <2>3 DEF n
<1> QED
  BY <1>10, <1>11

\* The lines that were written are those known, and the last one if it has a
\* byte and is not too long: the one that flush gives.
LEMMA FlushLines ==
  ASSUME NEW t, NEW st, Open(t, st), NEW s \in Streams
  PROVE  LinesAt(s, t, Written(t)) =
           IF st <= Len(t) /\ ~Long(t, st)
           THEN LinesAt(s, t, Known(t)) \o <<Line(s, t, st, Len(t))>>
           ELSE LinesAt(s, t, Known(t))
<1>1. t \in Seq(Bytes) /\ st \in 1..(Len(t) + 1) /\ Len(t) \in Nat
  BY DEF Open
<1>2. /\ Known(t) = IF Long(t, st) THEN Before(t, st) \cup {st} ELSE Before(t, st)
      /\ Written(t) = IF st <= Len(t) THEN Before(t, st) \cup {st} ELSE Before(t, st)
      /\ EndsAt(t, st, Len(t))
  BY OpenLines
<1>3. st \in Nat \ {0} /\ Before(t, st) \in SUBSET (1..(st - 1))
  BY BeforeSmaller
<1>4. Long(t, st) => st <= Len(t)
  BY <1>1, SplitterAssumption DEF Long
<1>5. CASE st <= Len(t) /\ ~Long(t, st)
  <2>1. <<>> \in Seq(Bytes) /\ t \o <<>> = t
    BY <1>1, ConcatEmptySeq, EmptySeq
  <2>2. Written(t) = Known(t) \cup {st} /\ Known(t) \in SUBSET (1..(st - 1))
    BY <1>2, <1>3, <1>5
  <2> DEFINE h == <<Line(s, t, st, Len(t))>>
             c == <<>>
  <2>3. Adds(s, t, c, t, st, Len(t), Written(t), h)
    BY <1>1, <1>2, <1>3, <2>1, <2>2 DEF Adds
  <2> HIDE DEF h, c
  <2>4. LinesAt(s, t, Written(t)) = LinesAt(s, t, Known(t)) \o h
    BY <2>3, LinesOne
  <2> QED
    BY <1>5, <2>4 DEF h
<1>6. CASE ~(st <= Len(t) /\ ~Long(t, st))
  <2>1. Written(t) = Known(t)
    BY <1>2, <1>4, <1>6
  <2> QED
    BY <1>6, <2>1
<1> QED
  BY <1>5, <1>6

\* What push has put together of a line is that part of its stream.
LEMMA PieceIs ==
  ASSUME NEW t \in Seq(Bytes), NEW c \in Seq(Bytes), NEW st \in 1..(Len(t) + 1),
         NEW m \in 0..Len(c)
  PROVE  SubSeq(t \o c, st, Len(t) + m) = SubSeq(t, st, Len(t)) \o SubSeq(c, 1, m)
<1> DEFINE u == t \o c
<1>1. /\ u \in Seq(Bytes) /\ Len(u) = Len(t) + Len(c) /\ Len(t) \in Nat /\ Len(c) \in Nat
      /\ SubSeq(u, st, Len(t)) = SubSeq(t, st, Len(t))
  <2>1. Len(t) \in Nat /\ Len(t) \in 0..Len(t)
    OBVIOUS
  <2> QED
    BY <2>1, Prefix
<1>2. SubSeq(u, st, Len(t)) \o SubSeq(u, Len(t) + 1, Len(t) + m) = SubSeq(u, st, Len(t) + m)
  <2> HIDE DEF u
  <2>1. st \in 1..(Len(u) + 1) /\ Len(t) \in (st - 1)..Len(u) /\ Len(t) + m \in Len(t)..Len(u)
    BY <1>1
  <2> QED
    BY <1>1, <2>1, ConcatAdjacentSubSeq
<1>3. SubSeq(u, Len(t) + 1, Len(t) + m) = SubSeq(c, 1, m)
  <2>1. CASE m = 0
    <3>1. Len(t) + 1 \in Int /\ Len(t) + m \in Int /\ Len(t) + m < Len(t) + 1 /\ m < 1 /\ m \in Int
      BY <1>1, <2>1
    <3> QED
      BY <3>1, SubSeqEmpty
  <2>2. CASE m # 0
    <3>1. /\ Len(t) + 1 \in (Len(t) + 1)..(Len(t) + Len(c))
          /\ Len(t) + m \in (Len(t) + 1)..(Len(t) + Len(c))
          /\ (Len(t) + 1) - Len(t) = 1 /\ (Len(t) + m) - Len(t) = m
      BY <1>1, <2>2
    <3>2. SubSeq(u, Len(t) + 1, Len(t) + m)
            = SubSeq(c, (Len(t) + 1) - Len(t), (Len(t) + m) - Len(t))
      BY <3>1, SubSeqOfConcat2
    <3> QED
      BY <3>1, <3>2
  <2> QED
    BY <2>1, <2>2
<1> QED
  BY <1>1, <1>2, <1>3

\* push cuts its payload at the first newline.
LEMMA PayloadSplits ==
  ASSUME data \in Seq(Bytes)
  PROVE  /\ Chunk \in Seq(Bytes) /\ Remaining \in Seq(Bytes)
         /\ \A j \in 1..Len(Chunk) : Chunk[j] # NL
         /\ HasNewline => data = (Chunk \o <<NL>>) \o Remaining
         /\ ~HasNewline => data = Chunk /\ Remaining = <<>>
<1> DEFINE k == NewlineIn(data)
<1>1. /\ k \in 0..Len(data) /\ (k # 0 => data[k] = NL) /\ Len(data) \in Nat
      /\ \A j \in 1..Len(data) : j < k \/ k = 0 => data[j] # NL
      /\ \A j \in 1..Len(data) : data[j] \in Bytes
  BY NewlineIs
<1>2. HasNewline <=> k # 0
  BY <1>1 DEF HasNewline
<1>3. Chunk \in Seq(Bytes) /\ Remaining \in Seq(Bytes)
  BY ChunkType
<1>4. CASE k = 0
  BY <1>1, <1>2, <1>3, <1>4 DEF Chunk, Remaining
<1>5. CASE k # 0
  <2>1. Chunk = SubSeq(data, 1, k - 1) /\ Remaining = SubSeq(data, k + 1, Len(data))
    BY <1>2, <1>5 DEF Chunk, Remaining
  <2> HIDE DEF k
  <2>2. k \in 1..Len(data) /\ k - 1 \in 0..Len(data) /\ (k - 1) + 1 = k
    BY <1>1, <1>5
  <2>3. SubSeq(data, k, k) = <<NL>>
    <3>1. \A j \in k..k : data[j] \in Bytes
      BY <1>1, <2>2
    <3>2. /\ SubSeq(data, k, k) \in Seq(Bytes)
          /\ Len(SubSeq(data, k, k)) = IF k <= k THEN k - k + 1 ELSE 0
          /\ \A i \in 1..(k - k + 1) : SubSeq(data, k, k)[i] = data[k + i - 1]
      BY <2>2, <3>1, SubSeqProperties
    <3>3. k <= k /\ k - k + 1 = 1 /\ k + 1 - 1 = k /\ 1 \in 1..1
      BY <2>2
    <3>4. Len(SubSeq(data, k, k)) = 1 /\ SubSeq(data, k, k)[1] = NL
      BY <1>1, <1>5, <3>2, <3>3
    <3>5. <<NL>> \in Seq(Bytes) /\ Len(<<NL>>) = 1 /\ <<NL>>[1] = NL
      BY DEF Bytes
    <3> DEFINE a == SubSeq(data, k, k)
               z == <<NL>>
    <3> HIDE DEF a, z
    <3>6. /\ a \in Seq(Bytes) /\ Len(a) = 1 /\ a[1] = NL
          /\ z \in Seq(Bytes) /\ Len(z) = 1 /\ z[1] = NL
      BY <3>2, <3>4, <3>5 DEF a, z
    <3>7. \A i \in 1..1 : a[i] = z[i]
      BY <3>6
    <3>8. a = z
      BY <3>6, <3>7, SeqEqual
    <3> QED
      BY <3>8 DEF a, z
  <2>4. SubSeq(data, 1, k - 1) \o SubSeq(data, k, k) = SubSeq(data, 1, k)
    <3>1. 1 \in 1..(Len(data) + 1) /\ k - 1 \in (1 - 1)..Len(data) /\ k \in (k - 1)..Len(data)
      BY <1>1, <2>2
    <3>2. SubSeq(data, 1, k - 1) \o SubSeq(data, (k - 1) + 1, k) = SubSeq(data, 1, k)
      BY <3>1, ConcatAdjacentSubSeq
    <3> QED
      BY <2>2, <3>2
  <2>5. SubSeq(data, 1, k) \o SubSeq(data, k + 1, Len(data)) = SubSeq(data, 1, Len(data))
    <3>1. 1 \in 1..(Len(data) + 1) /\ k \in (1 - 1)..Len(data) /\ Len(data) \in k..Len(data)
      BY <1>1, <2>2
    <3> QED
      BY <3>1, ConcatAdjacentSubSeq
  <2>6. SubSeq(data, 1, Len(data)) = data
    BY SubSeqFull
  <2>7. \A j \in 1..Len(Chunk) : Chunk[j] # NL
    <3>1. \A j \in 1..(k - 1) : data[j] \in Bytes
      BY <1>1, <2>2
    <3>2. /\ Len(Chunk) = IF 1 <= k - 1 THEN (k - 1) - 1 + 1 ELSE 0
          /\ \A i \in 1..((k - 1) - 1 + 1) : Chunk[i] = data[1 + i - 1]
      BY <2>1, <2>2, <3>1, SubSeqProperties
    <3>3. Len(Chunk) = k - 1
      BY <2>2, <3>2
    <3>4. \A i \in 1..(k - 1) : Chunk[i] = data[i]
      BY <2>2, <3>2
    <3>5. \A i \in 1..(k - 1) : i \in 1..Len(data) /\ i < k
      BY <1>1, <2>2
    <3> QED
      BY <1>1, <3>3, <3>4, <3>5
  <2> QED
    BY <1>2, <1>3, <1>5, <2>1, <2>3, <2>4, <2>5, <2>6, <2>7 DEF k
<1> QED
  BY <1>4, <1>5

-----------------------------------------------------------------------------
(* The accumulators *)

\* What the accumulator of stream s is once the bytes t have been pushed, of
\* which the unfinished line starts at st.
Holds(s, t, st) ==
  /\ Open(t, st)
  /\ discarding[s] <=> Long(t, st)
  /\ ~discarding[s] => buf[s] = SubSeq(t, st, Len(t))
  /\ EmittedOf(s) = LinesAt(s, t, Known(t))

\* The bytes t of stream s have been pushed and the payload is what is left.
Taken(s, t) == BytesOf(s) = IF s = stream THEN t \o data ELSE t

Flat(s) == EmittedOf(s) = LinesAt(s, BytesOf(s), Written(BytesOf(s)))

LinesInv ==
  /\ phase = "reading" => data = <<>>
  /\ phase \in {"reading", "pushing"} =>
       \A s \in Streams : \E t, st : Taken(s, t) /\ Holds(s, t, st)
  /\ phase = "flushing" =>
       \A s \in Streams : IF buf[s] = <<>> THEN Flat(s) ELSE \E st : Holds(s, BytesOf(s), st)
  /\ phase = "eof" => Whole
  /\ call = "returned" /\ result = "ok" => phase = "eof"

\* The buffer b holds the unfinished line of t, and the bytes c, perhaps with a
\* newline, are next.
Buffers(t, st, b, c, d) ==
  /\ Open(t, st) /\ ~Long(t, st) /\ b = SubSeq(t, st, Len(t))
  /\ c \in Seq(Bytes) /\ d \in Seq(Bytes) /\ (d = c \/ d = c \o <<NL>>)

\* The line that push gives is the line of the stream.
LEMMA LineGiven ==
  ASSUME NEW s, NEW t, NEW st, NEW b, NEW c, NEW d, Buffers(t, st, b, c, d)
  PROVE  /\ b \in Seq(Bytes) /\ Len(b) = Len(t) + 1 - st /\ Len(b) <= MaxLine
         /\ Len(c) > MaxLine - Len(b) <=> Long(t \o c, st)
         /\ Line(s, t \o d, st, Len(t) + Len(c)) =
              IF Len(c) > MaxLine - Len(b)
              THEN [stream |-> s, text |-> Trim(b \o SubSeq(c, 1, MaxLine - Len(b))),
                    truncated |-> TRUE]
              ELSE [stream |-> s, text |-> Trim(b \o c), truncated |-> FALSE]
<1> DEFINE u == t \o d
<1> USE DEF Buffers
<1>1. t \in Seq(Bytes) /\ st \in 1..(Len(t) + 1) /\ Len(t) \in Nat /\ st \in Nat
      /\ Len(c) \in Nat /\ MaxLine \in Nat
  BY SplitterAssumption DEF Open
<1>2. b \in Seq(Bytes) /\ Len(b) = Len(t) + 1 - st
  <2>1. \A j \in st..Len(t) : t[j] \in Bytes
    BY <1>1
  <2>2. /\ SubSeq(t, st, Len(t)) \in Seq(Bytes)
        /\ Len(SubSeq(t, st, Len(t))) = IF st <= Len(t) THEN Len(t) - st + 1 ELSE 0
    BY <1>1, <2>1, SubSeqProperties
  <2> QED
    BY <1>1, <2>2
<1>3. Len(b) <= MaxLine /\ Len(b) \in Nat
  BY <1>1, <1>2 DEF Long
<1>4. Len(c) > MaxLine - Len(b) <=> Long(t \o c, st)
  <2>1. Len(t \o c) = Len(t) + Len(c)
    BY <1>1, Prefix
  <2> QED
    BY <1>1, <1>2, <2>1 DEF Long
<1>5. Len(d) \in Nat /\ Len(d) >= Len(c)
      /\ \A m \in 0..Len(c) : SubSeq(d, 1, m) = SubSeq(c, 1, m)
  <2>1. CASE d = c
    BY <1>1, <2>1
  <2>2. CASE d = c \o <<NL>>
    <3>1. <<NL>> \in Seq(Bytes) /\ Len(<<NL>>) = 1
      BY DEF Bytes
    <3>2. /\ Len(d) = Len(c) + Len(<<NL>>)
          /\ \A i \in 1..(Len(c) + 1), x \in 0..Len(c) : SubSeq(d, i, x) = SubSeq(c, i, x)
      BY <2>2, <3>1, Prefix
    <3>3. 1 \in 1..(Len(c) + 1)
      BY <1>1
    <3> QED
      BY <1>1, <3>1, <3>2, <3>3
  <2> QED
    BY <2>1, <2>2
<1>6. ASSUME NEW m \in 0..Len(c)
      PROVE  SubSeq(u, st, Len(t) + m) = b \o SubSeq(c, 1, m)
  <2>1. m \in 0..Len(d)
    BY <1>1, <1>5
  <2>2. SubSeq(u, st, Len(t) + m) = SubSeq(t, st, Len(t)) \o SubSeq(d, 1, m)
    BY <1>1, <2>1, PieceIs
  <2> QED
    BY <1>5, <2>2
<1> HIDE DEF u
<1>7. CASE Len(c) > MaxLine - Len(b)
  <2> DEFINE m == MaxLine - Len(b)
  <2>1. m \in 0..Len(c) /\ Len(t) + m = st + MaxLine - 1
        /\ ~((Len(t) + Len(c)) - st + 1 <= MaxLine)
    BY <1>1, <1>2, <1>3, <1>7
  <2>2. SubSeq(u, st, st + MaxLine - 1) = b \o SubSeq(c, 1, m)
    <3> HIDE DEF m
    <3>1. SubSeq(u, st, Len(t) + m) = b \o SubSeq(c, 1, m)
      BY <1>6, <2>1
    <3> QED
      BY <2>1, <3>1
  <2>3. Line(s, u, st, Len(t) + Len(c)) =
          [stream |-> s, text |-> Trim(b \o SubSeq(c, 1, m)), truncated |-> TRUE]
    <3> HIDE DEF m
    <3> QED
      BY <2>1, <2>2 DEF Line
  <2> QED
    BY <1>2, <1>3, <1>4, <1>7, <2>3 DEF u
<1>8. CASE ~(Len(c) > MaxLine - Len(b))
  <2>1. Len(c) \in 0..Len(c) /\ (Len(t) + Len(c)) - st + 1 <= MaxLine
    BY <1>1, <1>2, <1>3, <1>8
  <2>2. SubSeq(u, st, Len(t) + Len(c)) = b \o c
    <3>1. SubSeq(u, st, Len(t) + Len(c)) = b \o SubSeq(c, 1, Len(c))
      BY <1>6, <2>1
    <3>2. SubSeq(c, 1, Len(c)) = c
      BY SubSeqFull
    <3> QED
      BY <3>1, <3>2
  <2>3. Line(s, u, st, Len(t) + Len(c)) =
          [stream |-> s, text |-> Trim(b \o c), truncated |-> FALSE]
    BY <2>1, <2>2 DEF Line
  <2> QED
    BY <1>2, <1>3, <1>4, <1>8, <2>3 DEF u
<1> QED
  BY <1>7, <1>8

\* The payload's next part, with its newline if it has one.
Part == IF HasNewline THEN Chunk \o <<NL>> ELSE Chunk

\* It is what push takes.
LEMMA PartTaken ==
  ASSUME data \in Seq(Bytes), NEW t \in Seq(Bytes)
  PROVE  Part \in Seq(Bytes) /\ (t \o Part) \o Remaining = t \o data
<1>1. /\ Chunk \in Seq(Bytes) /\ Remaining \in Seq(Bytes)
      /\ HasNewline => data = (Chunk \o <<NL>>) \o Remaining
      /\ ~HasNewline => data = Chunk /\ Remaining = <<>>
  BY PayloadSplits
<1>2. Part \in Seq(Bytes)
  <2>1. <<NL>> \in Seq(Bytes)
    BY DEF Bytes
  <2>2. Chunk \o <<NL>> \in Seq(Bytes)
    BY <1>1, <2>1, ConcatProperties
  <2> QED
    BY <1>1, <2>2 DEF Part
<1>3. data = Part \o Remaining
  <2>1. Chunk \o <<>> = Chunk
    BY <1>1, ConcatEmptySeq
  <2> QED
    BY <1>1, <2>1 DEF Part
<1>4. (t \o Part) \o Remaining = t \o (Part \o Remaining)
  BY <1>1, <1>2, ConcatAssociative
<1> QED
  BY <1>2, <1>3, <1>4

\* The accumulator after a round of push that gives no line.
Quiet(s) == EmittedOf(s)' = EmittedOf(s)

\* And after one that gives the line.
Says(s, line) == EmittedOf(s)' = EmittedOf(s) \o <<line>>

\* What is left to show of a round of push: the accumulator holds what it should.
LEMMA PartHeld ==
  ASSUME data \in Seq(Bytes), NEW s \in Streams, NEW t, NEW st, Holds(s, t, st),
         NEW u, u = t \o Part,
         \/ /\ Long(t, st) /\ Quiet(s)
            /\ discarding'[s] = ~HasNewline /\ buf'[s] = <<>>
         \/ /\ ~Long(t, st) /\ Long(t \o Chunk, st)
            /\ Says(s, Line(s, u, st, Len(t) + Len(Chunk)))
            /\ discarding'[s] = ~HasNewline /\ buf'[s] = <<>>
         \/ /\ ~Long(t, st) /\ ~Long(t \o Chunk, st) /\ HasNewline
            /\ Says(s, Line(s, u, st, Len(t) + Len(Chunk)))
            /\ ~discarding'[s] /\ buf'[s] = <<>>
         \/ /\ ~Long(t, st) /\ ~Long(t \o Chunk, st) /\ ~HasNewline /\ Quiet(s)
            /\ ~discarding'[s] /\ buf'[s] = SubSeq(t, st, Len(t)) \o Chunk
  PROVE  \E n : Holds(s, u, n)'
<1> DEFINE old == LinesAt(s, t, Known(t))
           line == Line(s, u, st, Len(t) + Len(Chunk))
<1>1. /\ Chunk \in Seq(Bytes) /\ \A j \in 1..Len(Chunk) : Chunk[j] # NL
  BY PayloadSplits
<1>2. Open(t, st) /\ EmittedOf(s) = old
  BY DEF Holds
<1>3. t \in Seq(Bytes) /\ st \in 1..(Len(t) + 1) /\ Len(t) \in Nat /\ Len(Chunk) \in Nat
  BY <1>1, <1>2 DEF Open
<1>4. CASE HasNewline
  <2> DEFINE h == <<line>>
             n == Len(u) + 1
  <2>1. u = t \o (Chunk \o <<NL>>)
    BY <1>4 DEF Part
  <2>2. /\ u \in Seq(Bytes) /\ Open(u, n)
        /\ LinesAt(s, u, Known(u)) = IF Long(t, st) THEN old ELSE old \o <<line>>
    <3>1. Closes(s, t, st, Chunk, u, h)
      BY <1>1, <1>2, <2>1 DEF Closes
    <3> HIDE DEF h
    <3>2. Open(u, Len(u) + 1)
      BY <3>1, Finishes
    <3>3. Long(t, st) => LinesAt(s, u, Known(u)) = old
      BY <3>1, Finishes
    <3>4. ~Long(t, st) => LinesAt(s, u, Known(u)) = old \o h
      BY <3>1, Finishes
    <3> QED
      BY <3>2, <3>3, <3>4 DEF h, Open
  <2>3. ~Long(u, n) /\ SubSeq(u, n, Len(u)) = <<>>
    <3>1. n \in Int /\ Len(u) \in Int /\ Len(u) < n /\ ~(Len(u) + 1 - n > MaxLine)
      BY <1>3, <2>2, SplitterAssumption
    <3> QED
      BY <3>1, SubSeqEmpty DEF Long
  <2>4. EmittedOf(s)' = IF Long(t, st) THEN old ELSE old \o <<line>>
    BY <1>2, <1>4 DEF Quiet, Says
  <2>5. ~discarding'[s] /\ buf'[s] = <<>>
    BY <1>4
  <2> HIDE DEF n, line, old
  <2>6. Holds(s, u, n)'
    BY <2>2, <2>3, <2>4, <2>5 DEF Holds
  <2> QED
    BY <2>6
<1>5. CASE ~HasNewline
  <2>1. u = t \o Chunk
    BY <1>5 DEF Part
  <2>2. Len(u) = Len(t) + Len(Chunk)
    BY <1>1, <1>3, <2>1, Prefix
  <2>3. /\ Open(u, st) /\ (Long(t, st) => Long(u, st))
        /\ LinesAt(s, u, Known(u)) =
             IF ~Long(t, st) /\ Long(u, st) THEN old \o <<Line(s, u, st, Len(u))>> ELSE old
    BY <1>1, <1>2, <2>1, Lengthens
  <2>4. EmittedOf(s)' = IF ~Long(t, st) /\ Long(u, st) THEN old \o <<line>> ELSE old
    BY <1>2, <1>5, <2>1, <2>3 DEF Quiet, Says
  <2>5. line = Line(s, u, st, Len(u))
    BY <2>2
  <2>6. discarding'[s] <=> Long(u, st)
    BY <1>5, <2>1, <2>3
  <2>7. ~Long(u, st) => buf'[s] = SubSeq(u, st, Len(u))
    <3>1. SUFFICES ASSUME ~Long(u, st) PROVE buf'[s] = SubSeq(u, st, Len(u))
      OBVIOUS
    <3>2. buf'[s] = SubSeq(t, st, Len(t)) \o Chunk
      BY <1>5, <2>1, <2>3, <3>1
    <3>3. Len(Chunk) \in 0..Len(Chunk)
      BY <1>3
    <3>4. SubSeq(u, st, Len(t) + Len(Chunk)) = SubSeq(t, st, Len(t)) \o SubSeq(Chunk, 1, Len(Chunk))
      BY <1>1, <1>3, <2>1, <3>3, PieceIs
    <3>5. SubSeq(Chunk, 1, Len(Chunk)) = Chunk
      BY <1>1, SubSeqFull
    <3> QED
      BY <2>2, <3>2, <3>4, <3>5
  <2> HIDE DEF line, old
  <2>8. Holds(s, u, st)'
    BY <2>3, <2>4, <2>5, <2>6, <2>7 DEF Holds
  <2> QED
    BY <2>8
<1> QED
  BY <1>4, <1>5

\* A step that leaves a stream's accumulator and lines alone.
Untouched(q) ==
  /\ discarding'[q] = discarding[q] /\ buf'[q] = buf[q]
  /\ EmittedOf(q)' = EmittedOf(q)

\* It holds what it held.
LEMMA UntouchedHolds ==
  ASSUME NEW q, NEW t, NEW st, Holds(q, t, st), Untouched(q)
  PROVE  Holds(q, t, st)'
  BY DEF Holds, Untouched

\* Without a line given, the lines are what they were.
LEMMA NoneGiven ==
  ASSUME emitted' = emitted, NEW q
  PROVE  EmittedOf(q)' = EmittedOf(q)
  BY DEF EmittedOf

\* emitLine gives its line to its own stream, and touches no other.
LEMMA EmitSays ==
  ASSUME SplitterTypeOK, NEW s \in Streams, NEW text \in Seq(Bytes), NEW cut \in BOOLEAN,
         Emit(s, text, cut), NEW line,
         line = [stream |-> s, text |-> Trim(text), truncated |-> cut]
  PROVE  /\ Says(s, line)
         /\ buf'[s] = <<>>
         /\ \A q \in Streams \ {s} : EmittedOf(q)' = EmittedOf(q) /\ buf'[q] = buf[q]
<1>1. line \in Lines /\ line.stream = s
  BY TrimType DEF Lines
<1>2. Given(line) /\ emitted \in Seq(Lines)
  BY <1>1 DEF Given, Emit, SplitterTypeOK
<1>3. buf' = [buf EXCEPT ![s] = <<>>] /\ buf \in [Streams -> Seq(Bytes)]
  BY DEF Emit, state, SplitterTypeOK
<1>4. Says(s, line)
  BY <1>1, <1>2, EmittedGrows DEF Says
<1>5. ASSUME NEW q \in Streams \ {s} PROVE EmittedOf(q)' = EmittedOf(q)
  <2>1. line.stream # q
    BY <1>1
  <2> QED
    BY <1>2, <2>1, EmittedGrows
<1> QED
  BY <1>3, <1>4, <1>5

\* One round of push: the accumulator of its stream holds what it should of the
\* bytes that were taken, and no other stream is touched.
LEMMA PushTakes ==
  ASSUME HeldInv, Push, phase' = "pushing", NEW t, NEW st,
         Taken(stream, t), Holds(stream, t, st)
  PROVE  /\ \E u, n : Taken(stream, u)' /\ Holds(stream, u, n)'
         /\ \A q \in Streams \ {stream} : Untouched(q)
<1>1. PICK s : s = stream
  OBVIOUS
<1>2. PICK u : u = t \o Part
  OBVIOUS
<1> DEFINE b == buf[s]
           room == MaxLine - Len(b)
           line == Line(s, u, st, Len(t) + Len(Chunk))
<1> USE DEF state
<1>3. /\ s \in Streams /\ data \in Seq(Bytes) /\ buf \in [Streams -> Seq(Bytes)]
      /\ discarding \in [Streams -> BOOLEAN] /\ emitted \in Seq(Lines)
      /\ b \in Seq(Bytes) /\ Len(b) <= MaxLine /\ SplitterTypeOK
      /\ discarding[s] => b = <<>>
  BY <1>1 DEF HeldInv, SplitterTypeOK
<1>4. /\ Open(t, st) /\ t \in Seq(Bytes) /\ (discarding[s] <=> Long(t, st))
      /\ (~discarding[s] => b = SubSeq(t, st, Len(t)))
  BY <1>1 DEF Holds, Open
<1>5. /\ Chunk \in Seq(Bytes) /\ Part \in Seq(Bytes) /\ room \in Nat /\ HasNewline \in BOOLEAN
      /\ Part = Chunk \/ Part = Chunk \o <<NL>>
  <2>1. Chunk \in Seq(Bytes)
    BY <1>3, PayloadSplits
  <2>2. Part \in Seq(Bytes)
    BY <1>3, <1>4, PartTaken
  <2>3. room \in Nat
    <3> HIDE DEF b
    <3> QED
      BY <1>3, SplitterAssumption
  <2>4. HasNewline \in BOOLEAN
    BY DEF HasNewline
  <2>5. Part = Chunk \/ Part = Chunk \o <<NL>>
    BY DEF Part
  <2> QED
    BY <2>1, <2>2, <2>3, <2>4, <2>5
<1>6. ASSUME ~discarding[s]
      PROVE  /\ Len(Chunk) > room <=> Long(t \o Chunk, st)
             /\ line = IF Len(Chunk) > room
                       THEN [stream |-> s, text |-> Trim(b \o SubSeq(Chunk, 1, room)),
                             truncated |-> TRUE]
                       ELSE [stream |-> s, text |-> Trim(b \o Chunk), truncated |-> FALSE]
  <2>1. ~Long(t, st) /\ b = SubSeq(t, st, Len(t))
    BY <1>4, <1>6
  <2> HIDE DEF b
  <2>2. /\ Len(Chunk) > MaxLine - Len(b) <=> Long(t \o Chunk, st)
        /\ Line(s, t \o Part, st, Len(t) + Len(Chunk)) =
             IF Len(Chunk) > MaxLine - Len(b)
             THEN [stream |-> s, text |-> Trim(b \o SubSeq(Chunk, 1, MaxLine - Len(b))),
                   truncated |-> TRUE]
             ELSE [stream |-> s, text |-> Trim(b \o Chunk), truncated |-> FALSE]
    <3>1. Buffers(t, st, b, Chunk, Part)
      BY <1>4, <1>5, <2>1 DEF Buffers
    <3> QED
      BY <3>1, LineGiven
  <2> QED
    BY <1>2, <2>2
<1>7. /\ Len(Chunk) > room => b \o SubSeq(Chunk, 1, room) \in Seq(Bytes)
      /\ Len(Chunk) <= room => b \o Chunk \in Seq(Bytes)
  <2> HIDE DEF b
  <2> QED
    BY <1>3, <1>5, Fits
<1>8. ~EmitFails(s, b \o SubSeq(Chunk, 1, room)) /\ ~EmitFails(s, b \o Chunk)
  BY DEF EmitFails
<1>9. Len(Chunk) <= room <=> ~(Len(Chunk) > room)
  BY <1>5
<1> DEFINE Does == /\ data' = Remaining /\ (\E n : Holds(s, u, n)')
                   /\ \A q \in Streams \ {s} : Untouched(q)
<1>10. ASSUME discarding[s] PROVE Does
  <2>1. Skip(s) /\ data' = Remaining /\ UNCHANGED <<phase, buf, emitted>>
    BY <1>1, <1>10 DEF Push
  <2>2. discarding' = [discarding EXCEPT ![s] = ~HasNewline]
    BY <2>1 DEF Skip
  <2>3. discarding'[s] = ~HasNewline /\ buf'[s] = <<>> /\ Long(t, st)
    BY <1>3, <1>4, <1>10, <2>1, <2>2
  <2>4. Quiet(s)
    BY <2>1, NoneGiven DEF Quiet
  <2>5. \A q \in Streams \ {s} : Untouched(q)
    BY <1>3, <2>1, <2>2, NoneGiven DEF Untouched
  <2>6. \E n : Holds(s, u, n)'
    BY <1>1, <1>2, <1>3, <2>3, <2>4, PartHeld
  <2> QED
    BY <2>1, <2>5, <2>6
<1>11. ASSUME ~discarding[s], Len(Chunk) > room PROVE Does
  <2> DEFINE text == b \o SubSeq(Chunk, 1, room)
  <2>1. Emit(s, text, TRUE) /\ Overflow(s) /\ data' = Remaining
    BY <1>1, <1>8, <1>9, <1>11 DEF Push, Space
  <2>2. discarding' = [discarding EXCEPT ![s] = ~HasNewline]
    BY <2>1 DEF Overflow
  <2>3. line = [stream |-> s, text |-> Trim(text), truncated |-> TRUE]
    BY <1>6, <1>11
  <2>4. text \in Seq(Bytes)
    BY <1>7, <1>11
  <2> HIDE DEF text, line
  <2>5. /\ Says(s, line) /\ buf'[s] = <<>>
        /\ \A q \in Streams \ {s} : EmittedOf(q)' = EmittedOf(q) /\ buf'[q] = buf[q]
    BY <1>3, <2>1, <2>3, <2>4, EmitSays
  <2>6. \A q \in Streams \ {s} : Untouched(q)
    BY <1>3, <2>2, <2>5 DEF Untouched
  <2>7. /\ ~Long(t, st) /\ Long(t \o Chunk, st)
        /\ Says(s, Line(s, u, st, Len(t) + Len(Chunk)))
        /\ discarding'[s] = ~HasNewline /\ buf'[s] = <<>>
    BY <1>3, <1>4, <1>6, <1>11, <2>2, <2>5 DEF line
  <2>8. \E n : Holds(s, u, n)'
    BY <1>1, <1>2, <1>3, <2>7, PartHeld
  <2> QED
    BY <2>1, <2>6, <2>8
<1>12. ASSUME ~discarding[s], Len(Chunk) <= room, HasNewline PROVE Does
  <2> DEFINE text == b \o Chunk
  <2>1. Emit(s, text, FALSE) /\ data' = Remaining /\ discarding' = discarding
    BY <1>1, <1>8, <1>9, <1>12 DEF Push, Space
  <2>2. line = [stream |-> s, text |-> Trim(text), truncated |-> FALSE]
    BY <1>6, <1>9, <1>12
  <2>3. text \in Seq(Bytes)
    BY <1>7, <1>12
  <2> HIDE DEF text, line
  <2>4. /\ Says(s, line) /\ buf'[s] = <<>>
        /\ \A q \in Streams \ {s} : EmittedOf(q)' = EmittedOf(q) /\ buf'[q] = buf[q]
    BY <1>3, <2>1, <2>2, <2>3, EmitSays
  <2>5. \A q \in Streams \ {s} : Untouched(q)
    BY <2>1, <2>4 DEF Untouched
  <2>6. /\ ~Long(t, st) /\ ~Long(t \o Chunk, st) /\ HasNewline
        /\ Says(s, Line(s, u, st, Len(t) + Len(Chunk)))
        /\ ~discarding'[s] /\ buf'[s] = <<>>
    BY <1>4, <1>6, <1>9, <1>12, <2>1, <2>4 DEF line
  <2>7. \E n : Holds(s, u, n)'
    BY <1>1, <1>2, <1>3, <2>6, PartHeld
  <2> QED
    BY <2>1, <2>5, <2>7
<1>13. ASSUME ~discarding[s], Len(Chunk) <= room, ~HasNewline PROVE Does
  <2>1. /\ buf' = [buf EXCEPT ![s] = b \o Chunk] /\ data' = Remaining
        /\ discarding' = discarding /\ emitted' = emitted
    BY <1>1, <1>9, <1>13 DEF Push, Space
  <2>2. Quiet(s)
    BY <2>1, NoneGiven DEF Quiet
  <2>3. \A q \in Streams \ {s} : Untouched(q)
    BY <1>3, <2>1, NoneGiven DEF Untouched
  <2>4. /\ ~Long(t, st) /\ ~Long(t \o Chunk, st) /\ ~HasNewline /\ Quiet(s)
        /\ ~discarding'[s] /\ buf'[s] = SubSeq(t, st, Len(t)) \o Chunk
    BY <1>3, <1>4, <1>6, <1>9, <1>13, <2>1, <2>2
  <2>5. \E n : Holds(s, u, n)'
    BY <1>1, <1>2, <1>3, <2>4, PartHeld
  <2> QED
    BY <2>1, <2>3, <2>5
<1>14. Does
  BY <1>9, <1>10, <1>11, <1>12, <1>13
<1> HIDE DEF b, room, line
<1>15. stream' = stream /\ arrived' = arrived
  BY DEF Push
<1>16. Taken(stream, u)'
  <2>1. BytesOf(s)' = BytesOf(s)
    BY <1>15 DEF BytesOf
  <2>2. BytesOf(s) = t \o data
    BY <1>1 DEF Taken
  <2>3. BytesOf(s) = u \o Remaining
    BY <1>2, <1>3, <1>4, <2>2, PartTaken
  <2>4. BytesOf(s)' = u \o data'
    BY <1>14, <2>1, <2>3
  <2> QED
    BY <1>1, <1>15, <2>4 DEF Taken
<1>17. PICK n : Holds(s, u, n)'
  BY <1>14
<1>18. Holds(stream, u, n)'
  BY <1>1, <1>15, <1>17 DEF Holds
<1> QED
  BY <1>1, <1>14, <1>16, <1>18

\* Nothing is in order at no positions.
LEMMA NothingInOrder ==
  ASSUME NEW f
  PROVE  InOrder(f, {}) = <<>>
<1>1. Agree({}, f, f, {}, 0)
  BY DEF Agree
<1>2. InOrder(f, {}) \in Seq({})
  BY <1>1, InOrderSame
<1> QED
  BY <1>2

\* Before the first frame there is an unfinished line without a byte.
LEMMA LinesInitInv == ReadInit => LinesInv
<1> SUFFICES ASSUME ReadInit PROVE LinesInv
  OBVIOUS
<1>1. /\ phase = "reading" /\ data = <<>> /\ arrived = <<>> /\ emitted = <<>>
      /\ buf = [s \in Streams |-> <<>>] /\ discarding = [s \in Streams |-> FALSE]
      /\ call = "inspect"
  BY DEF ReadInit, SplitterInit
<1>2. Open(<<>>, 1) /\ ~Long(<<>>, 1)
  BY SplitterAssumption DEF Open, Long
<1>3. Known(<<>>) = {}
  <2>1. Known(<<>>) = Before(<<>>, 1) /\ Starts(<<>>) \subseteq 1..1
    BY <1>2, OpenLines
  <2> QED
    BY <2>1 DEF Before
<1>4. ASSUME NEW s \in Streams
      PROVE  Taken(s, <<>>) /\ Holds(s, <<>>, 1)
  <2>1. BytesOf(s) = <<>>
    <3>1. {i \in DOMAIN arrived : arrived[i].stream = s} = {}
      BY <1>1
    <3> QED
      BY <3>1, NothingInOrder DEF BytesOf
  <2>2. EmittedOf(s) = <<>>
    <3>1. {i \in DOMAIN emitted : emitted[i].stream = s} = {}
      BY <1>1
    <3> QED
      BY <3>1, NothingInOrder DEF EmittedOf
  <2>3. LinesAt(s, <<>>, Known(<<>>)) = <<>>
    BY <1>3, NothingInOrder DEF LinesAt
  <2>4. SubSeq(<<>>, 1, Len(<<>>)) = <<>>
    OBVIOUS
  <2>5. Taken(s, <<>>)
    BY <1>1, <2>1 DEF Taken
  <2> QED
    BY <1>1, <1>2, <2>2, <2>3, <2>4, <2>5 DEF Holds
<1> QED
  BY <1>1, <1>4 DEF LinesInv

\* Between two frames everything that was read has been pushed.
LEMMA AllTaken ==
  ASSUME LinesInv, phase = "reading" \/ (phase = "pushing" /\ data = <<>>),
         NEW s \in Streams
  PROVE  \E st : Holds(s, BytesOf(s), st)
<1>1. PICK t, st : Taken(s, t) /\ Holds(s, t, st)
  BY DEF LinesInv
<1>2. data = <<>> /\ t \in Seq(Bytes)
  BY <1>1 DEF LinesInv, Holds, Open
<1>3. t \o <<>> = t
  BY <1>2, ConcatEmptySeq
<1>4. BytesOf(s) = t
  BY <1>1, <1>2, <1>3 DEF Taken
<1> QED
  BY <1>1, <1>4

\* A step that leaves the demultiplexer alone keeps what is known of its lines.
LEMMA OthersKeepLines ==
  ASSUME LinesInv, UNCHANGED splitterVars,
         call' = "returned" /\ result' = "ok" => phase = "eof"
  PROVE  LinesInv'
<1>1. /\ phase' = phase /\ stream' = stream /\ data' = data /\ buf' = buf
      /\ discarding' = discarding /\ arrived' = arrived /\ emitted' = emitted
  BY DEF splitterVars
<1>2. \A s : BytesOf(s)' = BytesOf(s) /\ EmittedOf(s)' = EmittedOf(s)
  BY <1>1 DEF BytesOf, EmittedOf
<1>3. \A s, t, st : Taken(s, t)' = Taken(s, t) /\ Holds(s, t, st)' = Holds(s, t, st)
  BY <1>1, <1>2 DEF Taken, Holds
<1>4. \A s : Flat(s)' = Flat(s)
  BY <1>2 DEF Flat
<1>5. Whole' = Whole
  BY <1>2 DEF Whole
<1>6. \A s, st : Holds(s, BytesOf(s), st)' = Holds(s, BytesOf(s), st)
  BY <1>1, <1>2 DEF Holds
<1> QED
  BY <1>1, <1>3, <1>4, <1>5, <1>6 DEF LinesInv

\* A frame is a payload more for its stream, of which nothing has been pushed.
LEMMA ReceiveLines ==
  ASSUME ReadInv, LinesInv, NEW s \in Streams, NEW p \in Payloads, Receive(s, p)
  PROVE  LinesInv'
<1>1. /\ phase = "reading" /\ phase' = "pushing" /\ stream' = s /\ data' = p
      /\ buf' = buf /\ discarding' = discarding /\ emitted' = emitted
      /\ arrived' = arrived \o [i \in DOMAIN p |-> [stream |-> s, byte |-> p[i]]]
      /\ call' = "demux" /\ arrived \in Seq(ByteRecords)
  BY DEF Receive, Frame, readVars, ReadInv, ReadTypeOK, SplitterTypeOK, ByteRecords
<1>2. p \in Seq(Bytes)
  <2>1. PICK n \in 0..MaxFrame : p \in [1..n -> Bytes]
    BY DEF Payloads
  <2>2. n \in Nat
    BY <2>1, SplitterAssumption
  <2> QED
    BY <2>1, <2>2
<1>3. ASSUME NEW q \in Streams
      PROVE  \E t, st : Taken(q, t)' /\ Holds(q, t, st)'
  <2>1. PICK t : t = BytesOf(q)
    OBVIOUS
  <2>2. PICK st : Holds(q, t, st)
    BY <1>1, <2>1, AllTaken
  <2>3. Untouched(q)
    BY <1>1, NoneGiven DEF Untouched
  <2>4. Holds(q, t, st)'
    BY <2>2, <2>3, UntouchedHolds
  <2>5. BytesOf(q)' = IF q = s THEN t \o p ELSE t
    BY <1>1, <1>2, <2>1, BytesGrow
  <2>6. Taken(q, t)'
    BY <1>1, <2>5 DEF Taken
  <2> QED
    BY <2>4, <2>6
<1> QED
  BY <1>1, <1>3 DEF LinesInv

\* A round of push takes its part of the payload, or ends the read.
LEMMA PushLines ==
  ASSUME HeldInv, LinesInv, Push, call' # "returned"
  PROVE  LinesInv'
<1>1. phase = "pushing" /\ phase' \in {"pushing", "gone"} /\ stream' = stream /\ arrived' = arrived
      /\ stream \in Streams
  BY DEF Push, EmitFails, HeldInv, SplitterTypeOK
<1>2. CASE phase' = "gone"
  BY <1>2 DEF LinesInv
<1>3. CASE phase' = "pushing"
  <2>1. PICK t, st : Taken(stream, t) /\ Holds(stream, t, st)
    BY <1>1 DEF LinesInv
  <2>2. /\ \E u, n : Taken(stream, u)' /\ Holds(stream, u, n)'
        /\ \A q \in Streams \ {stream} : Untouched(q)
    BY <1>3, <2>1, PushTakes
  <2>3. ASSUME NEW q \in Streams
        PROVE  \E u, n : Taken(q, u)' /\ Holds(q, u, n)'
    <3>1. CASE q = stream
      <4>1. PICK u, n : Taken(stream, u)' /\ Holds(stream, u, n)'
        BY <2>2
      <4>2. Taken(q, u)' /\ Holds(q, u, n)'
        BY <1>1, <3>1, <4>1 DEF Taken, Holds
      <4> QED
        BY <4>2
    <3>2. CASE q # stream
      <4>1. PICK u, n : Taken(q, u) /\ Holds(q, u, n)
        BY <1>1 DEF LinesInv
      <4>2. Holds(q, u, n)'
        BY <2>2, <3>2, <4>1, UntouchedHolds
      <4>3. Taken(q, u)'
        BY <1>1, <3>2, <4>1 DEF Taken, BytesOf
      <4> QED
        BY <4>2, <4>3
    <3> QED
      BY <3>1, <3>2
  <2> QED
    BY <1>3, <2>3 DEF LinesInv
<1> QED
  BY <1>1, <1>2, <1>3

\* At the end of the stream an accumulator that holds nothing has nothing to
\* give: its last line has no byte, or has been given already.
LEMMA NothingLeft ==
  ASSUME NEW s \in Streams, NEW t, NEW st, Holds(s, t, st), buf[s] = <<>>
  PROVE  EmittedOf(s) = LinesAt(s, t, Written(t))
<1>1. Open(t, st) /\ EmittedOf(s) = LinesAt(s, t, Known(t))
  BY DEF Holds
<1>2. ~(st <= Len(t) /\ ~Long(t, st))
  <2> SUFFICES ASSUME st <= Len(t), ~Long(t, st) PROVE FALSE
    OBVIOUS
  <2>1. SubSeq(t, st, Len(t)) = <<>>
    BY DEF Holds
  <2>2. t \in Seq(Bytes) /\ st \in 1..Len(t) /\ \A j \in st..Len(t) : t[j] \in Bytes
    BY <1>1 DEF Open
  <2>3. Len(SubSeq(t, st, Len(t))) = IF st <= Len(t) THEN Len(t) - st + 1 ELSE 0
    BY <2>2, SubSeqProperties
  <2> QED
    BY <2>1, <2>2, <2>3
<1> QED
  BY <1>1, <1>2, FlushLines

\* One that holds something has the last line to give.
LEMMA LastLeft ==
  ASSUME NEW s \in Streams, NEW t, NEW st, Holds(s, t, st), buf[s] # <<>>, ~discarding[s],
         NEW line, line = [stream |-> s, text |-> Trim(buf[s]), truncated |-> FALSE]
  PROVE  LinesAt(s, t, Written(t)) = EmittedOf(s) \o <<line>>
<1>1. /\ Open(t, st) /\ EmittedOf(s) = LinesAt(s, t, Known(t)) /\ ~Long(t, st)
      /\ buf[s] = SubSeq(t, st, Len(t))
  BY DEF Holds
<1>2. t \in Seq(Bytes) /\ st \in 1..(Len(t) + 1) /\ Len(t) \in Nat /\ MaxLine \in Nat
  BY <1>1, SplitterAssumption DEF Open
<1>3. st <= Len(t)
  <2> SUFFICES ASSUME ~(st <= Len(t)) PROVE FALSE
    OBVIOUS
  <2>1. st \in Int /\ Len(t) \in Int /\ Len(t) < st
    BY <1>2
  <2> QED
    BY <1>1, <2>1, SubSeqEmpty
<1>4. line = Line(s, t, st, Len(t))
  <2>1. Len(t) - st + 1 <= MaxLine
    BY <1>1, <1>2 DEF Long
  <2> QED
    BY <1>1, <2>1 DEF Line
<1> QED
  BY <1>1, <1>3, <1>4, FlushLines

\* flush gives its stream's last line and is done with it.
LEMMA FlushGives ==
  ASSUME HeldInv, LinesInv, NEW s \in Streams, Flush(s), call' # "returned"
  PROVE  LinesInv'
<1>1. phase = "flushing" /\ stream' = stream /\ arrived' = arrived /\ buf[s] # <<>>
  BY DEF Flush, Leftover
<1>2. CASE EmitFails(s, buf[s])
  BY <1>2 DEF EmitFails, LinesInv
<1>3. CASE Emit(s, buf[s], FALSE) /\ UNCHANGED <<phase, data, discarding>>
  <2>1. PICK line : line = [stream |-> s, text |-> Trim(buf[s]), truncated |-> FALSE]
    OBVIOUS
  <2>2. PICK t : t = BytesOf(s)
    OBVIOUS
  <2>3. PICK st : Holds(s, t, st)
    BY <1>1, <2>2 DEF LinesInv
  <2>4. SplitterTypeOK /\ buf[s] \in Seq(Bytes) /\ ~discarding[s]
    BY <1>1 DEF HeldInv, SplitterTypeOK
  <2>5. LinesAt(s, t, Written(t)) = EmittedOf(s) \o <<line>>
    BY <1>1, <2>1, <2>3, <2>4, LastLeft
  <2>6. /\ Says(s, line) /\ buf'[s] = <<>>
        /\ \A q \in Streams \ {s} : EmittedOf(q)' = EmittedOf(q) /\ buf'[q] = buf[q]
    BY <1>3, <2>1, <2>4, EmitSays
  <2>7. \A q : BytesOf(q)' = BytesOf(q)
    BY <1>1 DEF BytesOf
  <2>8. Flat(s)'
    BY <2>2, <2>5, <2>6, <2>7 DEF Flat, Says
  <2>9. ASSUME NEW q \in Streams, q # s
        PROVE  /\ buf[q] = <<>> => Flat(q)'
               /\ buf[q] # <<>> => \E n : Holds(q, BytesOf(q), n)'
    <3>1. Untouched(q)
      BY <1>3, <2>6, <2>9 DEF Untouched
    <3>2. ASSUME buf[q] = <<>> PROVE Flat(q)'
      <4>1. Flat(q)
        BY <1>1, <3>2 DEF LinesInv
      <4> QED
        BY <2>7, <3>1, <4>1 DEF Flat, Untouched
    <3>3. ASSUME buf[q] # <<>> PROVE \E n : Holds(q, BytesOf(q), n)'
      <4>1. PICK n : Holds(q, BytesOf(q), n)
        BY <1>1, <3>3 DEF LinesInv
      <4>2. Holds(q, BytesOf(q), n)'
        BY <2>7, <3>1, <4>1 DEF Holds, Untouched
      <4> QED
        BY <4>2
    <3> QED
      BY <3>2, <3>3
  <2>10. ASSUME NEW q \in Streams
         PROVE  IF buf'[q] = <<>> THEN Flat(q)' ELSE \E n : Holds(q, BytesOf(q), n)'
    BY <2>6, <2>8, <2>9
  <2>11. phase' = "flushing"
    BY <1>1, <1>3
  <2> QED
    BY <2>10, <2>11 DEF LinesInv
<1> QED
  BY <1>2, <1>3 DEF Flush

\* The demultiplexer's steps between push and flush only pass on what is held.
LEMMA DemuxLines ==
  ASSUME HeldInv, LinesInv, Demux, call' # "returned"
  PROVE  LinesInv'
<1> DEFINE Still == /\ stream' = stream /\ data' = data /\ buf' = buf
                    /\ discarding' = discarding /\ arrived' = arrived /\ emitted' = emitted
<1>1. ASSUME Still
      PROVE  /\ \A s : BytesOf(s)' = BytesOf(s) /\ EmittedOf(s)' = EmittedOf(s)
             /\ \A s, t, st : Taken(s, t)' = Taken(s, t) /\ Holds(s, t, st)' = Holds(s, t, st)
             /\ \A s, st : Holds(s, BytesOf(s), st)' = Holds(s, BytesOf(s), st)
             /\ \A s : Flat(s)' = Flat(s)
             /\ Whole' = Whole
  <2>1. \A s : BytesOf(s)' = BytesOf(s) /\ EmittedOf(s)' = EmittedOf(s)
    BY <1>1 DEF BytesOf, EmittedOf
  <2>2. \A s, t, st : Taken(s, t)' = Taken(s, t) /\ Holds(s, t, st)' = Holds(s, t, st)
    BY <1>1, <2>1 DEF Taken, Holds
  <2>3. \A s, st : Holds(s, BytesOf(s), st)' = Holds(s, BytesOf(s), st)
    BY <1>1, <2>1 DEF Holds
  <2>4. (\A s : Flat(s)' = Flat(s)) /\ Whole' = Whole
    BY <2>1 DEF Flat, Whole
  <2> QED
    BY <2>1, <2>2, <2>3, <2>4
<1>2. CASE Pushed
  <2>1. Still /\ phase = "pushing" /\ data = <<>> /\ phase' = "reading"
    BY <1>2 DEF Pushed
  <2> QED
    BY <1>1, <2>1 DEF LinesInv
<1>3. CASE Eof
  <2>1. Still /\ phase = "reading" /\ phase' = "flushing"
    BY <1>3 DEF Eof
  <2>2. ASSUME NEW s \in Streams
        PROVE  IF buf[s] = <<>> THEN Flat(s) ELSE \E st : Holds(s, BytesOf(s), st)
    <3>1. PICK st : Holds(s, BytesOf(s), st)
      BY <2>1, AllTaken
    <3>2. buf[s] = <<>> => Flat(s)
      BY <3>1, NothingLeft DEF Flat
    <3> QED
      BY <3>1, <3>2
  <2> QED
    BY <1>1, <2>1, <2>2 DEF LinesInv
<1>4. CASE Cut
  BY <1>4 DEF Cut, LinesInv
<1>5. CASE Flushed
  <2>1. Still /\ phase = "flushing" /\ phase' = "eof" /\ \A s \in Streams : buf[s] = <<>>
    BY <1>5 DEF Flushed, Leftover
  <2>2. Whole
    BY <2>1 DEF LinesInv, Flat, Whole
  <2> QED
    BY <1>1, <2>1, <2>2 DEF LinesInv
<1> QED
  BY <1>2, <1>3, <1>4, <1>5, PushLines, FlushGives DEF Demux

\* Every step of a read keeps the lines what they should be.
LEMMA LinesStep ==
  ASSUME ReadInv, LinesInv, [ReadNext]_logReadVars
  PROVE  LinesInv'
<1>1. CASE DemuxStep
  <2>1. HeldInv
    BY DEF HeldInv, ReadInv, ReadTypeOK, MemoryBounded
  <2>2. Demux /\ call' # "returned"
    BY <1>1 DEF DemuxStep
  <2> QED
    BY <2>1, <2>2, DemuxLines
<1>2. CASE containerUsesTTY \/ OpenLog \/ DemuxReturns
  <2>1. UNCHANGED splitterVars /\ (call' = "returned" /\ result' = "ok" => phase = "eof")
    BY <1>2 DEF containerUsesTTY, OpenLog, DemuxReturns, Return
  <2> QED
    BY <2>1, OthersKeepLines
<1>3. CASE UNCHANGED logReadVars
  <2>1. UNCHANGED splitterVars /\ (call' = "returned" /\ result' = "ok" => phase = "eof")
    BY <1>3 DEF logReadVars, readVars, LinesInv
  <2> QED
    BY <2>1, OthersKeepLines
<1> QED
  BY <1>1, <1>2, <1>3, ReceiveLines DEF ReadNext

\* The inductive invariant of the lines.
LEMMA LinesInvariance == ReadSpec => []LinesInv
  BY ReadInvariance, LinesInitInv, LinesStep, PTL DEF ReadSpec

\* The lines a client is given are those of the bytes of its stream, however
\* long the lines, wherever the Engine cut its frames and whatever the other
\* stream wrote in between (lineSplitter.push).
THEOREM FramesAreInvisible == ReadSpec => []FramingInvisible
<1>1. LinesInv => FramingInvisible
  <2> SUFFICES ASSUME LinesInv, phase = "reading", NEW s \in Streams
               PROVE  EmittedOf(s) = LinesAt(s, BytesOf(s), Known(BytesOf(s)))
    BY DEF FramingInvisible
  <2>1. PICK st : Holds(s, BytesOf(s), st)
    BY AllTaken
  <2> QED
    BY <2>1 DEF Holds
<1> QED
  BY <1>1, LinesInvariance, PTL

\* A read that ends well has given every line there was, once, the one without
\* a newline included; a bounded one returned the first of them, flagged exactly
\* if there were more; and an error comes without a list (ContainerLogs,
\* StreamContainerLogs).
THEOREM AnswersAreExact == ReadSpec => []AnswerIsExact
<1>1. ReadInv /\ LinesInv => AnswerIsExact
  BY DEF ReadInv, ListInv, LinesInv, AnswerIsExact
<1> QED
  BY <1>1, ReadInvariance, LinesInvariance, PTL
=============================================================================
