---------------------------- MODULE LogRotation ----------------------------
(***************************************************************************)
(* Age-based retention of the agent's own log (internal/logging: NewSink,  *)
(* Rotator.Run, startupRotate, rotateOnce).  lumberjack, which renames the *)
(* file, keeps MaxBackups of them and deletes those rotated longer than    *)
(* LogMaxAge ago, but only when a rotation happens and in a goroutine of   *)
(* its own, is external.                                                   *)
(*                                                                         *)
(* Of the current file the model keeps when its first line was written,    *)
(* whether that line can be read, and whether this boot has written to it. *)
(* The agent may crash and come back at any moment; the clock is that of   *)
(* its uptime, as nothing is rotated while it is down.                     *)
(***************************************************************************)
EXTENDS Naturals, FiniteSets

CONSTANTS LogMaxAge,   \* DEVMON_LOG_MAX_AGE_DAYS, in ticks of the clock
          Interval,    \* defaultRotateInterval, in ticks
          MaxBackups,  \* maxBackups
          MaxUptime,   \* bound: the clock stops here
          MaxMisses    \* bound: rotations that fail one after the other

ASSUME LimitsAssumption ==
  /\ LogMaxAge \in Nat \ {0} /\ Interval \in Nat \ {0}
  /\ MaxBackups \in Nat \ {0} /\ MaxUptime \in Nat /\ MaxMisses \in Nat

VARIABLES
  uptime,   \* time.Now
  current,  \* agent.log
  backups,  \* when each rotated file was rotated
  rotator,  \* "booting", "waiting" or, after a crash, "down"
  ticker,   \* ticks until the ticker fires
  mill,     \* lumberjack's clean-up is due
  misses,   \* history: passes that failed since a rotation last worked
  moved     \* history: a startup pass moved its own boot's lines away with
            \* readable ones that were too old

logVars == <<uptime, current, backups, rotator, ticker, mill, misses, moved>>

Empty == [first |-> 0, lines |-> FALSE, garbled |-> FALSE, own |-> FALSE]

Files == [first : Nat, lines : BOOLEAN, garbled : BOOLEAN, own : BOOLEAN]

LogTypeOK ==
  /\ uptime \in Nat
  /\ current \in Files
  /\ ~current.lines => current = Empty
  /\ current.first <= uptime
  /\ backups \subseteq 0..uptime
  /\ rotator \in {"booting", "waiting", "down"}
  /\ ticker \in 0..Interval
  /\ mill \in BOOLEAN /\ misses \in Nat /\ moved \in BOOLEAN

LogInit ==
  /\ uptime = 0 /\ current = Empty /\ backups = {}
  /\ rotator = "booting" /\ ticker = Interval
  /\ mill = FALSE /\ misses = 0 /\ moved = FALSE

-----------------------------------------------------------------------------
(* lumberjack *)

\* A rotation at the same moment as another falls together with it.
Rotated ==
  /\ backups' = backups \cup {uptime}
  /\ current' = Empty
  /\ mill' = TRUE /\ misses' = 0

Newest == {b \in backups : Cardinality({x \in backups : x >= b}) <= MaxBackups}

Mill ==
  /\ mill /\ rotator # "down"
  /\ mill' = FALSE
  /\ backups' = {b \in Newest : b + LogMaxAge >= uptime}
  /\ UNCHANGED <<uptime, current, rotator, ticker, misses, moved>>

\* The current file with one more line of this boot.
OneMoreLine == IF current.lines THEN [current EXCEPT !.own = TRUE]
               ELSE [Empty EXCEPT !.first = uptime, !.lines = TRUE, !.own = TRUE]

\* A line is logged; serve logs before the rotator runs.
Log ==
  /\ rotator # "down"
  /\ current' = OneMoreLine
  /\ UNCHANGED <<uptime, backups, rotator, ticker, mill, misses, moved>>

\* The file has reached its share of DEVMON_LOG_MAX_TOTAL_MB.
SizeRotation ==
  /\ rotator # "down" /\ current.lines
  /\ Rotated
  /\ UNCHANGED <<uptime, rotator, ticker, moved>>

-----------------------------------------------------------------------------
(* The Rotator *)

\* Mutant: the modification time instead of the first line's.
Stale_ByMtime == current.lines /\ ~current.own /\ uptime > current.first + LogMaxAge

\* startupRotate: the first line is too old or cannot be read.
Stale == current.lines /\ (current.garbled \/ uptime > current.first + LogMaxAge)

\* os.Stat or lj.Rotate fails: a pass is lost.
Missed == misses < MaxMisses /\ misses' = misses + 1

\* rotateOnce when lj.Rotate fails: the error goes to the file that stays.  (One
\* that lumberjack has already moved away leaves a younger file.)
RotationFails == Missed /\ current' = OneMoreLine /\ UNCHANGED <<backups, mill>>

\* Run until its loop: startupRotate.
StartupRotate ==
  /\ rotator = "booting"
  /\ rotator' = "waiting" /\ ticker' = Interval
  /\ \/ /\ Stale /\ Rotated
        /\ moved' = (moved \/ (current.own /\ ~current.garbled))
     \/ Stale /\ RotationFails /\ UNCHANGED moved
     \/ Missed /\ UNCHANGED <<current, backups, mill, moved>>
     \/ ~Stale /\ UNCHANGED <<current, backups, mill, misses, moved>>
  /\ UNCHANGED uptime

NextTick == Interval

RotateOnce ==
  /\ rotator = "waiting" /\ ticker = 0
  /\ ticker' = NextTick
  /\ Rotated \/ RotationFails
  /\ UNCHANGED <<uptime, rotator, moved>>

\* Time passes only between these steps, which take none.
LogTick ==
  /\ uptime < MaxUptime
  /\ rotator = "waiting" /\ ticker > 0 /\ ~mill
  /\ uptime' = uptime + 1 /\ ticker' = ticker - 1
  /\ UNCHANGED <<current, backups, rotator, mill, misses, moved>>

\* A crash may cut a line short, and forgets a clean-up that was due.
Crash ==
  /\ rotator # "down"
  /\ rotator' = "down" /\ mill' = FALSE
  /\ \E cut \in BOOLEAN :
       /\ cut => current.lines /\ current.own /\ current.first = uptime
       /\ current' = [current EXCEPT !.own = FALSE, !.garbled = @ \/ cut]
  /\ UNCHANGED <<uptime, backups, ticker, misses, moved>>

Boot ==
  /\ rotator = "down"
  /\ rotator' = "booting"
  /\ UNCHANGED <<uptime, current, backups, ticker, mill, misses, moved>>

LogNext ==
  \/ Log \/ SizeRotation \/ Mill \/ StartupRotate \/ RotateOnce
  \/ LogTick \/ Crash \/ Boot

LogSpec == LogInit /\ [][LogNext]_logVars

-----------------------------------------------------------------------------
(* Properties *)

\* DEVMON_LOG_MAX_AGE_DAYS means something however often the agent restarts:
\* while it runs, no line in the current file is older than the age and one
\* interval, and one more for every pass in a row that failed (Rotator.Run: an
\* agent restarted more often than the interval "would otherwise never rotate";
\* a failed rotation "is logged and the loop continues").
CurrentIsYoung ==
  rotator = "waiting" /\ current.lines =>
    uptime <= current.first + LogMaxAge + Interval * (1 + misses)

-----------------------------------------------------------------------------
(* Claims of the repository that the code does not keep *)

\* A startup pass leaves the boot's own lines in agent.log: "a freshly booted
\* agent's own opening lines are left alone and only genuinely stale
\* carry-over content gets rotated aside" (rotator.go:114-115).
OwnLinesStay == ~moved
=============================================================================
