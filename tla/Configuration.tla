--------------------------- MODULE Configuration ---------------------------
(***************************************************************************)
(* config.Load (internal/config/config.go): one field loader per           *)
(* environment variable, each of which records its problem and goes on     *)
(* with a default; and what the agent and the CLI derive from the result   *)
(* (internal/logging, internal/httpapi, cmd/devmon-agent).                 *)
(*                                                                         *)
(* A text is told apart only as far as its check does: a path by being     *)
(* absolute, a URL by its scheme, a list by the set of its parts.  "" is a *)
(* variable that is unset, or a blank part.                                *)
(*                                                                         *)
(* Numbers are int, durations int64 nanoseconds.  TLC cannot count that    *)
(* far: a duration is counted in units, Day of them to a day, and wraps at *)
(* Limit the way it does at 2^63.                                           *)
(***************************************************************************)
EXTENDS Integers

CONSTANTS Day,     \* units of time in a day
          Limit,   \* numbers and durations are in -Limit..Limit-1
          Names,   \* DNS names and IPv4 addresses
          IPv6,    \* IPv6 addresses
          Refs,    \* names and IDs that fit Docker's container-name grammar
          Junk     \* a text that is none of these, such as host:8443

ASSUME UnitsAssumption ==
  Day \in Nat \ {0} /\ Limit \in Nat /\ 365 * Day < Limit
ASSUME EntriesAssumption ==
  Names \cap IPv6 = {} /\ {Junk, ""} \cap (Names \cup IPv6 \cup Refs) = {}

Texts   == {"STATE_DIR", "POLICY_MODE", "DOCKER_HOST", "LOG_LEVEL",
            "SELF_CONTAINER"}
Numbers == {"LISTEN_ADDR", "LOG_MAX_AGE_DAYS", "LOG_MAX_TOTAL_MB",
            "AUDIT_MAX_AGE_DAYS", "AUDIT_MAX_ROWS", "RATE_STATUS_PER_MIN",
            "RATE_PAIR_PER_MIN", "RATE_GUARDED_PER_SEC", "PAIR_TTL_MAX_MIN"}
Lists   == {"PUBLIC_ADDR", "PROTECTED_CONTAINERS"}

Unset     == [form |-> "unset", n |-> 0]
Malformed == [form |-> "malformed", n |-> 0]
Number(n) == [form |-> "number", n |-> n]

\* What a container can be given.
Environments ==
  [text : [Texts -> STRING],
   num  : [Numbers -> [form : {"unset", "malformed", "number"}, n : Int]],
   list : [Lists -> SUBSET STRING]]

\* The environment of an operator who sets only what has no default.
Plain(addrs) ==
  [text |-> [v \in Texts |-> ""],
   num  |-> [v \in Numbers |-> Unset],
   list |-> [v \in Lists |-> IF v = "PUBLIC_ADDR" THEN addrs ELSE {}]]

-----------------------------------------------------------------------------
(* The loader: what each field is given, and whether that is no problem *)

Field(value, ok) == [value |-> value, ok |-> ok]

raw(v, def) == IF v = "" THEN def ELSE v

Enum(v, def, valid) == LET t == raw(v, def) IN Field(t, t \in valid)

stateDir(e)   == Enum(e.text["STATE_DIR"], "absolute", {"absolute"})
policyMode(e) == Enum(e.text["POLICY_MODE"], "default", {"read-only", "default", "full"})
dockerHost(e) == Enum(e.text["DOCKER_HOST"], "unix", {"unix", "tcp"})
logLevel(e)   == Enum(e.text["LOG_LEVEL"], "info", {"debug", "info", "warn", "error"})

selfContainer(e) == Enum(e.text["SELF_CONTAINER"], "", Refs \cup {""})

rangedInt(r, def, least, most) ==
  IF r.form = "number" /\ r.n >= least /\ r.n <= most THEN Field(r.n, TRUE)
                                                      ELSE Field(def, r.form = "unset")

boundedInt(r, def, least) == rangedInt(r, def, least, Limit - 1)

\* The host part is anything; the port is checked.
listenAddr(e) == rangedInt(e.num["LISTEN_ADDR"], 8443, 1, 65535)

\* int64 multiplication.
Wrapped(x) == ((x + Limit) % (2 * Limit)) - Limit

days(r, def) ==
  LET n == boundedInt(r, def, 1) IN Field(Wrapped(n.value * Day), n.ok)

minutes(r, def, least, most) == rangedInt(r, def, least, most)

\* A colon refuses an entry before it is tried as an address.
isValidSAN(p) == p \notin IPv6 /\ p \in Names

\* Blank parts are skipped, and something has to be left.
publicAddrs(e) ==
  LET parts == e.list["PUBLIC_ADDR"] \ {""}
  IN  Field({p \in parts : isValidSAN(p)},
            parts # {} /\ \A p \in parts : isValidSAN(p))

protectedContainers(e) ==
  LET parts == e.list["PROTECTED_CONTAINERS"] \ {""}
  IN  Field(parts \cap Refs, parts \subseteq Refs)

Fields(e) ==
  [STATE_DIR            |-> stateDir(e),
   LISTEN_ADDR          |-> listenAddr(e),
   PUBLIC_ADDR          |-> publicAddrs(e),
   POLICY_MODE          |-> policyMode(e),
   DOCKER_HOST          |-> dockerHost(e),
   LOG_LEVEL            |-> logLevel(e),
   LOG_MAX_AGE_DAYS     |-> days(e.num["LOG_MAX_AGE_DAYS"], 1),
   LOG_MAX_TOTAL_MB     |-> boundedInt(e.num["LOG_MAX_TOTAL_MB"], 64, 8),
   AUDIT_MAX_AGE_DAYS   |-> days(e.num["AUDIT_MAX_AGE_DAYS"], 365),
   AUDIT_MAX_ROWS       |-> boundedInt(e.num["AUDIT_MAX_ROWS"], 100000, 1000),
   RATE_STATUS_PER_MIN  |-> boundedInt(e.num["RATE_STATUS_PER_MIN"], 30, 1),
   RATE_PAIR_PER_MIN    |-> boundedInt(e.num["RATE_PAIR_PER_MIN"], 5, 1),
   RATE_GUARDED_PER_SEC |-> boundedInt(e.num["RATE_GUARDED_PER_SEC"], 20, 1),
   PAIR_TTL_MAX_MIN     |-> minutes(e.num["PAIR_TTL_MAX_MIN"], 10, 5, 60),
   SELF_CONTAINER       |-> selfContainer(e),
   PROTECTED_CONTAINERS |-> protectedContainers(e)]

\* Mutant: the order is not checked.
checkRetentionOrder_Skipped(f) == TRUE

checkRetentionOrder(f) == f["AUDIT_MAX_AGE_DAYS"].value >= f["LOG_MAX_AGE_DAYS"].value

\* The variables that Load names in its error; none, and it returns a Config.
Problems(e) ==
  LET f == Fields(e)
  IN  {v \in DOMAIN f : ~f[v].ok}
        \cup (IF checkRetentionOrder(f) THEN {} ELSE {"AUDIT_MAX_AGE_DAYS"})

Config(e) == LET f == Fields(e) IN [v \in DOMAIN f |-> f[v].value]

-----------------------------------------------------------------------------
(* What is derived from a Config *)

maxBackups == 3

\* Mutant: each file may have the total.
perFileMaxMB_Total(totalMB) == totalMB

\* lumberjack takes 0 for no limit.
perFileMaxMB(totalMB) ==
  IF totalMB \div (maxBackups + 1) > 0 THEN totalMB \div (maxBackups + 1) ELSE 1

DefaultPairingCodeTTL == 10
pairCodeMinTTLMinutes == 5

\* The --ttl flag, in minutes.
resolvePairCodeTTL(flag, ceiling) ==
  IF flag.form = "unset"
  THEN Field(IF DefaultPairingCodeTTL > ceiling THEN ceiling ELSE DefaultPairingCodeTTL, TRUE)
  ELSE Field(flag.n, flag.form = "number" /\ flag.n >= pairCodeMinTTLMinutes
                                          /\ flag.n <= ceiling)

-----------------------------------------------------------------------------
(* The table of docs/CONFIGURATION.md *)

Within(r, least, most) == r.form = "unset" \/ (r.form = "number" /\ r.n \in least..most)

Among(v, valid) == v \in valid \cup {""}

AgeInDays(r, def) == IF r.form = "number" /\ r.n >= 1 THEN r.n ELSE def

\* A length of time, in days, that a Duration can hold.
Representable(n) == n * Day < Limit

AuditAge(audit, logs) ==
  Within(audit, 1, Limit - 1) /\ AgeInDays(audit, 365) >= AgeInDays(logs, 1)

Addresses(l) == l # {} /\ l \subseteq Names \cup IPv6

References(l) == l \subseteq Refs

\* What the table says of each variable; LOG_MAX_AGE_DAYS has a part in two.
Documented(e) ==
  LET n == e.num
      t == e.text
  IN [STATE_DIR            |-> Among(t["STATE_DIR"], {"absolute"}),
      LISTEN_ADDR          |-> Within(n["LISTEN_ADDR"], 1, 65535),
      PUBLIC_ADDR          |-> Addresses(e.list["PUBLIC_ADDR"] \ {""}),
      POLICY_MODE          |-> Among(t["POLICY_MODE"], {"read-only", "default", "full"}),
      DOCKER_HOST          |-> Among(t["DOCKER_HOST"], {"unix", "tcp"}),
      LOG_LEVEL            |-> Among(t["LOG_LEVEL"], {"debug", "info", "warn", "error"}),
      LOG_MAX_AGE_DAYS     |-> Within(n["LOG_MAX_AGE_DAYS"], 1, Limit - 1),
      LOG_MAX_TOTAL_MB     |-> Within(n["LOG_MAX_TOTAL_MB"], 8, Limit - 1),
      AUDIT_MAX_AGE_DAYS   |-> AuditAge(n["AUDIT_MAX_AGE_DAYS"], n["LOG_MAX_AGE_DAYS"]),
      AUDIT_MAX_ROWS       |-> Within(n["AUDIT_MAX_ROWS"], 1000, Limit - 1),
      RATE_STATUS_PER_MIN  |-> Within(n["RATE_STATUS_PER_MIN"], 1, Limit - 1),
      RATE_PAIR_PER_MIN    |-> Within(n["RATE_PAIR_PER_MIN"], 1, Limit - 1),
      RATE_GUARDED_PER_SEC |-> Within(n["RATE_GUARDED_PER_SEC"], 1, Limit - 1),
      PAIR_TTL_MAX_MIN     |-> Within(n["PAIR_TTL_MAX_MIN"], 5, 60),
      SELF_CONTAINER       |-> Among(t["SELF_CONTAINER"], Refs),
      PROTECTED_CONTAINERS |-> References(e.list["PROTECTED_CONTAINERS"] \ {""})]

Wrong(e) == LET t == Documented(e) IN {v \in DOMAIN t : ~t[v]}

\* Where the code and the table part: ages of more than 292 years, and IPv6.
Ordinary(e) ==
  /\ \A v \in {"LOG_MAX_AGE_DAYS", "AUDIT_MAX_AGE_DAYS"} : Representable(e.num[v].n)
  /\ e.list["PUBLIC_ADDR"] \cap IPv6 = {}
=============================================================================
