------------------------------ MODULE Startup ------------------------------
(***************************************************************************)
(* How the agent comes up on its environment and its state directory:      *)
(* config.Load, state.Open and the migration ladder                        *)
(* (internal/state/store.go), CheckIdentityConsistency, LoadOrCreateCA and *)
(* LoadOrCreateServerCert (internal/certs), in the order of run and serve  *)
(* (cmd/devmon-agent/main.go).  The host-side CLI loads the same           *)
(* environment and opens, and migrates, the same database in a process of  *)
(* its own.                                                                *)
(*                                                                         *)
(* Every file operation and every transaction is a step, a process may be  *)
(* killed between any two, and the container runtime restarts the agent    *)
(* when it exits.  A file is created empty and then written, so a kill in  *)
(* between leaves it torn.                                                 *)
(***************************************************************************)
EXTENDS Configuration

CONSTANTS Agents, Clis,   \* processes
          Devices,        \* devices that may pair
          Envs,           \* environments to deploy with, in named sets
          MaxIds,         \* bound: keypairs known at one time
          Scenarios       \* the bounds a behaviour may be under: records of
                          \* the processes that run, of the environments and
                          \* of what may go wrong, some of {"crash",
                          \* "iofail", "lostdb", "lostcerts", "edit"}

\* Each set holds environments, and keypairs are counted from 1.
ASSUME EnvsAssumption ==
  /\ \A k \in DOMAIN Envs : Envs[k] \subseteq Environments
  /\ MaxIds \in Nat
ASSUME ProcsAssumption == Agents \cap Clis = {}

Procs == Agents \cup Clis

ASSUME ScenariosAssumption ==
  Scenarios \subseteq
    [procs : SUBSET Procs, envs : DOMAIN Envs,
     upsets : SUBSET {"crash", "iofail", "lostdb", "lostcerts", "edit"}]

Files == {"ca.key", "ca.crt", "server.key", "server.crt"}
Current == 2   \* currentSchemaVersion

\* Where a process is that has created the file and not yet written it.
Filling == [f \in Files |-> CASE f = "ca.key" -> "ca.key2" [] f = "ca.crt" -> "ca.crt2"
                              [] f = "server.key" -> "server.key2"
                              [] f = "server.crt" -> "server.crt2"]

\* A file: absent, torn, or whole with the keypair it belongs to and, for a
\* server certificate, the CA that signed it and the addresses it covers.
Content == [st : {"absent", "torn", "whole"}, id : 0..MaxIds, ca : 0..MaxIds,
            addrs : SUBSET Names]
Absent  == [st |-> "absent", id |-> 0, ca |-> 0, addrs |-> {}]
Torn    == [Absent EXCEPT !.st = "torn"]

VARIABLES
  bound,     \* the scenario
  db,        \* devmon.db is on disk
  version,   \* schema_meta.version; 0 where there is no row.  A migration
             \* changes its tables and stamps this in one transaction
  rows,      \* the devices table
  file,      \* the certs directory
  env,       \* the container's environment
  pc,        \* where each process is
  first,     \* store.FirstRun
  seen,      \* the migration step each process will consider next, less one
  mine,      \* the keypair each process is writing
  ca,        \* the CA each agent has loaded
  leaf,      \* the server certificate each agent has loaded
  \* history
  paired,    \* the CA each device was given when it paired, or 0; a lost
             \* database takes its devices with it
  lost       \* what the operator has lost: some of {"db", "certs"}

vars == <<bound, db, version, rows, file, env, pc, first, seen, mine, ca, leaf,
          paired, lost>>

Labels == {"off", "stat", "open", "version", "migrate", "check", "loadca",
           "ca.key", "ca.key2", "ca.crt", "ca.crt2", "readca", "server",
           "server.key", "server.key2", "server.crt", "server.crt2", "leaf",
           "rmcrt", "rmkey", "serve", "use", "refused", "error",
           "torn", "incomplete"}

\* Where run returned an error.
Exits == {"refused", "error", "torn", "incomplete"}

TypeOK ==
  /\ bound \in Scenarios
  /\ db \in BOOLEAN /\ version \in 0..Current
  /\ rows \subseteq Devices
  /\ file \in [Files -> Content]
  /\ env \in Envs[bound.envs]
  /\ pc \in [Procs -> Labels]
  /\ first \in [Procs -> BOOLEAN]
  /\ seen \in [Procs -> 0..Current]
  /\ mine \in [Procs -> 0..MaxIds] /\ ca \in [Procs -> 0..MaxIds]
  /\ leaf \in [Procs -> Content]
  /\ paired \in [Devices -> 0..MaxIds]
  /\ lost \subseteq {"db", "certs"}

Init ==
  /\ bound \in Scenarios
  /\ db = FALSE /\ version = 0 /\ rows = {}
  /\ file = [f \in Files |-> Absent]
  /\ env \in Envs[bound.envs]
  /\ pc = [p \in Procs |-> "off"]
  /\ first = [p \in Procs |-> FALSE]
  /\ seen = [p \in Procs |-> 0]
  /\ mine = [p \in Procs |-> 0] /\ ca = [p \in Procs |-> 0]
  /\ leaf = [p \in Procs |-> Absent]
  /\ paired = [d \in Devices |-> 0]
  /\ lost = {}

-----------------------------------------------------------------------------
Goto(p, l) == pc' = [pc EXCEPT ![p] = l]

dbVars    == <<db, version, rows>>
procVars  == <<first, seen, mine, ca, leaf>>
worldVars == <<bound, env, paired, lost>>

-----------------------------------------------------------------------------
(* config.Load, then state.Open *)

\* A configuration with a problem is refused before anything is opened or
\* created.
Load(p) ==
  /\ p \in bound.procs
  /\ pc[p] = "off"
  /\ Goto(p, IF Problems(env) = {} THEN "stat" ELSE "refused")
  /\ UNCHANGED <<dbVars, file, procVars, worldVars>>

\* os.Stat, before the driver creates the file.
Stat(p) ==
  /\ pc[p] = "stat"
  /\ first' = [first EXCEPT ![p] = ~db]
  /\ Goto(p, "open")
  /\ UNCHANGED <<dbVars, file, seen, mine, ca, leaf, worldVars>>

\* Ping, integrity_check and CREATE TABLE IF NOT EXISTS schema_meta.
OpenDb(p) ==
  /\ pc[p] = "open"
  /\ db' = TRUE
  /\ Goto(p, "version")
  /\ UNCHANGED <<version, rows, file, procVars, worldVars>>

\* currentVersionOrZero, read outside the migrations' transactions.
ReadVersion(p) ==
  /\ pc[p] = "version"
  /\ seen' = [seen EXCEPT ![p] = version]
  /\ Goto(p, "migrate")
  /\ UNCHANGED <<dbVars, file, first, mine, ca, leaf, worldVars>>

\* Mutant: every statement is IF NOT EXISTS.
Applies_Always(step) == TRUE

\* Does the step's SQL succeed on the tables as they are?  v1 is all IF NOT
\* EXISTS, but indexes a column that v2's devices table does not have; v2
\* creates device_certs, which must not exist.
Applies(step) ==
  /\ step = 1 => version < 2
  /\ step = 2 => version = 1

Migrated(v) == v = Current

\* One applyMigration: v2 drops and recreates devices.
Migrate(p) ==
  /\ pc[p] = "migrate"
  /\ IF Migrated(seen[p])
       THEN /\ Goto(p, IF p \in Agents THEN "check" ELSE "use")
            /\ UNCHANGED <<dbVars, seen>>
       ELSE LET step == seen[p] + 1
            IN  \/ /\ Applies(step)
                   /\ version' = step
                   /\ rows' = IF step = 2 THEN {} ELSE rows
                   /\ seen' = [seen EXCEPT ![p] = step]
                   /\ UNCHANGED <<db, pc>>
                \/ /\ ~Applies(step)
                   /\ Goto(p, "error")
                   /\ UNCHANGED <<dbVars, seen>>
  /\ UNCHANGED <<file, first, mine, ca, leaf, worldVars>>

-----------------------------------------------------------------------------
(* The certificate authority *)

There(f) == file[f].st # "absent"
Whole(f) == file[f].st = "whole"

Keypair(k, c) == There(k) /\ There(c)
Half(k, c)    == There(k) # There(c)

\* Mutant: a mismatch is taken for a first run.
Consistent_Always(existed, caExists) == TRUE

\* CheckIdentityConsistency's matrix.
Consistent(existed, caExists) == existed = caExists

Check(p) ==
  /\ pc[p] = "check"
  /\ Goto(p, CASE Half("ca.key", "ca.crt") -> "torn"
               [] ~Half("ca.key", "ca.crt")
                    /\ Consistent(~first[p], Keypair("ca.key", "ca.crt")) -> "loadca"
               [] OTHER -> "incomplete")
  /\ UNCHANGED <<dbVars, file, procVars, worldVars>>

\* The keypairs no file, process or client knows: P-256 keys do not repeat.
Fresh ==
  {i \in 1..MaxIds :
    /\ \A f \in Files : i # file[f].id
    /\ \A p \in Procs : i \notin {mine[p], ca[p], leaf[p].id}
    /\ \A d \in Devices : i # paired[d]}

Generate(p) == Fresh # {} /\ mine' = [mine EXCEPT ![p] = CHOOSE i \in Fresh : TRUE]

\* keypairExists, then generate a pair or read the one that is there.
FindPair(p, at, k, c, absent, present) ==
  /\ pc[p] = at
  /\ \/ /\ ~There(k) /\ ~There(c)
        /\ Generate(p)
        /\ Goto(p, absent)
     \/ Keypair(k, c) /\ Goto(p, present) /\ UNCHANGED mine
     \/ Half(k, c) /\ Goto(p, "torn") /\ UNCHANGED mine
  /\ UNCHANGED <<dbVars, file, first, seen, ca, leaf, worldVars>>

FindCA(p) == FindPair(p, "loadca", "ca.key", "ca.crt", "ca.key", "readca")

\* The certs directory once writing f has failed: a key is not left behind
\* without its certificate.
CleanedUp(f) ==
  CASE f = "ca.crt"     -> [file EXCEPT !["ca.key"] = Absent]
    [] f = "server.crt" -> [file EXCEPT !["server.key"] = Absent]
    [] OTHER            -> file

\* Mutant: without O_EXCL the file is truncated.
Create_Truncates(p, f) ==
  /\ pc[p] = f
  /\ Goto(p, Filling[f]) /\ file' = [file EXCEPT ![f] = Torn]
  /\ UNCHANGED <<dbVars, procVars, worldVars>>

\* writeExclusive, first half: O_CREATE|O_EXCL.
Create(p, f) ==
  /\ pc[p] = f
  /\ IF There(f) THEN Goto(p, "error") /\ file' = CleanedUp(f)
                 ELSE Goto(p, Filling[f]) /\ file' = [file EXCEPT ![f] = Torn]
  /\ UNCHANGED <<dbVars, procVars, worldVars>>

\* writeExclusive, second half: Write and Close.
Fill(p, f, content, then) ==
  /\ pc[p] = Filling[f]
  /\ file' = [file EXCEPT ![f] = content]
  /\ Goto(p, then)
  /\ UNCHANGED <<dbVars, procVars, worldVars>>

Whose(p, signer, sans) == [st |-> "whole", id |-> mine[p], ca |-> signer, addrs |-> sans]

WriteCA(p) ==
  \/ Create(p, "ca.key")
  \/ Fill(p, "ca.key", Whose(p, mine[p], {}), "ca.crt")
  \/ Create(p, "ca.crt")
  \/ Fill(p, "ca.crt", Whose(p, mine[p], {}), "readca")

\* loadCA parses both halves; it does not compare them.
LoadCA(p) ==
  /\ pc[p] = "readca"
  /\ IF Whole("ca.key") /\ Whole("ca.crt")
       THEN Goto(p, "server") /\ ca' = [ca EXCEPT ![p] = file["ca.crt"].id]
       ELSE Goto(p, "error") /\ UNCHANGED ca
  /\ UNCHANGED <<dbVars, file, first, seen, mine, leaf, worldVars>>

-----------------------------------------------------------------------------
(* The server certificate *)

Sans == publicAddrs(env).value

FindServer(p) ==
  FindPair(p, "server", "server.key", "server.crt", "server.key", "leaf")

WriteServer(p) ==
  \/ Create(p, "server.key")
  \/ Fill(p, "server.key", Whose(p, ca[p], Sans), "server.crt")
  \/ Create(p, "server.crt")
  \/ Fill(p, "server.crt", Whose(p, ca[p], Sans), "leaf")

\* Some configured address is not covered; more than those may be.
sanDrift(c) == ~(Sans \subseteq c.addrs)

\* loadServerKeypair checks that the key belongs to the certificate; a leaf
\* that does not cover the configured addresses is replaced.
LoadServer(p) ==
  /\ pc[p] = "leaf"
  /\ leaf' = [leaf EXCEPT ![p] = file["server.crt"]]
  /\ IF /\ Whole("server.key") /\ Whole("server.crt")
        /\ file["server.key"].id = file["server.crt"].id
       THEN Goto(p, IF sanDrift(file["server.crt"]) THEN "rmcrt" ELSE "serve")
       ELSE Goto(p, "error")
  /\ UNCHANGED <<dbVars, file, first, seen, mine, ca, worldVars>>

\* Mutant: the stale key is left where it is.
RemoveKey_Skipped(p) ==
  /\ pc[p] = "rmkey"
  /\ Generate(p)
  /\ Goto(p, "server.key")
  /\ UNCHANGED <<dbVars, file, first, seen, ca, leaf, worldVars>>

\* reissueServerCert: the certificate goes first, then the key.
RemoveCrt(p) ==
  /\ pc[p] = "rmcrt"
  /\ file' = [file EXCEPT !["server.crt"] = Absent]
  /\ Goto(p, "rmkey")
  /\ UNCHANGED <<dbVars, procVars, worldVars>>

RemoveKey(p) ==
  /\ pc[p] = "rmkey"
  /\ file' = [file EXCEPT !["server.key"] = Absent]
  /\ Generate(p)
  /\ Goto(p, "server.key")
  /\ UNCHANGED <<dbVars, first, seen, ca, leaf, worldVars>>

-----------------------------------------------------------------------------
(* Running *)

\* A device pairs: it is given the CA certificate to pin.
Pair(p, d) ==
  /\ pc[p] = "serve"
  /\ d \notin rows /\ paired[d] = 0
  /\ rows' = rows \cup {d}
  /\ paired' = [paired EXCEPT ![d] = ca[p]]
  /\ UNCHANGED <<bound, db, version, file, env, pc, procVars, lost>>

\* A process is gone, and with it everything it held.
Gone(p) ==
  /\ Goto(p, "off")
  /\ first' = [first EXCEPT ![p] = FALSE] /\ seen' = [seen EXCEPT ![p] = 0]
  /\ mine' = [mine EXCEPT ![p] = 0] /\ ca' = [ca EXCEPT ![p] = 0]
  /\ leaf' = [leaf EXCEPT ![p] = Absent]
  /\ UNCHANGED <<dbVars, file, worldVars>>

\* The CLI command is done, or the agent has returned its error.
Return(p) == pc[p] \in Exits \cup {"use"} /\ Gone(p)

\* SIGTERM while serving.
Stop(p) == pc[p] = "serve" /\ Gone(p)

\* Creating or writing a file fails: the agent cleans up, or cannot, and
\* returns the error; what it created stays, torn.
WriteFails(p) ==
  /\ "iofail" \in bound.upsets
  /\ \E f \in Files : /\ pc[p] \in {f, Filling[f]}
                      /\ file' \in {file, CleanedUp(f)}
  /\ Goto(p, "error")
  /\ UNCHANGED <<dbVars, procVars, worldVars>>

Crash(p) == "crash" \in bound.upsets /\ pc[p] # "off" /\ Gone(p)

Stopped == \A p \in Procs : pc[p] = "off"

\* The database, or the certs directory, is missing from a restore, or the
\* operator deleted it.
LoseDb ==
  /\ "lostdb" \in bound.upsets /\ Stopped /\ db
  /\ db' = FALSE /\ version' = 0 /\ rows' = {}
  /\ paired' = [d \in Devices |-> 0]
  /\ lost' = lost \cup {"db"}
  /\ UNCHANGED <<bound, file, env, pc, procVars>>

LoseCerts ==
  /\ "lostcerts" \in bound.upsets /\ Stopped /\ There("ca.crt")
  /\ file' = [f \in Files |-> Absent]
  /\ lost' = lost \cup {"certs"}
  /\ UNCHANGED <<bound, dbVars, env, pc, procVars, paired>>

\* The container is created anew with another environment.
EditEnv ==
  /\ "edit" \in bound.upsets /\ Stopped
  /\ env' \in Envs[bound.envs] \ {env}
  /\ UNCHANGED <<bound, dbVars, file, pc, procVars, paired, lost>>

-----------------------------------------------------------------------------
OpenStep(p) == Load(p) \/ Stat(p) \/ OpenDb(p) \/ ReadVersion(p) \/ Migrate(p)

AgentStep(p) ==
  \/ OpenStep(p) \/ Check(p) \/ FindCA(p) \/ WriteCA(p) \/ LoadCA(p)
  \/ FindServer(p) \/ WriteServer(p) \/ LoadServer(p)
  \/ RemoveCrt(p) \/ RemoveKey(p)

Next ==
  \/ \E p \in Agents : \/ AgentStep(p) \/ Stop(p) \/ (\E d \in Devices : Pair(p, d))
                       \/ WriteFails(p)
  \/ \E p \in Clis : OpenStep(p)
  \/ \E p \in Procs : Return(p) \/ Crash(p)
  \/ LoseDb \/ LoseCerts \/ EditEnv

Spec == Init /\ [][Next]_vars

\* Processes run, and the runtime restarts an agent that has exited.
FairSpec == Spec /\ \A p \in Agents : WF_vars(AgentStep(p)) /\ WF_vars(Return(p))

-----------------------------------------------------------------------------
(* Properties *)

\* The agent never trades its identity: an agent that serves a database with
\* a paired device in it serves the very CA that device pinned, after any
\* crash, lost directory or change of address ("silently minting a fresh
\* identity" would unpair every device).
StableIdentity ==
  \A p \in Agents : pc[p] = "serve" =>
    \A d \in Devices : paired[d] # 0 => ca[p] = paired[d]

\* No start of the agent or the CLI, however the two interleave, migrates a
\* paired device away: only losing the database file does.
RowsSurvive == \A d \in Devices : paired[d] # 0 => d \in rows

\* What an agent serves is whole: its CA's key and certificate belong
\* together, and its server certificate is signed by that CA and covers the
\* configured addresses, whatever a crash left behind for it to load.
ServesWholeIdentity ==
  \A p \in Agents : pc[p] = "serve" =>
    /\ file["ca.key"].id = file["ca.crt"].id /\ file["ca.crt"].id = ca[p]
    /\ leaf[p].ca = ca[p] /\ Sans # {} /\ Sans \subseteq leaf[p].addrs

\* One agent alone on its directory, which stops only on request.
Undisturbed ==
  /\ bound.upsets \subseteq {"edit"}
  /\ \E p \in Agents : bound.procs = {p}

\* An agent that is not disturbed comes up on a sound configuration: on an
\* empty directory, and after the operator changed the addresses, or broke
\* the configuration and repaired it, any number of times.
ComesUp ==
  []<>(Undisturbed /\ Wrong(env) = {} /\ Ordinary(env) =>
         \E p \in Agents : pc[p] = "serve" /\ Sans \subseteq leaf[p].addrs)

Configured(p) == pc[p] \notin {"off", "refused"}

\* Neither the agent nor the CLI runs on a configuration that breaks the
\* table of docs/CONFIGURATION.md, and one that is refused is told every
\* variable that is wrong and no other, although each loader replaces a wrong
\* value by a default that the checks after it use.
ConfigExact ==
  Ordinary(env) =>
    \A p \in Procs :
      /\ pc[p] = "refused" => Wrong(env) # {} /\ Problems(env) = Wrong(env)
      /\ Configured(p) => Wrong(env) = {}

\* The limits that a configuration stands for hold where they are applied:
\* the log files together keep to the total and each has a limit, no rate is
\* zero, a pairing code lives no longer than the ceiling, and the audit
\* record is kept at least as long as the logs (perFileMaxMB, minRatePerX,
\* resolvePairCodeTTL, checkRetentionOrder).
BudgetsHold ==
  \A p \in Procs : Configured(p) =>
    LET c   == Config(env)
        mb  == perFileMaxMB(c["LOG_MAX_TOTAL_MB"])
        top == c["PAIR_TTL_MAX_MIN"]
    IN /\ mb > 0 /\ (maxBackups + 1) * mb <= c["LOG_MAX_TOTAL_MB"]
       /\ \A v \in {"RATE_STATUS_PER_MIN", "RATE_PAIR_PER_MIN", "RATE_GUARDED_PER_SEC"} :
            c[v] > 0
       /\ \A flag \in {Unset, Malformed}
                          \cup {Number(n) : n \in {-1, 0, 4, 5, 10, top, top + 1}} :
            LET ttl == resolvePairCodeTTL(flag, top)
            IN  ttl.ok => /\ ttl.value \in pairCodeMinTTLMinutes..top
                          /\ flag.form = "number" => ttl.value = flag.n
       /\ Ordinary(env) => 0 < c["LOG_MAX_AGE_DAYS"]
                           /\ c["LOG_MAX_AGE_DAYS"] <= c["AUDIT_MAX_AGE_DAYS"]

-----------------------------------------------------------------------------
(* Claims of the repository that the code does not keep *)

\* docs/THREAT-MODEL.md: on "a certificate authority with no state database"
\* the agent "refuses to start".
LostDatabaseIsRefused ==
  \A p \in Agents : pc[p] = "serve" => "db" \notin lost

\* docs/OPERATIONS.md: "delete certs/ on the host and restart.  The agent
\* then creates a new CA".
DeletedCertsAreRecreated ==
  \A p \in Agents : pc[p] = "incomplete" => "certs" \notin lost

\* docs/CONFIGURATION.md: DEVMON_AUDIT_MAX_AGE_DAYS is ">= 1, and >=
\* DEVMON_LOG_MAX_AGE_DAYS".  Multiplying by a day wraps: two ages can both
\* be negative, and the audit table is then emptied by every pass.
AuditOutlivesLogs ==
  \A p \in Procs : Configured(p) => Config(env)["AUDIT_MAX_AGE_DAYS"] > 0

\* docs/CONFIGURATION.md: an entry of DEVMON_PUBLIC_ADDR is "a DNS name or
\* IP".  An IPv6 address is refused for its colons.
AddressesAreAccepted ==
  \A p \in Procs : pc[p] = "refused" => Wrong(env) # {}

\* certs/store.go: the incomplete identity is "the signature of a partial
\* restore or a destroyed bind mount, not of a first install".
IncompleteMeansLoss ==
  \A p \in Agents : pc[p] = "incomplete" => lost # {}
=============================================================================
