--------------------------- MODULE StartupProofs ---------------------------
(***************************************************************************)
(* Proofs about Startup, for every set of processes, devices and           *)
(* environments and any bound on the keypairs.                             *)
(*                                                                         *)
(* None of the properties is inductive: an agent that serves trusts what   *)
(* it read many steps before, out of files that other processes write.     *)
(* The invariant below says what every process may rely on where it is:    *)
(* the schema behind a process that has migrated, the one process that is  *)
(* between the CA's two files, the CA behind an agent that has loaded one, *)
(* and the two states a CA with paired devices can be in: whole, or lost   *)
(* with no process on a way to a new one.                                  *)
(***************************************************************************)
EXTENDS Startup, TLAPS

\* Where a process is that has made the CA key's file and not yet the whole
\* certificate.
Own == {"ca.key2", "ca.crt", "ca.crt2"}

\* Where an agent is that has loaded a CA.
Loaded == {"server", "server.key", "server.key2", "server.crt", "server.crt2",
           "leaf", "rmcrt", "rmkey", "serve"}

\* Where a process is that has migrated, and where the database is open.
Ready  == {"check", "loadca", "ca.key", "ca.key2", "ca.crt", "ca.crt2", "readca",
           "use"} \cup Loaded
Opened == {"version", "migrate"} \cup Ready

\* A paired device is in the database; a process never believes the schema
\* to be newer than it is, and one that has migrated has the current one.
RowsInv ==
  /\ \A d \in Devices : paired[d] # 0 => d \in rows /\ version = Current /\ db
  /\ \A p \in Procs :
       /\ pc[p] \in Opened => db
       /\ pc[p] = "migrate" => seen[p] <= version
       /\ pc[p] \in Ready => version = Current

\* A process runs, or was refused, on the environment as it still is.
EnvInv ==
  \A p \in Procs :
    /\ pc[p] = "refused" => Problems(env) # {}
    /\ Configured(p) => Problems(env) = {}

\* O_EXCL makes one process the owner of the CA until its certificate is
\* whole, and a whole certificate belongs to the key beside it.
OwnerInv ==
  /\ \A p \in Procs : pc[p] \in Own => There("ca.key") /\ ~Whole("ca.crt")
  /\ \A p, q \in Procs : pc[p] \in Own /\ pc[q] \in Own => p = q
  /\ \A p \in Procs : pc[p] \in {"ca.crt", "ca.crt2"} =>
       Whole("ca.key") /\ file["ca.key"].id = mine[p]
  /\ Whole("ca.crt") => Whole("ca.key") /\ file["ca.key"].id = file["ca.crt"].id

\* The CA an agent has loaded, and the one that signed a server certificate,
\* is the one on disk.
IssuedInv ==
  /\ \A p \in Procs : pc[p] \in Loaded => Whole("ca.crt") /\ ca[p] = file["ca.crt"].id
  /\ Whole("server.crt") =>
       Whole("ca.crt") /\ file["server.crt"].ca = file["ca.crt"].id
  /\ \A p \in Procs : pc[p] = "serve" =>
       leaf[p].ca = ca[p] /\ Sans \subseteq leaf[p].addrs

\* The certs directory is gone, and every process is where
\* CheckIdentityConsistency will refuse it, or it will not come to that.
LostCa ==
  /\ ~There("ca.key") /\ ~There("ca.crt")
  /\ \A p \in Procs :
       /\ pc[p] \in {"off", "refused", "stat", "open", "version", "migrate",
                     "check", "use", "incomplete", "error", "torn"}
       /\ pc[p] \in {"open", "version", "migrate", "check"} => ~first[p]

\* The CA a device pinned is the one on disk, or there is none.
PinInv ==
  \A d \in Devices : paired[d] # 0 =>
    \/ Whole("ca.crt") /\ file["ca.crt"].id = paired[d]
    \/ LostCa

Inv == TypeOK /\ RowsInv /\ EnvInv /\ OwnerInv /\ IssuedInv /\ PinInv

\* A step of one process, action by action.
ProcStep(p) ==
  \/ Load(p) \/ Stat(p) \/ OpenDb(p) \/ ReadVersion(p) \/ Migrate(p)
  \/ Check(p) \/ FindCA(p) \/ WriteCA(p) \/ LoadCA(p)
  \/ FindServer(p) \/ WriteServer(p) \/ LoadServer(p)
  \/ RemoveCrt(p) \/ RemoveKey(p)
  \/ (\E d \in Devices : Pair(p, d))
  \/ WriteFails(p) \/ Return(p) \/ Stop(p) \/ Crash(p)

-----------------------------------------------------------------------------
(* What the steps are *)

\* Every step is one of a process, or something the operator does.
LEMMA StepOfNext ==
  ASSUME Next
  PROVE  (\E p \in Procs : ProcStep(p)) \/ LoseDb \/ LoseCerts \/ EditEnv
<1>1. CASE \E p \in Agents : AgentStep(p) \/ Stop(p) \/ (\E d \in Devices : Pair(p, d))
                               \/ WriteFails(p)
  BY <1>1 DEF AgentStep, OpenStep, ProcStep, Procs
<1>2. CASE \E p \in Clis : OpenStep(p)
  BY <1>2 DEF OpenStep, ProcStep, Procs
<1>3. CASE \E p \in Procs : Return(p) \/ Crash(p)
  BY <1>3 DEF ProcStep
<1>4. QED
  BY <1>1, <1>2, <1>3 DEF Next

\* Filling, name by name.
LEMMA FillingIs ==
  /\ Filling["ca.key"] = "ca.key2" /\ Filling["ca.crt"] = "ca.crt2"
  /\ Filling["server.key"] = "server.key2" /\ Filling["server.crt"] = "server.crt2"
<1>1. "ca.key" # "ca.crt" /\ "ca.key" # "server.key" /\ "ca.key" # "server.crt"
      /\ "ca.crt" # "server.key" /\ "ca.crt" # "server.crt" /\ "server.key" # "server.crt"
  OBVIOUS
<1>2. "ca.key" \in Files /\ "ca.crt" \in Files
      /\ "server.key" \in Files /\ "server.crt" \in Files
  BY DEF Files
<1>3. QED
  BY <1>1, <1>2, Zenon DEF Filling

\* What is left of the certs directory when writing each file has failed: a
\* key goes when its certificate cannot be written.
LEMMA CleanedUpIs ==
  /\ CleanedUp("ca.key") = file /\ CleanedUp("server.key") = file
  /\ CleanedUp("ca.crt") = [file EXCEPT !["ca.key"] = Absent]
  /\ CleanedUp("server.crt") = [file EXCEPT !["server.key"] = Absent]
<1>1. "ca.key" # "ca.crt" /\ "ca.key" # "server.key" /\ "ca.key" # "server.crt"
      /\ "ca.crt" # "server.key" /\ "ca.crt" # "server.crt" /\ "server.key" # "server.crt"
  OBVIOUS
<1>2. QED
  BY <1>1, Zenon DEF CleanedUp

\* Where CheckIdentityConsistency sends an agent: on to the CA only if the
\* database and the CA are both new or both old.
LEMMA CheckIs ==
  ASSUME NEW p \in Procs, Check(p)
  PROVE  \E l \in {"torn", "loadca", "incomplete"} :
           /\ Goto(p, l)
           /\ l = "loadca" => Consistent(~first[p], Keypair("ca.key", "ca.crt"))
<1>1. CASE Half("ca.key", "ca.crt")
  <2>1. Goto(p, "torn")
    BY <1>1, Zenon DEF Check
  <2>2. QED
    BY <2>1
<1>2. CASE /\ ~Half("ca.key", "ca.crt")
           /\ Consistent(~first[p], Keypair("ca.key", "ca.crt"))
  <2>1. Goto(p, "loadca")
    BY <1>2, Zenon DEF Check
  <2>2. QED
    BY <1>2, <2>1
<1>3. CASE /\ ~Half("ca.key", "ca.crt")
           /\ ~Consistent(~first[p], Keypair("ca.key", "ca.crt"))
  <2>1. Goto(p, "incomplete")
    BY <1>3, Zenon DEF Check
  <2>2. QED
    BY <2>1
<1>4. QED
  BY <1>1, <1>2, <1>3

\* writeExclusive makes a file that was not there.
Creates(p, f) ==
  /\ pc[p] = f /\ ~There(f)
  /\ Goto(p, Filling[f]) /\ file' = [file EXCEPT ![f] = Torn]

\* Writing has failed, and nothing, or the key of the pair, was removed.
FailsBare(p) ==
  /\ pc[p] \in Files \cup {"ca.key2", "ca.crt2", "server.key2", "server.crt2"}
  /\ Goto(p, "error") /\ file' = file

FailsKeyless(p, k, at) ==
  /\ pc[p] \in at
  /\ Goto(p, "error") /\ file' = [file EXCEPT ![k] = Absent]

\* What a step that writes the certs directory does.
Written(p) ==
  \/ \E f \in Files : Creates(p, f)
  \/ Fill(p, "ca.key", Whose(p, mine[p], {}), "ca.crt")
  \/ Fill(p, "ca.crt", Whose(p, mine[p], {}), "readca")
  \/ Fill(p, "server.key", Whose(p, ca[p], Sans), "server.crt")
  \/ Fill(p, "server.crt", Whose(p, ca[p], Sans), "leaf")
  \/ FailsBare(p)
  \/ FailsKeyless(p, "ca.key", {"ca.crt", "ca.crt2"})
  \/ FailsKeyless(p, "server.key", {"server.crt", "server.crt2"})

\* A step of writeExclusive, file by file.
LEMMA CreateIs ==
  ASSUME NEW p \in Procs, NEW f \in Files, Create(p, f)
  PROVE  Written(p) /\ UNCHANGED <<dbVars, procVars, worldVars>>
<1>1. CASE ~There(f)
  BY <1>1 DEF Create, Creates, Written
<1>2. CASE There(f)
  <2>1. Goto(p, "error") /\ file' = CleanedUp(f) /\ pc[p] = f
        /\ UNCHANGED <<dbVars, procVars, worldVars>>
    BY <1>2 DEF Create
  <2>2. CASE f = "ca.key" \/ f = "server.key"
    BY <2>1, <2>2, CleanedUpIs DEF FailsBare, Written, Files
  <2>3. CASE f = "ca.crt"
    BY <2>1, <2>3, CleanedUpIs DEF FailsKeyless, Written
  <2>4. CASE f = "server.crt"
    BY <2>1, <2>4, CleanedUpIs DEF FailsKeyless, Written
  <2>5. QED
    BY <2>2, <2>3, <2>4 DEF Files
<1>3. QED
  BY <1>1, <1>2

\* The agent's writes are as Written says.
LEMMA WriteIs ==
  ASSUME NEW p \in Procs, WriteCA(p) \/ WriteServer(p) \/ WriteFails(p)
  PROVE  Written(p) /\ UNCHANGED <<dbVars, procVars, worldVars>>
<1>1. CASE \E f \in Files : Create(p, f)
  BY <1>1, CreateIs
<1>2. CASE WriteCA(p)
  BY <1>1, <1>2 DEF WriteCA, Files, Written, Fill
<1>3. CASE WriteServer(p)
  BY <1>1, <1>3 DEF WriteServer, Files, Written, Fill
<1>4. CASE WriteFails(p)
  <2>1. PICK f \in Files : pc[p] \in {f, Filling[f]} /\ file' \in {file, CleanedUp(f)}
    BY <1>4 DEF WriteFails
  <2>2. Goto(p, "error") /\ UNCHANGED <<dbVars, procVars, worldVars>>
    BY <1>4 DEF WriteFails
  <2>3. pc[p] \in Files \cup {"ca.key2", "ca.crt2", "server.key2", "server.crt2"}
    BY <2>1, FillingIs DEF Files
  <2>4. CASE file' = file
    BY <2>2, <2>3, <2>4 DEF FailsBare, Written
  <2>5. CASE file' = CleanedUp(f) /\ f \in {"ca.key", "server.key"}
    BY <2>2, <2>3, <2>5, CleanedUpIs DEF FailsBare, Written
  <2>6. CASE file' = CleanedUp(f) /\ f = "ca.crt"
    BY <2>1, <2>2, <2>6, CleanedUpIs, FillingIs DEF FailsKeyless, Written
  <2>7. CASE file' = CleanedUp(f) /\ f = "server.crt"
    BY <2>1, <2>2, <2>7, CleanedUpIs, FillingIs DEF FailsKeyless, Written
  <2>8. Written(p)
    BY <2>1, <2>4, <2>5, <2>6, <2>7 DEF Files
  <2>9. QED
    BY <2>2, <2>8
<1>5. QED
  BY <1>2, <1>3, <1>4

-----------------------------------------------------------------------------
(* Types *)

\* Every environment a container is given is one.
LEMMA EnvTyped ==
  ASSUME TypeOK
  PROVE  env \in Environments /\ bound \in Scenarios /\ bound.envs \in DOMAIN Envs
BY EnvsAssumption, ScenariosAssumption DEF TypeOK

\* A server certificate is asked for DNS names and IPv4 addresses only.
LEMMA SansTyped == Sans \subseteq Names
BY DEF Sans, publicAddrs, Field, isValidSAN

\* What is ever in a file is the content of one.
LEMMA ContentTyped ==
  ASSUME TypeOK, NEW p \in Procs
  PROVE  /\ Absent \in Content /\ Torn \in Content
         /\ Whose(p, mine[p], {}) \in Content /\ Whose(p, ca[p], Sans) \in Content
<1>1. mine[p] \in 0..MaxIds /\ ca[p] \in 0..MaxIds /\ 0 \in 0..MaxIds
  BY EnvsAssumption DEF TypeOK
<1>2. Absent \in Content
  BY <1>1 DEF Absent, Content
<1>3. Torn = [st |-> "torn", id |-> 0, ca |-> 0, addrs |-> {}]
  BY DEF Torn, Absent
<1>4. Torn \in Content
  BY <1>1, <1>3 DEF Content
<1>5. QED
  BY <1>1, <1>2, <1>4, SansTyped DEF Whose, Content

\* A new keypair is one of those counted.
LEMMA GenerateIs ==
  ASSUME TypeOK, NEW p \in Procs, Generate(p)
  PROVE  mine' \in [Procs -> 0..MaxIds]
<1>1. PICK i \in Fresh : mine' = [mine EXCEPT ![p] = i]
  BY DEF Generate
<1>2. i \in 0..MaxIds
  BY EnvsAssumption DEF Fresh
<1>3. QED
  BY <1>1, <1>2 DEF TypeOK

\* A step of one process keeps the types.
LEMMA TypeStep ==
  ASSUME TypeOK, NEW p \in Procs, ProcStep(p)
  PROVE  TypeOK'
<1> USE ContentTyped DEF Goto, procVars, worldVars, dbVars
<1>1. CASE Load(p)
  BY <1>1 DEF Load, TypeOK, Labels
<1>2. CASE Stat(p)
  BY <1>2 DEF Stat, TypeOK, Labels
<1>3. CASE OpenDb(p)
  BY <1>3 DEF OpenDb, TypeOK, Labels
<1>4. CASE ReadVersion(p)
  BY <1>4 DEF ReadVersion, TypeOK, Labels
<1>5. CASE Migrate(p)
  BY <1>5 DEF Migrate, Migrated, Current, TypeOK, Labels
<1>6. CASE Check(p)
  BY <1>6, CheckIs DEF Check, TypeOK, Labels
<1>7. CASE FindCA(p) \/ FindServer(p)
  <2>1. mine' \in [Procs -> 0..MaxIds]
    BY <1>7, GenerateIs DEF FindCA, FindServer, FindPair, TypeOK
  <2>2. pc' \in [Procs -> Labels]
    BY <1>7 DEF FindCA, FindServer, FindPair, TypeOK, Labels
  <2>3. QED
    BY <1>7, <2>1, <2>2 DEF FindCA, FindServer, FindPair, TypeOK
<1>8. CASE WriteCA(p) \/ WriteServer(p) \/ WriteFails(p)
  <2>1. Written(p) /\ UNCHANGED <<dbVars, procVars, worldVars>>
    BY <1>8, WriteIs
  <2>2. file' \in [Files -> Content]
    BY <2>1, FillingIs DEF Written, Creates, Fill, FailsBare, FailsKeyless, Files, TypeOK
  <2>3. pc' \in [Procs -> Labels]
    BY <2>1, FillingIs DEF Written, Creates, Fill, FailsBare, FailsKeyless, Files, Labels, TypeOK
  <2>4. QED
    BY <2>1, <2>2, <2>3 DEF TypeOK
<1>9. CASE LoadCA(p)
  <2>1. file["ca.crt"].id \in 0..MaxIds
    BY DEF TypeOK, Files, Content
  <2>2. QED
    BY <1>9, <2>1 DEF LoadCA, TypeOK, Labels
<1>10. CASE LoadServer(p)
  <2>1. file["server.crt"] \in Content
    BY DEF TypeOK, Files
  <2>2. QED
    BY <1>10, <2>1 DEF LoadServer, TypeOK, Labels
<1>11. CASE RemoveCrt(p)
  BY <1>11 DEF RemoveCrt, TypeOK, Labels, Files
<1>12. CASE RemoveKey(p)
  <2>1. mine' \in [Procs -> 0..MaxIds]
    BY <1>12, GenerateIs DEF RemoveKey
  <2>2. QED
    BY <1>12, <2>1 DEF RemoveKey, TypeOK, Labels, Files
<1>13. CASE \E d \in Devices : Pair(p, d)
  BY <1>13 DEF Pair, TypeOK
<1>14. CASE Return(p) \/ Stop(p) \/ Crash(p)
  <2>1. Gone(p)
    BY <1>14 DEF Return, Stop, Crash
  <2>2. 0 \in 0..MaxIds /\ 0 \in 0..Current
    BY EnvsAssumption DEF Current
  <2>3. QED
    BY <2>1, <2>2 DEF Gone, TypeOK, Labels
<1>15. QED
  BY <1>1, <1>2, <1>3, <1>4, <1>5, <1>6, <1>7, <1>8, <1>9, <1>10, <1>11, <1>12,
     <1>13, <1>14 DEF ProcStep

\* The types hold for ever.
LEMMA TypeNext ==
  ASSUME TypeOK, [Next]_vars
  PROVE  TypeOK'
<1>1. CASE UNCHANGED vars
  BY <1>1 DEF vars, TypeOK
<1>2. CASE LoseDb
  <2>1. 0 \in 0..MaxIds /\ 0 \in 0..Current
    BY EnvsAssumption DEF Current
  <2>2. paired' \in [Devices -> 0..MaxIds]
    BY <1>2, <2>1 DEF LoseDb
  <2>3. QED
    BY <1>2, <2>1, <2>2 DEF LoseDb, procVars, TypeOK
<1>3. CASE LoseCerts
  BY <1>3, EnvsAssumption DEF LoseCerts, procVars, dbVars, TypeOK, Absent, Content
<1>4. CASE EditEnv
  BY <1>4 DEF EditEnv, procVars, dbVars, TypeOK
<1>5. QED
  BY <1>1, <1>2, <1>3, <1>4, StepOfNext, TypeStep

-----------------------------------------------------------------------------
(* The database *)

\* A step of one process keeps the schema and the rows as RowsInv says.
LEMMA RowsStep ==
  ASSUME TypeOK, RowsInv, NEW p \in Procs, ProcStep(p)
  PROVE  RowsInv'
<1> USE DEF Goto, procVars, worldVars, dbVars, Opened, Ready, Loaded
<1>0. pc \in [Procs -> Labels] /\ seen \in [Procs -> 0..Current] /\ version \in 0..Current
      /\ Current = 2
  BY DEF TypeOK, Current
<1>1. CASE Load(p)
  BY <1>0, <1>1 DEF Load, RowsInv
<1>2. CASE Stat(p)
  BY <1>0, <1>2 DEF Stat, RowsInv
<1>3. CASE OpenDb(p)
  BY <1>0, <1>3 DEF OpenDb, RowsInv
<1>4. CASE ReadVersion(p)
  BY <1>0, <1>4 DEF ReadVersion, RowsInv
<1>5. CASE Migrate(p)
  <2>1. seen[p] <= version /\ seen[p] \in 0..Current /\ db
    BY <1>0, <1>5 DEF Migrate, RowsInv
  <2>2. CASE Migrated(seen[p])
    BY <1>0, <1>5, <2>1, <2>2 DEF Migrate, Migrated, RowsInv
  <2>3. CASE ~Migrated(seen[p]) /\ Applies(seen[p] + 1) /\ version' = seen[p] + 1
    \* The step applies only to an older schema, on which nobody has paired; a
    \* step that another process was first to apply is applied again.
    <3>1. version # Current /\ version <= seen[p] + 1 /\ seen[p] + 1 \in 0..Current
      BY <1>0, <2>1, <2>3 DEF Applies, Migrated
    <3>2. \A d \in Devices : paired[d] = 0
      BY <3>1 DEF RowsInv
    <3>3. /\ seen' = [seen EXCEPT ![p] = seen[p] + 1] /\ version' = seen[p] + 1
          /\ UNCHANGED <<db, pc, paired>>
      BY <1>0, <1>5, <2>3, <3>1 DEF Migrate, Migrated, Applies
    <3>4. QED
      BY <1>0, <3>1, <3>2, <3>3 DEF RowsInv
  <2>4. CASE ~Migrated(seen[p]) /\ ~Applies(seen[p] + 1)
    BY <1>0, <1>5, <2>4 DEF Migrate, RowsInv
  <2>5. QED
    BY <1>5, <2>2, <2>3, <2>4 DEF Migrate
<1>6. CASE Check(p)
  BY <1>0, <1>6, CheckIs DEF Check, RowsInv
<1>7. CASE FindCA(p) \/ FindServer(p)
  BY <1>0, <1>7 DEF FindCA, FindServer, FindPair, RowsInv
<1>8. CASE WriteCA(p) \/ WriteServer(p) \/ WriteFails(p)
  <2>1. Written(p) /\ UNCHANGED <<dbVars, procVars, worldVars>>
    BY <1>8, WriteIs
  <2>2. pc[p] \in Ready /\ \E l \in Ready \cup {"error"} : Goto(p, l)
    BY <2>1, FillingIs DEF Written, Creates, Fill, FailsBare, FailsKeyless, Files
  <2>3. QED
    BY <1>0, <2>1, <2>2 DEF RowsInv
<1>9. CASE LoadCA(p)
  BY <1>0, <1>9 DEF LoadCA, RowsInv
<1>10. CASE LoadServer(p)
  BY <1>0, <1>10 DEF LoadServer, RowsInv
<1>11. CASE RemoveCrt(p) \/ RemoveKey(p)
  BY <1>0, <1>11 DEF RemoveCrt, RemoveKey, RowsInv
<1>12. CASE \E d \in Devices : Pair(p, d)
  <2>1. PICK d \in Devices : Pair(p, d)
    BY <1>12
  <2>2. version = Current /\ db
    BY <1>0, <2>1 DEF Pair, RowsInv
  <2>3. \A e \in Devices : paired'[e] # 0 => e \in rows'
    BY <2>1 DEF Pair, RowsInv, TypeOK
  <2>4. QED
    BY <1>0, <2>1, <2>2, <2>3 DEF Pair, RowsInv
<1>13. CASE Return(p) \/ Stop(p) \/ Crash(p)
  BY <1>0, <1>13 DEF Return, Stop, Crash, Gone, RowsInv
<1>14. QED
  BY <1>1, <1>2, <1>3, <1>4, <1>5, <1>6, <1>7, <1>8, <1>9, <1>10, <1>11, <1>12,
     <1>13 DEF ProcStep

\* The schema and the rows stay as RowsInv says.
LEMMA RowsNext ==
  ASSUME TypeOK, RowsInv, [Next]_vars
  PROVE  RowsInv'
<1>1. CASE UNCHANGED vars
  BY <1>1 DEF vars, RowsInv
<1>2. CASE LoseDb
  BY <1>2 DEF LoseDb, Stopped, RowsInv, Opened, Ready, Loaded
<1>3. CASE LoseCerts
  BY <1>3 DEF LoseCerts, procVars, dbVars, RowsInv
<1>4. CASE EditEnv
  BY <1>4 DEF EditEnv, procVars, dbVars, RowsInv
<1>5. QED
  BY <1>1, <1>2, <1>3, <1>4, StepOfNext, RowsStep

-----------------------------------------------------------------------------
(* The environment *)

\* A process that has loaded its environment holds a sound one.
LEMMA EnvStep ==
  ASSUME TypeOK, EnvInv, NEW p \in Procs, ProcStep(p)
  PROVE  EnvInv'
<1> USE DEF Goto
<1>0. pc \in [Procs -> Labels]
  BY DEF TypeOK
<1>1. CASE Load(p)
  BY <1>0, <1>1 DEF Load, worldVars, EnvInv, Configured
<1>2. CASE \E l \in Labels \ {"refused"} : Configured(p) /\ Goto(p, l) /\ env' = env
  BY <1>0, <1>2 DEF EnvInv, Configured
<1>3. CASE pc' = pc /\ env' = env
  BY <1>3 DEF EnvInv, Configured
<1>4. CASE Goto(p, "off") /\ env' = env
  BY <1>0, <1>4 DEF EnvInv, Configured
<1>5. CASE WriteCA(p) \/ WriteServer(p) \/ WriteFails(p)
  <2>1. Written(p) /\ env' = env
    BY <1>5, WriteIs DEF worldVars
  <2>2. \E l \in Labels \ {"refused"} : Configured(p) /\ Goto(p, l)
    BY <2>1, FillingIs DEF Written, Creates, Fill, FailsBare, FailsKeyless, Files,
       Labels, Configured
  <2>3. QED
    BY <1>2, <2>1, <2>2
<1>6. CASE Check(p)
  BY <1>2, <1>6, CheckIs DEF Check, worldVars, Labels, Configured
<1>7. CASE Migrate(p)
  BY <1>2, <1>3, <1>7 DEF Migrate, worldVars, Labels, Configured
<1>8. CASE Stat(p) \/ OpenDb(p) \/ ReadVersion(p)
  BY <1>2, <1>8 DEF Stat, OpenDb, ReadVersion, worldVars, Labels, Configured
<1>9. CASE FindCA(p) \/ LoadCA(p) \/ FindServer(p) \/ LoadServer(p)
  BY <1>2, <1>9 DEF FindCA, LoadCA, FindServer, LoadServer, FindPair, worldVars, Labels,
     Configured
<1>10. CASE RemoveCrt(p) \/ RemoveKey(p)
  BY <1>2, <1>10 DEF RemoveCrt, RemoveKey, worldVars, Labels, Configured
<1>11. CASE \E d \in Devices : Pair(p, d)
  BY <1>3, <1>11 DEF Pair
<1>12. CASE Return(p) \/ Stop(p) \/ Crash(p)
  BY <1>4, <1>12 DEF Return, Stop, Crash, Gone, worldVars
<1>13. QED
  BY <1>1, <1>5, <1>6, <1>7, <1>8, <1>9, <1>10, <1>11, <1>12 DEF ProcStep

\* The environment only changes while nothing runs on it.
LEMMA EnvNext ==
  ASSUME TypeOK, EnvInv, [Next]_vars
  PROVE  EnvInv'
<1>1. CASE UNCHANGED vars
  BY <1>1 DEF vars, EnvInv, Configured
<1>2. CASE LoseDb
  BY <1>2 DEF LoseDb, EnvInv, Configured
<1>3. CASE LoseCerts
  BY <1>3 DEF LoseCerts, EnvInv, Configured
<1>4. CASE EditEnv
  BY <1>4 DEF EditEnv, Stopped, EnvInv, Configured
<1>5. QED
  BY <1>1, <1>2, <1>3, <1>4, StepOfNext, EnvStep

-----------------------------------------------------------------------------
(* The owner of the certificate authority *)

\* A step that leaves the CA's files alone, and does not lead to where they
\* are written, changes nothing of OwnerInv.
LEMMA OwnerFramed ==
  ASSUME TypeOK, OwnerInv, NEW p \in Procs, NEW l \in Labels \ Own, Goto(p, l),
         file'["ca.key"] = file["ca.key"], file'["ca.crt"] = file["ca.crt"],
         \A q \in Procs \ {p} : mine'[q] = mine[q]
  PROVE  OwnerInv'
<1>1. \A q \in Procs : pc'[q] \in Own => q # p /\ pc'[q] = pc[q]
  BY DEF Goto, TypeOK
<1>2. \A q \in Procs : pc'[q] \in Own => pc[q] \in Own /\ mine'[q] = mine[q]
  BY <1>1
<1>3. /\ Whole("ca.key")' = Whole("ca.key") /\ Whole("ca.crt")' = Whole("ca.crt")
      /\ There("ca.key")' = There("ca.key")
  BY DEF Whole, There
<1>4. \A q \in Procs : pc'[q] \in Own => There("ca.key")' /\ ~Whole("ca.crt")'
  BY <1>2, <1>3 DEF OwnerInv
<1>5. \A q, r \in Procs : pc'[q] \in Own /\ pc'[r] \in Own => q = r
  BY <1>2 DEF OwnerInv
<1>6. \A q \in Procs : pc'[q] \in {"ca.crt", "ca.crt2"} =>
        Whole("ca.key")' /\ file'["ca.key"].id = mine'[q]
  BY <1>1, <1>2, <1>3 DEF OwnerInv, Own
<1>7. Whole("ca.crt")' => Whole("ca.key")' /\ file'["ca.key"].id = file'["ca.crt"].id
  BY <1>3 DEF OwnerInv
<1>8. QED
  BY <1>4, <1>5, <1>6, <1>7 DEF OwnerInv

\* Writing the certs directory keeps one owner of the CA.
LEMMA OwnerWritten ==
  ASSUME TypeOK, OwnerInv, NEW p \in Procs, Written(p), UNCHANGED procVars
  PROVE  OwnerInv'
<1> USE DEF Goto, procVars
<1>0. pc \in [Procs -> Labels] /\ mine' = mine /\ file \in [Files -> Content]
      /\ "ca.key" \in Files /\ "ca.crt" \in Files /\ "server.key" \in Files
      /\ "server.crt" \in Files
  BY DEF TypeOK, Files
<1>1. CASE Creates(p, "ca.key")
  <2>1. /\ ~There("ca.key") /\ pc' = [pc EXCEPT ![p] = "ca.key2"]
        /\ file' = [file EXCEPT !["ca.key"] = Torn]
    BY <1>1, FillingIs DEF Creates
  <2>2. ~Whole("ca.crt") /\ \A q \in Procs : pc[q] \notin Own
    BY <2>1 DEF OwnerInv, There, Whole
  <2>3. There("ca.key")' /\ ~Whole("ca.crt")'
    BY <1>0, <2>1, <2>2 DEF There, Whole, Torn, Absent
  <2>4. QED
    BY <1>0, <2>1, <2>2, <2>3 DEF OwnerInv, Own
<1>2. CASE Creates(p, "ca.crt")
  <2>1. /\ pc[p] = "ca.crt" /\ pc' = [pc EXCEPT ![p] = "ca.crt2"]
        /\ file' = [file EXCEPT !["ca.crt"] = Torn]
    BY <1>2, FillingIs DEF Creates
  <2>2. /\ file'["ca.key"] = file["ca.key"] /\ ~Whole("ca.crt")'
        /\ There("ca.key")' = There("ca.key") /\ Whole("ca.key")' = Whole("ca.key")
    BY <1>0, <2>1 DEF Whole, There, Torn, Absent
  <2>3. \A q \in Procs : pc'[q] \in Own => pc[q] \in Own
    BY <1>0, <2>1 DEF Own
  <2>4. \A q \in Procs : pc'[q] \in {"ca.crt", "ca.crt2"} => pc[q] \in {"ca.crt", "ca.crt2"}
    BY <1>0, <2>1
  <2>5. QED
    BY <1>0, <2>2, <2>3, <2>4 DEF OwnerInv
<1>3. CASE Fill(p, "ca.key", Whose(p, mine[p], {}), "ca.crt")
  <2>1. /\ pc[p] = "ca.key2" /\ pc' = [pc EXCEPT ![p] = "ca.crt"]
        /\ file' = [file EXCEPT !["ca.key"] = Whose(p, mine[p], {})]
    BY <1>3, FillingIs DEF Fill
  <2>2. /\ Whole("ca.key")' /\ There("ca.key")' /\ file'["ca.key"].id = mine[p]
        /\ Whole("ca.crt")' = Whole("ca.crt")
    BY <1>0, <2>1 DEF Whole, There, Whose
  <2>3. ~Whole("ca.crt") /\ \A q \in Procs : pc'[q] \in Own => q = p
    BY <1>0, <2>1 DEF OwnerInv, Own
  <2>4. QED
    BY <1>0, <2>2, <2>3 DEF OwnerInv, Own
<1>4. CASE Fill(p, "ca.crt", Whose(p, mine[p], {}), "readca")
  <2>1. /\ pc[p] = "ca.crt2" /\ pc' = [pc EXCEPT ![p] = "readca"]
        /\ file' = [file EXCEPT !["ca.crt"] = Whose(p, mine[p], {})]
    BY <1>4, FillingIs DEF Fill
  <2>2. /\ Whole("ca.key")' = Whole("ca.key") /\ file'["ca.crt"].id = mine[p]
        /\ file'["ca.key"] = file["ca.key"]
    BY <1>0, <2>1 DEF Whole, Whose
  <2>3. Whole("ca.key") /\ file["ca.key"].id = mine[p]
    BY <2>1 DEF OwnerInv
  <2>4. \A q \in Procs : pc'[q] \notin Own
    BY <1>0, <2>1 DEF OwnerInv, Own
  <2>5. QED
    BY <2>2, <2>3, <2>4 DEF OwnerInv, Own
<1>5. CASE FailsKeyless(p, "ca.key", {"ca.crt", "ca.crt2"})
  <2>1. /\ pc[p] \in {"ca.crt", "ca.crt2"} /\ pc' = [pc EXCEPT ![p] = "error"]
        /\ file' = [file EXCEPT !["ca.key"] = Absent]
    BY <1>5 DEF FailsKeyless
  <2>2. ~Whole("ca.crt") /\ \A q \in Procs : pc'[q] \notin Own
    BY <1>0, <2>1 DEF OwnerInv, Own
  <2>3. ~Whole("ca.crt")'
    BY <1>0, <2>1, <2>2 DEF Whole
  <2>4. QED
    BY <2>2, <2>3 DEF OwnerInv, Own
<1>6. CASE \/ Creates(p, "server.key") \/ Creates(p, "server.crt")
           \/ Fill(p, "server.key", Whose(p, ca[p], Sans), "server.crt")
           \/ Fill(p, "server.crt", Whose(p, ca[p], Sans), "leaf")
           \/ FailsBare(p)
           \/ FailsKeyless(p, "server.key", {"server.crt", "server.crt2"})
  <2>1. file'["ca.key"] = file["ca.key"] /\ file'["ca.crt"] = file["ca.crt"]
    BY <1>0, <1>6 DEF Creates, Fill, FailsBare, FailsKeyless
  <2>2. PICK l \in Labels \ Own : Goto(p, l)
    BY <1>6, FillingIs DEF Creates, Fill, FailsBare, FailsKeyless, Labels, Own
  <2>3. QED
    BY <1>0, <2>1, <2>2, OwnerFramed
<1>7. QED
  BY <1>1, <1>2, <1>3, <1>4, <1>5, <1>6 DEF Written, Files

\* A step of one process keeps one owner of the CA.
LEMMA OwnerStep ==
  ASSUME TypeOK, OwnerInv, NEW p \in Procs, ProcStep(p)
  PROVE  OwnerInv'
<1> USE DEF procVars
<1>0. pc \in [Procs -> Labels] /\ mine \in [Procs -> 0..MaxIds] /\ pc[p] \in Labels
      /\ file \in [Files -> Content] /\ "ca.key" \in Files /\ "ca.crt" \in Files
      /\ "server.key" \in Files /\ "server.crt" \in Files
  BY DEF TypeOK, Files
<1>1. CASE WriteCA(p) \/ WriteServer(p) \/ WriteFails(p)
  BY <1>1, WriteIs, OwnerWritten
<1>2. CASE /\ \E l \in Labels \ Own : Goto(p, l)
           /\ file' = file /\ \A q \in Procs \ {p} : mine'[q] = mine[q]
  BY <1>2, OwnerFramed
<1>3. CASE UNCHANGED <<file, pc, mine>>
  BY <1>3 DEF OwnerInv, Whole, There
<1>4. CASE Load(p) \/ Stat(p) \/ OpenDb(p) \/ ReadVersion(p)
  BY <1>2, <1>4 DEF Load, Stat, OpenDb, ReadVersion, Labels, Own
<1>5. CASE Migrate(p)
  <2>1. CASE pc' = pc
    BY <1>3, <1>5, <2>1 DEF Migrate
  <2>2. CASE \E l \in {"check", "use", "error"} : Goto(p, l)
    BY <1>2, <1>5, <2>2 DEF Migrate, Labels, Own
  <2>3. QED
    BY <1>5, <2>1, <2>2 DEF Migrate
<1>6. CASE Check(p)
  BY <1>2, <1>6, CheckIs DEF Check, Labels, Own
<1>7. CASE FindCA(p) \/ FindServer(p)
  <2>1. file' = file /\ \A q \in Procs \ {p} : mine'[q] = mine[q]
    BY <1>0, <1>7 DEF FindCA, FindServer, FindPair, Generate
  <2>2. \E l \in Labels \ Own : Goto(p, l)
    BY <1>7 DEF FindCA, FindServer, FindPair, Labels, Own
  <2>3. QED
    BY <1>2, <2>1, <2>2
<1>8. CASE LoadCA(p) \/ LoadServer(p)
  BY <1>2, <1>8 DEF LoadCA, LoadServer, Labels, Own
<1>9. CASE RemoveCrt(p) \/ RemoveKey(p)
  <2>1. /\ file'["ca.key"] = file["ca.key"] /\ file'["ca.crt"] = file["ca.crt"]
        /\ \A q \in Procs \ {p} : mine'[q] = mine[q]
    BY <1>0, <1>9 DEF RemoveCrt, RemoveKey, Generate
  <2>2. PICK l \in Labels \ Own : Goto(p, l)
    BY <1>9 DEF RemoveCrt, RemoveKey, Labels, Own
  <2>3. QED
    BY <2>1, <2>2, OwnerFramed
<1>10. CASE \E d \in Devices : Pair(p, d)
  BY <1>3, <1>10 DEF Pair
<1>11. CASE Return(p) \/ Stop(p) \/ Crash(p)
  BY <1>0, <1>2, <1>11 DEF Return, Stop, Crash, Gone, Labels, Own
<1>12. QED
  BY <1>1, <1>4, <1>5, <1>6, <1>7, <1>8, <1>9, <1>10, <1>11 DEF ProcStep

\* There is never more than one owner of the CA.
LEMMA OwnerNext ==
  ASSUME TypeOK, OwnerInv, [Next]_vars
  PROVE  OwnerInv'
<1>1. CASE UNCHANGED <<file, pc, mine>>
  BY <1>1 DEF OwnerInv, Whole, There
<1>2. CASE UNCHANGED vars \/ LoseDb \/ EditEnv
  BY <1>1, <1>2 DEF vars, LoseDb, EditEnv, procVars
<1>3. CASE LoseCerts
  <2>1. /\ \A p \in Procs : pc'[p] = "off"
        /\ file' = [f \in Files |-> Absent]
    BY <1>3 DEF LoseCerts, Stopped
  <2>2. ~Whole("ca.crt")'
    BY <2>1 DEF Whole, Files, Absent
  <2>3. QED
    BY <2>1, <2>2 DEF OwnerInv, Own
<1>4. QED
  BY <1>2, <1>3, StepOfNext, OwnerStep

-----------------------------------------------------------------------------
(* The CA that is in use *)

\* No step of a process touches a whole CA certificate.
LEMMA WholeCaStays ==
  ASSUME TypeOK, OwnerInv, NEW p \in Procs, ProcStep(p), Whole("ca.crt")
  PROVE  file'["ca.crt"] = file["ca.crt"]
<1>0. file \in [Files -> Content] /\ "ca.key" \in Files /\ "ca.crt" \in Files
      /\ "server.key" \in Files /\ "server.crt" \in Files
  BY DEF TypeOK, Files
<1>1. pc[p] \notin Own /\ There("ca.crt")
  BY DEF OwnerInv, There, Whole
<1>2. CASE WriteCA(p) \/ WriteServer(p) \/ WriteFails(p)
  <2>1. Written(p)
    BY <1>2, WriteIs
  <2>2. QED
    BY <1>0, <1>1, <2>1, FillingIs DEF Written, Creates, Fill, FailsBare, FailsKeyless,
       Own, Files
<1>3. CASE RemoveCrt(p) \/ RemoveKey(p)
  BY <1>0, <1>3 DEF RemoveCrt, RemoveKey
<1>4. CASE file' = file
  BY <1>4
<1>5. CASE Load(p) \/ Stat(p) \/ OpenDb(p) \/ ReadVersion(p) \/ Migrate(p)
  BY <1>4, <1>5 DEF Load, Stat, OpenDb, ReadVersion, Migrate
<1>6. CASE Check(p) \/ FindCA(p) \/ LoadCA(p) \/ FindServer(p) \/ LoadServer(p)
  BY <1>4, <1>6 DEF Check, FindCA, LoadCA, FindServer, LoadServer, FindPair
<1>7. CASE (\E d \in Devices : Pair(p, d)) \/ Return(p) \/ Stop(p) \/ Crash(p)
  BY <1>4, <1>7 DEF Pair, Return, Stop, Crash, Gone
<1>8. QED
  BY <1>2, <1>3, <1>5, <1>6, <1>7 DEF ProcStep

\* A step of p that loads no CA, and writes no whole certificate, changes
\* nothing of IssuedInv.
LEMMA IssuedFramed ==
  ASSUME TypeOK, IssuedInv, NEW p \in Procs, NEW l \in Labels, Goto(p, l),
         l \in Loaded \ {"serve"} => pc[p] \in Loaded /\ ca'[p] = ca[p],
         l # "serve",
         Whole("ca.crt") => file'["ca.crt"] = file["ca.crt"],
         file'["server.crt"].st = "whole" => file'["server.crt"] = file["server.crt"],
         env' = env,
         \A q \in Procs \ {p} : ca'[q] = ca[q] /\ leaf'[q] = leaf[q]
  PROVE  IssuedInv'
<1>0. pc \in [Procs -> Labels] /\ pc' = [pc EXCEPT ![p] = l]
  BY DEF TypeOK, Goto
<1>1. \A q \in Procs : pc'[q] \in Loaded => pc[q] \in Loaded /\ ca'[q] = ca[q]
  BY <1>0
<1>2. \A q \in Procs : pc'[q] \in Loaded => Whole("ca.crt") /\ ca[q] = file["ca.crt"].id
  BY <1>1 DEF IssuedInv
<1>3. Whole("ca.crt") => Whole("ca.crt")' /\ file'["ca.crt"].id = file["ca.crt"].id
  BY DEF Whole
<1>4. Whole("server.crt")' =>
        Whole("ca.crt")' /\ file'["server.crt"].ca = file'["ca.crt"].id
  BY <1>3 DEF IssuedInv, Whole
<1>5. \A q \in Procs : pc'[q] = "serve" => q # p /\ pc[q] = "serve"
  BY <1>0
<1>6. Sans' = Sans
  BY DEF Sans
<1>7. \A q \in Procs : pc'[q] = "serve" => leaf'[q].ca = ca'[q] /\ Sans' \subseteq leaf'[q].addrs
  BY <1>5, <1>6 DEF IssuedInv
<1>8. QED
  BY <1>1, <1>2, <1>3, <1>4, <1>7 DEF IssuedInv

\* Writing the certs directory keeps what agents rely on.
LEMMA IssuedWritten ==
  ASSUME TypeOK, OwnerInv, IssuedInv, NEW p \in Procs, Written(p),
         Whole("ca.crt") => file'["ca.crt"] = file["ca.crt"],
         UNCHANGED <<procVars, worldVars>>
  PROVE  IssuedInv'
<1>0. /\ file \in [Files -> Content] /\ "ca.key" \in Files /\ "ca.crt" \in Files
      /\ "server.key" \in Files /\ "server.crt" \in Files
      /\ ca' = ca /\ leaf' = leaf /\ env' = env
  BY DEF TypeOK, Files, procVars, worldVars
<1>1. PICK l \in Labels \ {"serve"} : Goto(p, l) /\ (l \in Loaded => pc[p] \in Loaded)
  BY FillingIs DEF Written, Creates, Fill, FailsBare, FailsKeyless, Files, Labels, Loaded
<1>2. CASE file'["server.crt"].st = "whole" => file'["server.crt"] = file["server.crt"]
  BY <1>0, <1>1, <1>2, IssuedFramed
<1>3. CASE Fill(p, "server.crt", Whose(p, ca[p], Sans), "leaf")
  <2>1. /\ pc[p] \in Loaded /\ Goto(p, "leaf")
        /\ file' = [file EXCEPT !["server.crt"] = Whose(p, ca[p], Sans)]
    BY <1>3, FillingIs DEF Fill, Loaded
  <2>2. /\ file'["server.crt"].ca = ca[p]
        /\ file'["ca.crt"] = file["ca.crt"]
    BY <1>0, <2>1 DEF Whose
  <2>3. Whole("ca.crt") /\ ca[p] = file["ca.crt"].id
    BY <2>1 DEF IssuedInv
  <2>4. Whole("ca.crt")' = Whole("ca.crt") /\ Sans' = Sans
    BY <1>0, <2>2 DEF Whole, Sans
  <2>5. \A q \in Procs : /\ pc'[q] \in Loaded => pc[q] \in Loaded
                         /\ pc'[q] = "serve" => pc[q] = "serve"
    BY <2>1 DEF Goto, TypeOK
  <2>6. QED
    BY <1>0, <2>2, <2>3, <2>4, <2>5 DEF IssuedInv
<1>4. CASE ~Fill(p, "server.crt", Whose(p, ca[p], Sans), "leaf")
  <2>1. file'["server.crt"].st = "whole" => file'["server.crt"] = file["server.crt"]
    BY <1>0, <1>4 DEF Written, Creates, Fill, FailsBare, FailsKeyless, Files, Torn, Absent
  <2>2. QED
    BY <1>2, <2>1
<1>5. QED
  BY <1>3, <1>4

\* A step of one process keeps what agents rely on.
LEMMA IssuedStep ==
  ASSUME TypeOK, OwnerInv, IssuedInv, NEW p \in Procs, ProcStep(p)
  PROVE  IssuedInv'
<1> USE DEF worldVars, procVars
<1>0. /\ pc \in [Procs -> Labels] /\ ca \in [Procs -> 0..MaxIds]
      /\ leaf \in [Procs -> Content] /\ file \in [Files -> Content]
      /\ "ca.key" \in Files /\ "ca.crt" \in Files
      /\ "server.key" \in Files /\ "server.crt" \in Files
  BY DEF TypeOK, Files
<1>1. Whole("ca.crt") => file'["ca.crt"] = file["ca.crt"]
  BY WholeCaStays
<1>2. CASE WriteCA(p) \/ WriteServer(p) \/ WriteFails(p)
  BY <1>1, <1>2, WriteIs, IssuedWritten
<1>3. CASE /\ \E l \in Labels \ Loaded : Goto(p, l)
           /\ file' = file /\ env' = env
           /\ \A q \in Procs \ {p} : ca'[q] = ca[q] /\ leaf'[q] = leaf[q]
  <2>1. PICK l \in Labels \ Loaded : Goto(p, l)
    BY <1>3
  <2>2. l # "serve"
    BY <2>1 DEF Loaded
  <2>3. QED
    BY <1>3, <2>1, <2>2, IssuedFramed
<1>4. CASE Load(p) \/ Stat(p) \/ OpenDb(p) \/ ReadVersion(p)
  BY <1>3, <1>4 DEF Load, Stat, OpenDb, ReadVersion, Labels, Loaded
<1>5. CASE UNCHANGED <<pc, file, env, ca, leaf>>
  BY <1>5 DEF IssuedInv, Whole, Sans
<1>6. CASE Migrate(p)
  <2>1. CASE pc' = pc
    BY <1>5, <1>6, <2>1 DEF Migrate
  <2>2. CASE \E l \in {"check", "use", "error"} : Goto(p, l)
    BY <1>3, <1>6, <2>2 DEF Migrate, Labels, Loaded
  <2>3. QED
    BY <1>6, <2>1, <2>2 DEF Migrate
<1>7. CASE Check(p)
  BY <1>3, <1>7, CheckIs DEF Check, Labels, Loaded
<1>8. CASE FindCA(p)
  BY <1>3, <1>8 DEF FindCA, FindPair, Labels, Loaded
<1>9. CASE LoadCA(p)
  <2>1. CASE Whole("ca.key") /\ Whole("ca.crt")
    <3>1. /\ pc' = [pc EXCEPT ![p] = "server"] /\ ca' = [ca EXCEPT ![p] = file["ca.crt"].id]
          /\ UNCHANGED <<file, env, leaf>>
      BY <1>9, <2>1 DEF LoadCA, Goto
    <3>2. \A q \in Procs : pc'[q] = "serve" => pc[q] = "serve" /\ ca'[q] = ca[q]
      BY <1>0, <3>1
    <3>3. \A q \in Procs : pc'[q] \in Loaded => ca'[q] = file["ca.crt"].id
      BY <1>0, <3>1 DEF IssuedInv
    <3>4. QED
      BY <2>1, <3>1, <3>2, <3>3 DEF IssuedInv, Whole, Sans
  <2>2. CASE ~(Whole("ca.key") /\ Whole("ca.crt"))
    BY <1>3, <1>9, <2>2 DEF LoadCA, Labels, Loaded
  <2>3. QED
    BY <2>1, <2>2
<1>10. CASE FindServer(p)
  <2>1. pc[p] \in Loaded /\ \E l \in {"server.key", "leaf", "torn"} : Goto(p, l)
    BY <1>10 DEF FindServer, FindPair, Loaded
  <2>2. UNCHANGED <<file, env, ca, leaf>>
    BY <1>10 DEF FindServer, FindPair
  <2>3. PICK l \in Labels \ {"serve"} : Goto(p, l)
    BY <2>1 DEF Labels
  <2>4. QED
    BY <2>1, <2>2, <2>3, IssuedFramed
<1>11. CASE LoadServer(p)
  <2>1. /\ pc[p] \in Loaded /\ leaf' = [leaf EXCEPT ![p] = file["server.crt"]]
        /\ UNCHANGED <<file, env, ca>>
    BY <1>11 DEF LoadServer, Loaded
  <2>2. CASE Goto(p, "rmcrt") \/ Goto(p, "error")
    <3>1. PICK l \in Labels \ {"serve"} : Goto(p, l)
      BY <2>2 DEF Labels
    <3>2. QED
      BY <1>0, <2>1, <3>1, IssuedFramed
  <2>3. CASE /\ Goto(p, "serve") /\ Whole("server.crt")
             /\ ~sanDrift(file["server.crt"])
    <3>1. ca[p] = file["ca.crt"].id /\ file["server.crt"].ca = ca[p]
      BY <2>1, <2>3 DEF IssuedInv
    <3>2. pc' = [pc EXCEPT ![p] = "serve"] /\ Sans' = Sans
      BY <2>1, <2>3 DEF Goto, Sans
    <3>3. leaf'[p].ca = ca'[p] /\ Sans' \subseteq leaf'[p].addrs
      BY <1>0, <2>1, <2>3, <3>1, <3>2 DEF sanDrift
    <3>4. \A q \in Procs : pc'[q] = "serve" =>
            leaf'[q].ca = ca'[q] /\ Sans' \subseteq leaf'[q].addrs
      BY <1>0, <2>1, <3>2, <3>3 DEF IssuedInv
    <3>5. \A q \in Procs : pc'[q] \in Loaded => pc[q] \in Loaded
      BY <1>0, <2>1, <3>2
    <3>6. QED
      BY <2>1, <3>4, <3>5 DEF IssuedInv, Whole
  <2>4. QED
    BY <1>11, <2>2, <2>3 DEF LoadServer
<1>12. CASE RemoveCrt(p) \/ RemoveKey(p)
  <2>1. /\ pc[p] \in Loaded /\ UNCHANGED <<env, ca, leaf>>
        /\ Goto(p, "rmkey") \/ Goto(p, "server.key")
    BY <1>12 DEF RemoveCrt, RemoveKey, Loaded
  <2>2. file'["server.crt"].st = "whole" => file'["server.crt"] = file["server.crt"]
    BY <1>0, <1>12 DEF RemoveCrt, RemoveKey, Absent
  <2>3. PICK l \in Labels \ {"serve"} : Goto(p, l)
    BY <2>1 DEF Labels
  <2>4. QED
    BY <1>1, <2>1, <2>2, <2>3, IssuedFramed
<1>13. CASE \E d \in Devices : Pair(p, d)
  BY <1>5, <1>13 DEF Pair
<1>14. CASE Return(p) \/ Stop(p) \/ Crash(p)
  BY <1>0, <1>3, <1>14 DEF Return, Stop, Crash, Gone, Labels, Loaded
<1>15. QED
  BY <1>2, <1>4, <1>6, <1>7, <1>8, <1>9, <1>10, <1>11, <1>12, <1>13, <1>14 DEF ProcStep

\* What agents rely on stays.
LEMMA IssuedNext ==
  ASSUME TypeOK, OwnerInv, IssuedInv, [Next]_vars
  PROVE  IssuedInv'
<1>1. CASE UNCHANGED <<pc, file, env, ca, leaf>>
  BY <1>1 DEF IssuedInv, Whole, Sans
<1>2. CASE UNCHANGED vars \/ LoseDb
  BY <1>1, <1>2 DEF vars, LoseDb, procVars
<1>3. CASE LoseCerts
  <2>1. /\ \A p \in Procs : pc'[p] = "off"
        /\ file' = [f \in Files |-> Absent]
    BY <1>3 DEF LoseCerts, Stopped
  <2>2. ~Whole("server.crt")'
    BY <2>1 DEF Whole, Files, Absent
  <2>3. QED
    BY <2>1, <2>2 DEF IssuedInv, Loaded
<1>4. CASE EditEnv
  BY <1>4 DEF EditEnv, Stopped, procVars, IssuedInv, Loaded, Whole
<1>5. QED
  BY <1>2, <1>3, <1>4, StepOfNext, IssuedStep

\* With a database and no certs directory no process comes to a new CA: at
\* the latest CheckIdentityConsistency stops it.
LEMMA LostCaStep ==
  ASSUME TypeOK, LostCa, db, NEW p \in Procs, ProcStep(p)
  PROVE  LostCa'
<1> USE DEF worldVars, procVars
<1>0. pc \in [Procs -> Labels] /\ first \in [Procs -> BOOLEAN]
  BY DEF TypeOK
<1>1. ASSUME NEW l \in {"off", "refused", "stat", "open", "version", "migrate",
                        "check", "use", "incomplete", "error", "torn"},
             Goto(p, l), file' = file,
             \A q \in Procs \ {p} : first'[q] = first[q],
             l \in {"open", "version", "migrate", "check"} => ~first'[p]
      PROVE  LostCa'
  <2>1. pc' = [pc EXCEPT ![p] = l]
    BY <1>1 DEF Goto
  <2>2. ~There("ca.key")' /\ ~There("ca.crt")'
    BY <1>1 DEF LostCa, There
  <2>3. \A q \in Procs \ {p} : pc'[q] = pc[q]
    BY <1>0, <2>1
  <2>4. pc'[p] = l
    BY <1>0, <2>1
  <2>5. ASSUME NEW q \in Procs
        PROVE  /\ pc'[q] \in {"off", "refused", "stat", "open", "version", "migrate",
                              "check", "use", "incomplete", "error", "torn"}
               /\ pc'[q] \in {"open", "version", "migrate", "check"} => ~first'[q]
    <3>1. CASE q = p
      BY <1>1, <2>4, <3>1
    <3>2. CASE q # p
      BY <1>1, <2>3, <3>2 DEF LostCa
    <3>3. QED
      BY <3>1, <3>2
  <2>6. QED
    BY <2>2, <2>5 DEF LostCa
<1>2. CASE Load(p)
  BY <1>1, <1>2 DEF Load
<1>3. CASE Stat(p)
  <2>1. first' = [first EXCEPT ![p] = FALSE]
    BY <1>3, Zenon DEF Stat
  <2>2. ~first'[p] /\ \A q \in Procs \ {p} : first'[q] = first[q]
    BY <1>0, <2>1
  <2>3. Goto(p, "open") /\ file' = file
    BY <1>3 DEF Stat
  <2>4. QED
    BY <1>1, <2>2, <2>3
<1>4. CASE OpenDb(p) \/ ReadVersion(p)
  BY <1>1, <1>4 DEF OpenDb, ReadVersion, LostCa
<1>5. CASE Migrate(p)
  <2>1. CASE pc' = pc
    BY <1>5, <2>1 DEF Migrate, LostCa, There
  <2>2. CASE \E l \in {"check", "use", "error"} : Goto(p, l)
    BY <1>1, <1>5, <2>2 DEF Migrate, LostCa
  <2>3. QED
    BY <1>5, <2>1, <2>2 DEF Migrate
<1>6. CASE Check(p)
  <2>1. pc[p] = "check" /\ file' = file /\ first' = first
    BY <1>6 DEF Check
  <2>2. first[p] = FALSE
    BY <1>0, <2>1 DEF LostCa
  <2>3. Keypair("ca.key", "ca.crt") = FALSE
    BY DEF LostCa, Keypair
  <2>4. ~Consistent(~first[p], Keypair("ca.key", "ca.crt"))
    BY <2>2, <2>3, Zenon DEF Consistent
  <2>5. PICK l \in {"torn", "incomplete"} : Goto(p, l)
    BY <1>6, <2>4, CheckIs
  <2>6. QED
    BY <1>1, <2>1, <2>5
<1>7. CASE Return(p) \/ Stop(p) \/ Crash(p)
  <2>1. Goto(p, "off") /\ file' = file /\ first' = [first EXCEPT ![p] = FALSE]
    BY <1>7 DEF Return, Stop, Crash, Gone
  <2>2. QED
    BY <1>0, <1>1, <2>1
<1>8. pc[p] \in {"off", "refused", "stat", "open", "version", "migrate",
                 "check", "use", "incomplete", "error", "torn"}
  BY DEF LostCa
<1>9. CASE WriteCA(p) \/ WriteServer(p) \/ WriteFails(p)
  <2>1. Written(p)
    BY <1>9, WriteIs
  <2>2. QED
    BY <1>8, <2>1, FillingIs DEF Written, Creates, Fill, FailsBare, FailsKeyless, Files
<1>10. CASE \/ FindCA(p) \/ LoadCA(p) \/ FindServer(p) \/ LoadServer(p)
            \/ RemoveCrt(p) \/ RemoveKey(p) \/ (\E d \in Devices : Pair(p, d))
  BY <1>8, <1>10 DEF FindCA, LoadCA, FindServer, LoadServer, FindPair, RemoveCrt, RemoveKey,
     Pair
<1>11. QED
  BY <1>2, <1>3, <1>4, <1>5, <1>6, <1>7, <1>9, <1>10 DEF ProcStep

\* A step of one process changes what a device pinned only by pairing it.
LEMMA PairedStep ==
  ASSUME NEW p \in Procs, ProcStep(p), ~\E d \in Devices : Pair(p, d)
  PROVE  paired' = paired
<1> USE DEF worldVars
<1>1. CASE WriteCA(p) \/ WriteServer(p) \/ WriteFails(p)
  BY <1>1, WriteIs
<1>2. CASE Load(p) \/ Stat(p) \/ OpenDb(p) \/ ReadVersion(p) \/ Migrate(p)
  BY <1>2 DEF Load, Stat, OpenDb, ReadVersion, Migrate
<1>3. CASE Check(p) \/ FindCA(p) \/ LoadCA(p) \/ FindServer(p) \/ LoadServer(p)
  BY <1>3 DEF Check, FindCA, LoadCA, FindServer, LoadServer, FindPair
<1>4. CASE RemoveCrt(p) \/ RemoveKey(p) \/ Return(p) \/ Stop(p) \/ Crash(p)
  BY <1>4 DEF RemoveCrt, RemoveKey, Return, Stop, Crash, Gone
<1>5. QED
  BY <1>1, <1>2, <1>3, <1>4 DEF ProcStep

\* A step of one process leaves the pinned CA in place, or lost.
LEMMA PinStep ==
  ASSUME TypeOK, RowsInv, OwnerInv, IssuedInv, PinInv, NEW p \in Procs, ProcStep(p)
  PROVE  PinInv'
<1>1. CASE \E d \in Devices : Pair(p, d)
  <2>1. PICK d \in Devices : Pair(p, d)
    BY <1>1
  <2>2. /\ pc[p] = "serve" /\ paired' = [paired EXCEPT ![d] = ca[p]]
        /\ UNCHANGED <<file, pc, first>>
    BY <2>1 DEF Pair, procVars
  <2>3. Whole("ca.crt") /\ ca[p] = file["ca.crt"].id
    BY <2>2 DEF IssuedInv, Loaded
  <2>4. ~LostCa
    BY <2>2 DEF LostCa
  <2>5. \A e \in Devices : paired'[e] # 0 => paired'[e] = file["ca.crt"].id
    BY <2>2, <2>3, <2>4 DEF PinInv, TypeOK
  <2>6. QED
    BY <2>2, <2>3, <2>5 DEF PinInv, Whole
<1>2. CASE ~\E d \in Devices : Pair(p, d)
  <2>1. paired' = paired
    BY <1>2, PairedStep
  <2>2. SUFFICES ASSUME NEW d \in Devices, paired[d] # 0
                 PROVE  \/ Whole("ca.crt")' /\ file'["ca.crt"].id = paired[d]
                        \/ LostCa'
    BY <2>1 DEF PinInv
  <2>3. CASE Whole("ca.crt") /\ file["ca.crt"].id = paired[d]
    BY <2>3, WholeCaStays DEF Whole
  <2>4. CASE LostCa
    BY <2>2, <2>4, LostCaStep DEF RowsInv
  <2>5. QED
    BY <2>2, <2>3, <2>4 DEF PinInv
<1>3. QED
  BY <1>1, <1>2

\* The pinned CA stays in place, or is lost.
LEMMA PinNext ==
  ASSUME TypeOK, RowsInv, OwnerInv, IssuedInv, PinInv, [Next]_vars
  PROVE  PinInv'
<1>1. CASE UNCHANGED <<paired, file, pc, first>>
  BY <1>1 DEF PinInv, LostCa, Whole, There
<1>2. CASE UNCHANGED vars \/ EditEnv
  BY <1>1, <1>2 DEF vars, EditEnv, procVars
<1>3. CASE LoseDb
  BY <1>3 DEF LoseDb, PinInv
<1>4. CASE LoseCerts
  <2>1. /\ \A p \in Procs : pc'[p] = "off"
        /\ file' = [f \in Files |-> Absent]
    BY <1>4 DEF LoseCerts, Stopped
  <2>2. ~There("ca.key")' /\ ~There("ca.crt")'
    BY <2>1 DEF There, Files, Absent
  <2>3. LostCa'
    BY <2>1, <2>2 DEF LostCa
  <2>4. QED
    BY <2>3 DEF PinInv
<1>5. QED
  BY <1>2, <1>3, <1>4, StepOfNext, PinStep

-----------------------------------------------------------------------------
(* The theorems about the state directory *)

\* Nothing runs, and nothing is on disk.
LEMMA InitInv == Init => Inv
<1> SUFFICES ASSUME Init
             PROVE  Inv
  OBVIOUS
<1>1. 0 \in 0..MaxIds /\ 0 \in 0..Current /\ Absent \in Content
  BY EnvsAssumption DEF Current, Absent, Content
<1>2. /\ \A p \in Procs : pc[p] = "off"
      /\ \A f \in Files : file[f] = Absent
      /\ \A d \in Devices : paired[d] = 0
  BY DEF Init
<1>3. ~Whole("ca.crt") /\ ~Whole("server.crt")
  BY <1>2 DEF Whole, Absent, Files
<1>4. TypeOK
  BY <1>1 DEF Init, TypeOK, Labels
<1>5. RowsInv /\ EnvInv /\ PinInv
  BY <1>2 DEF RowsInv, EnvInv, PinInv, Configured, Opened, Ready, Loaded
<1>6. OwnerInv /\ IssuedInv
  BY <1>2, <1>3 DEF OwnerInv, IssuedInv, Own, Loaded
<1>7. QED
  BY <1>4, <1>5, <1>6 DEF Inv

\* What every process may rely on, wherever it is and whatever the others,
\* crashes and the operator have done.
THEOREM Invariance == Spec => []Inv
<1>1. Inv /\ [Next]_vars => Inv'
  <2> SUFFICES ASSUME Inv, [Next]_vars
               PROVE  Inv'
    OBVIOUS
  <2>1. QED
    BY TypeNext, RowsNext, EnvNext, OwnerNext, IssuedNext, PinNext DEF Inv
<1>2. QED
  BY InitInv, <1>1, PTL DEF Spec

\* An agent that serves a database with a paired device in it serves the CA
\* that device pinned (CheckIdentityConsistency, writeExclusive).
THEOREM IdentityIsStable == Spec => []StableIdentity
<1>1. Inv => StableIdentity
  <2> SUFFICES ASSUME Inv, NEW p \in Agents, pc[p] = "serve", NEW d \in Devices, paired[d] # 0
               PROVE  ca[p] = paired[d]
    BY DEF StableIdentity
  <2>1. p \in Procs
    BY DEF Procs
  <2>2. ca[p] = file["ca.crt"].id
    BY <2>1 DEF Inv, IssuedInv, Loaded
  <2>3. ~LostCa
    BY <2>1 DEF LostCa
  <2>4. QED
    BY <2>2, <2>3 DEF Inv, PinInv
<1>2. QED
  BY Invariance, <1>1, PTL

\* No start of the agent or the CLI migrates a paired device away
\* (applyMigration, whose version is read outside its transaction).
THEOREM RowsAreKept == Spec => []RowsSurvive
<1>1. Inv => RowsSurvive
  BY DEF Inv, RowsInv, RowsSurvive
<1>2. QED
  BY Invariance, <1>1, PTL

-----------------------------------------------------------------------------
(* Configurations *)

\* The variables of config.Load.
Settings ==
  {"STATE_DIR", "LISTEN_ADDR", "PUBLIC_ADDR", "POLICY_MODE", "DOCKER_HOST", "LOG_LEVEL",
   "LOG_MAX_AGE_DAYS", "LOG_MAX_TOTAL_MB", "AUDIT_MAX_AGE_DAYS", "AUDIT_MAX_ROWS",
   "RATE_STATUS_PER_MIN", "RATE_PAIR_PER_MIN", "RATE_GUARDED_PER_SEC",
   "PAIR_TTL_MAX_MIN", "SELF_CONTAINER", "PROTECTED_CONTAINERS"}

\* The loader and the table speak of the same variables.
LEMMA Domains ==
  ASSUME NEW e
  PROVE  DOMAIN Fields(e) = Settings /\ DOMAIN Documented(e) = Settings
<1>1. DOMAIN Fields(e) = Settings
  BY DEF Fields, Settings
<1>2. DOMAIN Documented(e) = Settings
  BY DEF Documented, Settings
<1>3. QED
  BY <1>1, <1>2

\* A number reaches its field unless it is out of range, and then the
\* default does.
LEMMA RangedIs ==
  ASSUME NEW r \in [form : {"unset", "malformed", "number"}, n : Int],
         NEW def \in Int, NEW least \in Int, NEW most \in Int
  PROVE  /\ rangedInt(r, def, least, most).ok <=> Within(r, least, most)
         /\ rangedInt(r, def, least, most).value \in Int
         /\ \/ rangedInt(r, def, least, most).value = def
            \/ rangedInt(r, def, least, most).value \in least..most
<1>1. CASE r.form = "number" /\ r.n >= least /\ r.n <= most
  <2>1. rangedInt(r, def, least, most) = [value |-> r.n, ok |-> TRUE]
    BY <1>1 DEF rangedInt, Field
  <2>2. r.n \in Int /\ r.n \in least..most /\ Within(r, least, most)
    BY <1>1 DEF Within
  <2>3. QED
    BY <2>1, <2>2
<1>2. CASE ~(r.form = "number" /\ r.n >= least /\ r.n <= most) /\ r.form = "unset"
  <2>1. rangedInt(r, def, least, most) = [value |-> def, ok |-> TRUE]
    BY <1>2 DEF rangedInt, Field
  <2>2. Within(r, least, most)
    BY <1>2 DEF Within
  <2>3. QED
    BY <2>1, <2>2
<1>3. CASE ~(r.form = "number" /\ r.n >= least /\ r.n <= most) /\ r.form # "unset"
  <2>1. rangedInt(r, def, least, most) = [value |-> def, ok |-> FALSE]
    BY <1>3 DEF rangedInt, Field
  <2>2. ~Within(r, least, most)
    BY <1>3 DEF Within
  <2>3. QED
    BY <2>1, <2>2
<1>4. QED
  BY <1>1, <1>2, <1>3

\* A text is accepted if it is one of the valid ones, or unset.
LEMMA EnumIs ==
  ASSUME NEW v, NEW def, NEW valid, def \in valid
  PROVE  Enum(v, def, valid).ok <=> Among(v, valid)
BY DEF Enum, raw, Field, Among

\* A duration that fits is not wrapped.
LEMMA WrappedIs ==
  ASSUME NEW x \in Nat, x < Limit
  PROVE  Wrapped(x) = x
<1>1. Limit \in Nat /\ x + Limit \in 0..(2 * Limit - 1) /\ 2 * Limit > 0
  BY UnitsAssumption
<1>2. \A y, m \in Nat : m > 0 /\ y < m => y % m = y
  OBVIOUS
<1>3. (x + Limit) % (2 * Limit) = x + Limit
  BY <1>1, <1>2
<1>4. QED
  BY <1>1, <1>3 DEF Wrapped

\* Multiplying by the length of a day keeps the order of two ages.
LEMMA DaysOrder ==
  ASSUME NEW a \in Nat, NEW b \in Nat
  PROVE  /\ a * Day >= b * Day <=> a >= b
         /\ a * Day \in Nat /\ a <= a * Day
         /\ a > 0 => a * Day > 0
<1>1. Day \in Nat /\ Day >= 1
  BY UnitsAssumption
<1>2. a >= b => a * Day >= b * Day
  BY <1>1
<1>3. ~(a >= b) => ~(a * Day >= b * Day)
  <2>1. SUFFICES ASSUME b >= a + 1
                 PROVE  b * Day > a * Day
    BY <1>1
  <2>2. b * Day >= (a + 1) * Day /\ (a + 1) * Day = a * Day + Day
    BY <1>1, <2>1
  <2>3. QED
    BY <1>1, <2>2
<1>4. a * Day \in Nat /\ a <= a * Day /\ (a > 0 => a * Day > 0)
  BY <1>1
<1>5. QED
  BY <1>2, <1>3, <1>4

\* An age that a Duration can hold is loaded as it is.
LEMMA DaysAre ==
  ASSUME NEW r \in [form : {"unset", "malformed", "number"}, n : Int], Representable(r.n),
         NEW def \in 1..365
  PROVE  /\ days(r, def).ok <=> Within(r, 1, Limit - 1)
         /\ days(r, def).value = AgeInDays(r, def) * Day
         /\ AgeInDays(r, def) \in Nat /\ AgeInDays(r, def) > 0
<1> DEFINE n == boundedInt(r, def, 1)
<1>0. Limit \in Nat /\ Day \in Nat /\ r.n \in Int
  BY UnitsAssumption
<1>1. days(r, def) = [value |-> Wrapped(n.value * Day), ok |-> n.ok]
  BY DEF days, Field
<1>2. n.ok <=> Within(r, 1, Limit - 1)
  BY <1>0, RangedIs DEF boundedInt
<1>3. AgeInDays(r, def) \in Nat /\ AgeInDays(r, def) > 0
  BY <1>0 DEF AgeInDays
<1>4. AgeInDays(r, def) * Day < Limit
  <2>1. CASE r.form = "number" /\ r.n >= 1
    BY <2>1 DEF AgeInDays, Representable
  <2>2. CASE ~(r.form = "number" /\ r.n >= 1)
    <3>1. def \in Nat /\ 365 >= def
      OBVIOUS
    <3>2. 365 * Day >= def * Day /\ def * Day \in Nat
      BY <3>1, DaysOrder
    <3>3. QED
      BY <1>0, <2>2, <3>2, UnitsAssumption DEF AgeInDays
  <2>3. QED
    BY <2>1, <2>2
<1>5. n.value = AgeInDays(r, def)
  <2>1. CASE r.form = "number" /\ r.n >= 1
    <3>1. r.n \in Nat /\ r.n <= r.n * Day
      BY <1>0, <2>1, DaysOrder
    <3>2. r.n * Day < Limit /\ r.n * Day \in Int
      BY <1>0 DEF Representable
    <3>3. r.n <= Limit - 1
      BY <1>0, <3>1, <3>2
    <3>4. n = [value |-> r.n, ok |-> TRUE]
      BY <2>1, <3>3 DEF boundedInt, rangedInt, Field
    <3>5. QED
      BY <2>1, <3>4 DEF AgeInDays
  <2>2. CASE ~(r.form = "number" /\ r.n >= 1)
    <3>1. n = [value |-> def, ok |-> r.form = "unset"]
      BY <2>2 DEF boundedInt, rangedInt, Field
    <3>2. QED
      BY <2>2, <3>1 DEF AgeInDays
  <2>3. QED
    BY <2>1, <2>2
<1>6. Wrapped(n.value * Day) = AgeInDays(r, def) * Day
  <2>1. AgeInDays(r, def) * Day \in Nat
    BY <1>3, DaysOrder
  <2>2. QED
    BY <1>4, <1>5, <2>1, WrappedIs
<1>7. QED
  BY <1>1, <1>2, <1>3, <1>6

\* What an environment holds of each variable.
LEMMA EnvironmentsAre ==
  ASSUME NEW e \in Environments
  PROVE  \A v \in Numbers : e.num[v] \in [form : {"unset", "malformed", "number"}, n : Int]
BY DEF Environments

\* The two ages, where a Duration can hold them.
LEMMA AgesAre ==
  ASSUME NEW e \in Environments, Ordinary(e),
         NEW v \in {"LOG_MAX_AGE_DAYS", "AUDIT_MAX_AGE_DAYS"}, NEW def \in 1..365
  PROVE  /\ days(e.num[v], def).ok <=> Within(e.num[v], 1, Limit - 1)
         /\ days(e.num[v], def).value = AgeInDays(e.num[v], def) * Day
         /\ AgeInDays(e.num[v], def) \in Nat /\ AgeInDays(e.num[v], def) > 0
<1>1. e.num[v] \in [form : {"unset", "malformed", "number"}, n : Int]
  BY EnvironmentsAre DEF Numbers
<1>2. Representable(e.num[v].n)
  BY DEF Ordinary
<1>3. QED
  BY <1>1, <1>2, DaysAre

\* Every variable but the one that has part in two checks is judged as the
\* table says.
LEMMA FieldsAgree ==
  ASSUME NEW e \in Environments, Ordinary(e), NEW v \in Settings \ {"AUDIT_MAX_AGE_DAYS"}
  PROVE  Fields(e)[v].ok <=> Documented(e)[v]
<1>0. Limit - 1 \in Int
  BY UnitsAssumption
<1>1. CASE v = "STATE_DIR"
  <2>1. stateDir(e).ok <=> Among(e.text["STATE_DIR"], {"absolute"})
    BY EnumIs DEF stateDir
  <2>2. Fields(e)["STATE_DIR"] = stateDir(e)
    BY DEF Fields
  <2>3. Documented(e)["STATE_DIR"] = Among(e.text["STATE_DIR"], {"absolute"})
    BY DEF Documented
  <2>4. QED
    BY <1>1, <2>1, <2>2, <2>3
<1>2. CASE v = "POLICY_MODE"
  <2>1. policyMode(e).ok <=> Among(e.text["POLICY_MODE"], {"read-only", "default", "full"})
    BY EnumIs DEF policyMode
  <2>2. Fields(e)["POLICY_MODE"] = policyMode(e)
    BY DEF Fields
  <2>3. Documented(e)["POLICY_MODE"]
          = Among(e.text["POLICY_MODE"], {"read-only", "default", "full"})
    BY DEF Documented
  <2>4. QED
    BY <1>2, <2>1, <2>2, <2>3
<1>3. CASE v = "DOCKER_HOST"
  <2>1. dockerHost(e).ok <=> Among(e.text["DOCKER_HOST"], {"unix", "tcp"})
    BY EnumIs DEF dockerHost
  <2>2. Fields(e)["DOCKER_HOST"] = dockerHost(e)
    BY DEF Fields
  <2>3. Documented(e)["DOCKER_HOST"] = Among(e.text["DOCKER_HOST"], {"unix", "tcp"})
    BY DEF Documented
  <2>4. QED
    BY <1>3, <2>1, <2>2, <2>3
<1>4. CASE v = "LOG_LEVEL"
  <2>1. logLevel(e).ok <=> Among(e.text["LOG_LEVEL"], {"debug", "info", "warn", "error"})
    BY EnumIs DEF logLevel
  <2>2. Fields(e)["LOG_LEVEL"] = logLevel(e)
    BY DEF Fields
  <2>3. Documented(e)["LOG_LEVEL"]
          = Among(e.text["LOG_LEVEL"], {"debug", "info", "warn", "error"})
    BY DEF Documented
  <2>4. QED
    BY <1>4, <2>1, <2>2, <2>3
<1>5. CASE v = "SELF_CONTAINER"
  <2>1. selfContainer(e).ok <=> Among(e.text["SELF_CONTAINER"], Refs)
    BY EnumIs DEF selfContainer, Among
  <2>2. Fields(e)["SELF_CONTAINER"] = selfContainer(e)
    BY DEF Fields
  <2>3. Documented(e)["SELF_CONTAINER"] = Among(e.text["SELF_CONTAINER"], Refs)
    BY DEF Documented
  <2>4. QED
    BY <1>5, <2>1, <2>2, <2>3
<1>6. CASE v = "PUBLIC_ADDR"
  <2>1. publicAddrs(e).ok <=> Addresses(e.list["PUBLIC_ADDR"] \ {""})
    BY DEF Addresses, publicAddrs, Field, isValidSAN, Ordinary
  <2>2. Fields(e)["PUBLIC_ADDR"] = publicAddrs(e)
    BY DEF Fields
  <2>3. Documented(e)["PUBLIC_ADDR"] = Addresses(e.list["PUBLIC_ADDR"] \ {""})
    BY DEF Documented
  <2>4. QED
    BY <1>6, <2>1, <2>2, <2>3
<1>7. CASE v = "PROTECTED_CONTAINERS"
  <2>1. protectedContainers(e).ok <=> References(e.list["PROTECTED_CONTAINERS"] \ {""})
    BY DEF References, protectedContainers, Field
  <2>2. Fields(e)["PROTECTED_CONTAINERS"] = protectedContainers(e)
    BY DEF Fields
  <2>3. Documented(e)["PROTECTED_CONTAINERS"] = References(e.list["PROTECTED_CONTAINERS"] \ {""})
    BY DEF Documented
  <2>4. QED
    BY <1>7, <2>1, <2>2, <2>3
<1>8. CASE v = "LISTEN_ADDR"
  <2>1. listenAddr(e).ok <=> Within(e.num["LISTEN_ADDR"], 1, 65535)
    <3>1. e.num["LISTEN_ADDR"] \in [form : {"unset", "malformed", "number"}, n : Int]
      BY EnvironmentsAre DEF Numbers
    <3>2. ASSUME NEW def \in Int, NEW least \in Int, NEW most \in Int
          PROVE  rangedInt(e.num["LISTEN_ADDR"], def, least, most).ok
                   <=> Within(e.num["LISTEN_ADDR"], least, most)
      BY <3>1, <3>2, RangedIs
    <3>3. QED
      BY <3>2 DEF listenAddr
  <2>2. Fields(e)["LISTEN_ADDR"] = listenAddr(e)
    BY DEF Fields
  <2>3. Documented(e)["LISTEN_ADDR"] = Within(e.num["LISTEN_ADDR"], 1, 65535)
    BY DEF Documented
  <2>4. QED
    BY <1>8, <2>1, <2>2, <2>3
<1>9. CASE v = "PAIR_TTL_MAX_MIN"
  <2>1. minutes(e.num["PAIR_TTL_MAX_MIN"], 10, 5, 60).ok
          <=> Within(e.num["PAIR_TTL_MAX_MIN"], 5, 60)
    <3>1. e.num["PAIR_TTL_MAX_MIN"] \in [form : {"unset", "malformed", "number"}, n : Int]
      BY EnvironmentsAre DEF Numbers
    <3>2. 10 \in Int /\ 5 \in Int /\ 60 \in Int
      OBVIOUS
    <3>3. QED
      BY <3>1, <3>2, RangedIs, Zenon DEF minutes
  <2>2. Fields(e)["PAIR_TTL_MAX_MIN"] = minutes(e.num["PAIR_TTL_MAX_MIN"], 10, 5, 60)
    BY DEF Fields
  <2>3. Documented(e)["PAIR_TTL_MAX_MIN"] = Within(e.num["PAIR_TTL_MAX_MIN"], 5, 60)
    BY DEF Documented
  <2>4. QED
    BY <1>9, <2>1, <2>2, <2>3
<1>10. CASE v = "LOG_MAX_AGE_DAYS"
  <2>1. days(e.num["LOG_MAX_AGE_DAYS"], 1).ok
          <=> Within(e.num["LOG_MAX_AGE_DAYS"], 1, Limit - 1)
    <3>1. 1 \in 1..365
      OBVIOUS
    <3>2. QED
      BY <3>1, AgesAre, Zenon
  <2>2. Fields(e)["LOG_MAX_AGE_DAYS"] = days(e.num["LOG_MAX_AGE_DAYS"], 1)
    BY DEF Fields
  <2>3. Documented(e)["LOG_MAX_AGE_DAYS"] = Within(e.num["LOG_MAX_AGE_DAYS"], 1, Limit - 1)
    BY DEF Documented
  <2>4. QED
    BY <1>10, <2>1, <2>2, <2>3
<1>11. ASSUME NEW x \in Numbers, NEW def \in Int, NEW least \in Int
       PROVE  boundedInt(e.num[x], def, least).ok <=> Within(e.num[x], least, Limit - 1)
  BY <1>0, <1>11, RangedIs, EnvironmentsAre DEF boundedInt
<1>12. CASE v = "LOG_MAX_TOTAL_MB"
  <2>1. boundedInt(e.num["LOG_MAX_TOTAL_MB"], 64, 8).ok
          <=> Within(e.num["LOG_MAX_TOTAL_MB"], 8, Limit - 1)
    BY <1>11 DEF Numbers
  <2>2. Fields(e)["LOG_MAX_TOTAL_MB"] = boundedInt(e.num["LOG_MAX_TOTAL_MB"], 64, 8)
    BY DEF Fields
  <2>3. Documented(e)["LOG_MAX_TOTAL_MB"] = Within(e.num["LOG_MAX_TOTAL_MB"], 8, Limit - 1)
    BY DEF Documented
  <2>4. QED
    BY <1>12, <2>1, <2>2, <2>3
<1>13. CASE v = "AUDIT_MAX_ROWS"
  <2>1. boundedInt(e.num["AUDIT_MAX_ROWS"], 100000, 1000).ok
          <=> Within(e.num["AUDIT_MAX_ROWS"], 1000, Limit - 1)
    BY <1>11 DEF Numbers
  <2>2. Fields(e)["AUDIT_MAX_ROWS"] = boundedInt(e.num["AUDIT_MAX_ROWS"], 100000, 1000)
    BY DEF Fields
  <2>3. Documented(e)["AUDIT_MAX_ROWS"] = Within(e.num["AUDIT_MAX_ROWS"], 1000, Limit - 1)
    BY DEF Documented
  <2>4. QED
    BY <1>13, <2>1, <2>2, <2>3
<1>14. CASE v = "RATE_STATUS_PER_MIN"
  <2>1. boundedInt(e.num["RATE_STATUS_PER_MIN"], 30, 1).ok
          <=> Within(e.num["RATE_STATUS_PER_MIN"], 1, Limit - 1)
    BY <1>11 DEF Numbers
  <2>2. Fields(e)["RATE_STATUS_PER_MIN"] = boundedInt(e.num["RATE_STATUS_PER_MIN"], 30, 1)
    BY DEF Fields
  <2>3. Documented(e)["RATE_STATUS_PER_MIN"] = Within(e.num["RATE_STATUS_PER_MIN"], 1, Limit - 1)
    BY DEF Documented
  <2>4. QED
    BY <1>14, <2>1, <2>2, <2>3
<1>15. CASE v = "RATE_PAIR_PER_MIN"
  <2>1. boundedInt(e.num["RATE_PAIR_PER_MIN"], 5, 1).ok
          <=> Within(e.num["RATE_PAIR_PER_MIN"], 1, Limit - 1)
    BY <1>11 DEF Numbers
  <2>2. Fields(e)["RATE_PAIR_PER_MIN"] = boundedInt(e.num["RATE_PAIR_PER_MIN"], 5, 1)
    BY DEF Fields
  <2>3. Documented(e)["RATE_PAIR_PER_MIN"] = Within(e.num["RATE_PAIR_PER_MIN"], 1, Limit - 1)
    BY DEF Documented
  <2>4. QED
    BY <1>15, <2>1, <2>2, <2>3
<1>16. CASE v = "RATE_GUARDED_PER_SEC"
  <2>1. boundedInt(e.num["RATE_GUARDED_PER_SEC"], 20, 1).ok
          <=> Within(e.num["RATE_GUARDED_PER_SEC"], 1, Limit - 1)
    BY <1>11 DEF Numbers
  <2>2. Fields(e)["RATE_GUARDED_PER_SEC"] = boundedInt(e.num["RATE_GUARDED_PER_SEC"], 20, 1)
    BY DEF Fields
  <2>3. Documented(e)["RATE_GUARDED_PER_SEC"] = Within(e.num["RATE_GUARDED_PER_SEC"], 1, Limit - 1)
    BY DEF Documented
  <2>4. QED
    BY <1>16, <2>1, <2>2, <2>3
<1>17. QED
  BY <1>1, <1>2, <1>3, <1>4, <1>5, <1>6, <1>7, <1>8, <1>9, <1>10, <1>12, <1>13,
     <1>14, <1>15, <1>16 DEF Settings

\* The age of the audit record is judged by its own range and by the age of
\* the logs, each replaced by its default where it is wrong.
LEMMA AuditAgrees ==
  ASSUME NEW e \in Environments, Ordinary(e)
  PROVE  /\ Fields(e)["AUDIT_MAX_AGE_DAYS"].ok /\ checkRetentionOrder(Fields(e))
              <=> Documented(e)["AUDIT_MAX_AGE_DAYS"]
         /\ Fields(e)["LOG_MAX_AGE_DAYS"].value > 0
<1> DEFINE a == AgeInDays(e.num["AUDIT_MAX_AGE_DAYS"], 365)
           l == AgeInDays(e.num["LOG_MAX_AGE_DAYS"], 1)
<1>0. 1 \in 1..365 /\ 365 \in 1..365
  OBVIOUS
<1>1. /\ Fields(e)["AUDIT_MAX_AGE_DAYS"] = days(e.num["AUDIT_MAX_AGE_DAYS"], 365)
      /\ Fields(e)["LOG_MAX_AGE_DAYS"] = days(e.num["LOG_MAX_AGE_DAYS"], 1)
  BY DEF Fields
<1>2. /\ days(e.num["AUDIT_MAX_AGE_DAYS"], 365).ok
           <=> Within(e.num["AUDIT_MAX_AGE_DAYS"], 1, Limit - 1)
      /\ days(e.num["AUDIT_MAX_AGE_DAYS"], 365).value = a * Day
      /\ a \in Nat /\ a > 0
  <2>1. "AUDIT_MAX_AGE_DAYS" \in {"LOG_MAX_AGE_DAYS", "AUDIT_MAX_AGE_DAYS"}
    OBVIOUS
  <2>2. QED
    BY <1>0, <2>1, AgesAre, ZenonT(60)
<1>3. days(e.num["LOG_MAX_AGE_DAYS"], 1).value = l * Day /\ l \in Nat /\ l > 0
  BY <1>0, AgesAre, ZenonT(60)
<1>4. checkRetentionOrder(Fields(e)) <=> a * Day >= l * Day
  BY <1>1, <1>2, <1>3 DEF checkRetentionOrder
<1>5. (a * Day >= l * Day <=> a >= l) /\ l * Day > 0
  BY <1>2, <1>3, DaysOrder
<1>6. Documented(e)["AUDIT_MAX_AGE_DAYS"]
        <=> Within(e.num["AUDIT_MAX_AGE_DAYS"], 1, Limit - 1) /\ a >= l
  <2>1. Documented(e)["AUDIT_MAX_AGE_DAYS"]
          = AuditAge(e.num["AUDIT_MAX_AGE_DAYS"], e.num["LOG_MAX_AGE_DAYS"])
    BY DEF Documented
  <2>2. QED
    BY <2>1 DEF AuditAge
<1>7. QED
  BY <1>1, <1>2, <1>3, <1>4, <1>5, <1>6

\* What Load reports is what the table calls wrong.
LEMMA ProblemsAreWrong ==
  ASSUME NEW e \in Environments, Ordinary(e)
  PROVE  Problems(e) = Wrong(e)
<1>1. /\ Problems(e) = {v \in Settings : ~Fields(e)[v].ok}
                         \cup (IF checkRetentionOrder(Fields(e)) THEN {}
                                                                 ELSE {"AUDIT_MAX_AGE_DAYS"})
      /\ Wrong(e) = {v \in Settings : ~Documented(e)[v]}
  BY Domains DEF Problems, Wrong
<1>2. ASSUME NEW v \in Settings \ {"AUDIT_MAX_AGE_DAYS"}
      PROVE  v \in Problems(e) <=> v \in Wrong(e)
  BY <1>1, <1>2, FieldsAgree
<1>3. "AUDIT_MAX_AGE_DAYS" \in Problems(e) <=> "AUDIT_MAX_AGE_DAYS" \in Wrong(e)
  BY <1>1, AuditAgrees DEF Settings
<1>4. Problems(e) \subseteq Settings /\ Wrong(e) \subseteq Settings
  BY <1>1 DEF Settings
<1>5. QED
  BY <1>2, <1>3, <1>4

\* A configuration without a problem has an address to serve.
LEMMA AddressLeft ==
  ASSUME NEW e, Problems(e) = {}
  PROVE  publicAddrs(e).value # {}
<1>1. "PUBLIC_ADDR" \in DOMAIN Fields(e)
  BY Domains DEF Settings
<1>2. Fields(e)["PUBLIC_ADDR"].ok
  BY <1>1 DEF Problems
<1>3. Fields(e)["PUBLIC_ADDR"] = publicAddrs(e)
  BY DEF Fields
<1>4. publicAddrs(e).ok <=> LET parts == e.list["PUBLIC_ADDR"] \ {""}
                            IN  parts # {} /\ \A p \in parts : isValidSAN(p)
  BY DEF publicAddrs, Field
<1>5. publicAddrs(e).value = {p \in e.list["PUBLIC_ADDR"] \ {""} : isValidSAN(p)}
  BY DEF publicAddrs, Field
<1>6. QED
  BY <1>2, <1>3, <1>4, <1>5

\* The numbers of a configuration are in range even where a default has
\* taken the place of a wrong one.
LEMMA NumbersAre ==
  ASSUME NEW e \in Environments
  PROVE  LET c == Config(e)
         IN  /\ c["LOG_MAX_TOTAL_MB"] \in Int /\ c["LOG_MAX_TOTAL_MB"] >= 8
             /\ \A v \in {"RATE_STATUS_PER_MIN", "RATE_PAIR_PER_MIN", "RATE_GUARDED_PER_SEC"} :
                  c[v] > 0
             /\ c["PAIR_TTL_MAX_MIN"] \in 5..60
<1>0. Limit - 1 \in Int
  BY UnitsAssumption
<1>1. ASSUME NEW v \in Settings
      PROVE  Config(e)[v] = Fields(e)[v].value
  BY <1>1, Domains DEF Config
<1>2. ASSUME NEW v \in Numbers, NEW def \in Int, NEW least \in Int, def >= least
      PROVE  /\ boundedInt(e.num[v], def, least).value \in Int
             /\ boundedInt(e.num[v], def, least).value >= least
  <2>1. e.num[v] \in [form : {"unset", "malformed", "number"}, n : Int]
    BY EnvironmentsAre
  <2>2. QED
    BY <1>0, <1>2, <2>1, RangedIs DEF boundedInt
<1>3. Config(e)["LOG_MAX_TOTAL_MB"] = boundedInt(e.num["LOG_MAX_TOTAL_MB"], 64, 8).value
  <2>1. Fields(e)["LOG_MAX_TOTAL_MB"] = boundedInt(e.num["LOG_MAX_TOTAL_MB"], 64, 8)
    BY DEF Fields
  <2>2. QED
    BY <1>1, <2>1 DEF Settings
<1>4. Config(e)["RATE_STATUS_PER_MIN"] = boundedInt(e.num["RATE_STATUS_PER_MIN"], 30, 1).value
  <2>1. Fields(e)["RATE_STATUS_PER_MIN"] = boundedInt(e.num["RATE_STATUS_PER_MIN"], 30, 1)
    BY DEF Fields
  <2>2. QED
    BY <1>1, <2>1 DEF Settings
<1>5. Config(e)["RATE_PAIR_PER_MIN"] = boundedInt(e.num["RATE_PAIR_PER_MIN"], 5, 1).value
  <2>1. Fields(e)["RATE_PAIR_PER_MIN"] = boundedInt(e.num["RATE_PAIR_PER_MIN"], 5, 1)
    BY DEF Fields
  <2>2. QED
    BY <1>1, <2>1 DEF Settings
<1>6. Config(e)["RATE_GUARDED_PER_SEC"] = boundedInt(e.num["RATE_GUARDED_PER_SEC"], 20, 1).value
  <2>1. Fields(e)["RATE_GUARDED_PER_SEC"] = boundedInt(e.num["RATE_GUARDED_PER_SEC"], 20, 1)
    BY DEF Fields
  <2>2. QED
    BY <1>1, <2>1 DEF Settings
<1>7. Config(e)["PAIR_TTL_MAX_MIN"] \in 5..60
  <2>1. Fields(e)["PAIR_TTL_MAX_MIN"] = minutes(e.num["PAIR_TTL_MAX_MIN"], 10, 5, 60)
    BY DEF Fields
  <2>2. e.num["PAIR_TTL_MAX_MIN"] \in [form : {"unset", "malformed", "number"}, n : Int]
    BY EnvironmentsAre DEF Numbers
  <2>3. minutes(e.num["PAIR_TTL_MAX_MIN"], 10, 5, 60).value \in 5..60
    <3>1. 10 \in Int /\ 5 \in Int /\ 60 \in Int /\ 10 \in 5..60
      OBVIOUS
    <3>2. \/ minutes(e.num["PAIR_TTL_MAX_MIN"], 10, 5, 60).value = 10
          \/ minutes(e.num["PAIR_TTL_MAX_MIN"], 10, 5, 60).value \in 5..60
      BY <2>2, <3>1, RangedIs, Zenon DEF minutes
    <3>3. QED
      BY <3>1, <3>2
  <2>4. QED
    BY <1>1, <2>1, <2>3 DEF Settings
<1>8. Config(e)["LOG_MAX_TOTAL_MB"] \in Int /\ Config(e)["LOG_MAX_TOTAL_MB"] >= 8
  BY <1>2, <1>3 DEF Numbers
<1>9. Config(e)["RATE_STATUS_PER_MIN"] > 0
  BY <1>2, <1>4 DEF Numbers
<1>10. Config(e)["RATE_PAIR_PER_MIN"] > 0
  BY <1>2, <1>5 DEF Numbers
<1>11. Config(e)["RATE_GUARDED_PER_SEC"] > 0
  BY <1>2, <1>6 DEF Numbers
<1>12. QED
  BY <1>7, <1>8, <1>9, <1>10, <1>11

\* The log files together keep to the total, and each has a limit.
LEMMA FilesKeepToTotal ==
  ASSUME NEW total \in Int, total >= 8
  PROVE  perFileMaxMB(total) > 0 /\ (maxBackups + 1) * perFileMaxMB(total) <= total
<1>1. maxBackups + 1 = 4
  BY DEF maxBackups
<1>2. total \div 4 \in Int /\ total \div 4 > 0 /\ 4 * (total \div 4) <= total
  OBVIOUS
<1>3. perFileMaxMB(total) = total \div 4
  BY <1>1, <1>2 DEF perFileMaxMB
<1>4. QED
  BY <1>1, <1>2, <1>3

\* A pairing code that is issued lives as long as was asked, and no longer
\* than the ceiling.
LEMMA TtlIs ==
  ASSUME NEW top \in 5..60, NEW flag \in [form : {"unset", "malformed", "number"}, n : Int],
         resolvePairCodeTTL(flag, top).ok
  PROVE  /\ resolvePairCodeTTL(flag, top).value \in pairCodeMinTTLMinutes..top
         /\ flag.form = "number" => resolvePairCodeTTL(flag, top).value = flag.n
<1>1. CASE flag.form = "unset"
  BY <1>1 DEF resolvePairCodeTTL, Field, DefaultPairingCodeTTL, pairCodeMinTTLMinutes
<1>2. CASE flag.form # "unset"
  <2>1. resolvePairCodeTTL(flag, top).value = flag.n
    BY <1>2 DEF resolvePairCodeTTL, Field
  <2>2. resolvePairCodeTTL(flag, top).ok
          <=> flag.form = "number" /\ flag.n >= pairCodeMinTTLMinutes /\ flag.n <= top
    BY <1>2 DEF resolvePairCodeTTL, Field
  <2>3. QED
    BY <2>1, <2>2 DEF pairCodeMinTTLMinutes
<1>3. QED
  BY <1>1, <1>2

\* The audit record of a configuration without a problem outlives the logs.
LEMMA RetentionOrdered ==
  ASSUME NEW e \in Environments, Ordinary(e), Problems(e) = {}
  PROVE  /\ 0 < Config(e)["LOG_MAX_AGE_DAYS"]
         /\ Config(e)["LOG_MAX_AGE_DAYS"] <= Config(e)["AUDIT_MAX_AGE_DAYS"]
<1>1. checkRetentionOrder(Fields(e))
  BY DEF Problems
<1>2. /\ Config(e)["LOG_MAX_AGE_DAYS"] = Fields(e)["LOG_MAX_AGE_DAYS"].value
      /\ Config(e)["AUDIT_MAX_AGE_DAYS"] = Fields(e)["AUDIT_MAX_AGE_DAYS"].value
  BY Domains DEF Config, Settings
<1>3. QED
  BY <1>1, <1>2, AuditAgrees DEF checkRetentionOrder

-----------------------------------------------------------------------------
(* The theorems about what an agent serves and runs on *)

\* The state of the start-up stays within its types, the certs directory and
\* every loaded certificate included.
THEOREM StartupTypes == Spec => []TypeOK
<1>1. Inv => TypeOK
  BY DEF Inv
<1>2. QED
  BY Invariance, <1>1, PTL

\* What an agent serves belongs together: CA key, CA certificate and a
\* server certificate signed by it for every configured address (loadCA and
\* loadServerKeypair compare less than that).
THEOREM IdentityIsWhole == Spec => []ServesWholeIdentity
<1>1. Inv => ServesWholeIdentity
  <2> SUFFICES ASSUME Inv, NEW p \in Agents, pc[p] = "serve"
               PROVE  /\ file["ca.key"].id = file["ca.crt"].id /\ file["ca.crt"].id = ca[p]
                      /\ leaf[p].ca = ca[p] /\ Sans # {} /\ Sans \subseteq leaf[p].addrs
    BY DEF ServesWholeIdentity
  <2>1. p \in Procs
    BY DEF Procs
  <2>2. Whole("ca.crt") /\ file["ca.crt"].id = ca[p]
    BY <2>1 DEF Inv, IssuedInv, Loaded
  <2>3. file["ca.key"].id = file["ca.crt"].id
    BY <2>2 DEF Inv, OwnerInv
  <2>4. leaf[p].ca = ca[p] /\ Sans \subseteq leaf[p].addrs
    BY <2>1 DEF Inv, IssuedInv
  <2>5. Problems(env) = {}
    BY <2>1 DEF Inv, EnvInv, Configured
  <2>6. Sans # {}
    BY <2>5, AddressLeft DEF Sans
  <2>7. QED
    BY <2>2, <2>3, <2>4, <2>6
<1>2. QED
  BY Invariance, <1>1, PTL

\* Load refuses exactly what the table of docs/CONFIGURATION.md rules out,
\* and names exactly the variables that are wrong (fieldErrors, although each
\* loader puts a default in the place of a wrong value).
THEOREM ConfigurationExact == Spec => []ConfigExact
<1>1. Inv => ConfigExact
  <2> SUFFICES ASSUME Inv, Ordinary(env), NEW p \in Procs
               PROVE  /\ pc[p] = "refused" => Wrong(env) # {} /\ Problems(env) = Wrong(env)
                      /\ Configured(p) => Wrong(env) = {}
    BY DEF ConfigExact
  <2>1. env \in Environments
    BY EnvTyped DEF Inv
  <2>2. Problems(env) = Wrong(env)
    BY <2>1, ProblemsAreWrong
  <2>3. QED
    BY <2>2 DEF Inv, EnvInv
<1>2. QED
  BY Invariance, <1>1, PTL

\* The limits derived from a configuration hold, for every value of every
\* variable (perFileMaxMB, minRatePerX, resolvePairCodeTTL,
\* checkRetentionOrder).
THEOREM BudgetsAreKept == Spec => []BudgetsHold
<1>1. Inv => BudgetsHold
  <2> SUFFICES ASSUME Inv, NEW p \in Procs, Configured(p)
               PROVE  LET c   == Config(env)
                          mb  == perFileMaxMB(c["LOG_MAX_TOTAL_MB"])
                          top == c["PAIR_TTL_MAX_MIN"]
                      IN /\ mb > 0 /\ (maxBackups + 1) * mb <= c["LOG_MAX_TOTAL_MB"]
                         /\ \A v \in {"RATE_STATUS_PER_MIN", "RATE_PAIR_PER_MIN",
                                      "RATE_GUARDED_PER_SEC"} : c[v] > 0
                         /\ \A flag \in {Unset, Malformed}
                                  \cup {Number(n) : n \in {-1, 0, 4, 5, 10, top, top + 1}} :
                              LET ttl == resolvePairCodeTTL(flag, top)
                              IN  ttl.ok => /\ ttl.value \in pairCodeMinTTLMinutes..top
                                            /\ flag.form = "number" => ttl.value = flag.n
                         /\ Ordinary(env) => /\ 0 < c["LOG_MAX_AGE_DAYS"]
                                             /\ c["LOG_MAX_AGE_DAYS"] <= c["AUDIT_MAX_AGE_DAYS"]
    BY DEF BudgetsHold
  <2> DEFINE c   == Config(env)
             top == c["PAIR_TTL_MAX_MIN"]
  <2>1. env \in Environments /\ Problems(env) = {}
    BY EnvTyped DEF Inv, EnvInv
  <2>2. /\ c["LOG_MAX_TOTAL_MB"] \in Int /\ c["LOG_MAX_TOTAL_MB"] >= 8
        /\ \A v \in {"RATE_STATUS_PER_MIN", "RATE_PAIR_PER_MIN", "RATE_GUARDED_PER_SEC"} :
             c[v] > 0
        /\ top \in 5..60
    BY <2>1, NumbersAre
  <2>3. /\ perFileMaxMB(c["LOG_MAX_TOTAL_MB"]) > 0
        /\ (maxBackups + 1) * perFileMaxMB(c["LOG_MAX_TOTAL_MB"]) <= c["LOG_MAX_TOTAL_MB"]
    BY <2>2, FilesKeepToTotal
  <2>4. ASSUME NEW flag \in {Unset, Malformed}
                    \cup {Number(n) : n \in {-1, 0, 4, 5, 10, top, top + 1}},
               resolvePairCodeTTL(flag, top).ok
        PROVE  /\ resolvePairCodeTTL(flag, top).value \in pairCodeMinTTLMinutes..top
               /\ flag.form = "number" => resolvePairCodeTTL(flag, top).value = flag.n
    <3>1. flag \in [form : {"unset", "malformed", "number"}, n : Int]
      BY <2>2, <2>4 DEF Unset, Malformed, Number
    <3>2. QED
      BY <2>2, <2>4, <3>1, TtlIs
  <2>5. Ordinary(env) => /\ 0 < c["LOG_MAX_AGE_DAYS"]
                         /\ c["LOG_MAX_AGE_DAYS"] <= c["AUDIT_MAX_AGE_DAYS"]
    BY <2>1, RetentionOrdered
  <2>6. QED
    BY <2>2, <2>3, <2>4, <2>5
<1>2. QED
  BY Invariance, <1>1, PTL
=============================================================================
