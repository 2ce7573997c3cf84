------------------------ MODULE DeviceIdentityProofs ------------------------
(***************************************************************************)
(* Proofs about DeviceIdentity for every set of codes, devices, serials    *)
(* and requests.                                                           *)
(*                                                                         *)
(* The argument.  A device ID is drawn fresh and, until the pairing that   *)
(* created it has answered, it is private: no other handler works on it    *)
(* and no client holds a certificate for it.  So the only DELETE of the    *)
(* system, the pairing rollback, can hit neither a certificate a client    *)
(* may hold nor the device of a concurrent renewal.  A code's used_by      *)
(* column outlives its row in the model and is never reset, which is why   *)
(* pruning cannot make a code redeemable twice.                            *)
(***************************************************************************)
EXTENDS DeviceIdentity, TLAPS

\* A request whose handler is acting on dev[r].
Busy(r) ==
  \/ Pairing(r)
  \/ op[r] # "pair" /\ pc[r] \in {"decode", "issue", "record", "supersede",
                                  "exists", "revoke", "respond"}

\* Everything drawn from the random source so far is accounted for.
Drawn ==
  /\ codes \subseteq minted
  /\ rows \subseteq created
  /\ revoking \subseteq created
  /\ withdrawn \subseteq created
  /\ delivered \subseteq issued
  /\ \A s \in issued : issuedTo[s] \in created
  /\ \A s \in Serials : owner[s] # NoDevice => s \in issued
  /\ \A d \in Devices : redeemed[d] # NoCode => d \in created
  /\ \A r \in Requests : Busy(r) => dev[r] \in created

\* A redeemed code stays marked with the device that redeemed it.
Spent ==
  \A d \in Devices : redeemed[d] # NoCode =>
    redeemed[d] \in minted /\ usedBy[redeemed[d]] = d

\* A device ID is private to its pairing until the pairing answers.
Private ==
  \A r \in Requests : Pairing(r) =>
    /\ \A s \in delivered : issuedTo[s] # dev[r]
    /\ \A q \in Requests \ {r} : Busy(q) => dev[q] # dev[r]

Paired(d) == redeemed[d] # NoCode /\ name[d] = redeemed[d]

\* How far each handler has got.
Progress ==
  \A r \in Requests :
    /\ pc[r] = "auth" => cert[r] \in delivered /\ op[r] # "pair"
    /\ pc[r] \in {"create", "redeem", "rename", "rollback"} => op[r] = "pair"
    /\ pc[r] \in {"exists", "revoke"} => op[r] = "unpair"
    /\ pc[r] \in {"decode", "issue", "record"} => op[r] # "unpair"
    /\ pc[r] = "supersede" => op[r] = "renew"
    /\ pc[r] = "redeem" => redeemed[dev[r]] = NoCode
    /\ pc[r] = "rename" => redeemed[dev[r]] = code[r] /\ code[r] # NoCode
    /\ Busy(r) /\ pc[r] \in {"issue", "record", "supersede"} => Paired(dev[r])
    /\ Busy(r) /\ op[r] # "pair" => Paired(dev[r])
    /\ pc[r] \in {"record", "supersede", "respond"} /\ op[r] # "unpair" =>
         new[r] \in issued /\ issuedTo[new[r]] = dev[r]
    /\ pc[r] \in {"supersede", "respond"} /\ op[r] # "unpair" =>
         owner[new[r]] = dev[r]

\* A device RevokeDevice has answered for is revoked while its row exists.
Withdrawn == \A d \in withdrawn : d \in rows => d \in revoked

\* What a handler's audit entry says has happened, has happened.
Trail ==
  /\ \A e \in audit : pc[e.req] \in {"done", "dead"}
  /\ \A r \in Requests :
       /\ pc[r] \notin {"rollback", "audit", "done", "dead"} =>
            outcome[r] = "success"
       /\ subject[r] # NoDevice =>
            /\ pc[r] \in {"audit", "done", "dead"}
            /\ outcome[r] = "success"
            /\ \E s \in delivered : owner[s] = subject[r]
       /\ pc[r] = "respond" /\ op[r] = "unpair" => dev[r] \in withdrawn
       /\ pc[r] = "audit" /\ outcome[r] = "success" =>
            /\ op[r] = "renew" => /\ new[r] \in delivered
                                  /\ owner[new[r]] = dev[r]
            /\ op[r] = "unpair" => dev[r] \in withdrawn

IInv ==
  /\ TypeOK /\ Drawn /\ Spent /\ Private /\ Progress
  /\ CredentialIsPaired /\ NeverStranded /\ Withdrawn
  /\ OrphansExplained /\ Trail /\ AuditTruthful

-----------------------------------------------------------------------------
(* Type correctness *)

USE NullsAssumption, NoSerialAssumption, TTLAssumption, ClockAssumption
USE DEF storeVars, codeVars, deviceVars, certVars, reqVars, histVars,
        frameReq, frameHist

\* The initial store and the idle handlers are well typed.
LEMMA TypeInit == Init => TypeOK
  BY DEF Init, StoreInit, TypeOK, StoreTypeOK, Ops, Forms, Outcomes, Labels

\* Where a handler acts on its device or on its new certificate, it has one.
LEMMA HandlerHasDevice ==
  ASSUME IInv, NEW r \in Requests
  PROVE  /\ Busy(r) => dev[r] \in Devices
         /\ pc[r] = "rollback" => dev[r] \in Devices
         /\ pc[r] \in {"exists", "revoke"} => dev[r] \in Devices
         /\ pc[r] = "respond" => dev[r] \in Devices
         /\ pc[r] = "respond" /\ op[r] # "unpair" => new[r] \in Serials
  BY DEF IInv, TypeOK, Drawn, Progress, Busy, Pairing

\* Every step of a handler keeps every column of the store and every handler
\* variable within its type.
LEMMA TypeStep ==
  ASSUME IInv, NEW r \in Requests, Step(r)
  PROVE  TypeOK'
<1> TypeOK
  BY DEF IInv
<1> USE DEF TypeOK, StoreTypeOK, Labels, Outcomes, Goto, Fail, Call
<1>1. CASE requireDevice(r)
  BY <1>1 DEF requireDevice, FirstStep, AuthenticatesAs
<1>2. CASE Decode(r)
  BY <1>2 DEF Decode
<1>3. CASE PairCreate(r)
  BY <1>3 DEF PairCreate, CreateDevice
<1>4. CASE PairRedeem(r)
  BY <1>4 DEF PairRedeem, RedeemPairingCode, Redeemable
<1>5. CASE PairRename(r)
  BY <1>5 DEF PairRename, RenameDevice
<1>6. CASE IssueDeviceCert(r)
  BY <1>6 DEF IssueDeviceCert, AfterError
<1>7. CASE Record(r)
  BY <1>7 DEF Record, RecordDeviceCert, AfterError
<1>8. CASE Supersede(r)
  BY <1>8 DEF Supersede, SupersedePriorCerts
<1>9. CASE Rollback(r)
  BY <1>9, HandlerHasDevice DEF Rollback, DeleteDevice
<1>10. CASE UnpairExists(r)
  BY <1>10 DEF UnpairExists
<1>11. CASE UnpairRevoke(r)
  BY <1>11, HandlerHasDevice DEF UnpairRevoke, RevokeUpdate
<1>12. CASE Respond(r)
  BY <1>12, HandlerHasDevice DEF Respond
<1>13. CASE recordAudit(r)
  BY <1>13 DEF recordAudit
<1>14. QED
  BY <1>1, <1>2, <1>3, <1>4, <1>5, <1>6, <1>7, <1>8, <1>9, <1>10, <1>11, <1>12, <1>13 DEF Step

\* So does every arriving request, every CLI and pruner statement, the clock
\* and a crash.
LEMMA TypeNext ==
  ASSUME IInv, [Next]_vars
  PROVE  TypeOK'
<1> TypeOK
  BY DEF IInv
<1> USE DEF TypeOK, StoreTypeOK, Labels
<1>1. ASSUME NEW r \in Requests, Step(r)
      PROVE  TypeOK'
  BY <1>1, TypeStep
<1>2. ASSUME NEW r \in Requests, Arrive(r)
      PROVE  TypeOK'
  BY <1>2 DEF Arrive, PairArrives, GuardedArrives, Ops, Forms
<1>3. CASE Cli
  <2>1. ASSUME NEW c \in Codes, NEW ttl \in TTLs, CliPairCode(c, ttl)
        PROVE  TypeOK'
    BY <2>1 DEF CliPairCode, MintPairingCode
  <2>2. ASSUME NEW d \in Devices, CliRevokeExists(d)
        PROVE  TypeOK'
    BY <2>2 DEF CliRevokeExists
  <2>3. ASSUME NEW d \in Devices, CliRevokeUpdate(d)
        PROVE  TypeOK'
    BY <2>3 DEF CliRevokeUpdate, RevokeUpdate
  <2>4. QED
    BY <1>3, <2>1, <2>2, <2>3 DEF Cli
<1>4. ASSUME NEW now \in 0..clock, Prune(now)
      PROVE  TypeOK'
  BY <1>4 DEF Prune, PrunePairingCodes
<1>5. CASE Tick
  BY <1>5 DEF Tick
<1>6. CASE Crash
  <2>1. \A q \in Requests : Pairing(q) => dev[q] \in Devices
    BY HandlerHasDevice DEF Busy
  <2>2. QED
    BY <1>6, <2>1 DEF Crash
<1>7. CASE UNCHANGED vars
  BY <1>7 DEF vars
<1>8. QED
  BY <1>1, <1>2, <1>3, <1>4, <1>5, <1>6, <1>7 DEF Next

-----------------------------------------------------------------------------
(* Induction *)

\* No handler step breaks Drawn: random values stay accounted for.
LEMMA DrawnStep ==
  ASSUME IInv, NEW r \in Requests, Step(r)
  PROVE  Drawn'
<1> USE DEF IInv, TypeOK, StoreTypeOK, Drawn, Busy, Pairing, Progress
<1>1. CASE requireDevice(r)
  BY <1>1 DEF requireDevice, FirstStep, AuthenticatesAs, Goto
<1>2. CASE Decode(r)
  BY <1>2 DEF Decode, Goto, Fail
<1>3. CASE PairCreate(r)
  BY <1>3 DEF PairCreate, CreateDevice, Goto, Fail
<1>4. CASE PairRedeem(r)
  BY <1>4 DEF PairRedeem, RedeemPairingCode, Redeemable, Call, Goto, Fail
<1>5. CASE PairRename(r)
  BY <1>5 DEF PairRename, RenameDevice, Call, Goto, Fail
<1>6. CASE IssueDeviceCert(r)
  BY <1>6 DEF IssueDeviceCert, AfterError, Goto, Fail
<1>7. CASE Record(r)
  BY <1>7 DEF Record, RecordDeviceCert, AfterError, Call, Goto, Fail
<1>8. CASE Supersede(r)
  BY <1>8 DEF Supersede, SupersedePriorCerts, Call, Goto, Fail
<1>9. CASE Rollback(r)
  BY <1>9 DEF Rollback, DeleteDevice, Goto
<1>10. CASE UnpairExists(r)
  BY <1>10 DEF UnpairExists, RevokeExists, Goto, Fail
<1>11. CASE UnpairRevoke(r)
  BY <1>11 DEF UnpairRevoke, RevokeUpdate, Goto, Fail
<1>12. CASE Respond(r)
  BY <1>12 DEF Respond, Goto
<1>13. CASE recordAudit(r)
  BY <1>13 DEF recordAudit, Goto
<1>14. QED
  BY <1>1, <1>2, <1>3, <1>4, <1>5, <1>6, <1>7, <1>8, <1>9, <1>10, <1>11, <1>12, <1>13 DEF Step

\* Nor does an arrival, the CLI, the pruner, the clock or a crash.
LEMMA DrawnNext ==
  ASSUME IInv, [Next]_vars
  PROVE  Drawn'
<1> USE DEF IInv, TypeOK, StoreTypeOK, Drawn, Busy, Pairing, Progress
<1>1. ASSUME NEW r \in Requests, Step(r)
      PROVE  Drawn'
  BY <1>1, DrawnStep
<1>2. ASSUME NEW r \in Requests, Arrive(r)
      PROVE  Drawn'
  BY <1>2 DEF Arrive, PairArrives, GuardedArrives
<1>3. ASSUME NEW c \in Codes, NEW ttl \in TTLs, CliPairCode(c, ttl)
      PROVE  Drawn'
  BY <1>3 DEF CliPairCode, MintPairingCode
<1>4. ASSUME NEW d \in Devices, CliRevokeExists(d) \/ CliRevokeUpdate(d)
      PROVE  Drawn'
  BY <1>4 DEF CliRevokeExists, CliRevokeUpdate, RevokeExists, RevokeUpdate
<1>5. ASSUME NEW now \in 0..clock, Prune(now)
      PROVE  Drawn'
  BY <1>5 DEF Prune, PrunePairingCodes
<1>6. CASE Tick
  BY <1>6 DEF Tick
<1>7. CASE Crash
  BY <1>7 DEF Crash, InFlight
<1>8. CASE UNCHANGED vars
  BY <1>8 DEF vars
<1>9. QED
  BY <1>1, <1>2, <1>3, <1>4, <1>5, <1>6, <1>7, <1>8 DEF Next, Cli

\* No handler step breaks Spent: a redeemed code keeps its used_by mark.
LEMMA SpentStep ==
  ASSUME IInv, NEW r \in Requests, Step(r)
  PROVE  Spent'
<1> USE DEF IInv, TypeOK, StoreTypeOK, Spent, Drawn, Busy, Pairing, Progress
<1>1. CASE requireDevice(r)
  BY <1>1 DEF requireDevice, FirstStep, AuthenticatesAs, Goto
<1>2. CASE Decode(r)
  BY <1>2 DEF Decode, Goto, Fail
<1>3. CASE PairCreate(r)
  BY <1>3 DEF PairCreate, CreateDevice, Goto, Fail
<1>4. CASE PairRedeem(r)
  BY <1>4 DEF PairRedeem, RedeemPairingCode, Redeemable, Call, Goto, Fail
<1>5. CASE PairRename(r)
  BY <1>5 DEF PairRename, RenameDevice, Call, Goto, Fail
<1>6. CASE IssueDeviceCert(r)
  BY <1>6 DEF IssueDeviceCert, AfterError, Goto, Fail
<1>7. CASE Record(r)
  BY <1>7 DEF Record, RecordDeviceCert, AfterError, Call, Goto, Fail
<1>8. CASE Supersede(r)
  BY <1>8 DEF Supersede, SupersedePriorCerts, Call, Goto, Fail
<1>9. CASE Rollback(r)
  BY <1>9 DEF Rollback, DeleteDevice, Goto
<1>10. CASE UnpairExists(r)
  BY <1>10 DEF UnpairExists, RevokeExists, Goto, Fail
<1>11. CASE UnpairRevoke(r)
  BY <1>11 DEF UnpairRevoke, RevokeUpdate, Goto, Fail
<1>12. CASE Respond(r)
  BY <1>12 DEF Respond, Goto
<1>13. CASE recordAudit(r)
  BY <1>13 DEF recordAudit, Goto
<1>14. QED
  BY <1>1, <1>2, <1>3, <1>4, <1>5, <1>6, <1>7, <1>8, <1>9, <1>10, <1>11, <1>12, <1>13 DEF Step

\* Nor does an arrival, the CLI, the pruner, the clock or a crash.
LEMMA SpentNext ==
  ASSUME IInv, [Next]_vars
  PROVE  Spent'
<1> USE DEF IInv, TypeOK, StoreTypeOK, Spent, Drawn, Busy, Pairing, Progress
<1>1. ASSUME NEW r \in Requests, Step(r)
      PROVE  Spent'
  BY <1>1, SpentStep
<1>2. ASSUME NEW r \in Requests, Arrive(r)
      PROVE  Spent'
  BY <1>2 DEF Arrive, PairArrives, GuardedArrives
<1>3. ASSUME NEW c \in Codes, NEW ttl \in TTLs, CliPairCode(c, ttl)
      PROVE  Spent'
  BY <1>3 DEF CliPairCode, MintPairingCode
<1>4. ASSUME NEW d \in Devices, CliRevokeExists(d) \/ CliRevokeUpdate(d)
      PROVE  Spent'
  BY <1>4 DEF CliRevokeExists, CliRevokeUpdate, RevokeExists, RevokeUpdate
<1>5. ASSUME NEW now \in 0..clock, Prune(now)
      PROVE  Spent'
  BY <1>5 DEF Prune, PrunePairingCodes
<1>6. CASE Tick
  BY <1>6 DEF Tick
<1>7. CASE Crash
  BY <1>7 DEF Crash, InFlight
<1>8. CASE UNCHANGED vars
  BY <1>8 DEF vars
<1>9. QED
  BY <1>1, <1>2, <1>3, <1>4, <1>5, <1>6, <1>7, <1>8 DEF Next, Cli

\* No handler step breaks Private: a device stays private to its pairing until the pairing answers.
LEMMA PrivateStep ==
  ASSUME IInv, NEW r \in Requests, Step(r)
  PROVE  Private'
<1> USE DEF IInv, TypeOK, StoreTypeOK, Private, Drawn, Progress, Busy, Pairing, NeverStranded
<1>1. CASE requireDevice(r)
  BY <1>1 DEF requireDevice, FirstStep, AuthenticatesAs, Goto
<1>2. CASE Decode(r)
  BY <1>2 DEF Decode, Goto, Fail
<1>3. CASE PairCreate(r)
  BY <1>3 DEF PairCreate, CreateDevice, Goto, Fail
<1>4. CASE PairRedeem(r)
  BY <1>4 DEF PairRedeem, RedeemPairingCode, Redeemable, Call, Goto, Fail
<1>5. CASE PairRename(r)
  BY <1>5 DEF PairRename, RenameDevice, Call, Goto, Fail
<1>6. CASE IssueDeviceCert(r)
  BY <1>6 DEF IssueDeviceCert, AfterError, Goto, Fail
<1>7. CASE Record(r)
  BY <1>7 DEF Record, RecordDeviceCert, AfterError, Call, Goto, Fail
<1>8. CASE Supersede(r)
  BY <1>8 DEF Supersede, SupersedePriorCerts, Call, Goto, Fail
<1>9. CASE Rollback(r)
  BY <1>9 DEF Rollback, DeleteDevice, Goto
<1>10. CASE UnpairExists(r)
  BY <1>10 DEF UnpairExists, RevokeExists, Goto, Fail
<1>11. CASE UnpairRevoke(r)
  BY <1>11 DEF UnpairRevoke, RevokeUpdate, Goto, Fail
<1>12. CASE Respond(r)
  BY <1>12 DEF Respond, Goto
<1>13. CASE recordAudit(r)
  BY <1>13 DEF recordAudit, Goto
<1>14. QED
  BY <1>1, <1>2, <1>3, <1>4, <1>5, <1>6, <1>7, <1>8, <1>9, <1>10, <1>11, <1>12, <1>13 DEF Step

\* Nor does an arrival, the CLI, the pruner, the clock or a crash.
LEMMA PrivateNext ==
  ASSUME IInv, [Next]_vars
  PROVE  Private'
<1> USE DEF IInv, TypeOK, StoreTypeOK, Private, Drawn, Progress, Busy, Pairing, NeverStranded
<1>1. ASSUME NEW r \in Requests, Step(r)
      PROVE  Private'
  BY <1>1, PrivateStep
<1>2. ASSUME NEW r \in Requests, Arrive(r)
      PROVE  Private'
  BY <1>2 DEF Arrive, PairArrives, GuardedArrives
<1>3. ASSUME NEW c \in Codes, NEW ttl \in TTLs, CliPairCode(c, ttl)
      PROVE  Private'
  BY <1>3 DEF CliPairCode, MintPairingCode
<1>4. ASSUME NEW d \in Devices, CliRevokeExists(d) \/ CliRevokeUpdate(d)
      PROVE  Private'
  BY <1>4 DEF CliRevokeExists, CliRevokeUpdate, RevokeExists, RevokeUpdate
<1>5. ASSUME NEW now \in 0..clock, Prune(now)
      PROVE  Private'
  BY <1>5 DEF Prune, PrunePairingCodes
<1>6. CASE Tick
  BY <1>6 DEF Tick
<1>7. CASE Crash
  BY <1>7 DEF Crash, InFlight
<1>8. CASE UNCHANGED vars
  BY <1>8 DEF vars
<1>9. QED
  BY <1>1, <1>2, <1>3, <1>4, <1>5, <1>6, <1>7, <1>8 DEF Next, Cli

\* No handler step breaks Progress: the facts each handler relies on at its next store call.
LEMMA ProgressStep ==
  ASSUME IInv, NEW r \in Requests, Step(r)
  PROVE  Progress'
<1> USE DEF IInv, TypeOK, StoreTypeOK, Progress, Drawn, Private, Busy, Pairing, Paired, CredentialIsPaired, NeverStranded, Spent, Ops
<1>1. CASE requireDevice(r)
  BY <1>1 DEF requireDevice, FirstStep, AuthenticatesAs, Goto
<1>2. CASE Decode(r)
  BY <1>2 DEF Decode, Goto, Fail
<1>3. CASE PairCreate(r)
  BY <1>3 DEF PairCreate, CreateDevice, Goto, Fail
<1>4. CASE PairRedeem(r)
  BY <1>4 DEF PairRedeem, RedeemPairingCode, Redeemable, Call, Goto, Fail
<1>5. CASE PairRename(r)
  BY <1>5 DEF PairRename, RenameDevice, Call, Goto, Fail
<1>6. CASE IssueDeviceCert(r)
  BY <1>6 DEF IssueDeviceCert, AfterError, Goto, Fail
<1>7. CASE Record(r)
  BY <1>7 DEF Record, RecordDeviceCert, AfterError, Call, Goto, Fail
<1>8. CASE Supersede(r)
  BY <1>8 DEF Supersede, SupersedePriorCerts, Call, Goto, Fail
<1>9. CASE Rollback(r)
  BY <1>9 DEF Rollback, DeleteDevice, Goto
<1>10. CASE UnpairExists(r)
  BY <1>10 DEF UnpairExists, RevokeExists, Goto, Fail
<1>11. CASE UnpairRevoke(r)
  BY <1>11 DEF UnpairRevoke, RevokeUpdate, Goto, Fail
<1>12. CASE Respond(r)
  BY <1>12 DEF Respond, Goto
<1>13. CASE recordAudit(r)
  BY <1>13 DEF recordAudit, Goto
<1>14. QED
  BY <1>1, <1>2, <1>3, <1>4, <1>5, <1>6, <1>7, <1>8, <1>9, <1>10, <1>11, <1>12, <1>13 DEF Step

\* Nor does an arrival, the CLI, the pruner, the clock or a crash.
LEMMA ProgressNext ==
  ASSUME IInv, [Next]_vars
  PROVE  Progress'
<1> USE DEF IInv, TypeOK, StoreTypeOK, Progress, Drawn, Private, Busy, Pairing, Paired, CredentialIsPaired, NeverStranded, Spent, Ops
<1>1. ASSUME NEW r \in Requests, Step(r)
      PROVE  Progress'
  BY <1>1, ProgressStep
<1>2. ASSUME NEW r \in Requests, Arrive(r)
      PROVE  Progress'
  BY <1>2 DEF Arrive, PairArrives, GuardedArrives
<1>3. ASSUME NEW c \in Codes, NEW ttl \in TTLs, CliPairCode(c, ttl)
      PROVE  Progress'
  BY <1>3 DEF CliPairCode, MintPairingCode
<1>4. ASSUME NEW d \in Devices, CliRevokeExists(d) \/ CliRevokeUpdate(d)
      PROVE  Progress'
  BY <1>4 DEF CliRevokeExists, CliRevokeUpdate, RevokeExists, RevokeUpdate
<1>5. ASSUME NEW now \in 0..clock, Prune(now)
      PROVE  Progress'
  BY <1>5 DEF Prune, PrunePairingCodes
<1>6. CASE Tick
  BY <1>6 DEF Tick
<1>7. CASE Crash
  BY <1>7 DEF Crash, InFlight
<1>8. CASE UNCHANGED vars
  BY <1>8 DEF vars
<1>9. QED
  BY <1>1, <1>2, <1>3, <1>4, <1>5, <1>6, <1>7, <1>8 DEF Next, Cli

\* No handler step breaks CredentialIsPaired: every certificate row belongs to a paired, named device.
LEMMA CredentialIsPairedStep ==
  ASSUME IInv, NEW r \in Requests, Step(r)
  PROVE  CredentialIsPaired'
<1> USE DEF IInv, TypeOK, StoreTypeOK, CredentialIsPaired, Drawn, Spent, Private, Progress, Busy, Pairing, Paired
<1>1. CASE requireDevice(r)
  BY <1>1 DEF requireDevice, FirstStep, AuthenticatesAs, Goto
<1>2. CASE Decode(r)
  BY <1>2 DEF Decode, Goto, Fail
<1>3. CASE PairCreate(r)
  BY <1>3 DEF PairCreate, CreateDevice, Goto, Fail
<1>4. CASE PairRedeem(r)
  BY <1>4 DEF PairRedeem, RedeemPairingCode, Redeemable, Call, Goto, Fail
<1>5. CASE PairRename(r)
  BY <1>5 DEF PairRename, RenameDevice, Call, Goto, Fail
<1>6. CASE IssueDeviceCert(r)
  BY <1>6 DEF IssueDeviceCert, AfterError, Goto, Fail
<1>7. CASE Record(r)
  BY <1>7 DEF Record, RecordDeviceCert, AfterError, Call, Goto, Fail
<1>8. CASE Supersede(r)
  BY <1>8 DEF Supersede, SupersedePriorCerts, Call, Goto, Fail
<1>9. CASE Rollback(r)
  BY <1>9 DEF Rollback, DeleteDevice, Goto
<1>10. CASE UnpairExists(r)
  BY <1>10 DEF UnpairExists, RevokeExists, Goto, Fail
<1>11. CASE UnpairRevoke(r)
  BY <1>11 DEF UnpairRevoke, RevokeUpdate, Goto, Fail
<1>12. CASE Respond(r)
  BY <1>12 DEF Respond, Goto
<1>13. CASE recordAudit(r)
  BY <1>13 DEF recordAudit, Goto
<1>14. QED
  BY <1>1, <1>2, <1>3, <1>4, <1>5, <1>6, <1>7, <1>8, <1>9, <1>10, <1>11, <1>12, <1>13 DEF Step

\* Nor does an arrival, the CLI, the pruner, the clock or a crash.
LEMMA CredentialIsPairedNext ==
  ASSUME IInv, [Next]_vars
  PROVE  CredentialIsPaired'
<1> USE DEF IInv, TypeOK, StoreTypeOK, CredentialIsPaired, Drawn, Spent, Private, Progress, Busy, Pairing, Paired
<1>1. ASSUME NEW r \in Requests, Step(r)
      PROVE  CredentialIsPaired'
  BY <1>1, CredentialIsPairedStep
<1>2. ASSUME NEW r \in Requests, Arrive(r)
      PROVE  CredentialIsPaired'
  BY <1>2 DEF Arrive, PairArrives, GuardedArrives
<1>3. ASSUME NEW c \in Codes, NEW ttl \in TTLs, CliPairCode(c, ttl)
      PROVE  CredentialIsPaired'
  BY <1>3 DEF CliPairCode, MintPairingCode
<1>4. ASSUME NEW d \in Devices, CliRevokeExists(d) \/ CliRevokeUpdate(d)
      PROVE  CredentialIsPaired'
  BY <1>4 DEF CliRevokeExists, CliRevokeUpdate, RevokeExists, RevokeUpdate
<1>5. ASSUME NEW now \in 0..clock, Prune(now)
      PROVE  CredentialIsPaired'
  BY <1>5 DEF Prune, PrunePairingCodes
<1>6. CASE Tick
  BY <1>6 DEF Tick
<1>7. CASE Crash
  BY <1>7 DEF Crash, InFlight
<1>8. CASE UNCHANGED vars
  BY <1>8 DEF vars
<1>9. QED
  BY <1>1, <1>2, <1>3, <1>4, <1>5, <1>6, <1>7, <1>8 DEF Next, Cli

\* No handler step breaks NeverStranded: certificates clients hold stay on record.
LEMMA NeverStrandedStep ==
  ASSUME IInv, NEW r \in Requests, Step(r)
  PROVE  NeverStranded'
<1> USE DEF IInv, TypeOK, StoreTypeOK, NeverStranded, Drawn, Private, Progress, Busy, Pairing, CredentialIsPaired
<1>1. CASE requireDevice(r)
  BY <1>1 DEF requireDevice, FirstStep, AuthenticatesAs, Goto
<1>2. CASE Decode(r)
  BY <1>2 DEF Decode, Goto, Fail
<1>3. CASE PairCreate(r)
  BY <1>3 DEF PairCreate, CreateDevice, Goto, Fail
<1>4. CASE PairRedeem(r)
  BY <1>4 DEF PairRedeem, RedeemPairingCode, Redeemable, Call, Goto, Fail
<1>5. CASE PairRename(r)
  BY <1>5 DEF PairRename, RenameDevice, Call, Goto, Fail
<1>6. CASE IssueDeviceCert(r)
  BY <1>6 DEF IssueDeviceCert, AfterError, Goto, Fail
<1>7. CASE Record(r)
  BY <1>7 DEF Record, RecordDeviceCert, AfterError, Call, Goto, Fail
<1>8. CASE Supersede(r)
  BY <1>8 DEF Supersede, SupersedePriorCerts, Call, Goto, Fail
<1>9. CASE Rollback(r)
  BY <1>9 DEF Rollback, DeleteDevice, Goto
<1>10. CASE UnpairExists(r)
  BY <1>10 DEF UnpairExists, RevokeExists, Goto, Fail
<1>11. CASE UnpairRevoke(r)
  BY <1>11 DEF UnpairRevoke, RevokeUpdate, Goto, Fail
<1>12. CASE Respond(r)
  BY <1>12 DEF Respond, Goto
<1>13. CASE recordAudit(r)
  BY <1>13 DEF recordAudit, Goto
<1>14. QED
  BY <1>1, <1>2, <1>3, <1>4, <1>5, <1>6, <1>7, <1>8, <1>9, <1>10, <1>11, <1>12, <1>13 DEF Step

\* Nor does an arrival, the CLI, the pruner, the clock or a crash.
LEMMA NeverStrandedNext ==
  ASSUME IInv, [Next]_vars
  PROVE  NeverStranded'
<1> USE DEF IInv, TypeOK, StoreTypeOK, NeverStranded, Drawn, Private, Progress, Busy, Pairing, CredentialIsPaired
<1>1. ASSUME NEW r \in Requests, Step(r)
      PROVE  NeverStranded'
  BY <1>1, NeverStrandedStep
<1>2. ASSUME NEW r \in Requests, Arrive(r)
      PROVE  NeverStranded'
  BY <1>2 DEF Arrive, PairArrives, GuardedArrives
<1>3. ASSUME NEW c \in Codes, NEW ttl \in TTLs, CliPairCode(c, ttl)
      PROVE  NeverStranded'
  BY <1>3 DEF CliPairCode, MintPairingCode
<1>4. ASSUME NEW d \in Devices, CliRevokeExists(d) \/ CliRevokeUpdate(d)
      PROVE  NeverStranded'
  BY <1>4 DEF CliRevokeExists, CliRevokeUpdate, RevokeExists, RevokeUpdate
<1>5. ASSUME NEW now \in 0..clock, Prune(now)
      PROVE  NeverStranded'
  BY <1>5 DEF Prune, PrunePairingCodes
<1>6. CASE Tick
  BY <1>6 DEF Tick
<1>7. CASE Crash
  BY <1>7 DEF Crash, InFlight
<1>8. CASE UNCHANGED vars
  BY <1>8 DEF vars
<1>9. QED
  BY <1>1, <1>2, <1>3, <1>4, <1>5, <1>6, <1>7, <1>8 DEF Next, Cli

\* No handler step breaks Withdrawn: revocation is never undone.
LEMMA WithdrawnStep ==
  ASSUME IInv, NEW r \in Requests, Step(r)
  PROVE  Withdrawn'
<1> USE DEF IInv, TypeOK, StoreTypeOK, Withdrawn, Drawn, Progress, Busy, Pairing
<1>1. CASE requireDevice(r)
  BY <1>1 DEF requireDevice, FirstStep, AuthenticatesAs, Goto
<1>2. CASE Decode(r)
  BY <1>2 DEF Decode, Goto, Fail
<1>3. CASE PairCreate(r)
  BY <1>3 DEF PairCreate, CreateDevice, Goto, Fail
<1>4. CASE PairRedeem(r)
  BY <1>4 DEF PairRedeem, RedeemPairingCode, Redeemable, Call, Goto, Fail
<1>5. CASE PairRename(r)
  BY <1>5 DEF PairRename, RenameDevice, Call, Goto, Fail
<1>6. CASE IssueDeviceCert(r)
  BY <1>6 DEF IssueDeviceCert, AfterError, Goto, Fail
<1>7. CASE Record(r)
  BY <1>7 DEF Record, RecordDeviceCert, AfterError, Call, Goto, Fail
<1>8. CASE Supersede(r)
  BY <1>8 DEF Supersede, SupersedePriorCerts, Call, Goto, Fail
<1>9. CASE Rollback(r)
  BY <1>9 DEF Rollback, DeleteDevice, Goto
<1>10. CASE UnpairExists(r)
  BY <1>10 DEF UnpairExists, RevokeExists, Goto, Fail
<1>11. CASE UnpairRevoke(r)
  BY <1>11 DEF UnpairRevoke, RevokeUpdate, Goto, Fail
<1>12. CASE Respond(r)
  BY <1>12 DEF Respond, Goto
<1>13. CASE recordAudit(r)
  BY <1>13 DEF recordAudit, Goto
<1>14. QED
  BY <1>1, <1>2, <1>3, <1>4, <1>5, <1>6, <1>7, <1>8, <1>9, <1>10, <1>11, <1>12, <1>13 DEF Step

\* Nor does an arrival, the CLI, the pruner, the clock or a crash.
LEMMA WithdrawnNext ==
  ASSUME IInv, [Next]_vars
  PROVE  Withdrawn'
<1> USE DEF IInv, TypeOK, StoreTypeOK, Withdrawn, Drawn, Progress, Busy, Pairing
<1>1. ASSUME NEW r \in Requests, Step(r)
      PROVE  Withdrawn'
  BY <1>1, WithdrawnStep
<1>2. ASSUME NEW r \in Requests, Arrive(r)
      PROVE  Withdrawn'
  BY <1>2 DEF Arrive, PairArrives, GuardedArrives
<1>3. ASSUME NEW c \in Codes, NEW ttl \in TTLs, CliPairCode(c, ttl)
      PROVE  Withdrawn'
  BY <1>3 DEF CliPairCode, MintPairingCode
<1>4. ASSUME NEW d \in Devices, CliRevokeExists(d) \/ CliRevokeUpdate(d)
      PROVE  Withdrawn'
  BY <1>4 DEF CliRevokeExists, CliRevokeUpdate, RevokeExists, RevokeUpdate
<1>5. ASSUME NEW now \in 0..clock, Prune(now)
      PROVE  Withdrawn'
  BY <1>5 DEF Prune, PrunePairingCodes
<1>6. CASE Tick
  BY <1>6 DEF Tick
<1>7. CASE Crash
  BY <1>7 DEF Crash, InFlight
<1>8. CASE UNCHANGED vars
  BY <1>8 DEF vars
<1>9. QED
  BY <1>1, <1>2, <1>3, <1>4, <1>5, <1>6, <1>7, <1>8 DEF Next, Cli

\* No handler step breaks OrphansExplained: certless rows belong to a running pairing or are excused.
LEMMA OrphansExplainedStep ==
  ASSUME IInv, NEW r \in Requests, Step(r)
  PROVE  OrphansExplained'
<1> USE DEF IInv, TypeOK, StoreTypeOK, OrphansExplained, Drawn, Progress, Busy, Pairing
<1>1. CASE requireDevice(r)
  BY <1>1 DEF requireDevice, FirstStep, AuthenticatesAs, Goto
<1>2. CASE Decode(r)
  BY <1>2 DEF Decode, Goto, Fail
<1>3. CASE PairCreate(r)
  BY <1>3 DEF PairCreate, CreateDevice, Goto, Fail
<1>4. CASE PairRedeem(r)
  BY <1>4 DEF PairRedeem, RedeemPairingCode, Redeemable, Call, Goto, Fail
<1>5. CASE PairRename(r)
  BY <1>5 DEF PairRename, RenameDevice, Call, Goto, Fail
<1>6. CASE IssueDeviceCert(r)
  BY <1>6 DEF IssueDeviceCert, AfterError, Goto, Fail
<1>7. CASE Record(r)
  BY <1>7 DEF Record, RecordDeviceCert, AfterError, Call, Goto, Fail
<1>8. CASE Supersede(r)
  BY <1>8 DEF Supersede, SupersedePriorCerts, Call, Goto, Fail
<1>9. CASE Rollback(r)
  BY <1>9 DEF Rollback, DeleteDevice, Goto
<1>10. CASE UnpairExists(r)
  BY <1>10 DEF UnpairExists, RevokeExists, Goto, Fail
<1>11. CASE UnpairRevoke(r)
  BY <1>11 DEF UnpairRevoke, RevokeUpdate, Goto, Fail
<1>12. CASE Respond(r)
  BY <1>12 DEF Respond, Goto
<1>13. CASE recordAudit(r)
  BY <1>13 DEF recordAudit, Goto
<1>14. QED
  BY <1>1, <1>2, <1>3, <1>4, <1>5, <1>6, <1>7, <1>8, <1>9, <1>10, <1>11, <1>12, <1>13 DEF Step

\* Nor does an arrival, the CLI, the pruner, the clock or a crash.
LEMMA OrphansExplainedNext ==
  ASSUME IInv, [Next]_vars
  PROVE  OrphansExplained'
<1> USE DEF IInv, TypeOK, StoreTypeOK, OrphansExplained, Drawn, Progress, Busy, Pairing
<1>1. ASSUME NEW r \in Requests, Step(r)
      PROVE  OrphansExplained'
  BY <1>1, OrphansExplainedStep
<1>2. ASSUME NEW r \in Requests, Arrive(r)
      PROVE  OrphansExplained'
  BY <1>2 DEF Arrive, PairArrives, GuardedArrives
<1>3. ASSUME NEW c \in Codes, NEW ttl \in TTLs, CliPairCode(c, ttl)
      PROVE  OrphansExplained'
  BY <1>3 DEF CliPairCode, MintPairingCode
<1>4. ASSUME NEW d \in Devices, CliRevokeExists(d) \/ CliRevokeUpdate(d)
      PROVE  OrphansExplained'
  BY <1>4 DEF CliRevokeExists, CliRevokeUpdate, RevokeExists, RevokeUpdate
<1>5. ASSUME NEW now \in 0..clock, Prune(now)
      PROVE  OrphansExplained'
  BY <1>5 DEF Prune, PrunePairingCodes
<1>6. CASE Tick
  BY <1>6 DEF Tick
<1>7. CASE Crash
  BY <1>7 DEF Crash, InFlight
<1>8. CASE UNCHANGED vars
  BY <1>8 DEF vars
<1>9. QED
  BY <1>1, <1>2, <1>3, <1>4, <1>5, <1>6, <1>7, <1>8 DEF Next, Cli

\* No handler step breaks Trail: audit entries only claim what has happened.
LEMMA TrailStep ==
  ASSUME IInv, NEW r \in Requests, Step(r)
  PROVE  Trail'
<1> USE DEF IInv, TypeOK, StoreTypeOK, Trail, Drawn, Private, Progress, NeverStranded, Busy, Pairing, Ops, Outcomes
<1>1. CASE requireDevice(r)
  BY <1>1 DEF requireDevice, FirstStep, AuthenticatesAs, Goto
<1>2. CASE Decode(r)
  BY <1>2 DEF Decode, Goto, Fail
<1>3. CASE PairCreate(r)
  BY <1>3 DEF PairCreate, CreateDevice, Goto, Fail
<1>4. CASE PairRedeem(r)
  BY <1>4 DEF PairRedeem, RedeemPairingCode, Redeemable, Call, Goto, Fail
<1>5. CASE PairRename(r)
  BY <1>5 DEF PairRename, RenameDevice, Call, Goto, Fail
<1>6. CASE IssueDeviceCert(r)
  BY <1>6 DEF IssueDeviceCert, AfterError, Goto, Fail
<1>7. CASE Record(r)
  BY <1>7 DEF Record, RecordDeviceCert, AfterError, Call, Goto, Fail
<1>8. CASE Supersede(r)
  BY <1>8 DEF Supersede, SupersedePriorCerts, Call, Goto, Fail
<1>9. CASE Rollback(r)
  BY <1>9 DEF Rollback, DeleteDevice, Goto
<1>10. CASE UnpairExists(r)
  BY <1>10 DEF UnpairExists, RevokeExists, Goto, Fail
<1>11. CASE UnpairRevoke(r)
  BY <1>11 DEF UnpairRevoke, RevokeUpdate, Goto, Fail
<1>12. CASE Respond(r)
  BY <1>12 DEF Respond, Goto
<1>13. CASE recordAudit(r)
  BY <1>13 DEF recordAudit, Goto
<1>14. QED
  BY <1>1, <1>2, <1>3, <1>4, <1>5, <1>6, <1>7, <1>8, <1>9, <1>10, <1>11, <1>12, <1>13 DEF Step

\* Nor does an arrival, the CLI, the pruner, the clock or a crash.
LEMMA TrailNext ==
  ASSUME IInv, [Next]_vars
  PROVE  Trail'
<1> USE DEF IInv, TypeOK, StoreTypeOK, Trail, Drawn, Private, Progress, NeverStranded, Busy, Pairing, Ops, Outcomes
<1>1. ASSUME NEW r \in Requests, Step(r)
      PROVE  Trail'
  BY <1>1, TrailStep
<1>2. ASSUME NEW r \in Requests, Arrive(r)
      PROVE  Trail'
  BY <1>2 DEF Arrive, PairArrives, GuardedArrives
<1>3. ASSUME NEW c \in Codes, NEW ttl \in TTLs, CliPairCode(c, ttl)
      PROVE  Trail'
  BY <1>3 DEF CliPairCode, MintPairingCode
<1>4. ASSUME NEW d \in Devices, CliRevokeExists(d) \/ CliRevokeUpdate(d)
      PROVE  Trail'
  BY <1>4 DEF CliRevokeExists, CliRevokeUpdate, RevokeExists, RevokeUpdate
<1>5. ASSUME NEW now \in 0..clock, Prune(now)
      PROVE  Trail'
  BY <1>5 DEF Prune, PrunePairingCodes
<1>6. CASE Tick
  BY <1>6 DEF Tick
<1>7. CASE Crash
  BY <1>7 DEF Crash, InFlight
<1>8. CASE UNCHANGED vars
  BY <1>8 DEF vars
<1>9. QED
  BY <1>1, <1>2, <1>3, <1>4, <1>5, <1>6, <1>7, <1>8 DEF Next, Cli

\* No handler step breaks AuditTruthful: audit rows stay true.
LEMMA AuditTruthfulStep ==
  ASSUME IInv, NEW r \in Requests, Step(r)
  PROVE  AuditTruthful'
<1> USE DEF IInv, TypeOK, StoreTypeOK, AuditTruthful, Trail, Drawn, Private, Progress, NeverStranded, Busy, Pairing, Ops, Outcomes
<1>1. CASE requireDevice(r)
  BY <1>1 DEF requireDevice, FirstStep, AuthenticatesAs, Goto
<1>2. CASE Decode(r)
  BY <1>2 DEF Decode, Goto, Fail
<1>3. CASE PairCreate(r)
  BY <1>3 DEF PairCreate, CreateDevice, Goto, Fail
<1>4. CASE PairRedeem(r)
  BY <1>4 DEF PairRedeem, RedeemPairingCode, Redeemable, Call, Goto, Fail
<1>5. CASE PairRename(r)
  BY <1>5 DEF PairRename, RenameDevice, Call, Goto, Fail
<1>6. CASE IssueDeviceCert(r)
  BY <1>6 DEF IssueDeviceCert, AfterError, Goto, Fail
<1>7. CASE Record(r)
  BY <1>7 DEF Record, RecordDeviceCert, AfterError, Call, Goto, Fail
<1>8. CASE Supersede(r)
  BY <1>8 DEF Supersede, SupersedePriorCerts, Call, Goto, Fail
<1>9. CASE Rollback(r)
  BY <1>9 DEF Rollback, DeleteDevice, Goto
<1>10. CASE UnpairExists(r)
  BY <1>10 DEF UnpairExists, RevokeExists, Goto, Fail
<1>11. CASE UnpairRevoke(r)
  BY <1>11 DEF UnpairRevoke, RevokeUpdate, Goto, Fail
<1>12. CASE Respond(r)
  BY <1>12 DEF Respond, Goto
<1>13. CASE recordAudit(r)
  BY <1>13 DEF recordAudit, Goto
<1>14. QED
  BY <1>1, <1>2, <1>3, <1>4, <1>5, <1>6, <1>7, <1>8, <1>9, <1>10, <1>11, <1>12, <1>13 DEF Step

\* Nor does an arrival, the CLI, the pruner, the clock or a crash.
LEMMA AuditTruthfulNext ==
  ASSUME IInv, [Next]_vars
  PROVE  AuditTruthful'
<1> USE DEF IInv, TypeOK, StoreTypeOK, AuditTruthful, Trail, Drawn, Private, Progress, NeverStranded, Busy, Pairing, Ops, Outcomes
<1>1. ASSUME NEW r \in Requests, Step(r)
      PROVE  AuditTruthful'
  BY <1>1, AuditTruthfulStep
<1>2. ASSUME NEW r \in Requests, Arrive(r)
      PROVE  AuditTruthful'
  BY <1>2 DEF Arrive, PairArrives, GuardedArrives
<1>3. ASSUME NEW c \in Codes, NEW ttl \in TTLs, CliPairCode(c, ttl)
      PROVE  AuditTruthful'
  BY <1>3 DEF CliPairCode, MintPairingCode
<1>4. ASSUME NEW d \in Devices, CliRevokeExists(d) \/ CliRevokeUpdate(d)
      PROVE  AuditTruthful'
  BY <1>4 DEF CliRevokeExists, CliRevokeUpdate, RevokeExists, RevokeUpdate
<1>5. ASSUME NEW now \in 0..clock, Prune(now)
      PROVE  AuditTruthful'
  BY <1>5 DEF Prune, PrunePairingCodes
<1>6. CASE Tick
  BY <1>6 DEF Tick
<1>7. CASE Crash
  BY <1>7 DEF Crash, InFlight
<1>8. CASE UNCHANGED vars
  BY <1>8 DEF vars
<1>9. QED
  BY <1>1, <1>2, <1>3, <1>4, <1>5, <1>6, <1>7, <1>8 DEF Next, Cli

-----------------------------------------------------------------------------
(* The theorems *)

\* The empty store of a first run satisfies the inductive invariant.
LEMMA InitInv == Init => IInv
<1> SUFFICES ASSUME Init PROVE IInv
  OBVIOUS
<1>1. TypeOK
  BY TypeInit
<1>2. Drawn /\ Spent /\ Private /\ Progress
  BY DEF Init, StoreInit, Drawn, Spent, Private, Progress, Busy, Pairing
<1>3. CredentialIsPaired /\ NeverStranded /\ Withdrawn
  BY DEF Init, StoreInit, CredentialIsPaired, NeverStranded, Withdrawn
<1>4. OrphansExplained /\ Trail /\ AuditTruthful
  BY DEF Init, StoreInit, OrphansExplained, Trail, AuditTruthful
<1>5. QED
  BY <1>1, <1>2, <1>3, <1>4 DEF IInv

\* The inductive invariant holds in every reachable state.
THEOREM Invariance == Spec => []IInv
<1>1. IInv /\ [Next]_vars => IInv'
  BY TypeNext, DrawnNext, SpentNext, PrivateNext, ProgressNext,
     CredentialIsPairedNext, NeverStrandedNext, WithdrawnNext,
     OrphansExplainedNext, TrailNext, AuditTruthfulNext DEF IInv
<1>2. QED
  BY InitInv, <1>1, PTL DEF Spec

\* Every column of the store and every handler variable keeps its type.
THEOREM TypeCorrect == Spec => []TypeOK
<1>1. IInv => TypeOK
  BY DEF IInv
<1>2. QED
  BY Invariance, <1>1, PTL

\* No interleaving of pairings, rollbacks, prunes and crashes lets two devices
\* redeem one pairing code.
THEOREM CodesAreSingleUse == Spec => []SingleUse
<1>1. IInv => SingleUse
  BY DEF IInv, TypeOK, Spent, SingleUse
<1>2. QED
  BY Invariance, <1>1, PTL

\* Every certificate on record belongs to a device that exists, redeemed a
\* code and carries the name minted with it.
THEOREM CredentialsArePaired == Spec => []CredentialIsPaired
<1>1. IInv => CredentialIsPaired
  BY DEF IInv
<1>2. QED
  BY Invariance, <1>1, PTL

\* No rollback, renewal or crash takes a client's certificate off record.
THEOREM ClientsAreNeverStranded == Spec => []NeverStranded
<1>1. IInv => NeverStranded
  BY DEF IInv
<1>2. QED
  BY Invariance, <1>1, PTL

\* A revocation that was reported locks out every certificate of the device,
\* those of renewals and pairings in flight included.
THEOREM RevocationIsFinal == Spec => []RevokedLockedOut
<1>1. IInv => RevokedLockedOut
  BY DEF IInv, TypeOK, StoreTypeOK, Drawn, Withdrawn, CredentialIsPaired,
         RevokedLockedOut, AuthenticatesAs
<1>2. QED
  BY Invariance, <1>1, PTL

\* A device row without a certificate is a pairing in progress, or one whose
\* rollback could not run.
THEOREM OrphansAreExplained == Spec => []OrphansExplained
<1>1. IInv => OrphansExplained
  BY DEF IInv
<1>2. QED
  BY Invariance, <1>1, PTL

\* Every audit row that names a device or claims a success is true.
THEOREM AuditIsTruthful == Spec => []AuditTruthful
<1>1. IInv => AuditTruthful
  BY DEF IInv
<1>2. QED
  BY Invariance, <1>1, PTL

-----------------------------------------------------------------------------
(***************************************************************************)
(* DeviceIdentity implements DeviceRegistry, for every instance.           *)
(*                                                                         *)
(* The inductive invariant above says what each handler                    *)
(* knows about its device.  Two facts are added: a certificate on its way  *)
(* to a client is on nobody else's way, and a request has no device before *)
(* requireDevice gave it one.  With them every step of a handler is either *)
(* invisible or one step of the registry: a successful requireDevice lets  *)
(* a request in, the answer of pair admits, the answer of renew rekeys and *)
(* the UPDATE of a revocation that is then reported bars.                  *)
(***************************************************************************)

\* A handler that will answer with the certificate it issued.
Carrying(r) ==
  pc[r] \in {"record", "supersede", "respond"} /\ op[r] # "unpair"

\* A certificate reaches one client, through the request that issued it; a
\* request has no device before requireDevice gave it one, and then one that
\* some client holds a key of.
Unshared ==
  \A r \in Requests :
    /\ Carrying(r) =>
         /\ new[r] \notin delivered
         /\ \A q \in Requests : Carrying(q) /\ new[q] = new[r] => q = r
    /\ pc[r] \in {"idle", "auth"} => dev[r] = NoDevice
    /\ op[r] # "pair" /\ dev[r] # NoDevice =>
         \E s \in delivered : issuedTo[s] = dev[r]

RInv == IInv /\ Unshared

-----------------------------------------------------------------------------
(* Unshared is preserved *)

USE NullsAssumption, NoSerialAssumption
USE DEF storeVars, codeVars, deviceVars, certVars, reqVars, histVars,
        frameReq, frameHist

\* No handler step hands one certificate to two requests, or gives a request
\* a device before it is authenticated.
LEMMA UnsharedStep ==
  ASSUME RInv, NEW r \in Requests, Step(r)
  PROVE  Unshared'
<1> USE DEF RInv, IInv, Unshared, Carrying, TypeOK, Goto, Fail, Call
<1>1. CASE requireDevice(r)
  BY <1>1 DEF requireDevice, FirstStep, Progress, AuthenticatesAs, NeverStranded
<1>2. CASE Decode(r)
  BY <1>2 DEF Decode
<1>3. CASE PairCreate(r)
  BY <1>3 DEF PairCreate, Progress
<1>4. CASE PairRedeem(r)
  BY <1>4 DEF PairRedeem
<1>5. CASE PairRename(r)
  BY <1>5 DEF PairRename
<1>6. CASE IssueDeviceCert(r)
  BY <1>6 DEF IssueDeviceCert, AfterError, Drawn, Progress
<1>7. CASE Record(r)
  BY <1>7 DEF Record, AfterError
<1>8. CASE Supersede(r)
  BY <1>8 DEF Supersede
<1>9. CASE Rollback(r)
  BY <1>9 DEF Rollback
<1>10. CASE UnpairExists(r)
  BY <1>10 DEF UnpairExists
<1>11. CASE UnpairRevoke(r)
  BY <1>11 DEF UnpairRevoke, Progress
<1>12. CASE Respond(r)
  BY <1>12 DEF Respond
<1>13. CASE recordAudit(r)
  BY <1>13 DEF recordAudit
<1>14. QED
  BY <1>1, <1>2, <1>3, <1>4, <1>5, <1>6, <1>7, <1>8, <1>9, <1>10, <1>11, <1>12, <1>13 DEF Step

\* Neither does anything else.
LEMMA UnsharedNext ==
  ASSUME RInv, [Next]_vars
  PROVE  Unshared'
<1> USE DEF RInv, IInv, Unshared, Carrying, TypeOK
<1>1. ASSUME NEW r \in Requests, Step(r)
      PROVE  Unshared'
  BY <1>1, UnsharedStep
<1>2. ASSUME NEW r \in Requests, Arrive(r)
      PROVE  Unshared'
  BY <1>2 DEF Arrive, PairArrives, GuardedArrives
<1>3. CASE Cli
  BY <1>3 DEF Cli, CliPairCode, CliRevokeExists, CliRevokeUpdate
<1>4. ASSUME NEW now \in 0..clock, Prune(now)
      PROVE  Unshared'
  BY <1>4 DEF Prune
<1>5. CASE Tick
  BY <1>5 DEF Tick
<1>6. CASE Crash
  BY <1>6 DEF Crash, InFlight
<1>7. CASE UNCHANGED vars
  BY <1>7 DEF vars
<1>8. QED
  BY <1>1, <1>2, <1>3, <1>4, <1>5, <1>6, <1>7 DEF Next

-----------------------------------------------------------------------------
(* Every step is a step of the registry, or invisible in it *)

\* A handler step: the three visible ones are spelled out.
LEMMA RegistryStep ==
  ASSUME RInv, RInv', NEW r \in Requests, Step(r)
  PROVE  [Registry!Next]_(Registry!vars)
<1> USE DEF RInv, IInv, TypeOK, Goto, Fail, Call, Registry!vars
<1>1. CASE requireDevice(r)
  <2>1. CASE AuthenticatesAs(cert[r]) = NoDevice \/ dev' = dev
    BY <1>1, <2>1 DEF requireDevice, Entered, KeyOf, Admitted
  <2>2. CASE dev' # dev
    <3>1. /\ cert[r] \in delivered /\ op[r] # "pair" /\ dev[r] = NoDevice
          /\ AuthenticatesAs(cert[r]) # NoDevice
          /\ dev' = [dev EXCEPT ![r] = AuthenticatesAs(cert[r])]
      BY <1>1, <2>2 DEF requireDevice, Progress, Unshared
    <3>2. /\ AuthenticatesAs(cert[r]) = KeyOf[cert[r]]
          /\ KeyOf[cert[r]] \notin withdrawn
      BY <3>1 DEF AuthenticatesAs, KeyOf, NeverStranded, Withdrawn
    <3>3. /\ Entered[r] = NoDevice
          /\ Entered' = [Entered EXCEPT ![r] = KeyOf[cert[r]]]
      <4>1. op' = op /\ dev'[r] = KeyOf[cert[r]]
            /\ \A q \in Requests \ {r} : dev'[q] = dev[q]
        BY <1>1, <3>1, <3>2 DEF requireDevice
      <4>2. Entered'[r] = KeyOf[cert[r]]
            /\ \A q \in Requests \ {r} : Entered'[q] = Entered[q]
        BY <3>1, <4>1 DEF Entered
      <4>3. /\ Entered = [q \in Requests |-> Entered[q]]
            /\ Entered' = [q \in Requests |-> Entered'[q]]
        BY DEF Entered
      <4>4. Entered[r] = NoDevice
        BY <3>1 DEF Entered
      <4>5. QED
        BY <4>2, <4>3, <4>4
    <3>4. KeyOf' = KeyOf /\ Admitted' = Admitted /\ minted' = minted
          /\ withdrawn' = withdrawn
      BY <1>1 DEF requireDevice, KeyOf, Admitted
    <3>5. Registry!Enter(r, cert[r])
      BY <3>1, <3>2, <3>3, <3>4 DEF Registry!Enter
    <3>6. QED
      BY <3>1, <3>5 DEF Registry!Next
  <2>3. QED
    BY <2>1, <2>2
<1>2. CASE Decode(r)
  BY <1>2 DEF Decode, Entered, KeyOf, Admitted
<1>3. CASE PairCreate(r)
  BY <1>3 DEF PairCreate, Entered, KeyOf, Admitted, Progress
<1>4. CASE PairRedeem(r)
  BY <1>4 DEF PairRedeem, Entered, KeyOf, Admitted, Private, Pairing, Progress
<1>5. CASE PairRename(r)
  BY <1>5 DEF PairRename, Entered, KeyOf, Admitted
<1>6. CASE IssueDeviceCert(r)
  BY <1>6 DEF IssueDeviceCert, Entered, KeyOf, Admitted, Drawn
<1>7. CASE Record(r)
  BY <1>7 DEF Record, Entered, KeyOf, Admitted
<1>8. CASE Supersede(r)
  BY <1>8 DEF Supersede, Entered, KeyOf, Admitted
<1>9. CASE Rollback(r)
  BY <1>9 DEF Rollback, Entered, KeyOf, Admitted
<1>10. CASE UnpairExists(r)
  BY <1>10 DEF UnpairExists, Entered, KeyOf, Admitted
<1>11. CASE UnpairRevoke(r)
  <2>1. CASE withdrawn' = withdrawn \cup {dev[r]}
    <3>1. Registry!Bar(dev[r])
      BY <1>11, <2>1 DEF UnpairRevoke, Registry!Bar, Entered, KeyOf, Admitted
    <3>2. QED
      BY <1>11, <3>1, HandlerHasDevice DEF UnpairRevoke, Registry!Next
  <2>2. CASE withdrawn' = withdrawn
    BY <1>11, <2>2 DEF UnpairRevoke, Entered, KeyOf, Admitted
  <2>3. QED
    BY <1>11, <2>1, <2>2 DEF UnpairRevoke
<1>12. CASE Respond(r)
  <2>1. CASE op[r] = "unpair"
    BY <1>12, <2>1 DEF Respond, Entered, KeyOf, Admitted
  <2>2. CASE op[r] = "renew"
    <3>1. new[r] \in Serials /\ new[r] \notin delivered /\ issuedTo[new[r]] = dev[r]
          /\ dev[r] \in Devices
      BY <1>12, <2>2, HandlerHasDevice DEF Respond, Progress, Unshared, Carrying
    <3>2. Admitted' = Admitted
      BY <1>12, <2>2, <3>1 DEF Respond, Admitted, Unshared
    <3>3. /\ Entered[r] = dev[r] /\ Entered' = Entered
          /\ KeyOf[new[r]] = NoDevice
          /\ KeyOf' = [KeyOf EXCEPT ![new[r]] = dev[r]]
      <4>1. op' = op /\ dev' = dev /\ issuedTo' = issuedTo
            /\ delivered' = delivered \cup {new[r]}
        BY <1>12, <2>2 DEF Respond
      <4>2. QED
        BY <2>2, <3>1, <4>1 DEF Entered, KeyOf
    <3>4. Registry!Rekey(r, new[r])
      BY <1>12, <3>1, <3>2, <3>3 DEF Respond, Registry!Rekey
    <3>5. QED
      BY <3>1, <3>4 DEF Registry!Next
  <2>3. CASE op[r] = "pair"
    <3> DEFINE d == dev[r]
               c == redeemed[d]
               s == new[r]
    <3>1. /\ s \in Serials /\ s \notin delivered /\ issuedTo[s] = d
          /\ d \in Devices /\ owner[s] = d
      BY <1>12, <2>3, HandlerHasDevice DEF Respond, Progress, Unshared, Carrying
    <3>2. c \in Codes /\ c \in minted
      BY <3>1 DEF CredentialIsPaired, Spent
    <3>3. \A k \in delivered : issuedTo[k] # d
      BY <1>12, <2>3 DEF Respond, Private, Pairing
    <3>4. Admitted[d] = NoCode /\ \A e \in Devices : Admitted[e] # c
      BY <3>1, <3>2, <3>3 DEF Admitted, Spent
    <3>5. Admitted' = [Admitted EXCEPT ![d] = c]
      BY <1>12, <2>3, <3>1 DEF Respond, Admitted
    <3>6. /\ Entered' = Entered
          /\ KeyOf[s] = NoDevice /\ KeyOf' = [KeyOf EXCEPT ![s] = d]
      <4>1. op' = op /\ dev' = dev /\ issuedTo' = issuedTo
            /\ delivered' = delivered \cup {s}
        BY <1>12, <2>3 DEF Respond
      <4>2. Entered' = Entered
        BY <4>1 DEF Entered
      <4>3. KeyOf[s] = NoDevice
        BY <3>1 DEF KeyOf
      <4>4. KeyOf' = [KeyOf EXCEPT ![s] = d]
        BY <3>1, <4>1 DEF KeyOf
      <4>5. QED
        BY <4>2, <4>3, <4>4
    <3>7. Registry!Admit(d, c, s)
      BY <1>12, <3>2, <3>4, <3>5, <3>6 DEF Respond, Registry!Admit
    <3>8. QED
      BY <3>1, <3>2, <3>7 DEF Registry!Next
  <2>4. QED
    BY <2>1, <2>2, <2>3 DEF Ops
<1>13. CASE recordAudit(r)
  BY <1>13 DEF recordAudit, Entered, KeyOf, Admitted
<1>14. QED
  BY <1>1, <1>2, <1>3, <1>4, <1>5, <1>6, <1>7, <1>8, <1>9, <1>10, <1>11, <1>12, <1>13 DEF Step

\* Any step: outside the handlers only the CLI is visible, when it shows the
\* operator a code or reports a revocation.
LEMMA RegistryNext ==
  ASSUME RInv, RInv', [Next]_vars
  PROVE  [Registry!Next]_(Registry!vars)
<1> USE DEF RInv, IInv, TypeOK, Registry!vars
<1>1. ASSUME NEW r \in Requests, Step(r)
      PROVE  [Registry!Next]_(Registry!vars)
  BY <1>1, RegistryStep
<1>2. ASSUME NEW r \in Requests, Arrive(r)
      PROVE  [Registry!Next]_(Registry!vars)
  BY <1>2 DEF Arrive, PairArrives, GuardedArrives, Entered, KeyOf, Admitted, Unshared
<1>3. CASE Cli
  <2>1. ASSUME NEW c \in Codes, NEW ttl \in TTLs, CliPairCode(c, ttl)
        PROVE  [Registry!Next]_(Registry!vars)
    <3>1. Registry!Offer(c)
      BY <2>1 DEF CliPairCode, Registry!Offer, Entered, KeyOf, Admitted
    <3>2. QED
      BY <3>1 DEF Registry!Next
  <2>2. ASSUME NEW d \in Devices, CliRevokeExists(d)
        PROVE  [Registry!Next]_(Registry!vars)
    BY <2>2 DEF CliRevokeExists, Entered, KeyOf, Admitted
  <2>3. ASSUME NEW d \in Devices, CliRevokeUpdate(d)
        PROVE  [Registry!Next]_(Registry!vars)
    <3>1. Entered' = Entered /\ KeyOf' = KeyOf /\ Admitted' = Admitted
          /\ minted' = minted
      BY <2>3 DEF CliRevokeUpdate, Entered, KeyOf, Admitted
    <3>2. Registry!Bar(d) \/ UNCHANGED Registry!vars
      BY <2>3, <3>1 DEF CliRevokeUpdate, Registry!Bar
    <3>3. QED
      BY <3>2 DEF Registry!Next
  <2>4. QED
    BY <1>3, <2>1, <2>2, <2>3 DEF Cli
<1>4. ASSUME NEW now \in 0..clock, Prune(now)
      PROVE  [Registry!Next]_(Registry!vars)
  BY <1>4 DEF Prune, Entered, KeyOf, Admitted
<1>5. CASE Tick
  BY <1>5 DEF Tick, Entered, KeyOf, Admitted
<1>6. CASE Crash
  BY <1>6 DEF Crash, Entered, KeyOf, Admitted
<1>7. CASE UNCHANGED vars
  BY <1>7 DEF vars, Entered, KeyOf, Admitted
<1>8. QED
  BY <1>1, <1>2, <1>3, <1>4, <1>5, <1>6, <1>7 DEF Next

\* An agent that starts with an empty store starts with an empty registry.
LEMMA RegistryInit == Init => Registry!Init
  BY DEF Init, Registry!Init, Entered, KeyOf, Admitted

\* The agent implements the registry: whatever requests race, fail, are
\* retried or die with the agent, who is admitted, handed a key, let in and
\* barred is what the atomic registry allows.
THEOREM IdentityImplementsRegistry == Spec => ImplementsRegistry
<1>1. Init => Unshared
  BY DEF Init, Unshared, Carrying
<1>2. RInv /\ [Next]_vars /\ IInv' => RInv'
  BY UnsharedNext DEF RInv
<1>3. RInv /\ RInv' /\ [Next]_vars => [Registry!Next]_(Registry!vars)
  BY RegistryNext
<1>4. IInv /\ Unshared <=> RInv
  BY DEF RInv
<1>5. QED
  BY <1>1, <1>2, <1>3, <1>4, Invariance, RegistryInit, PTL
     DEF Spec, ImplementsRegistry, Registry!Spec
=============================================================================
