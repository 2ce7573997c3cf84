--------------------------- MODULE DeviceIdentity ---------------------------
(***************************************************************************)
(* How a device obtains, renews, uses and loses its identity: the handlers *)
(* of POST /v1/pair, POST /v1/device/renew and DELETE /v1/device           *)
(* (internal/httpapi/pair.go, device.go), the requireDevice middleware     *)
(* every other route sits behind, the audit row each of them leaves, and   *)
(* the host-side CLI (cmd/devmon-agent/cli.go) and pruner that write the   *)
(* same store.  Requests run concurrently, one goroutine each, and         *)
(* interleave at every store call; the agent may be killed at any point.   *)
(*                                                                         *)
(* A store call that returns an error may still have committed: the SQLite *)
(* driver reports the context's error when the client goes away while the  *)
(* statement runs, whether or not it finished.  Call() has both outcomes.  *)
(***************************************************************************)
EXTENDS IdentityStore

CONSTANTS Requests,   \* HTTP requests, each used once
          TTLs,       \* pairing-code lifetimes the CLI accepts
          NoSerial,   \* no certificate
          MaxClock    \* bound: the clock stops here

ASSUME NoSerialAssumption == NoSerial \notin Serials
ASSUME TTLAssumption   == TTLs \subseteq Nat \ {0}
ASSUME ClockAssumption == MaxClock \in Nat

\* What the request body carries.  "badcsr" is a well-formed PEM block whose
\* contents IssueDeviceCert rejects (not DER, bad signature, wrong key type).
Forms == {"ok", "badbody", "badpem", "badcsr"}
Ops   == {"pair", "renew", "unpair"}
Outcomes == {"success", "invalid", "internal_error"}

VARIABLES
  clock,      \* time.Now() in whole seconds
  pc,         \* where each request is in its handler
  op,         \* the route each request is for
  form,       \* its body
  code,       \* pair: the submitted pairing code
  cert,       \* others: the serial of the client certificate it presented
  dev,        \* the device the handler is working on
  new,        \* the serial of the certificate it issued
  since,      \* pair: when CreateDevice returned
  outcome,    \* auditEntry.outcome in the request context
  subject,    \* auditEntry.deviceID in the request context
  audit,      \* rows of the audit table
  revoking,   \* devices a CLI revoke has found to exist and not yet updated
  \* history
  minted, created, issued,   \* random values drawn so far
  issuedTo,   \* the CommonName of each certificate issued
  redeemed,   \* the code each device redeemed
  delivered,  \* certificates written to a client in a 2xx response
  withdrawn,  \* devices for which RevokeDevice has returned nil
  excused     \* device rows whose rollback could not run

reqVars  == <<pc, op, form, code, cert, dev, new, since, outcome, subject>>
histVars == <<minted, created, issued, issuedTo, redeemed, delivered,
              withdrawn, excused>>
vars == <<storeVars, clock, reqVars, audit, revoking, histVars>>

Labels == {"idle", "auth", "decode", "create", "redeem", "rename", "issue",
           "record", "supersede", "exists", "revoke", "rollback", "respond",
           "audit", "done", "dead"}

TypeOK ==
  /\ StoreTypeOK
  /\ clock \in Nat
  /\ pc \in [Requests -> Labels]
  /\ op \in [Requests -> Ops]
  /\ form \in [Requests -> Forms]
  /\ code \in [Requests -> Codes \cup {NoCode}]
  /\ cert \in [Requests -> Serials \cup {NoSerial}]
  /\ dev \in [Requests -> Devices \cup {NoDevice}]
  /\ new \in [Requests -> Serials \cup {NoSerial}]
  /\ since \in [Requests -> Nat]
  /\ outcome \in [Requests -> Outcomes]
  /\ subject \in [Requests -> Devices \cup {NoDevice}]
  /\ audit \subseteq [req : Requests, op : Ops, outcome : Outcomes,
                      dev : Devices \cup {NoDevice}]
  /\ revoking \subseteq Devices
  /\ minted \subseteq Codes /\ created \subseteq Devices
  /\ issued \subseteq Serials /\ delivered \subseteq Serials
  /\ issuedTo \in [Serials -> Devices \cup {NoDevice}]
  /\ redeemed \in [Devices -> Codes \cup {NoCode}]
  /\ withdrawn \subseteq Devices /\ excused \subseteq Devices

Init ==
  /\ StoreInit
  /\ clock = 0
  /\ pc = [r \in Requests |-> "idle"]
  /\ op = [r \in Requests |-> "pair"]
  /\ form = [r \in Requests |-> "ok"]
  /\ code = [r \in Requests |-> NoCode]
  /\ cert = [r \in Requests |-> NoSerial]
  /\ dev = [r \in Requests |-> NoDevice]
  /\ new = [r \in Requests |-> NoSerial]
  /\ since = [r \in Requests |-> 0]
  /\ outcome = [r \in Requests |-> "success"]
  /\ subject = [r \in Requests |-> NoDevice]
  /\ audit = {} /\ revoking = {}
  /\ minted = {} /\ created = {} /\ issued = {} /\ delivered = {}
  /\ issuedTo = [s \in Serials |-> NoDevice]
  /\ redeemed = [d \in Devices |-> NoCode]
  /\ withdrawn = {} /\ excused = {}

-----------------------------------------------------------------------------
(* Control flow of a handler *)

Goto(r, l) == pc' = [pc EXCEPT ![r] = l] /\ UNCHANGED outcome

\* Mutant: an error path forgets setAuditOutcome.
Fail_Unrecorded(r, l, out) == Goto(r, l)

\* setAuditOutcome, then on to l.
Fail(r, l, out) ==
  /\ pc' = [pc EXCEPT ![r] = l]
  /\ outcome' = [outcome EXCEPT ![r] = out]

\* A store call with the given effect.  On an error the statement may have
\* committed or not; the handler goes to l and will answer 500.
Call(r, Effect, Unchanged, ok, l) ==
  \/ Effect /\ Goto(r, ok)
  \/ (Effect \/ Unchanged) /\ Fail(r, l, "internal_error")

\* The variables of the request that only its first steps set.
frameReq  == <<op, form, code, cert, dev, new, since, subject>>
frameHist == <<minted, created, issued, issuedTo, delivered, excused>>

-----------------------------------------------------------------------------
(* Arrival and authentication *)

\* A pair request past the two rate limiters, with any code at all.
PairArrives(r, c, f) ==
  /\ pc[r] = "idle"
  /\ pc' = [pc EXCEPT ![r] = "decode"]
  /\ op' = [op EXCEPT ![r] = "pair"]
  /\ code' = [code EXCEPT ![r] = c]
  /\ form' = [form EXCEPT ![r] = f]
  /\ UNCHANGED <<storeVars, clock, cert, dev, new, since, outcome, subject,
                 audit, revoking, histVars>>

\* A request on a guarded route, over a connection authenticated with a
\* certificate some client was given.
GuardedArrives(r, o, s, f) ==
  /\ pc[r] = "idle"
  /\ s \in delivered
  /\ pc' = [pc EXCEPT ![r] = "auth"]
  /\ op' = [op EXCEPT ![r] = o]
  /\ cert' = [cert EXCEPT ![r] = s]
  /\ form' = [form EXCEPT ![r] = f]
  /\ UNCHANGED <<storeVars, clock, code, dev, new, since, outcome, subject,
                 audit, revoking, histVars>>

FirstStep(o) == IF o = "renew" THEN "decode" ELSE "exists"

\* requireDevice, then withDeviceLimit.  Every refusal (unknown serial,
\* revoked device, store error, 429) ends the request with no audit row.
requireDevice(r) ==
  /\ pc[r] = "auth"
  /\ \/ /\ AuthenticatesAs(cert[r]) # NoDevice
        /\ dev' = [dev EXCEPT ![r] = AuthenticatesAs(cert[r])]
        /\ Goto(r, FirstStep(op[r]))
     \/ Goto(r, "done") /\ UNCHANGED dev
  /\ UNCHANGED <<storeVars, clock, op, form, code, cert, new, since, subject, audit,
                 revoking, histVars>>

\* decodePairRequest / decodeRenewRequest and decodeCSRPEM.  A pair request
\* with a malformed body returns without touching its audit entry.
Decode(r) ==
  /\ pc[r] = "decode"
  /\ CASE form[r] = "badbody" -> IF op[r] = "pair"
                                 THEN Goto(r, "audit")
                                 ELSE Fail(r, "audit", "invalid")
       [] form[r] = "badpem"  -> Fail(r, "audit", "invalid")
       [] OTHER -> Goto(r, IF op[r] = "pair" THEN "create" ELSE "issue")
  /\ UNCHANGED <<storeVars, clock, frameReq, audit, revoking, histVars>>

-----------------------------------------------------------------------------
(* pairDevice and renewDevice *)

\* CreateDevice under the placeholder name.  If the insert fails there is
\* nothing to roll back, as far as the handler knows.
PairCreate(r) ==
  /\ pc[r] = "create"
  /\ \E d \in Devices \ created :
       \/ /\ CreateDevice(d)
          /\ created' = created \cup {d}
          /\ dev' = [dev EXCEPT ![r] = d]
          /\ since' = [since EXCEPT ![r] = clock]
          /\ Goto(r, "redeem")
          /\ UNCHANGED excused
       \/ /\ CreateDevice(d)
          /\ created' = created \cup {d}
          /\ excused' = excused \cup {d}
          /\ Fail(r, "audit", "internal_error")
          /\ UNCHANGED <<dev, since>>
       \/ /\ Fail(r, "audit", "internal_error")
          /\ UNCHANGED <<storeVars, created, excused, dev, since>>
  /\ UNCHANGED <<clock, op, form, code, cert, new, subject, audit, revoking, minted,
                 issued, issuedTo, redeemed, delivered, withdrawn>>

\* The UPDATE compares expires_at with a clock read before the statement
\* waited for the connection, at some moment since CreateDevice returned.
PairRedeem(r) ==
  /\ pc[r] = "redeem"
  /\ \E now \in since[r]..clock :
       \/ /\ Redeemable(code[r], now)
          /\ Call(r, /\ RedeemPairingCode(code[r], dev[r], now)
                     /\ redeemed' = [redeemed EXCEPT ![dev[r]] = code[r]],
                  UNCHANGED <<storeVars, redeemed>>, "rename", "rollback")
       \/ /\ ~Redeemable(code[r], now)
          /\ Fail(r, "rollback", "invalid")
          /\ UNCHANGED <<storeVars, redeemed>>
  /\ UNCHANGED <<clock, frameReq, audit, revoking, frameHist, withdrawn>>

PairRename(r) ==
  /\ pc[r] = "rename"
  /\ Call(r, RenameDevice(dev[r], code[r]), UNCHANGED storeVars,
          "issue", "rollback")
  /\ UNCHANGED <<clock, frameReq, audit, revoking, histVars>>

\* Mutant: pairing forgets to undo its device row.
AfterError_NoRollback(o) == "audit"

\* Pairing undoes its device row on an error; renewal only reports it.
AfterError(o) == IF o = "pair" THEN "rollback" ELSE "audit"

\* IssueDeviceCert: the CSR is parsed, verified and signed here, in memory.
IssueDeviceCert(r) ==
  /\ pc[r] = "issue"
  /\ \/ /\ form[r] = "ok"
        /\ \E s \in Serials \ issued :
             /\ issued' = issued \cup {s}
             /\ issuedTo' = [issuedTo EXCEPT ![s] = dev[r]]
             /\ new' = [new EXCEPT ![r] = s]
        /\ Goto(r, "record")
     \/ /\ Fail(r, AfterError(op[r]), "internal_error")
        /\ UNCHANGED <<issued, issuedTo, new>>
  /\ UNCHANGED <<storeVars, clock, op, form, code, cert, dev, since, subject, audit,
                 revoking, minted, created, redeemed, delivered, withdrawn,
                 excused>>

Record(r) ==
  /\ pc[r] = "record"
  /\ Call(r, RecordDeviceCert(dev[r], new[r]), UNCHANGED storeVars,
          IF op[r] = "pair" THEN "respond" ELSE "supersede",
          AfterError(op[r]))
  /\ UNCHANGED <<clock, frameReq, audit, revoking, histVars>>

Supersede(r) ==
  /\ pc[r] = "supersede"
  /\ Call(r, SupersedePriorCerts(dev[r], new[r]), UNCHANGED storeVars,
          "respond", "audit")
  /\ UNCHANGED <<clock, frameReq, audit, revoking, histVars>>

\* deleteOrphanedDevice runs on its own context; its failure is only logged.
Rollback(r) ==
  /\ pc[r] = "rollback"
  /\ Goto(r, "audit")
  /\ \/ DeleteDevice(dev[r]) /\ UNCHANGED excused
     \/ UNCHANGED storeVars /\ excused' = excused \cup {dev[r]}
  /\ UNCHANGED <<clock, frameReq, audit, revoking, minted, created, issued,
                 issuedTo, redeemed, delivered, withdrawn>>

-----------------------------------------------------------------------------
(* Self-unpair *)

UnpairExists(r) ==
  /\ pc[r] = "exists"
  /\ \/ RevokeExists(dev[r]) /\ Goto(r, "revoke")
     \/ Fail(r, "audit", "internal_error")
  /\ UNCHANGED <<storeVars, clock, frameReq, audit, revoking, histVars>>

UnpairRevoke(r) ==
  /\ pc[r] = "revoke"
  /\ \/ /\ RevokeUpdate(dev[r])
        /\ withdrawn' = withdrawn \cup {dev[r]}
        /\ Goto(r, "respond")
     \/ /\ RevokeUpdate(dev[r]) \/ UNCHANGED storeVars
        /\ Fail(r, "audit", "internal_error")
        /\ UNCHANGED withdrawn
  /\ UNCHANGED <<clock, frameReq, audit, revoking, frameHist, redeemed>>

-----------------------------------------------------------------------------
(* Response and audit row *)

\* The success response.  pair names its new device in the audit entry.
\* delivered is what the client may hold: the response may still be lost.
Respond(r) ==
  /\ pc[r] = "respond"
  /\ Goto(r, "audit")
  /\ subject' = IF op[r] = "pair" THEN [subject EXCEPT ![r] = dev[r]] ELSE subject
  /\ delivered' = IF op[r] = "unpair" THEN delivered
                                      ELSE delivered \cup {new[r]}
  /\ UNCHANGED <<storeVars, clock, op, form, code, cert, dev, new, since, audit,
                 revoking, minted, created, issued, issuedTo, redeemed,
                 withdrawn, excused>>

\* recordAudit, once the handler has returned.  The device resolved by
\* requireDevice wins over the entry's; a failed append is only logged.
recordAudit(r) ==
  /\ pc[r] = "audit"
  /\ Goto(r, "done")
  /\ \/ audit' = audit \cup
          {[req |-> r, op |-> op[r], outcome |-> outcome[r],
            dev |-> IF op[r] = "pair" THEN subject[r] ELSE dev[r]]}
     \/ UNCHANGED audit
  /\ UNCHANGED <<storeVars, clock, frameReq, revoking, histVars>>

-----------------------------------------------------------------------------
(* The host-side CLI, the pruner, the clock and the crash *)

CliPairCode(c, ttl) ==
  /\ c \notin minted
  /\ MintPairingCode(c, clock, ttl)
  /\ minted' = minted \cup {c}
  /\ UNCHANGED <<clock, reqVars, audit, revoking, created, issued, issuedTo,
                 redeemed, delivered, withdrawn, excused>>

CliRevokeExists(d) ==
  /\ d \notin revoking
  /\ RevokeExists(d)
  /\ revoking' = revoking \cup {d}
  /\ UNCHANGED <<storeVars, clock, reqVars, audit, histVars>>

\* The CLI prints "revoked" only when the UPDATE returned; it may also be
\* interrupted, or fail, on either side of its commit.
CliRevokeUpdate(d) ==
  /\ d \in revoking
  /\ revoking' = revoking \ {d}
  /\ \/ RevokeUpdate(d) /\ withdrawn' = withdrawn \cup {d}
     \/ (RevokeUpdate(d) \/ UNCHANGED storeVars) /\ UNCHANGED withdrawn
  /\ UNCHANGED <<clock, reqVars, audit, frameHist, redeemed>>

\* One pass of the pruner; its clock is read before the DELETE runs.
Prune(now) ==
  /\ PrunePairingCodes(now)
  /\ UNCHANGED <<clock, reqVars, audit, revoking, histVars>>

Tick ==
  /\ clock < MaxClock
  /\ clock' = clock + 1
  /\ UNCHANGED <<storeVars, reqVars, audit, revoking, histVars>>

InFlight(r) == pc[r] \notin {"idle", "done", "dead"}

\* A pairing that has a device row it must complete or undo.
Pairing(r)  == op[r] = "pair" /\ pc[r] \in {"redeem", "rename", "issue",
                                            "record", "rollback", "respond"}

\* The agent is killed and restarted: every handler is gone, the store stays.
Crash ==
  /\ \E r \in Requests : InFlight(r)
  /\ pc' = [r \in Requests |-> IF InFlight(r) THEN "dead" ELSE pc[r]]
  /\ excused' = excused \cup {dev[r] : r \in {q \in Requests : Pairing(q)}}
  /\ UNCHANGED <<storeVars, clock, frameReq, outcome, audit, revoking, minted,
                 created, issued, issuedTo, redeemed, delivered, withdrawn>>

-----------------------------------------------------------------------------
Step(r) ==
  \/ requireDevice(r) \/ Decode(r)
  \/ PairCreate(r) \/ PairRedeem(r) \/ PairRename(r)
  \/ IssueDeviceCert(r) \/ Record(r) \/ Supersede(r) \/ Rollback(r)
  \/ UnpairExists(r) \/ UnpairRevoke(r)
  \/ Respond(r) \/ recordAudit(r)

Arrive(r) ==
  \/ \E c \in Codes, f \in Forms : PairArrives(r, c, f)
  \/ \E s \in Serials, f \in Forms : GuardedArrives(r, "renew", s, f)
  \/ \E s \in Serials : GuardedArrives(r, "unpair", s, "ok")

Cli ==
  \/ \E c \in Codes, ttl \in TTLs : CliPairCode(c, ttl)
  \/ \E d \in Devices : CliRevokeExists(d) \/ CliRevokeUpdate(d)

Next ==
  \/ \E r \in Requests : Step(r) \/ Arrive(r)
  \/ Cli
  \/ \E now \in 0..clock : Prune(now)
  \/ Tick
  \/ Crash

Spec == Init /\ [][Next]_vars

-----------------------------------------------------------------------------
(* Properties *)

\* A pairing code admits one device, ever: two requests racing with the same
\* leaked code, a retry, a rollback or a pruned row never let a second
\* device redeem it (RedeemPairingCode's conditional UPDATE).
SingleUse ==
  \A d1, d2 \in Devices :
    redeemed[d1] # NoCode /\ redeemed[d1] = redeemed[d2] => d1 = d2

\* Every certificate row belongs to a device that exists, that redeemed a
\* code, and that carries the name the operator gave that code: no failure
\* of pairDevice leaves a certificate for an unpaired or "pending" device.
CredentialIsPaired ==
  \A s \in Serials : owner[s] # NoDevice =>
    /\ owner[s] = issuedTo[s]
    /\ owner[s] \in rows
    /\ redeemed[owner[s]] # NoCode
    /\ name[owner[s]] = redeemed[owner[s]]

\* A certificate a client may hold stays on record for its device through
\* every renewal, failure and crash: only revocation locks the client out,
\* so "a lost renewal response cannot strand the device".
NeverStranded ==
  \A s \in delivered : owner[s] # NoDevice /\ owner[s] = issuedTo[s]

\* Once RevokeDevice has returned, no certificate ever issued to the device
\* authenticates: neither an old one, nor one from a renewal or a pairing
\* that was in flight when the revocation ran.
RevokedLockedOut ==
  \A s \in issued : issuedTo[s] \in withdrawn => AuthenticatesAs(s) = NoDevice

\* A device row with no certificate belongs to a pairing still running,
\* unless the agent died in the middle of it or its rollback failed.
OrphansExplained ==
  \A d \in rows : (\A s \in Serials : owner[s] # d) =>
    d \in excused \/ \E r \in Requests : Pairing(r) /\ dev[r] = d

\* The audit trail claims nothing that did not happen: a pair row naming a
\* device means that device was handed a certificate that is on record, a
\* successful renew row that the new one was, and a successful unpair row
\* that the device was revoked; a failed pair names no device.
AuditTruthful ==
  \A e \in audit :
    /\ e.op = "pair" /\ e.dev # NoDevice =>
         /\ e.outcome = "success"
         /\ \E s \in delivered : owner[s] = e.dev
    /\ e.op = "renew" /\ e.outcome = "success" =>
         new[e.req] \in delivered /\ owner[new[e.req]] = e.dev
    /\ e.op = "unpair" /\ e.outcome = "success" => e.dev \in withdrawn

\* The registry that the tables, the handlers in flight and the answers
\* already given amount to.  A device counts as admitted once its pairing was
\* answered: a code that a failed pairing used up admits nobody.
KeyOf == [s \in Serials |-> IF s \in delivered THEN issuedTo[s] ELSE NoDevice]

Admitted ==
  [d \in Devices |->
     IF \E s \in delivered : issuedTo[s] = d THEN redeemed[d] ELSE NoCode]

Entered == [r \in Requests |-> IF op[r] = "pair" THEN NoDevice ELSE dev[r]]

Registry == INSTANCE DeviceRegistry WITH
  offered <- minted, admitted <- Admitted, keyOf <- KeyOf,
  barred <- withdrawn, entered <- Entered

\* The statements of pairDevice, renewDevice, requireDevice and RevokeDevice,
\* interleaved, failing after their commit and cut short by crashes, amount to
\* the atomic registry: each admission spends an offered code of its own, each
\* further key goes to a request that got in, and nobody gets in without a key
\* or as a device whose revocation has been reported.
ImplementsRegistry == Registry!Spec

-----------------------------------------------------------------------------
(* Claims of the repository that the code does not keep *)

\* httpapi/audit.go: the pair row "carries the newly created device's ID on
\* success and an empty device ID on every failure path".
PairSuccessNamesDevice ==
  \A e \in audit : e.op = "pair" /\ e.outcome = "success" => e.dev # NoDevice

\* httpapi/pair_test.go: "The pairing code must never be spent by a request
\* that could not actually issue a certificate".
CodeKeptWithoutCertificate ==
  \A r \in Requests : op[r] = "pair" /\ form[r] = "badcsr" /\ dev[r] # NoDevice
                         => redeemed[dev[r]] = NoCode

\* httpapi/device.go: renewal marks as superseded "every certificate the
\* device held before", so the newest one on record is not superseded.
SomeCertificateIsCurrent ==
  \A d \in Devices : (\E s \in Serials : owner[s] = d)
                     => \E s \in Serials \ superseded : owner[s] = d
=============================================================================
