---------------------------- MODULE IdentityStore ----------------------------
(***************************************************************************)
(* The identity tables of the agent's SQLite state store                   *)
(* (internal/state): pairing_codes, devices and device_certs, and one      *)
(* operator per Store method that writes them.  Every method is one SQL    *)
(* statement on a pool of one connection, hence one atomic step; the       *)
(* exception, RevokeDevice, is a SELECT followed by an UPDATE and is kept  *)
(* as two operators so that other writers can run in between.              *)
(*                                                                         *)
(* Two processes write this file: the agent and the host-side CLI.  The    *)
(* modules that use this one decide who calls what, and when.              *)
(***************************************************************************)
EXTENDS Naturals

CONSTANTS Codes,     \* plaintext pairing codes the random source can produce
          Devices,   \* device IDs the random source can produce
          Serials,   \* certificate serials the random source can produce
          NoCode,    \* no code; as a device name, the placeholder "pending"
          NoDevice   \* SQL NULL, and the empty device ID

ASSUME NullsAssumption == NoCode \notin Codes /\ NoDevice \notin Devices

VARIABLES
  codes,       \* codes with a row in pairing_codes
  expires,     \* pairing_codes.expires_at
  usedBy,      \* pairing_codes.used_by; NoDevice while used_at IS NULL
  rows,        \* device IDs with a row in devices
  name,        \* devices.name, identified by the code that carries it
  revoked,     \* devices whose revoked_at is set
  owner,       \* device_certs.device_id; NoDevice where no row exists
  superseded   \* serials whose superseded_at is set

codeVars   == <<codes, expires, usedBy>>
deviceVars == <<rows, name, revoked>>
certVars   == <<owner, superseded>>
storeVars  == <<codes, expires, usedBy, rows, name, revoked, owner, superseded>>

StoreTypeOK ==
  /\ codes \subseteq Codes
  /\ expires \in [Codes -> Nat]
  /\ usedBy \in [Codes -> Devices \cup {NoDevice}]
  /\ rows \subseteq Devices
  /\ name \in [Devices -> Codes \cup {NoCode}]
  /\ revoked \subseteq Devices
  /\ owner \in [Serials -> Devices \cup {NoDevice}]
  /\ superseded \subseteq Serials

StoreInit ==
  /\ codes = {}
  /\ expires = [c \in Codes |-> 0]
  /\ usedBy = [c \in Codes |-> NoDevice]
  /\ rows = {}
  /\ name = [d \in Devices |-> NoCode]
  /\ revoked = {}
  /\ owner = [s \in Serials |-> NoDevice]
  /\ superseded = {}

-----------------------------------------------------------------------------
(* pairing_codes *)

MintPairingCode(c, now, ttl) ==
  /\ ttl > 0
  /\ codes' = codes \cup {c}
  /\ expires' = [expires EXCEPT ![c] = now + ttl]
  /\ usedBy' = [usedBy EXCEPT ![c] = NoDevice]
  /\ UNCHANGED <<deviceVars, certVars>>

\* Mutant: used_at IS NULL is missing from the WHERE clause.
Redeemable_Reused(c, now) == c \in codes /\ expires[c] > now

\* The WHERE clause of the one conditional UPDATE.
Redeemable(c, now) ==
  /\ c \in codes
  /\ usedBy[c] = NoDevice
  /\ expires[c] > now

RedeemPairingCode(c, d, now) ==
  /\ Redeemable(c, now)
  /\ usedBy' = [usedBy EXCEPT ![c] = d]
  /\ UNCHANGED <<codes, expires, deviceVars, certVars>>

PrunePairingCodes(now) ==
  /\ codes' = {c \in codes : expires[c] >= now}
  /\ UNCHANGED <<expires, usedBy, deviceVars, certVars>>

-----------------------------------------------------------------------------
(* devices and device_certs *)

CreateDevice(d) ==
  /\ d \notin rows
  /\ rows' = rows \cup {d}
  /\ name' = [name EXCEPT ![d] = NoCode]
  /\ UNCHANGED <<codeVars, revoked, certVars>>

RenameDevice(d, c) ==
  /\ d \in rows
  /\ name' = [name EXCEPT ![d] = c]
  /\ UNCHANGED <<codeVars, rows, revoked, certVars>>

\* Mutant: the schema has no ON DELETE CASCADE.
DeleteDevice_NoCascade(d) ==
  /\ rows' = rows \ {d}
  /\ name' = [name EXCEPT ![d] = NoCode]
  /\ revoked' = revoked \ {d}
  /\ UNCHANGED <<codeVars, certVars>>

\* ON DELETE CASCADE takes the device's certificate rows with it.
DeleteDevice(d) ==
  /\ rows' = rows \ {d}
  /\ name' = [name EXCEPT ![d] = NoCode]
  /\ revoked' = revoked \ {d}
  /\ owner' = [s \in Serials |-> IF owner[s] = d THEN NoDevice ELSE owner[s]]
  /\ superseded' = {s \in superseded : owner[s] # d}
  /\ UNCHANGED codeVars

\* The foreign key refuses a certificate for a device that has no row.
RecordDeviceCert(d, s) ==
  /\ d \in rows
  /\ owner[s] = NoDevice
  /\ owner' = [owner EXCEPT ![s] = d]
  /\ UNCHANGED <<codeVars, deviceVars, superseded>>

\* Mutant: renewal retires the old certificates at once.
SupersedePriorCerts_Deletes(d, keep) ==
  /\ owner' = [s \in Serials |-> IF owner[s] = d /\ s # keep THEN NoDevice
                                                          ELSE owner[s]]
  /\ UNCHANGED <<codeVars, deviceVars, superseded>>

SupersedePriorCerts(d, keep) ==
  /\ superseded' = superseded \cup {s \in Serials : owner[s] = d /\ s # keep}
  /\ UNCHANGED <<codeVars, deviceVars, owner>>

\* RevokeDevice, first statement: SELECT EXISTS.
RevokeExists(d) == d \in rows

\* RevokeDevice, second statement.  It updates nothing, and still succeeds,
\* when the row has gone since the first one.
RevokeUpdate(d) ==
  /\ revoked' = revoked \cup (rows \cap {d})
  /\ UNCHANGED <<codeVars, rows, name, certVars>>

\* Mutant: requireDevice forgets the revocation check.
AuthenticatesAs_Revoked(s) == owner[s]

\* DeviceByCertSerial joined with IsRevoked: the device a certificate
\* authenticates as, or NoDevice.
AuthenticatesAs(s) ==
  IF owner[s] \in rows \ revoked THEN owner[s] ELSE NoDevice
=============================================================================
