-------------------------- MODULE MCDeviceIdentity --------------------------
(* DeviceIdentity on small sets of codes, devices, serials and requests. *)
EXTENDS DeviceIdentity, TLC

\* Codes, device IDs, serials and requests are interchangeable.
Symmetry == Permutations(Codes) \cup Permutations(Devices)
              \cup Permutations(Serials) \cup Permutations(Requests)

\* A state some time after device d paired with code c and was given
\* certificate s, the request that did it over and its row pruned: where
\* renewals and revocations start from without spending a request on it.
PairedInit ==
  \E d \in Devices, c \in Codes, s \in Serials :
    /\ codes = {c} /\ expires = [k \in Codes |-> IF k = c THEN 1 ELSE 0]
    /\ usedBy = [k \in Codes |-> IF k = c THEN d ELSE NoDevice]
    /\ rows = {d} /\ revoked = {} /\ superseded = {}
    /\ name = [k \in Devices |-> IF k = d THEN c ELSE NoCode]
    /\ owner = [k \in Serials |-> IF k = s THEN d ELSE NoDevice]
    /\ clock = MaxClock
    /\ pc = [q \in Requests |-> "idle"]
    /\ op = [q \in Requests |-> "pair"]
    /\ form = [q \in Requests |-> "ok"]
    /\ code = [q \in Requests |-> NoCode]
    /\ cert = [q \in Requests |-> NoSerial]
    /\ dev = [q \in Requests |-> NoDevice]
    /\ new = [q \in Requests |-> NoSerial]
    /\ since = [q \in Requests |-> 0]
    /\ outcome = [q \in Requests |-> "success"]
    /\ subject = [q \in Requests |-> NoDevice]
    /\ audit = {} /\ revoking = {} /\ withdrawn = {} /\ excused = {}
    /\ minted = {c} /\ created = {d} /\ issued = {s} /\ delivered = {s}
    /\ issuedTo = [k \in Serials |-> IF k = s THEN d ELSE NoDevice]
    /\ redeemed = [k \in Devices |-> IF k = d THEN c ELSE NoCode]

MCSpec == (Init \/ PairedInit) /\ [][Next]_vars
=============================================================================
