--------------------------- MODULE DeviceRegistry ---------------------------
(***************************************************************************)
(* What the agent promises about who gets in, without tables, handlers or  *)
(* crashes.  The operator offers codes; a code admits one device and hands *)
(* it a key; whoever got in as a device may be handed another key for it;  *)
(* the holder of a key gets in as its device until that device is barred;  *)
(* and nothing that was granted or barred is ever undone.                  *)
(***************************************************************************)
EXTENDS Naturals

CONSTANTS Codes, Devices, Serials, Requests, NoCode, NoDevice

VARIABLES
  offered,    \* codes the operator was shown
  admitted,   \* the code each device was admitted with
  keyOf,      \* the device each key was handed out for
  barred,     \* devices whose revocation was reported
  entered     \* the device each request got in as

vars == <<offered, admitted, keyOf, barred, entered>>

\* The agent may find an older registry in its state directory.
Init ==
  /\ offered \subseteq Codes
  /\ admitted \in [Devices -> offered \cup {NoCode}]
  /\ \A d, e \in Devices : admitted[d] = admitted[e] => d = e \/ admitted[d] = NoCode
  /\ keyOf \in [Serials -> {d \in Devices : admitted[d] # NoCode} \cup {NoDevice}]
  /\ barred \subseteq Devices
  /\ entered = [r \in Requests |-> NoDevice]

Offer(c) ==
  /\ offered' = offered \cup {c}
  /\ UNCHANGED <<admitted, keyOf, barred, entered>>

\* Admission spends the code; a device is admitted once.
Admit(d, c, s) ==
  /\ c \in offered
  /\ admitted[d] = NoCode /\ \A e \in Devices : admitted[e] # c
  /\ keyOf[s] = NoDevice
  /\ admitted' = [admitted EXCEPT ![d] = c]
  /\ keyOf' = [keyOf EXCEPT ![s] = d]
  /\ UNCHANGED <<offered, barred, entered>>

\* A key changes hands only with a request that got in.
Rekey(r, s) ==
  /\ entered[r] # NoDevice
  /\ keyOf[s] = NoDevice
  /\ keyOf' = [keyOf EXCEPT ![s] = entered[r]]
  /\ UNCHANGED <<offered, admitted, barred, entered>>

Enter(r, s) ==
  /\ entered[r] = NoDevice
  /\ keyOf[s] # NoDevice /\ keyOf[s] \notin barred
  /\ entered' = [entered EXCEPT ![r] = keyOf[s]]
  /\ UNCHANGED <<offered, admitted, keyOf, barred>>

Bar(d) ==
  /\ barred' = barred \cup {d}
  /\ UNCHANGED <<offered, admitted, keyOf, entered>>

Next ==
  \/ \E c \in Codes : Offer(c)
  \/ \E d \in Devices, c \in Codes, s \in Serials : Admit(d, c, s)
  \/ \E r \in Requests, s \in Serials : Rekey(r, s) \/ Enter(r, s)
  \/ \E d \in Devices : Bar(d)

Spec == Init /\ [][Next]_vars
=============================================================================
