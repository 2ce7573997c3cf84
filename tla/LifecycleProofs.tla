-------------------------- MODULE LifecycleProofs --------------------------
(***************************************************************************)
(* Proofs about the lifecycle routes, for any containers, names, requests, *)
(* entries and policy mode.                                                *)
(***************************************************************************)
EXTENDS ContainerReads, SequenceTheorems, TLAPS

InFlight == {"gate", "resolve", "inspect", "act", "record"}

\* A request that got past Validate runs in an agent that took a container for
\* its own, and one with honest candidates takes none but its own.
SelfInv ==
  /\ agent.honest => agent.self \in {NoId, Self} /\ Honest(agent.refs)
  /\ \A r \in Requests : pc[r] \in InFlight => agent.phase = "up"
  /\ \A r \in Requests : pc[r] \in {"inspect", "act"} => agent.self # NoId

\* The target of a request that is about to act is neither the container the
\* agent took for its own nor one the list has covered all along.
TargetInv ==
  /\ \A r \in Requests :
       pc[r] = "act" => target[r] \in Containers \ (calm[r] \cup {agent.self})
  /\ \A r \in Requests : calm[r] \subseteq Listed

\* What may be answered after the Engine call e.
Told(e, out) ==
  \/ out \in {"success", "engine_error"}
  \/ op[e.req] = "restart" /\ e.op = "stop" /\ out \in {"not_found", "conflict"}

\* How rows, outcomes and Engine calls go together.
RowInv ==
  /\ \A w \in rows : pc[w.req] = "done" /\ w.outcome = outcome[w.req]
  /\ \A r \in Requests : pc[r] = "done" => \E w \in rows : w.req = r
  /\ \A e \in acts : /\ pc[e.req] \in {"record", "done", "unlogged", "dead"}
                     /\ Told(e, outcome[e.req])
  /\ \A r \in Requests :
       pc[r] \in {"record", "done"} /\ outcome[r] = "success" =>
         \E e \in acts : e.req = r /\ e.op = op[r]

Inv == TypeOK /\ SelfInv /\ TargetInv /\ RowInv

USE DEF Live, Ops, Refs, Steps, Refusals, Outcomes, InFlight, engine, request

\* The candidates are a sequence of references.
LEMMA DetectType ==
  ASSUME NEW o \in Overrides, NEW f \in Finds
  PROVE  Detect(o, f) \in Seq(Names \cup Containers \cup {Stale})
<1> DEFINE S == Names \cup Containers \cup {Stale}
           first == IF o = NoRef THEN <<>> ELSE <<o>>
<1>1. f \in Seq(Containers \cup {Stale})
  BY FindsAssumption
<1>2. f \in Seq(S)
  <2>1. \A i \in 1..Len(f) : f[i] \in S
    BY <1>1
  <2> QED
    BY <1>1, <2>1
<1>3. o = NoRef \/ o \in S
  BY OverrideAssumption
<1> HIDE DEF S
<1>4. first \in Seq(S)
  <2>1. CASE o = NoRef
    BY <2>1
  <2>2. CASE o # NoRef
    <3>1. first = <<o>> /\ o \in S
      BY <1>3, <2>2
    <3> QED
      BY <3>1
  <2> QED
    BY <2>1, <2>2
<1> HIDE DEF first
<1>5. first \o f \in Seq(S)
  BY <1>2, <1>4, ConcatProperties
<1> QED
  BY <1>5 DEF S, first, Detect

\* An honest candidate that the Engine confirms is the agent's own container.
LEMMA ConfirmsSelf ==
  ASSUME TypeOK, Honest(agent.refs), NEW i \in DOMAIN agent.refs,
         NEW c \in Resolved(agent.refs[i])
  PROVE  Confirmed(agent.refs[i], c) = Self
<1>1. c \in Containers /\ Live(c) /\ (c = agent.refs[i] \/ name[c] = agent.refs[i])
  BY DEF Resolved
<1>2. agent.refs[i] \in {Self, Stale}
  BY DEF Honest
<1>3. name[c] \in Names
  BY <1>1 DEF TypeOK
<1> QED
  BY <1>1, <1>2, <1>3, NamesAssumption, SelfAssumption DEF Confirmed

\* What a booting agent is.
LEMMA BootAgent ==
  ASSUME Boot
  PROVE  /\ agent' \in Agents /\ agent'.phase = "probing" /\ agent'.self = NoId
         /\ agent'.honest => Honest(agent'.refs)
<1>1. PICK m \in Modes, o \in Overrides, f \in Finds :
        agent' = [Off EXCEPT !.phase = "probing", !.mode = m, !.refs = Detect(o, f),
                             !.honest = Honest(Detect(o, f))]
  BY DEF Boot
<1>2. m \in 0..2
  BY ConfigAssumption
<1> DEFINE refs == Detect(o, f)
           h == Honest(refs)
<1>3. refs \in Seq(Names \cup Containers \cup {Stale}) /\ h \in BOOLEAN /\ h = Honest(refs)
  BY DetectType DEF Honest
<1>4. agent' = [phase |-> "probing", mode |-> m, self |-> NoId, honest |-> h,
                refs |-> refs, next |-> 1]
  BY <1>1 DEF Off
<1> HIDE DEF refs, h
<1>5. /\ agent'.honest = h /\ agent'.refs = refs
      /\ agent'.phase = "probing" /\ agent'.self = NoId
  BY <1>4
<1>6. agent' \in Agents
  BY <1>2, <1>3, <1>4 DEF Agents
<1> QED
  BY <1>3, <1>5, <1>6

\* What an agent is that has settled who it is.
LEMMA SettledAgent ==
  ASSUME agent \in Agents, NEW id \in Containers \cup {NoId}, agent' = Settled(id)
  PROVE  /\ agent' \in Agents /\ agent'.phase = "up" /\ agent'.self = id
         /\ agent'.honest = agent.honest /\ Honest(agent'.refs)
<1>1. agent' = [phase |-> "up", mode |-> agent.mode, self |-> id, honest |-> agent.honest,
                refs |-> <<>>, next |-> 1]
  BY DEF Agents, Settled
<1>2. <<>> \in Seq(Names \cup Containers \cup {Stale})
  OBVIOUS
<1>3. agent.mode \in 0..2 /\ agent.honest \in BOOLEAN
  BY DEF Agents
<1>4. agent' \in Agents
  BY <1>1, <1>2, <1>3 DEF Agents
<1>5. agent'.refs = <<>>
  BY <1>1
<1>6. Honest(agent'.refs)
  BY <1>5 DEF Honest
<1>7. agent'.phase = "up" /\ agent'.self = id /\ agent'.honest = agent.honest
  BY <1>1
<1> QED
  BY <1>4, <1>6, <1>7

\* One candidate more: confirmed, or passed over.
LEMMA ProbeAgent ==
  ASSUME agent \in Agents, TypeOK, SelfInv, Probe
  PROVE  /\ agent' \in Agents
         /\ agent'.honest => agent'.self \in {NoId, Self} /\ Honest(agent'.refs)
         /\ agent.phase = "probing"
<1>1. agent.phase = "probing" /\ agent.next <= Len(agent.refs)
  BY DEF Probe
<1>2. agent.next \in DOMAIN agent.refs
  BY <1>1 DEF Agents
<1>3. CASE \E c \in Resolved(agent.refs[agent.next]) :
             agent' = Settled(Confirmed(agent.refs[agent.next], c))
  <2>1. PICK c \in Resolved(agent.refs[agent.next]) :
             agent' = Settled(Confirmed(agent.refs[agent.next], c))
    BY <1>3
  <2>2. Confirmed(agent.refs[agent.next], c) \in Containers
    BY <2>1 DEF Confirmed, Resolved
  <2>3. agent.honest => Confirmed(agent.refs[agent.next], c) = Self
    BY <1>2, ConfirmsSelf DEF SelfInv
  <2> DEFINE id == Confirmed(agent.refs[agent.next], c)
  <2>4. agent' = Settled(id) /\ id \in Containers \cup {NoId}
    BY <2>1, <2>2
  <2>5. agent.honest => id = Self
    BY <2>3
  <2> HIDE DEF id
  <2>6. /\ agent' \in Agents /\ agent'.self = id
        /\ agent'.honest = agent.honest /\ Honest(agent'.refs)
    BY <2>4, SettledAgent
  <2> QED
    BY <1>1, <2>5, <2>6
<1>4. CASE agent' = [agent EXCEPT !.next = agent.next + 1]
  <2>1. agent' \in Agents
    BY <1>4 DEF Agents
  <2>2. agent'.honest = agent.honest /\ agent'.self = agent.self /\ agent'.refs = agent.refs
    BY <1>4 DEF Agents
  <2> QED
    BY <1>1, <2>1, <2>2 DEF SelfInv, Honest
<1> QED
  BY <1>1, <1>3, <1>4 DEF Probe

(* A stopped agent, and one that has just been started, is an agent. *)
LEMMA OffAgent == Off \in Agents
<1>1. <<>> \in Seq(Names \cup Containers \cup {Stale})
  OBVIOUS
<1> QED
  BY <1>1 DEF Off, Agents

(* The invariant holds before anything was started. *)
LEMMA InitInv == Init => Inv
<1> SUFFICES ASSUME Init PROVE Inv
  OBVIOUS
<1> USE DEF Init, Off
<1>1. TypeOK
  BY SelfAssumption, OffAgent DEF TypeOK
<1>2. SelfInv
  BY SelfAssumption DEF SelfInv, Honest
<1>3. TargetInv
  BY DEF TargetInv, Listed
<1>4. RowInv
  BY DEF RowInv
<1> QED
  BY <1>1, <1>2, <1>3, <1>4 DEF Inv
-----------------------------------------------------------------------------

\* Every step keeps the types.
LEMMA TypeStep ==
  ASSUME Inv, [Next]_vars
  PROVE  TypeOK'
<1> USE DEF Inv
<1>1. CASE Boot
  BY <1>1, BootAgent DEF Boot, TypeOK
<1>2. CASE Probe
  BY <1>2, ProbeAgent DEF Probe, TypeOK
<1>3. CASE GiveUp
  BY <1>3, SettledAgent DEF GiveUp, TypeOK
<1>4. CASE Crash
  BY <1>4, OffAgent DEF Crash, TypeOK
<1>5. ASSUME NEW c \in Containers, NEW n \in Names, Create(c, n)
      PROVE  TypeOK'
  BY <1>5 DEF Create, Free, TypeOK
<1>6. ASSUME NEW c \in Containers, NEW n \in Names, Rename(c, n)
      PROVE  TypeOK'
  BY <1>6 DEF Rename, Free, Watch, TypeOK
<1>7. ASSUME NEW c \in Containers, NEW s \in {"stopped", "running", "removed"}, Change(c, s)
      PROVE  TypeOK'
  BY <1>7 DEF Change, Watch, TypeOK
<1>8. ASSUME NEW r \in Requests, NEW o \in Ops, NEW x \in Refs, Arrive(r, o, x)
      PROVE  TypeOK'
  BY <1>8 DEF Arrive, TypeOK, Listed
<1>9. ASSUME NEW r \in Requests, requireOp(r)
      PROVE  TypeOK'
  BY <1>9 DEF requireOp, Goto, Refuse, Answer, TypeOK
<1>10. ASSUME NEW r \in Requests, Validate(r)
      PROVE  TypeOK'
  BY <1>10 DEF Validate, Goto, Answer, TypeOK
<1>11. ASSUME NEW r \in Requests, Inspect(r)
      PROVE  TypeOK'
  BY <1>11 DEF Inspect, Judge, Answer, Resolved, TypeOK
<1>12. ASSUME NEW r \in Requests, Act(r)
      PROVE  TypeOK'
  <2>1. target[r] \in Containers /\ op[r] \in Ops
    BY <1>12 DEF Act, TypeOK, TargetInv
  <2>2. CASE Carry(r, target[r])
    <3>1. After(op[r], status[target[r]]) \in {"stopped", "running", "removed"}
      BY <2>1, <2>2 DEF Carry, After
    <3>2. status' \in [Containers -> {"unborn", "stopped", "running", "removed"}]
      BY <2>1, <2>2, <3>1 DEF Carry, TypeOK
    <3>3. acts' \subseteq [req : Requests, id : Containers, op : Ops]
      BY <2>1, <2>2 DEF Carry, TypeOK
    <3>4. calm' \in [Requests -> SUBSET Containers]
      BY <2>2 DEF Carry, Watch, TypeOK
    <3>5. \A c \in Containers : Live(c)' => Live(c)
      BY <2>1, <2>2 DEF Carry, TypeOK
    <3>6. UNCHANGED <<name, agent, op, ref, rows, target>>
      BY <1>12 DEF Act, Answer
    <3>7. pc' \in [Requests -> Steps] /\ outcome' \in [Requests -> Outcomes]
      BY <1>12 DEF Act, Answer, TypeOK
    <3> QED
      BY <3>2, <3>3, <3>4, <3>5, <3>6, <3>7 DEF TypeOK
  <2>3. CASE Rest
    BY <1>12, <2>3 DEF Act, Answer, Rest, TypeOK
  <2>4. CASE HalfRestart(r, target[r])
    <3>1. status' \in [Containers -> {"unborn", "stopped", "running", "removed"}]
      BY <2>1, <2>4 DEF HalfRestart, TypeOK
    <3>2. acts' \subseteq [req : Requests, id : Containers, op : Ops]
      BY <2>1, <2>4 DEF HalfRestart, TypeOK
    <3>3. calm' \in [Requests -> SUBSET Containers]
      BY <2>4 DEF HalfRestart, Watch, TypeOK
    <3>4. \A c \in Containers : Live(c)' => Live(c)
      BY <2>1, <2>4 DEF HalfRestart, TypeOK
    <3>5. UNCHANGED <<name, agent, op, ref, rows, target>>
      BY <1>12 DEF Act, Answer
    <3>6. pc' \in [Requests -> Steps] /\ outcome' \in [Requests -> Outcomes]
      BY <1>12 DEF Act, Answer, TypeOK
    <3> QED
      BY <3>1, <3>2, <3>3, <3>4, <3>5, <3>6 DEF TypeOK
  <2> QED
    BY <1>12, <2>2, <2>3, <2>4 DEF Act, Target
<1>13. ASSUME NEW r \in Requests, Record(r)
      PROVE  TypeOK'
  BY <1>13 DEF Record, TypeOK
<1>14. CASE UNCHANGED vars
  BY <1>14 DEF vars, TypeOK
<1> QED
  BY <1>1, <1>2, <1>3, <1>4, <1>5, <1>6, <1>7, <1>8, <1>9, <1>10, <1>11,
    <1>12, <1>13, <1>14 DEF Next, Others, Serve

\* No step makes an agent with honest candidates believe it is another container.
LEMMA SelfStep ==
  ASSUME Inv, [Next]_vars
  PROVE  SelfInv'
<1> USE DEF Inv
<1>1. CASE Boot
  BY <1>1, BootAgent DEF Boot, TypeOK, SelfInv
<1>2. CASE Probe
  BY <1>2, ProbeAgent DEF Probe, TypeOK, SelfInv
<1>3. CASE GiveUp
  BY <1>3, SettledAgent DEF GiveUp, TypeOK, SelfInv, Honest
<1>4. CASE Crash
  BY <1>4 DEF Crash, Off, TypeOK, SelfInv, Honest
<1>5. ASSUME NEW c \in Containers, NEW n \in Names, Create(c, n)
      PROVE  SelfInv'
  BY <1>5 DEF Create, Free, TypeOK, SelfInv
<1>6. ASSUME NEW c \in Containers, NEW n \in Names, Rename(c, n)
      PROVE  SelfInv'
  BY <1>6 DEF Rename, Free, Watch, TypeOK, SelfInv
<1>7. ASSUME NEW c \in Containers, NEW s \in {"stopped", "running", "removed"}, Change(c, s)
      PROVE  SelfInv'
  BY <1>7 DEF Change, Watch, TypeOK, SelfInv
<1>8. ASSUME NEW r \in Requests, NEW o \in Ops, NEW x \in Refs, Arrive(r, o, x)
      PROVE  SelfInv'
  BY <1>8 DEF Arrive, TypeOK, SelfInv
<1>9. ASSUME NEW r \in Requests, requireOp(r)
      PROVE  SelfInv'
  BY <1>9 DEF requireOp, Goto, Refuse, Answer, TypeOK, SelfInv
<1>10. ASSUME NEW r \in Requests, Validate(r)
      PROVE  SelfInv'
  BY <1>10, ContainerizedAssumption DEF Validate, Goto, Answer, SelfUnknown,
    TypeOK, SelfInv
<1>11. ASSUME NEW r \in Requests, Inspect(r)
      PROVE  SelfInv'
  BY <1>11 DEF Inspect, Judge, Answer, Resolved, TypeOK, SelfInv
<1>12. ASSUME NEW r \in Requests, Act(r)
      PROVE  SelfInv'
  BY <1>12 DEF Act, Carry, HalfRestart, Answer, Rest, Target, Watch, After, TypeOK, SelfInv
<1>13. ASSUME NEW r \in Requests, Record(r)
      PROVE  SelfInv'
  BY <1>13 DEF Record, TypeOK, SelfInv
<1>14. CASE UNCHANGED vars
  BY <1>14 DEF vars, TypeOK, SelfInv
<1> QED
  BY <1>1, <1>2, <1>3, <1>4, <1>5, <1>6, <1>7, <1>8, <1>9, <1>10, <1>11,
    <1>12, <1>13, <1>14 DEF Next, Others, Serve

\* No step lets a request act on a container it must leave alone.
LEMMA TargetStep ==
  ASSUME Inv, [Next]_vars
  PROVE  TargetInv'
<1> USE DEF Inv
<1>1. CASE Boot
  BY <1>1 DEF Boot, Off, TypeOK, SelfInv, TargetInv, Listed
<1>2. CASE Probe
  BY <1>2 DEF Probe, TypeOK, SelfInv, TargetInv, Listed
<1>3. CASE GiveUp
  BY <1>3 DEF GiveUp, TypeOK, SelfInv, TargetInv, Listed
<1>4. CASE Crash
  BY <1>4 DEF Crash, Off, TypeOK, TargetInv, Listed
<1>5. ASSUME NEW c \in Containers, NEW n \in Names, Create(c, n)
      PROVE  TargetInv'
  BY <1>5 DEF Create, Free, TypeOK, TargetInv, Listed
<1>6. ASSUME NEW c \in Containers, NEW n \in Names, Rename(c, n)
      PROVE  TargetInv'
  BY <1>6 DEF Rename, Free, Watch, TypeOK, TargetInv, Listed
<1>7. ASSUME NEW c \in Containers, NEW s \in {"stopped", "running", "removed"}, Change(c, s)
      PROVE  TargetInv'
  BY <1>7 DEF Change, Watch, TypeOK, TargetInv, Listed
<1>8. ASSUME NEW r \in Requests, NEW o \in Ops, NEW x \in Refs, Arrive(r, o, x)
      PROVE  TargetInv'
  BY <1>8 DEF Arrive, TypeOK, TargetInv, Listed
<1>9. ASSUME NEW r \in Requests, requireOp(r)
      PROVE  TargetInv'
  BY <1>9 DEF requireOp, Goto, Refuse, Answer, TypeOK, TargetInv, Listed
<1>10. ASSUME NEW r \in Requests, Validate(r)
      PROVE  TargetInv'
  BY <1>10 DEF Validate, Goto, Answer, TypeOK, TargetInv, Listed
<1>11. ASSUME NEW r \in Requests, Inspect(r)
      PROVE  TargetInv'
  BY <1>11 DEF Inspect, Judge, Answer, Resolved, TypeOK, SelfInv, TargetInv,
    Listed, Covered
<1>12. ASSUME NEW r \in Requests, Act(r)
      PROVE  TargetInv'
  BY <1>12 DEF Act, Carry, HalfRestart, Answer, Rest, Target, Watch, After, TypeOK,
    TargetInv, Listed
<1>13. ASSUME NEW r \in Requests, Record(r)
      PROVE  TargetInv'
  BY <1>13 DEF Record, TypeOK, TargetInv, Listed
<1>14. CASE UNCHANGED vars
  BY <1>14 DEF vars, TypeOK, TargetInv, Listed
<1> QED
  BY <1>1, <1>2, <1>3, <1>4, <1>5, <1>6, <1>7, <1>8, <1>9, <1>10, <1>11,
    <1>12, <1>13, <1>14 DEF Next, Others, Serve

\* Every step keeps rows, outcomes and calls together.
LEMMA RowStep ==
  ASSUME Inv, [Next]_vars
  PROVE  RowInv'
<1> USE DEF Inv
<1>1. CASE Boot
  BY <1>1 DEF Boot, Off, TypeOK, RowInv, Told
<1>2. CASE Probe
  BY <1>2 DEF Probe, TypeOK, RowInv, Told
<1>3. CASE GiveUp
  BY <1>3 DEF GiveUp, TypeOK, RowInv, Told
<1>4. CASE Crash
  BY <1>4 DEF Crash, Off, TypeOK, RowInv, Told
<1>5. ASSUME NEW c \in Containers, NEW n \in Names, Create(c, n)
      PROVE  RowInv'
  BY <1>5 DEF Create, Free, TypeOK, RowInv, Told
<1>6. ASSUME NEW c \in Containers, NEW n \in Names, Rename(c, n)
      PROVE  RowInv'
  BY <1>6 DEF Rename, Free, Watch, TypeOK, RowInv, Told
<1>7. ASSUME NEW c \in Containers, NEW s \in {"stopped", "running", "removed"}, Change(c, s)
      PROVE  RowInv'
  BY <1>7 DEF Change, Watch, TypeOK, RowInv, Told
<1>8. ASSUME NEW r \in Requests, NEW o \in Ops, NEW x \in Refs, Arrive(r, o, x)
      PROVE  RowInv'
  BY <1>8 DEF Arrive, TypeOK, RowInv, Told
<1>9. ASSUME NEW r \in Requests, requireOp(r)
      PROVE  RowInv'
  BY <1>9 DEF requireOp, Goto, Refuse, Answer, TypeOK, RowInv, Told
<1>10. ASSUME NEW r \in Requests, Validate(r)
      PROVE  RowInv'
  BY <1>10 DEF Validate, Goto, Answer, TypeOK, RowInv, Told
<1>11. ASSUME NEW r \in Requests, Inspect(r)
      PROVE  RowInv'
  BY <1>11 DEF Inspect, Judge, Answer, Resolved, TypeOK, RowInv, Told
<1>12. ASSUME NEW r \in Requests, Act(r)
      PROVE  RowInv'
  <2>1. pc[r] = "act" /\ \A e \in acts : e.req # r
    BY <1>12 DEF Act, RowInv
  <2>2. \A w \in rows : w.req # r
    BY <2>1 DEF RowInv
  <2>3. PICK out \in Outcomes : Answer(r, out) /\ UNCHANGED <<rows, op>>
    BY <1>12 DEF Act
  <2>4. /\ pc'[r] = "record" /\ outcome'[r] = out
        /\ \A q \in Requests \ {r} : pc'[q] = pc[q] /\ outcome'[q] = outcome[q]
    BY <2>3 DEF Answer, TypeOK
  <2>5. \A w \in rows' : pc'[w.req] = "done" /\ w.outcome = outcome'[w.req]
    BY <2>2, <2>3, <2>4 DEF TypeOK, RowInv
  <2>6. \A q \in Requests : pc'[q] = "done" => \E w \in rows' : w.req = q
    BY <2>3, <2>4 DEF RowInv
  \* What holds of the calls for other requests still does.
  <2>7. \A e \in acts : /\ pc'[e.req] \in {"record", "done", "unlogged", "dead"}
                        /\ Told(e, outcome'[e.req])
    BY <2>1, <2>4 DEF TypeOK, RowInv
  <2>8. op' = op
    BY <2>3
  <2>9. \A q \in Requests \ {r} :
          pc'[q] \in {"record", "done"} /\ outcome'[q] = "success" =>
            \E e \in acts : e.req = q /\ e.op = op'[q]
    BY <2>3, <2>4 DEF RowInv
  <2>10. CASE \E o \in Ops : /\ acts' = acts \cup {[req |-> r, id |-> target[r], op |-> o]}
                            /\ \/ o = op[r] /\ out \in {"success", "engine_error"}
                               \/ /\ op[r] = "restart" /\ o = "stop"
                                  /\ out \in {"engine_error", "not_found", "conflict"}
    <3>1. PICK o \in Ops : /\ acts' = acts \cup {[req |-> r, id |-> target[r], op |-> o]}
                           /\ \/ o = op[r] /\ out \in {"success", "engine_error"}
                              \/ /\ op[r] = "restart" /\ o = "stop"
                                 /\ out \in {"engine_error", "not_found", "conflict"}
      BY <2>10
    <3> DEFINE new == [req |-> r, id |-> target[r], op |-> o]
    <3>2. acts' = acts \cup {new} /\ new.req = r /\ new.op = o
      BY <3>1
    <3> HIDE DEF new
    <3>3. Told(new, out) /\ (out = "success" => new.op = op[r])
      BY <3>1, <3>2 DEF Told
    <3>4. \A e \in acts' : /\ pc'[e.req] \in {"record", "done", "unlogged", "dead"}
                           /\ Told(e, outcome'[e.req])
      BY <2>4, <2>7, <3>2, <3>3
    <3>5. \A e \in acts' : Told(e, outcome[e.req])'
      BY <2>8, <3>4 DEF Told
    <3>6. \A q \in Requests :
            pc'[q] \in {"record", "done"} /\ outcome'[q] = "success" =>
              \E e \in acts' : e.req = q /\ e.op = op'[q]
      BY <2>3, <2>4, <2>9, <3>2, <3>3
    <3> QED
      BY <2>5, <2>6, <3>4, <3>5, <3>6 DEF RowInv
  <2>11. CASE Rest /\ out # "success"
    <3>1. acts' = acts
      BY <2>11 DEF Rest
    <3>2. \A e \in acts' : Told(e, outcome[e.req])'
      BY <2>7, <2>8, <3>1 DEF Told
    <3>3. \A q \in Requests :
            pc'[q] \in {"record", "done"} /\ outcome'[q] = "success" =>
              \E e \in acts' : e.req = q /\ e.op = op'[q]
      BY <2>4, <2>9, <2>11, <3>1
    <3> QED
      BY <2>5, <2>6, <2>7, <3>1, <3>2, <3>3 DEF RowInv
  <2>12. CASE Carry(r, target[r]) /\ (Answer(r, "success") \/ Answer(r, "engine_error"))
    <3>1. out \in {"success", "engine_error"}
      BY <2>4, <2>12 DEF Answer, TypeOK
    <3>2. acts' = acts \cup {[req |-> r, id |-> target[r], op |-> op[r]]} /\ op[r] \in Ops
      BY <2>12 DEF Carry, TypeOK
    <3> QED
      BY <2>10, <3>1, <3>2
  <2>13. CASE /\ HalfRestart(r, target[r])
              /\ \E x \in {"engine_error", "not_found", "conflict"} : Answer(r, x)
    <3>1. out \in {"engine_error", "not_found", "conflict"}
      BY <2>4, <2>13 DEF Answer, TypeOK
    <3>2. /\ acts' = acts \cup {[req |-> r, id |-> target[r], op |-> "stop"]}
          /\ op[r] = "restart" /\ "stop" \in Ops
      BY <2>13 DEF HalfRestart
    <3> QED
      BY <2>10, <3>1, <3>2
  <2>14. CASE /\ Rest
              /\ Answer(r, "engine_error") \/ Answer(r, "not_found") \/ Answer(r, "conflict")
    <3>1. out # "success"
      BY <2>4, <2>14 DEF Answer, TypeOK
    <3> QED
      BY <2>11, <2>14, <3>1
  <2> QED
    BY <1>12, <2>12, <2>13, <2>14 DEF Act, Target
<1>13. ASSUME NEW r \in Requests, Record(r)
      PROVE  RowInv'
  <2>1. \A w \in rows : w.req # r
    BY <1>13 DEF Record, RowInv
  <2>2. CASE /\ pc' = [pc EXCEPT ![r] = "done"]
             /\ rows' = rows \cup {[req |-> r, outcome |-> outcome[r]]}
    <3> DEFINE row == [req |-> r, outcome |-> outcome[r]]
    <3>1. row \in rows' /\ row.req = r /\ row.outcome = outcome[r]
      BY <2>2
    <3>0. rows \subseteq rows'
      BY <2>2
    <3>2. /\ pc[r] = "record" /\ pc'[r] = "done" /\ UNCHANGED <<outcome, acts>>
          /\ \A q \in Requests \ {r} : pc'[q] = pc[q]
      BY <1>13, <2>2 DEF Record, TypeOK
    <3>3. \A w \in rows' : pc'[w.req] = "done" /\ w.outcome = outcome'[w.req]
      BY <2>1, <2>2, <3>1, <3>2 DEF TypeOK, RowInv, Told
    <3> HIDE DEF row
    <3>4. \A q \in Requests : pc'[q] = "done" => \E w \in rows' : w.req = q
      BY <3>0, <3>1, <3>2 DEF RowInv
    <3>5. acts' = acts /\ outcome' = outcome /\ op' = op
      BY <1>13 DEF Record
    <3>6. \A e \in acts' : /\ pc'[e.req] \in {"record", "done", "unlogged", "dead"}
                           /\ Told(e, outcome[e.req])'
      BY <3>2, <3>5 DEF TypeOK, RowInv, Told
    <3>7. \A q \in Requests :
            pc'[q] \in {"record", "done"} /\ outcome'[q] = "success" =>
              \E e \in acts' : e.req = q /\ e.op = op'[q]
      BY <3>2, <3>5 DEF RowInv
    <3> QED
      BY <3>3, <3>4, <3>6, <3>7 DEF RowInv
  <2>3. CASE pc' = [pc EXCEPT ![r] = "unlogged"] /\ UNCHANGED rows
    BY <1>13, <2>1, <2>3 DEF Record, TypeOK, RowInv, Told
  <2> QED
    BY <1>13, <2>2, <2>3 DEF Record
<1>14. CASE UNCHANGED vars
  BY <1>14 DEF vars, TypeOK, RowInv, Told
<1> QED
  BY <1>1, <1>2, <1>3, <1>4, <1>5, <1>6, <1>7, <1>8, <1>9, <1>10, <1>11,
    <1>12, <1>13, <1>14 DEF Next, Others, Serve

-----------------------------------------------------------------------------
(* Every step keeps the four parts of the invariant. *)
LEMMA InvStep == Inv /\ [Next]_vars => Inv'
  BY TypeStep, SelfStep, TargetStep, RowStep DEF Inv

(* The invariant holds throughout. *)
LEMMA Invariance == Spec => []Inv
  BY InitInv, InvStep, PTL DEF Spec

\* Type correctness of the lifecycle routes.
THEOREM LifecycleTypes == Spec => []TypeOK
<1>1. Inv => TypeOK
  BY DEF Inv
<1> QED
  BY <1>1, Invariance, PTL

\* A call the Engine carries out for a request falls on the request's target,
\* whole or in half.
LEMMA ActsOnTarget ==
  ASSUME Next, NEW e \in acts' \ acts
  PROVE  \E r \in Requests : Act(r) /\ e.id = target[r] /\ e.req = r
<1>1. PICK r \in Requests : Act(r)
  BY DEF Next, Others, Serve, Boot, Probe, GiveUp, Crash, Create, Rename,
         Change, Arrive, requireOp, Validate, Inspect, Record
<1> QED
  BY <1>1 DEF Act, Target, Carry, HalfRestart, Rest

\* The agent acts only if it took a container for its own, never on that one,
\* and not on its own if no candidate could name another, for any number of
\* containers, names and requests and any candidates (lifecycle.go
\* resolveTarget, self.go confirmSelf).
THEOREM AgentSparesItself == Spec => NeverSelf
<1>1. Inv /\ [Next]_vars =>
        [\A e \in acts' \ acts :
           /\ agent.self # NoId
           /\ e.id # agent.self
           /\ agent.honest => e.id # Self]_vars
  <2> SUFFICES ASSUME Inv, Next, NEW e \in acts' \ acts
               PROVE  /\ agent.self # NoId
                      /\ e.id # agent.self
                      /\ agent.honest => e.id # Self
    OBVIOUS
  <2>1. PICK r \in Requests : Act(r) /\ e.id = target[r] /\ e.req = r
    BY ActsOnTarget
  <2>2. pc[r] = "act"
    BY <2>1 DEF Act
  <2> QED
    BY <2>1, <2>2 DEF Inv, SelfInv, TargetInv
<1> QED
  BY <1>1, Invariance, PTL DEF Spec, NeverSelf

\* A container the operator's list covers from a request's arrival on is not
\* acted on for it (lifecycle.go resolveTarget, protected.go matches).
THEOREM ProtectionHolds == Spec => ProtectedHeld
<1>1. Inv /\ [Next]_vars => [\A e \in acts' \ acts : e.id \notin calm[e.req]]_vars
  <2> SUFFICES ASSUME Inv, Next, NEW e \in acts' \ acts
               PROVE  e.id \notin calm[e.req]
    OBVIOUS
  <2>1. PICK r \in Requests : Act(r) /\ e.id = target[r] /\ e.req = r
    BY ActsOnTarget
  <2> QED
    BY <2>1 DEF Inv, TargetInv, Act
<1> QED
  BY <1>1, Invariance, PTL DEF Spec, ProtectedHeld

\* The audit rows agree with what the Engine was made to do (audit.go
\* withAudit, reads.go writeDockerError).
THEOREM LifecycleAudit == Spec => []AuditTruthful
<1>1. Inv => AuditTruthful
  <2> SUFFICES ASSUME Inv, NEW r \in Requests
               PROVE  LET mine == {w \in rows : w.req = r}
                          done == {e \in acts : e.req = r}
                      IN  /\ pc[r] = "done" <=> mine # {}
                          /\ \A w, v \in mine : w = v
                          /\ \A w \in mine, e \in done :
                               w.outcome \in Refusals =>
                                 /\ op[r] = "restart" /\ e.op = "stop"
                                 /\ w.outcome \in {"not_found", "conflict"}
                          /\ \A w \in mine :
                               w.outcome = "success" => \E e \in done : e.op = op[r]
    BY DEF AuditTruthful
  <2>1. \A w \in rows : w.req = r => w = [req |-> r, outcome |-> outcome[r]]
    BY DEF Inv, RowInv, TypeOK
  <2> QED
    BY <2>1 DEF Inv, RowInv, Told
<1> QED
  BY <1>1, Invariance, PTL
-----------------------------------------------------------------------------
(* Reads beside the operations *)

\* The mark a device sees, computed anew.
Marked(c) == (c = agent.self /\ agent.self # NoId) \/ matches(c, name[c])

\* A row that is still shown is of a container that exists, and its mark is
\* the one a projection would give it now.
ShownInv ==
  shown # NoRow => /\ shown.id \in Containers
                   /\ shown.protected <=> Marked(shown.id)

\* A request that has not been judged has refused nothing.
UnjudgedInv ==
  \A r \in Requests :
    pc[r] \in {"gate", "resolve", "inspect"} => outcome[r] = "success"

ReadInv == Inv /\ ShownInv /\ UnjudgedInv

\* A read leaves the Engine and the requests alone.
LEMMA ReadIsNoOperation ==
  ASSUME [ReadNext]_readVars
  PROVE  [Next]_vars
  BY DEF ReadNext, ListContainers, InspectContainer, readVars

\* A request that no judge has seen yet keeps the outcome it started with.
LEMMA UnjudgedStep ==
  ASSUME Inv, UnjudgedInv, [Next]_vars
  PROVE  UnjudgedInv'
<1> USE DEF Inv, UnjudgedInv
<1>1. CASE Boot
  BY <1>1 DEF Boot
<1>2. CASE Probe
  BY <1>2 DEF Probe
<1>3. CASE GiveUp
  BY <1>3 DEF GiveUp
<1>4. CASE Crash
  BY <1>4 DEF Crash, TypeOK
<1>5. CASE Others
  BY <1>5 DEF Others, Create, Rename, Change
<1>6. ASSUME NEW r \in Requests, Serve(r)
      PROVE  UnjudgedInv'
  <2>1. ASSUME NEW o \in Ops, NEW x \in Refs, Arrive(r, o, x)
        PROVE  UnjudgedInv'
    BY <2>1 DEF Arrive, TypeOK
  <2>2. CASE requireOp(r)
    BY <2>2 DEF requireOp, Goto, Refuse, Answer, TypeOK
  <2>3. CASE Validate(r)
    BY <2>3 DEF Validate, Goto, Answer, TypeOK
  <2>4. CASE Inspect(r)
    BY <2>4 DEF Inspect, Judge, Answer, TypeOK
  <2>5. CASE Act(r)
    BY <2>5 DEF Act, Answer, TypeOK
  <2>6. CASE Record(r)
    BY <2>6 DEF Record, TypeOK
  <2> QED
    BY <1>6, <2>1, <2>2, <2>3, <2>4, <2>5, <2>6 DEF Serve
<1>7. CASE UNCHANGED vars
  BY <1>7 DEF vars
<1> QED
  BY <1>1, <1>2, <1>3, <1>4, <1>5, <1>6, <1>7 DEF Next

\* A row is forgotten by every step that could make its mark wrong.
LEMMA ShownStep ==
  ASSUME Inv, ShownInv, [ReadNext]_readVars
  PROVE  ShownInv'
<1>1. CASE Next /\ Forget
  <2>1. CASE shown' = NoRow
    BY <2>1 DEF ShownInv
  <2>2. CASE shown' # NoRow
    <3>1. /\ shown' = shown /\ shown # NoRow /\ agent' = agent
          /\ name'[shown.id] = name[shown.id]
      BY <1>1, <2>2 DEF Forget
    <3> QED
      BY <3>1 DEF ShownInv, Marked, matches
  <2> QED
    BY <2>1, <2>2
<1>2. ASSUME NEW c \in Containers, UNCHANGED vars,
             shown' = Row(c, (c = agent.self /\ agent.self # NoId) \/ matches(c, name[c]))
      PROVE  ShownInv'
  <2>1. shown'.id = c /\ shown'.protected = Marked(c)
    BY <1>2 DEF Row, Marked
  <2>2. Marked(c)' = Marked(c)
    BY <1>2 DEF vars, Marked, matches
  <2> QED
    BY <2>1, <2>2 DEF ShownInv
<1>3. ASSUME NEW all \in BOOLEAN, ListContainers(all)
      PROVE  ShownInv'
  <2>1. PICK page \in truncate({c \in Containers :
                             status[c] = "running" \/ (all /\ Live(c))}) :
           \E c \in page : shown' = toContainerSummary(c)
    BY <1>3 DEF ListContainers
  <2>2. PICK c \in page : shown' = toContainerSummary(c)
    BY <2>1
  <2>3. c \in Containers
    BY <2>1, <2>2 DEF truncate
  <2> QED
    BY <1>2, <1>3, <2>2, <2>3 DEF ListContainers, toContainerSummary
<1>4. ASSUME NEW x \in Refs, InspectContainer(x)
      PROVE  ShownInv'
  BY <1>2, <1>4 DEF InspectContainer, Resolved, toContainerDetail
<1>5. CASE UNCHANGED readVars
  BY <1>5 DEF readVars, vars, ShownInv, Marked, matches
<1> QED
  BY <1>1, <1>3, <1>4, <1>5 DEF ReadNext

LEMMA ReadInvariance == ReadSpec => []ReadInv
<1>1. ReadInit => ReadInv
  BY InitInv DEF ReadInit, Init, ReadInv, ShownInv, UnjudgedInv
<1>2. ReadInv /\ [ReadNext]_readVars => ReadInv'
  BY InvStep, ReadIsNoOperation, ShownStep, UnjudgedStep DEF ReadInv
<1> QED
  BY <1>1, <1>2, PTL DEF ReadSpec

\* A reference resolves to one container.
LEMMA ResolvedOnce ==
  ASSUME TypeOK, NEW x, NEW c \in Resolved(x), NEW d \in Resolved(x)
  PROVE  c = d
  BY NamesAssumption DEF Resolved, TypeOK

\* What a device is shown as protected is refused, and what it is shown as free
\* is not refused for whose container it is (toContainerSummary,
\* toContainerDetail, resolveTarget): for any containers, names, entries,
\* page size and number of requests.
THEOREM MarksAreKept == ReadSpec => MarkIsKept
<1>1. ASSUME ReadInv, [ReadNext]_readVars, NEW r \in Requests,
             pc[r] = "inspect", pc'[r] # "inspect",
             shown # NoRow, shown.id \in Resolved(ref[r])
      PROVE  /\ outcome'[r] \in {"denied_self", "denied_protected"} => shown.protected
             /\ pc'[r] = "act" => ~shown.protected
  <2> USE <1>1 DEF ReadInv, Inv
  <2>1. agent.self # NoId /\ outcome[r] = "success"
    BY DEF SelfInv, UnjudgedInv
  <2>2. shown.protected <=> Marked(shown.id)
    BY DEF ShownInv
  <2>3. [Next]_vars
    BY ReadIsNoOperation
  <2>4. CASE Inspect(r)
    <3>1. CASE \E c \in Resolved(ref[r]) : Judge(r, c)
      <4>1. PICK c \in Resolved(ref[r]) : Judge(r, c)
        BY <3>1
      <4>2. c = shown.id
        BY <4>1, ResolvedOnce
      <4>3. CASE c = agent.self
        BY <2>1, <2>2, <4>1, <4>2, <4>3 DEF Judge, Answer, TypeOK, Marked
      <4>4. CASE c # agent.self /\ Covered(r, c)
        BY <2>1, <2>2, <4>1, <4>2, <4>4 DEF Judge, Answer, TypeOK, Marked, Covered
      <4>5. CASE c # agent.self /\ ~Covered(r, c)
        BY <2>1, <2>2, <4>1, <4>2, <4>5 DEF Judge, Answer, TypeOK, Marked, Covered
      <4> QED
        BY <4>3, <4>4, <4>5
    <3>2. CASE Resolved(ref[r]) = {} /\ Answer(r, "not_found")
      BY <3>2 DEF Answer, TypeOK
    <3>3. CASE Answer(r, "engine_error")
      BY <3>3 DEF Answer, TypeOK
    <3> QED
      BY <2>4, <3>1, <3>2, <3>3 DEF Inspect
  <2>5. CASE Crash
    BY <2>1, <2>5 DEF Crash, TypeOK
  <2>6. CASE Boot \/ Probe \/ GiveUp \/ Others
    BY <2>6 DEF Boot, Probe, GiveUp, Others, Create, Rename, Change
  <2>7. ASSUME NEW q \in Requests, Serve(q), ~Inspect(r)
        PROVE  FALSE
    <3>1. pc'[r] = pc[r] \/ q = r
      BY <2>7 DEF Serve, Arrive, requireOp, Validate, Inspect, Act, Record,
        Refuse, Answer, Goto, Judge, TypeOK
    <3>2. q = r
      BY <3>1
    <3> QED
      BY <2>7, <3>2 DEF Serve, Arrive, requireOp, Validate, Act, Record
  <2>8. CASE UNCHANGED vars
    BY <2>8 DEF vars
  <2> QED
    BY <2>3, <2>4, <2>5, <2>6, <2>7, <2>8 DEF Next
<1>2. ReadInv /\ [ReadNext]_readVars =>
        [\A r \in Requests :
           (/\ pc[r] = "inspect" /\ pc'[r] # "inspect"
            /\ shown # NoRow /\ shown.id \in Resolved(ref[r]))
           => /\ outcome'[r] \in {"denied_self", "denied_protected"} => shown.protected
              /\ pc'[r] = "act" => ~shown.protected]_readVars
  BY <1>1
<1> QED
  BY <1>2, ReadInvariance, PTL DEF ReadSpec, MarkIsKept
=============================================================================
