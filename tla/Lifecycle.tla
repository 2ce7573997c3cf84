----------------------------- MODULE Lifecycle -----------------------------
(***************************************************************************)
(* The container lifecycle routes (start, restart, stop, kill, delete):    *)
(* the policy gate (internal/httpapi requireOp), the agent's exclusion of  *)
(* its own container and of the ones the operator protected                *)
(* (internal/dockerx confirmSelf, resolveTarget, protectedSet), the call   *)
(* to the Engine, and the audit row (withAudit).                           *)
(*                                                                         *)
(* A request is a goroutine: between its inspect and its action the host's *)
(* operator, a compose stack or another request may create, rename, start, *)
(* stop or remove containers.  The Engine is external.  A container is     *)
(* identified by its full ID; a reference is an ID (short or full), a name *)
(* or a text ValidateRef refuses.  requireDevice and withDeviceLimit have  *)
(* already let the request through.                                        *)
(***************************************************************************)
EXTENDS Naturals, Sequences

CONSTANTS
  Requests,    \* one goroutine each
  Containers,  \* container IDs
  Names,       \* container names
  Self,        \* the ID of the agent's own container
  BadRef,      \* a reference outside refPattern
  Stale,       \* an ID the Engine does not know
  NoId, NoRef,
  Containerized,  \* /.dockerenv exists
  Overrides,   \* what DEVMON_SELF_CONTAINER may be: a reference, or NoRef
  Finds,       \* what mountinfo, cgroup and $HOSTNAME may name, in that order
  Entries,     \* DEVMON_PROTECTED_CONTAINERS
  Modes        \* what DEVMON_POLICY_MODE may be: 0 read-only, 1 default, 2 full

Ops == {"start", "restart", "stop", "kill", "delete"}
Refs == Names \cup Containers \cup {BadRef}

ASSUME SelfAssumption == Self \in Containers /\ NoId \notin Containers
ASSUME NamesAssumption ==
  /\ Names \cap Containers = {}
  /\ {BadRef, NoRef, Stale} \cap (Names \cup Containers) = {}
\* What the operator set and what the process finds may name any container: with
\* "network_mode: container:<other>" mountinfo and $HOSTNAME are the other's.
ASSUME OverrideAssumption == Overrides \subseteq Names \cup Containers \cup {Stale, NoRef}
ASSUME FindsAssumption == Finds \subseteq Seq(Containers \cup {Stale})
ASSUME ContainerizedAssumption == Containerized = TRUE
ASSUME ConfigAssumption ==
  Entries \subseteq Names \cup Containers /\ Modes \subseteq 0..2

VARIABLES
  status,  \* Engine: "unborn", "stopped", "running" or "removed"
  name,    \* Engine: the name of each container
  agent,   \* the agent: phase, policy mode, self (selfInfo.id); until that is
           \* settled, the candidates and the one to be confirmed next; history:
           \* honest, none of them could name another container
  pc,      \* where each request is
  op, ref, \* what it asks for
  target,  \* the ID resolveTarget returned
  outcome, \* auditEntry.outcome
  rows,    \* the audit rows
  acts,    \* history: the calls the Engine carried out for a request
  calm     \* history: containers the list has covered since a request arrived

engine == <<status, name>>
request == <<pc, op, ref, target, outcome>>
vars == <<status, name, agent, pc, op, ref, target, outcome, rows, acts, calm>>

Steps == {"idle", "gate", "resolve", "inspect", "act", "record", "done",
          "unlogged", "dead"}
Refusals == {"denied_policy", "invalid", "unavailable", "denied_self",
             "denied_protected", "not_found", "conflict"}
Outcomes == Refusals \cup {"success", "engine_error"}

Live(c) == status[c] \in {"stopped", "running"}

Agents == [phase : {"down", "probing", "up"}, mode : 0..2,
           self : Containers \cup {NoId}, honest : BOOLEAN,
           refs : Seq(Names \cup Containers \cup {Stale}), next : Nat \ {0}]

TypeOK ==
  /\ status \in [Containers -> {"unborn", "stopped", "running", "removed"}]
  /\ name \in [Containers -> Names]
  /\ \A c, d \in Containers : Live(c) /\ Live(d) /\ name[c] = name[d] => c = d
  /\ agent \in Agents
  /\ pc \in [Requests -> Steps]
  /\ op \in [Requests -> Ops]
  /\ ref \in [Requests -> Refs]
  /\ target \in [Requests -> Containers \cup {NoId}]
  /\ outcome \in [Requests -> Outcomes]
  /\ rows \subseteq [req : Requests, outcome : Outcomes]
  /\ acts \subseteq [req : Requests, id : Containers, op : Ops]
  /\ calm \in [Requests -> SUBSET Containers]

Off == [phase |-> "down", mode |-> 0, self |-> NoId, honest |-> TRUE,
        refs |-> <<>>, next |-> 1]

\* One container, the agent's, is running.
Init ==
  /\ status = [c \in Containers |-> IF c = Self THEN "running" ELSE "unborn"]
  /\ \E n \in Names : name = [c \in Containers |-> n]
  /\ agent = Off
  /\ pc = [r \in Requests |-> "idle"]
  /\ op = [r \in Requests |-> "start"]
  /\ ref = [r \in Requests |-> BadRef]
  /\ target = [r \in Requests |-> NoId]
  /\ outcome = [r \in Requests |-> "success"]
  /\ rows = {} /\ acts = {}
  /\ calm = [r \in Requests |-> {}]

-----------------------------------------------------------------------------
(* What the agent refuses to touch *)

\* protectedSet.matches: an entry is the container's name or its ID.
matches(c, n) == n \in Entries \/ c \in Entries

Listed == {c \in Containers : Live(c) /\ matches(c, name[c])}

minMode == [o \in Ops |-> IF o \in {"kill", "delete"} THEN 2 ELSE 1]

Allows(o) == o \in DOMAIN minMode /\ agent.mode >= minMode[o]

Resolved(x) == {c \in Containers : Live(c) /\ (c = x \/ name[c] = x)}

-----------------------------------------------------------------------------
(* The Engine and the others who use it *)

\* The list covers c in r's whole lifetime only if it still does afterwards.
Watch(names, statuses) ==
  calm' = [r \in Requests |->
             {c \in calm[r] : /\ statuses[c] \in {"stopped", "running"}
                              /\ matches(c, names[c])}]

Free(n) == \A d \in Containers : Live(d) => name[d] # n

Create(c, n) ==
  /\ status[c] = "unborn" /\ Free(n)
  /\ status' = [status EXCEPT ![c] = "stopped"]
  /\ name' = [name EXCEPT ![c] = n]
  /\ UNCHANGED <<agent, request, rows, acts, calm>>

Rename(c, n) ==
  /\ Live(c) /\ Free(n)
  /\ name' = [name EXCEPT ![c] = n]
  /\ Watch(name', status)
  /\ UNCHANGED <<status, agent, request, rows, acts>>

\* Started, stopped or removed by somebody else, who leaves the agent alone.
Change(c, s) ==
  /\ c = Self => s = "running"
  /\ Live(c) /\ s \in {"stopped", "running", "removed"} \ {status[c]}
  /\ s = "removed" => status[c] = "stopped"
  /\ status' = [status EXCEPT ![c] = s]
  /\ Watch(name, status')
  /\ UNCHANGED <<name, agent, request, rows, acts>>

-----------------------------------------------------------------------------
(* The agent comes up: New confirms which container it runs in *)

\* selfid.Detect: the override first, then what the filesystem tells.
Detect(override, found) == (IF override = NoRef THEN <<>> ELSE <<override>>) \o found

Honest(refs) == \A i \in DOMAIN refs : refs[i] \in {Self, Stale}

\* dedupe keeps the first of each.
Repeated(i) == \E j \in 1..(i - 1) : agent.refs[j] = agent.refs[i]

\* Mode and override are read from the environment, which a redeploy may change.
Boot ==
  /\ agent.phase = "down" /\ status[Self] = "running"
  /\ \E m \in Modes, o \in Overrides, f \in Finds :
       agent' = [Off EXCEPT !.phase = "probing", !.mode = m, !.refs = Detect(o, f),
                            !.honest = Honest(Detect(o, f))]
  /\ UNCHANGED <<engine, request, rows, acts, calm>>

Confirmed(x, c) == c

Settled(id) == [agent EXCEPT !.phase = "up", !.self = id, !.refs = <<>>, !.next = 1]

\* confirmSelf, one candidate: the full ID of the first one the Engine
\* confirms, whosever it is.  An unknown candidate and a failed inspect are both
\* skipped.
Probe ==
  LET i == agent.next
  IN  /\ agent.phase = "probing" /\ i <= Len(agent.refs)
      /\ \/ \E c \in Resolved(agent.refs[i]) :
              /\ ~Repeated(i)
              /\ agent' = Settled(Confirmed(agent.refs[i], c))
         \/ agent' = [agent EXCEPT !.next = i + 1]
      /\ UNCHANGED <<engine, request, rows, acts, calm>>

GiveUp ==
  /\ agent.phase = "probing" /\ agent.next > Len(agent.refs)
  /\ agent' = Settled(NoId)
  /\ UNCHANGED <<engine, request, rows, acts, calm>>

\* The process dies; a row not yet written is never written.
Crash ==
  /\ agent.phase # "down"
  /\ agent' = Off
  /\ pc' = [r \in Requests |->
              IF pc[r] \in {"gate", "resolve", "inspect", "act", "record"}
              THEN "dead" ELSE pc[r]]
  /\ UNCHANGED <<engine, op, ref, target, outcome, rows, acts, calm>>

-----------------------------------------------------------------------------
(* A request *)

\* withAudit opens the entry as a success.  An agent that is being stopped takes
\* no request.
Arrive(r, o, x) ==
  /\ agent.phase = "up" /\ status[Self] = "running" /\ pc[r] = "idle"
  /\ pc' = [pc EXCEPT ![r] = "gate"]
  /\ op' = [op EXCEPT ![r] = o]
  /\ ref' = [ref EXCEPT ![r] = x]
  /\ outcome' = [outcome EXCEPT ![r] = "success"]
  /\ calm' = [calm EXCEPT ![r] = Listed]
  /\ UNCHANGED <<engine, agent, target, rows, acts>>

\* setAuditOutcome and the answer; withAudit writes the row next.
Answer(r, out) ==
  /\ pc' = [pc EXCEPT ![r] = "record"]
  /\ outcome' = [outcome EXCEPT ![r] = out]
  /\ UNCHANGED target

\* Mutant: withAudit inside requireOp.
Refuse_Unrecorded(r) ==
  /\ pc' = [pc EXCEPT ![r] = "done"]
  /\ outcome' = [outcome EXCEPT ![r] = "denied_policy"]
  /\ UNCHANGED target

Refuse(r) == Answer(r, "denied_policy")

Goto(r, step) ==
  /\ pc' = [pc EXCEPT ![r] = step]
  /\ UNCHANGED <<outcome, target>>

requireOp(r) ==
  /\ pc[r] = "gate"
  /\ IF Allows(op[r]) THEN Goto(r, "resolve") ELSE Refuse(r)
  /\ UNCHANGED <<engine, agent, op, ref, rows, acts, calm>>

SelfUnknown == Containerized /\ agent.self = NoId

\* resolveTarget before its inspect.
Validate(r) ==
  /\ pc[r] = "resolve"
  /\ CASE ref[r] = BadRef -> Answer(r, "invalid")
       [] ref[r] # BadRef /\ SelfUnknown -> Answer(r, "unavailable")
       [] OTHER -> Goto(r, "inspect")
  /\ UNCHANGED <<engine, agent, op, ref, rows, acts, calm>>

\* Mutant: the entries are compared with what the device sent.
Covered_ByText(r, c) == ref[r] \in Entries

Covered(r, c) == matches(c, name[c])

\* resolveTarget after it: one answer of the Engine gives ID and name.
Judge(r, c) ==
  CASE c = agent.self -> Answer(r, "denied_self")
    [] c # agent.self /\ Covered(r, c) -> Answer(r, "denied_protected")
    [] OTHER -> /\ pc' = [pc EXCEPT ![r] = "act"]
                /\ target' = [target EXCEPT ![r] = c]
                /\ UNCHANGED outcome

Inspect(r) ==
  /\ pc[r] = "inspect"
  /\ \/ \E c \in Resolved(ref[r]) : Judge(r, c)
     \/ Resolved(ref[r]) = {} /\ Answer(r, "not_found")
     \/ Answer(r, "engine_error")
  /\ UNCHANGED <<engine, agent, op, ref, rows, acts, calm>>

-----------------------------------------------------------------------------
(* The Engine call *)

\* What the Engine does with a container in state s; the state itself means
\* that there is nothing to do (304), or that the call is refused (409).
After(o, s) ==
  CASE o = "start" -> "running"
    [] o = "restart" -> "running"
    [] o = "stop" -> "stopped"
    [] o = "kill" -> "stopped"
    [] o = "delete" -> IF s = "stopped" THEN "removed" ELSE s

Conflicts(o, s) == <<o, s>> \in {<<"kill", "stopped">>, <<"delete", "running">>}

Carry(r, c) ==
  /\ Live(c) /\ ~Conflicts(op[r], status[c])
  /\ status' = [status EXCEPT ![c] = After(op[r], status[c])]
  /\ acts' = acts \cup {[req |-> r, id |-> c, op |-> op[r]]}
  /\ Watch(name, status')

\* A restart that stopped the container and could not start it again.
HalfRestart(r, c) ==
  /\ op[r] = "restart" /\ status[c] = "running"
  /\ status' = [status EXCEPT ![c] = "stopped"]
  /\ acts' = acts \cup {[req |-> r, id |-> c, op |-> "stop"]}
  /\ Watch(name, status')

Rest == UNCHANGED <<status, acts, calm>>

\* Mutant: the call names the container by the text the device sent.
Target_ByRef(r) == Resolved(ref[r])

Target(r) == {target[r]}

\* writeDockerError: an error tells nothing about what the Engine did.
Act(r) ==
  /\ pc[r] = "act"
  /\ \E c \in Target(r) :
       \/ Carry(r, c) /\ Answer(r, "success")
       \/ Carry(r, c) /\ Answer(r, "engine_error")
       \/ /\ HalfRestart(r, c)
          /\ \E out \in {"engine_error", "not_found", "conflict"} : Answer(r, out)
       \/ Answer(r, "engine_error") /\ Rest
       \/ ~Live(c) /\ Answer(r, "not_found") /\ Rest
       \/ Live(c) /\ Conflicts(op[r], status[c]) /\ Answer(r, "conflict") /\ Rest
  /\ UNCHANGED <<name, agent, op, ref, rows>>

\* recordAudit: a failed append is only logged.
Record(r) ==
  /\ pc[r] = "record"
  /\ \/ /\ pc' = [pc EXCEPT ![r] = "done"]
        /\ rows' = rows \cup {[req |-> r, outcome |-> outcome[r]]}
     \/ /\ pc' = [pc EXCEPT ![r] = "unlogged"]
        /\ UNCHANGED rows
  /\ UNCHANGED <<engine, agent, op, ref, target, outcome, acts, calm>>

Serve(r) ==
  \/ \E o \in Ops, x \in Refs : Arrive(r, o, x)
  \/ requireOp(r) \/ Validate(r) \/ Inspect(r) \/ Act(r) \/ Record(r)

Others ==
  \E c \in Containers :
    \/ \E n \in Names : Create(c, n) \/ Rename(c, n)
    \/ \E s \in {"stopped", "running", "removed"} : Change(c, s)

\* Bound: nothing is followed once every request has ended.
Unfinished == \E r \in Requests : pc[r] \notin {"done", "unlogged", "dead"}

Next ==
  /\ Unfinished
  /\ Boot \/ Probe \/ GiveUp \/ Crash \/ Others \/ \E r \in Requests : Serve(r)

Spec == Init /\ [][Next]_vars

-----------------------------------------------------------------------------
(* Properties *)

\* The agent acts on no container while it does not know which one is its own,
\* and never on the one it took for its own when it started, whatever reference
\* a device sends and however containers are renamed meanwhile.  It took the
\* right one if no candidate can name another (lifecycle.go, self.go; README.md
\* "It never acts on its own container").
NeverSelf ==
  [][\A e \in acts' \ acts :
       /\ agent.self # NoId
       /\ e.id # agent.self
       /\ agent.honest => e.id # Self]_vars

\* A container that an entry of DEVMON_PROTECTED_CONTAINERS covered from the
\* arrival of a request on is not acted on for it, by whatever reference the
\* device reached it (resolveTarget, protectedSet.matches).
ProtectedHeld == [][\A e \in acts' \ acts : e.id \notin calm[e.req]]_vars

\* Every answered request has exactly one row, unless its append failed; a
\* recorded success means that the Engine did what was asked and a recorded
\* refusal that it did nothing for the request, but for the stop half of a
\* restart whose start it refused (audit.go, reads.go).
AuditTruthful ==
  \A r \in Requests :
    LET mine == {w \in rows : w.req = r}
        done == {e \in acts : e.req = r}
    IN  /\ pc[r] = "done" <=> mine # {}
        /\ \A w, v \in mine : w = v
        /\ \A w \in mine, e \in done :
             w.outcome \in Refusals =>
               /\ op[r] = "restart" /\ e.op = "stop"
               /\ w.outcome \in {"not_found", "conflict"}
        /\ \A w \in mine :
             w.outcome = "success" => \E e \in done : e.op = op[r]

-----------------------------------------------------------------------------
(* Claims of the repository that the code does not keep *)

\* "the agent can never act on itself, or on a container the operator
\* protected" (lifecycle.go:27-32): no action falls on a container that the
\* list covers at that moment.
ListedNeverTouched == [][\A e \in acts' \ acts : e.id \notin Listed]_vars

\* "It never acts on its own container" (README.md:14), whatever the candidates
\* name: an agent that shares another container's network confirms the other one
\* and acts on itself.
OwnNeverTouched == \A e \in acts : e.id # Self
=============================================================================
