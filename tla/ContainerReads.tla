--------------------------- MODULE ContainerReads ---------------------------
(***************************************************************************)
(* The two container read routes (internal/httpapi/reads.go,               *)
(* internal/dockerx/containers.go) beside the lifecycle routes.  A device  *)
(* reads a row and offers its owner the operations the row does not mark   *)
(* as protected; later, it sends one.  The row is marked by a projection   *)
(* of its own, not by the code that refuses the operation.                 *)
(*                                                                         *)
(* Of a row the model keeps the container and the mark.  Reads of images,  *)
(* networks and volumes have no part in this.                              *)
(***************************************************************************)
EXTENDS Lifecycle, FiniteSets

CONSTANTS MaxListItems,  \* maxListItems
          NoRow

ASSUME RowAssumption == MaxListItems \in Nat \ {0}

VARIABLE shown   \* history: a row the device has read and not yet acted on,
                 \* as long as the container keeps its name and the agent runs

readVars == <<vars, shown>>

Row(c, mark) == [id |-> c, protected |-> mark]

ReadInit == Init /\ shown = NoRow

-----------------------------------------------------------------------------
\* Bound: a row is read only while a request is still to be judged.
Awaited == \E r \in Requests : pc[r] \in {"idle", "gate", "resolve", "inspect"}

\* OpRead is allowed in every mode.
Readable == agent.phase = "up" /\ agent.mode >= 0 /\ Awaited

\* Mutant: only the agent's own row is marked.
toContainerSummary_SelfOnly(c) == Row(c, c = agent.self)

\* selfID "" is nobody's.
toContainerSummary(c) ==
  Row(c, (c = agent.self /\ agent.self # NoId) \/ matches(c, name[c]))

toContainerDetail(c) ==
  Row(c, (c = agent.self /\ agent.self # NoId) \/ matches(c, name[c]))

\* truncate: as many as fit.
truncate(items) ==
  {page \in SUBSET items :
     \/ page = items /\ Cardinality(items) <= MaxListItems
     \/ Cardinality(page) = MaxListItems}

\* One snapshot of the Engine; stopped containers are in it only on demand.
ListContainers(all) ==
  /\ Readable
  /\ \E page \in truncate({c \in Containers :
                             status[c] = "running" \/ (all /\ Live(c))}) :
       \E c \in page : shown' = toContainerSummary(c)
  /\ UNCHANGED vars

\* Reads go on when the agent does not know which container it is.
InspectContainer(x) ==
  /\ Readable /\ x # BadRef
  /\ \E c \in Resolved(x) : shown' = toContainerDetail(c)
  /\ UNCHANGED vars

-----------------------------------------------------------------------------
\* A row that is out of date, or on which a request has been judged, is
\* forgotten.
Forget ==
  shown' = IF /\ shown # NoRow
              /\ agent' = agent
              /\ name'[shown.id] = name[shown.id]
              /\ status'[shown.id] \in {"stopped", "running"}
              /\ \A r \in Requests : pc[r] = "inspect" => pc'[r] = "inspect"
              /\ Awaited'
           THEN shown ELSE NoRow

ReadNext ==
  \/ Next /\ Forget
  \/ \E all \in BOOLEAN : ListContainers(all)
  \/ \E x \in Refs : InspectContainer(x)

ReadSpec == ReadInit /\ [][ReadNext]_readVars

-----------------------------------------------------------------------------
(* Properties *)

\* The mark on a row and the refusal of an operation agree, by whatever
\* reference the operation names the container and whether the row was listed
\* or inspected: an operation on a row shown as free is not refused for whose
\* container it is, and one on a row shown as protected does not go through,
\* as long as the container was not renamed and the agent not restarted
\* (toContainerSummary, toContainerDetail, resolveTarget).
MarkIsKept ==
  [][\A r \in Requests :
       (/\ pc[r] = "inspect" /\ pc'[r] # "inspect"
        /\ shown # NoRow /\ shown.id \in Resolved(ref[r]))
       => /\ outcome'[r] \in {"denied_self", "denied_protected"} => shown.protected
          /\ pc'[r] = "act" => ~shown.protected]_readVars
=============================================================================
