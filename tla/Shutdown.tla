------------------------------ MODULE Shutdown ------------------------------
(***************************************************************************)
(* How the agent stops: runAll of cmd/devmon-agent, which runs the HTTP    *)
(* server beside the log rotator and the audit pruner, Server.Run and      *)
(* Server.shutdown, the ConnState hook that tracks connections without a   *)
(* request, and the deferred close of the state store.                     *)
(*                                                                         *)
(* net/http is external.  Of it the model keeps what shutdown depends on:  *)
(* a connection is accepted, then tracked and given to the hook, and only  *)
(* then served; Shutdown closes the listener, closes idle connections and  *)
(* waits for the tracked others.  What a handler does is left out (the     *)
(* event hub's stop() is in EventStream).                                  *)
(***************************************************************************)
EXTENDS FiniteSets

CONSTANTS Conns,    \* connections
          Others    \* the other components of runAll: sink.Run, pruner.Run

VARIABLES
  ctx,       \* runAll's context has ended
  signalled, \* history: SIGTERM or SIGINT came
  others,    \* each other component: "running" or "returned"
  server,    \* where Server.Run is
  result,    \* what it returned: "none", "nil" or "error"
  errCh,     \* what ListenAndServeTLS sent: "none" or "error"
  listener,  \* "opening", "open" or "closed"
  conn,      \* the state of each connection
  socket,    \* connections whose socket is open
  newConns,  \* Server.newConns
  draining,  \* Server.draining
  sweep,     \* connections closeNewConns still has to close
  expired,   \* history: shutdownGrace ran out
  store,     \* "open" or "closed"
  exit       \* "none", "ok" or "failure"

net == <<listener, conn, socket>>
hook == <<newConns, draining, sweep>>
proc == <<ctx, signalled, others>>
done == <<store, exit>>
vars == <<ctx, signalled, others, server, result, errCh, listener, conn, socket,
          newConns, draining, sweep, expired, store, exit>>

ConnStates == {"none", "accepted", "doomed", "new", "active", "idle", "closed"}
ServerSteps == {"serving", "cancelled", "swept", "waiting", "returned"}

TypeOK ==
  /\ ctx \in BOOLEAN /\ signalled \in BOOLEAN
  /\ others \in [Others -> {"running", "returned"}]
  /\ server \in ServerSteps
  /\ result \in {"none", "nil", "error"}
  /\ result = "none" <=> server # "returned"
  /\ errCh \in {"none", "error"}
  /\ listener \in {"opening", "open", "closed"}
  /\ conn \in [Conns -> ConnStates]
  /\ socket \subseteq Conns
  /\ newConns \subseteq {c \in Conns : conn[c] = "new"}
  /\ draining \in BOOLEAN
  /\ sweep \subseteq Conns
  /\ expired \in BOOLEAN
  /\ store \in {"open", "closed"}
  /\ exit \in {"none", "ok", "failure"}

Init ==
  /\ ctx = FALSE /\ signalled = FALSE
  /\ others = [x \in Others |-> "running"]
  /\ server = "serving" /\ result = "none" /\ errCh = "none"
  /\ listener = "opening"
  /\ conn = [c \in Conns |-> "none"] /\ socket = {}
  /\ newConns = {} /\ draining = FALSE /\ sweep = {}
  /\ expired = FALSE /\ store = "open" /\ exit = "none"

-----------------------------------------------------------------------------
(* The listener and its connections (net/http, with the agent's hook) *)

Listen ==
  /\ listener = "opening" /\ errCh = "none" /\ server = "serving"
  /\ listener' = "open"
  /\ UNCHANGED <<proc, server, result, errCh, conn, socket, hook, expired, done>>

\* The port cannot be bound, or a later Accept fails for good.
ListenFails ==
  /\ listener \in {"opening", "open"} /\ errCh = "none" /\ server = "serving"
  /\ errCh' = "error" /\ listener' = "closed"
  /\ UNCHANGED <<proc, server, result, conn, socket, hook, expired, done>>

Accept(c) ==
  /\ listener = "open" /\ conn[c] = "none"
  /\ conn' = [conn EXCEPT ![c] = "accepted"]
  /\ socket' = socket \cup {c}
  /\ UNCHANGED <<proc, server, result, errCh, listener, hook, expired, done>>

\* Mutant: the flag is not looked at.
Late_Unchecked == FALSE

Late == draining

\* trackConnState, StateNew.
StateNew(c) ==
  /\ conn[c] = "accepted"
  /\ conn' = [conn EXCEPT ![c] = IF Late THEN "doomed" ELSE "new"]
  /\ newConns' = IF Late THEN newConns ELSE newConns \cup {c}
  /\ UNCHANGED <<proc, server, result, errCh, listener, socket, draining, sweep,
                 expired, done>>

\* The close after the lock is released; the connection is served only later.
CloseLate(c) ==
  /\ conn[c] = "doomed"
  /\ conn' = [conn EXCEPT ![c] = "closed"]
  /\ socket' = socket \ {c}
  /\ UNCHANGED <<proc, server, result, errCh, listener, hook, expired, done>>

\* trackConnState, every other state.
Leave(c, s) ==
  /\ conn' = [conn EXCEPT ![c] = s]
  /\ newConns' = newConns \ {c}
  /\ UNCHANGED <<proc, server, result, errCh, listener, draining, sweep, expired,
                 done>>

\* A request's header has been read and its handler starts.
StateActive(c) ==
  /\ conn[c] \in {"new", "idle"} /\ c \in socket
  /\ Leave(c, "active") /\ UNCHANGED socket

\* The handler returns; during Shutdown the connection is not kept alive.
HandlerReturns(c) ==
  /\ conn[c] = "active"
  /\ \/ c \in socket /\ server # "waiting" /\ Leave(c, "idle") /\ UNCHANGED socket
     \/ Leave(c, "closed") /\ socket' = socket \ {c}

\* The peer hangs up, an idle timeout passes, or the socket has been closed.
StateClosed(c) ==
  /\ conn[c] \in {"new", "idle"}
  /\ Leave(c, "closed") /\ socket' = socket \ {c}

-----------------------------------------------------------------------------
(* runAll and Server.Run *)

Signal ==
  /\ exit = "none" /\ ~signalled
  /\ signalled' = TRUE /\ ctx' = TRUE
  /\ UNCHANGED <<others, server, result, errCh, net, hook, expired, done>>

\* Mutant: a component that returns does not take the others down.
CancelAll_Not == UNCHANGED ctx

\* The deferred cancel of every component.
CancelAll == ctx' = TRUE

\* sink.Run and pruner.Run return ctx.Err().
OtherReturns(x) ==
  /\ others[x] = "running" /\ ctx
  /\ others' = [others EXCEPT ![x] = "returned"]
  /\ CancelAll
  /\ UNCHANGED <<signalled, server, result, errCh, net, hook, expired, done>>

Return(res) ==
  /\ server' = "returned" /\ result' = res
  /\ CancelAll
  /\ UNCHANGED <<signalled, others, errCh, done>>

\* Run's select: the error, or the end of the context, which wins at random
\* when both are there.
RunFails ==
  /\ server = "serving" /\ errCh = "error"
  /\ Return("error")
  /\ UNCHANGED <<net, hook, expired>>

\* shutdown, first half: cancelLifecycle and events.stop.
CancelLifecycle ==
  /\ server = "serving" /\ ctx
  /\ server' = "cancelled"
  /\ UNCHANGED <<proc, result, errCh, net, hook, expired, done>>

\* closeNewConns under the lock ...
TakeNewConns ==
  /\ server = "cancelled" /\ ~draining
  /\ draining' = TRUE
  /\ sweep' = newConns /\ newConns' = {}
  /\ UNCHANGED <<proc, server, result, errCh, net, expired, done>>

\* ... and the closes after it.
CloseNewConn(c) ==
  /\ server = "cancelled" /\ c \in sweep
  /\ sweep' = sweep \ {c}
  /\ socket' = socket \ {c}
  /\ UNCHANGED <<proc, server, result, errCh, listener, conn, newConns, draining,
                 expired, done>>

Swept ==
  /\ server = "cancelled" /\ draining /\ sweep = {}
  /\ server' = "swept"
  /\ UNCHANGED <<proc, result, errCh, net, hook, expired, done>>

\* http.Server.Shutdown closes the listener and begins to wait.
BeginShutdown ==
  /\ server = "swept"
  /\ server' = "waiting" /\ listener' = "closed"
  /\ UNCHANGED <<proc, result, errCh, conn, socket, hook, expired, done>>

\* It closes a connection that is idle.
CloseIdle(c) ==
  /\ server = "waiting" /\ conn[c] = "idle"
  /\ Leave(c, "closed") /\ socket' = socket \ {c}

\* Every tracked connection is gone.  One that is only accepted is not tracked.
Quiescent == \A c \in Conns : conn[c] \in {"none", "accepted", "closed"}

Drained ==
  /\ server = "waiting" /\ Quiescent
  /\ Return("nil")
  /\ UNCHANGED <<net, hook, expired>>

GraceExpires ==
  /\ server = "waiting"
  /\ expired' = TRUE
  /\ Return("error")
  /\ UNCHANGED <<net, hook>>

\* runAll's Wait: every component has returned.
AllReturned == server = "returned" /\ \A x \in Others : others[x] = "returned"

\* The first result that is neither nil nor context.Canceled.
Failure == result = "error"

\* Mutant: the store is closed as soon as the context ends.
StoreMayClose_AtOnce == ctx

StoreMayClose == AllReturned

\* The deferred st.Close of serve.
CloseStore ==
  /\ store = "open" /\ StoreMayClose
  /\ store' = "closed"
  /\ UNCHANGED <<proc, server, result, errCh, net, hook, expired, exit>>

Exit ==
  /\ AllReturned /\ store = "closed" /\ exit = "none"
  /\ exit' = IF Failure THEN "failure" ELSE "ok"
  /\ UNCHANGED <<proc, server, result, errCh, net, hook, expired, store>>

-----------------------------------------------------------------------------
\* Until it exits the process does any of these.
Serve(c) ==
  Accept(c) \/ StateNew(c) \/ CloseLate(c) \/ StateActive(c)
    \/ HandlerReturns(c) \/ StateClosed(c)

Stop ==
  \/ CancelLifecycle \/ TakeNewConns \/ Swept \/ BeginShutdown \/ Drained
  \/ GraceExpires \/ RunFails
  \/ \E c \in Conns : CloseNewConn(c) \/ CloseIdle(c)
  \/ \E x \in Others : OtherReturns(x)

Finish == CloseStore \/ Exit

Next ==
  \/ Signal \/ Finish
  \/ exit = "none" /\ (Listen \/ ListenFails \/ Stop \/ \E c \in Conns : Serve(c))

Spec == Init /\ [][Next]_vars

\* Goroutines that can go on do, and the grace timer fires; a handler may
\* take for ever and a client may do nothing.
FairSpec ==
  /\ Spec
  /\ WF_vars(Finish)
  /\ WF_vars(RunFails)
  /\ WF_vars(CancelLifecycle) /\ WF_vars(TakeNewConns) /\ WF_vars(Swept)
  /\ WF_vars(BeginShutdown) /\ WF_vars(Drained) /\ WF_vars(GraceExpires)
  /\ \A c \in Conns : /\ WF_vars(CloseNewConn(c)) /\ WF_vars(CloseIdle(c))
                      /\ WF_vars(StateNew(c)) /\ WF_vars(CloseLate(c))
  /\ \A x \in Others : WF_vars(OtherReturns(x))

-----------------------------------------------------------------------------
(* Properties *)

\* No connection without a request outlives closeNewConns with its socket
\* open: not one that was tracked before it, and not one whose hook runs
\* between it and the closing of the listener, or later still
\* (trackConnState, closeNewConns; issue #117).
NoNewConnLeft ==
  server \in {"swept", "waiting"} \/ (server = "returned" /\ draining) =>
    \A c \in Conns : conn[c] = "new" => c \notin socket

\* After an orderly shutdown that the grace period did not cut short, the
\* state store is closed only when no handler runs, and none starts any more
\* (serve, runAll: "closing the state store while a request is still in
\* flight is the classic shutdown bug").
StoreOutlivesHandlers ==
  store = "closed" /\ result # "error" => \A c \in Conns : conn[c] # "active"

\* A failure is a listener that failed or a shutdown that ran out of time, and
\* a stop on a signal is none, although every other component then returns
\* context.Canceled.
StatusTells ==
  /\ exit = "failure" => errCh = "error" \/ expired
  /\ exit = "ok" => signalled /\ ~expired

\* Once asked to stop, or once its listener has failed, the process exits,
\* whatever connections and handlers do, and its status tells why (runAll,
\* shutdown, Run).
Exits == signalled \/ errCh = "error" ~> exit # "none" /\ StatusTells

-----------------------------------------------------------------------------
(* Claims of the repository that the code does not keep *)

\* The same as StoreOutlivesHandlers without its condition, as the comment on
\* runAll has it (main.go:286-288).
StoreNeverClosedUnderRequest ==
  store = "closed" => \A c \in Conns : conn[c] # "active"
=============================================================================
