--------------------------- MODULE ShutdownProofs ---------------------------
(***************************************************************************)
(* Proofs about how the agent stops, for any set of connections and of     *)
(* components that runAll runs beside the server.                          *)
(***************************************************************************)
EXTENDS Shutdown, TLAPS

\* Server.Run has got past closeNewConns.
PastSweep == server \in {"swept", "waiting"} \/ (server = "returned" /\ draining)

\* Every connection without a request whose socket is open is one that
\* closeNewConns will still find, in the map or in the copy it is closing.
HookInv ==
  /\ \A c \in Conns : conn[c] = "new" /\ c \in socket => c \in newConns \cup sweep
  /\ draining => newConns = {}
  /\ ~draining => sweep = {}
  /\ server = "serving" => ~draining
  /\ PastSweep => draining /\ sweep = {}

\* A shutdown that ended in time has closed the listener and left nothing
\* that could still become a request.
DrainInv ==
  /\ server = "waiting" => listener = "closed"
  /\ result = "nil" =>
       /\ draining /\ listener = "closed"
       /\ \A c \in Conns : conn[c] \in {"none", "accepted", "doomed", "closed"}

\* The store is closed only after Server.Run has returned.
StoreInv == store = "closed" => server = "returned"

Inv == TypeOK /\ HookInv /\ DrainInv /\ StoreInv

USE DEF net, hook, proc, done, ConnStates, ServerSteps

\* The initial state.
LEMMA InitInv == Init => Inv
  BY DEF Init, Inv, TypeOK, HookInv, DrainInv, StoreInv, PastSweep

\* Every step keeps the types.
LEMMA TypeStep ==
  ASSUME TypeOK, [Next]_vars
  PROVE  TypeOK'
<1> USE DEF TypeOK
<1>1. CASE Signal
  BY <1>1 DEF Signal
<1>2. CASE CloseStore \/ Exit
  BY <1>2 DEF CloseStore, Exit, Failure
<1>3. CASE Listen \/ ListenFails
  BY <1>3 DEF Listen, ListenFails
<1>4. CASE CancelLifecycle \/ TakeNewConns \/ Swept \/ BeginShutdown
  <2>1. CASE CancelLifecycle \/ TakeNewConns
    BY <2>1 DEF CancelLifecycle, TakeNewConns
  <2>2. CASE Swept \/ BeginShutdown
    BY <2>2 DEF Swept, BeginShutdown
  <2> QED
    BY <1>4, <2>1, <2>2
<1>5. CASE Drained \/ GraceExpires \/ RunFails
  BY <1>5 DEF Drained, GraceExpires, RunFails, Return, CancelAll
<1>6. ASSUME NEW c \in Conns, CloseNewConn(c)
      PROVE  TypeOK'
  BY <1>6 DEF CloseNewConn
<1>7. ASSUME NEW c \in Conns, CloseIdle(c)
      PROVE  TypeOK'
  BY <1>7 DEF CloseIdle, Leave
<1>8. ASSUME NEW x \in Others, OtherReturns(x)
      PROVE  TypeOK'
  BY <1>8 DEF OtherReturns, CancelAll
<1>9. ASSUME NEW c \in Conns, Accept(c)
      PROVE  TypeOK'
  BY <1>9 DEF Accept
<1>10. ASSUME NEW c \in Conns, StateNew(c)
       PROVE  TypeOK'
  BY <1>10 DEF StateNew, Late
<1>11. ASSUME NEW c \in Conns, CloseLate(c)
       PROVE  TypeOK'
  BY <1>11 DEF CloseLate
<1>12. ASSUME NEW c \in Conns, StateActive(c) \/ StateClosed(c)
       PROVE  TypeOK'
  BY <1>12 DEF StateActive, StateClosed, Leave
<1>13. ASSUME NEW c \in Conns, HandlerReturns(c)
       PROVE  TypeOK'
  BY <1>13 DEF HandlerReturns, Leave
<1>14. CASE UNCHANGED vars
  BY <1>14 DEF vars
<1> QED
  BY <1>1, <1>2, <1>3, <1>4, <1>5, <1>6, <1>7, <1>8, <1>9, <1>10, <1>11, <1>12,
     <1>13, <1>14 DEF Next, Finish, Stop, Serve

\* Every step keeps track of the connections without a request.
LEMMA HookStep ==
  ASSUME TypeOK, HookInv, [Next]_vars
  PROVE  HookInv'
<1> USE DEF TypeOK, HookInv, PastSweep
<1>1. CASE Signal
  BY <1>1 DEF Signal
<1>2. CASE CloseStore \/ Exit
  BY <1>2 DEF CloseStore, Exit
<1>3. CASE Listen \/ ListenFails
  BY <1>3 DEF Listen, ListenFails
<1>4. CASE CancelLifecycle \/ TakeNewConns \/ Swept \/ BeginShutdown
  BY <1>4 DEF CancelLifecycle, TakeNewConns, Swept, BeginShutdown
<1>5. CASE Drained \/ GraceExpires \/ RunFails
  BY <1>5 DEF Drained, GraceExpires, RunFails, Return
<1>6. ASSUME NEW c \in Conns, CloseNewConn(c)
      PROVE  HookInv'
  BY <1>6 DEF CloseNewConn
<1>7. ASSUME NEW c \in Conns, CloseIdle(c)
      PROVE  HookInv'
  BY <1>7 DEF CloseIdle, Leave
<1>8. ASSUME NEW x \in Others, OtherReturns(x)
      PROVE  HookInv'
  BY <1>8 DEF OtherReturns
<1>9. ASSUME NEW c \in Conns, Accept(c)
      PROVE  HookInv'
  BY <1>9 DEF Accept
<1>10. ASSUME NEW c \in Conns, StateNew(c)
       PROVE  HookInv'
  BY <1>10 DEF StateNew, Late
<1>11. ASSUME NEW c \in Conns, CloseLate(c)
       PROVE  HookInv'
  BY <1>11 DEF CloseLate
<1>12. ASSUME NEW c \in Conns, StateActive(c) \/ StateClosed(c)
       PROVE  HookInv'
  BY <1>12 DEF StateActive, StateClosed, Leave
<1>13. ASSUME NEW c \in Conns, HandlerReturns(c)
       PROVE  HookInv'
  BY <1>13 DEF HandlerReturns, Leave
<1>14. CASE UNCHANGED vars
  BY <1>14 DEF vars
<1> QED
  BY <1>1, <1>2, <1>3, <1>4, <1>5, <1>6, <1>7, <1>8, <1>9, <1>10, <1>11, <1>12,
     <1>13, <1>14 DEF Next, Finish, Stop, Serve

\* Every step keeps what a shutdown in time has reached, and the order of the
\* store's close after it.
LEMMA DrainStep ==
  ASSUME TypeOK, HookInv, DrainInv, StoreInv, [Next]_vars
  PROVE  DrainInv' /\ StoreInv'
<1> USE DEF TypeOK, DrainInv, StoreInv
<1>1. CASE Signal
  BY <1>1 DEF Signal
<1>2. CASE CloseStore \/ Exit
  BY <1>2 DEF CloseStore, Exit, StoreMayClose, AllReturned
<1>3. CASE Listen \/ ListenFails
  BY <1>3 DEF Listen, ListenFails
<1>4. CASE CancelLifecycle \/ TakeNewConns \/ Swept \/ BeginShutdown
  BY <1>4 DEF CancelLifecycle, TakeNewConns, Swept, BeginShutdown
<1>5. CASE Drained \/ GraceExpires \/ RunFails
  BY <1>5 DEF Drained, GraceExpires, RunFails, Return, Quiescent, HookInv, PastSweep
<1>6. ASSUME NEW c \in Conns, CloseNewConn(c)
      PROVE  DrainInv' /\ StoreInv'
  BY <1>6 DEF CloseNewConn
<1>7. ASSUME NEW c \in Conns, CloseIdle(c)
      PROVE  DrainInv' /\ StoreInv'
  BY <1>7 DEF CloseIdle, Leave
<1>8. ASSUME NEW x \in Others, OtherReturns(x)
      PROVE  DrainInv' /\ StoreInv'
  BY <1>8 DEF OtherReturns
<1>9. ASSUME NEW c \in Conns, Accept(c)
      PROVE  DrainInv' /\ StoreInv'
  BY <1>9 DEF Accept
<1>10. ASSUME NEW c \in Conns, StateNew(c)
       PROVE  DrainInv' /\ StoreInv'
  BY <1>10 DEF StateNew, Late
<1>11. ASSUME NEW c \in Conns, CloseLate(c)
       PROVE  DrainInv' /\ StoreInv'
  BY <1>11 DEF CloseLate
<1>12. ASSUME NEW c \in Conns, StateActive(c) \/ StateClosed(c)
       PROVE  DrainInv' /\ StoreInv'
  BY <1>12 DEF StateActive, StateClosed, Leave
<1>13. ASSUME NEW c \in Conns, HandlerReturns(c)
       PROVE  DrainInv' /\ StoreInv'
  BY <1>13 DEF HandlerReturns, Leave
<1>14. CASE UNCHANGED vars
  BY <1>14 DEF vars
<1> QED
  BY <1>1, <1>2, <1>3, <1>4, <1>5, <1>6, <1>7, <1>8, <1>9, <1>10, <1>11, <1>12,
     <1>13, <1>14 DEF Next, Finish, Stop, Serve

\* The inductive invariant of the shutdown holds in every behaviour.
THEOREM Invariance == Spec => []Inv
<1>1. Inv /\ [Next]_vars => Inv'
  BY TypeStep, HookStep, DrainStep DEF Inv
<1> QED
  BY <1>1, InitInv, PTL DEF Spec

\* The state of the shutdown keeps its type: newConns holds only connections
\* whose hook last said StateNew, and Run has a result exactly when it has
\* returned.
THEOREM ShutdownTypes == Spec => []TypeOK
<1>1. Inv => TypeOK
  BY DEF Inv
<1> QED
  BY <1>1, Invariance, PTL

\* Once closeNewConns is over, no connection without a request has an open
\* socket, whenever its hook runs (trackConnState, closeNewConns).
THEOREM NewConnsClosed == Spec => []NoNewConnLeft
<1>1. Inv => NoNewConnLeft
  BY DEF Inv, HookInv, NoNewConnLeft, PastSweep, TypeOK
<1> QED
  BY <1>1, Invariance, PTL

\* After a shutdown that the grace period did not cut short, the store is
\* closed only when no handler runs (serve, runAll).
THEOREM StoreClosesLast == Spec => []StoreOutlivesHandlers
<1>1. Inv => StoreOutlivesHandlers
  BY DEF Inv, DrainInv, StoreInv, StoreOutlivesHandlers, TypeOK
<1> QED
  BY <1>1, Invariance, PTL

\* As long as Server.Run has not returned only a signal ends the context, and
\* Run's result is of the way it took.
StatusInv ==
  /\ ctx /\ server # "returned" => signalled
  /\ server \in {"cancelled", "swept", "waiting"} => ctx
  /\ expired => result = "error"
  /\ result = "nil" => signalled
  /\ result = "error" => expired \/ errCh = "error"
  /\ exit = "failure" => result = "error"
  /\ exit = "ok" => result = "nil"

\* Every step keeps it.
LEMMA StatusStep ==
  ASSUME TypeOK, StatusInv, [Next]_vars
  PROVE  StatusInv'
<1> USE DEF TypeOK, StatusInv
<1>1. CASE Signal
  BY <1>1 DEF Signal
<1>2. CASE CloseStore \/ Exit
  BY <1>2 DEF CloseStore, Exit, AllReturned, Failure
<1>3. CASE Listen \/ ListenFails
  BY <1>3 DEF Listen, ListenFails
<1>4. CASE CancelLifecycle \/ TakeNewConns \/ Swept \/ BeginShutdown
  BY <1>4 DEF CancelLifecycle, TakeNewConns, Swept, BeginShutdown
<1>5. CASE exit = "none" /\ (Drained \/ GraceExpires \/ RunFails)
  BY <1>5 DEF Drained, GraceExpires, RunFails, Return, CancelAll
<1>6. ASSUME NEW x \in Others, OtherReturns(x)
      PROVE  StatusInv'
  BY <1>6 DEF OtherReturns, CancelAll
<1>7. ASSUME NEW c \in Conns, CloseNewConn(c) \/ CloseIdle(c) \/ Serve(c)
      PROVE  StatusInv'
  <2>1. UNCHANGED <<proc, server, result, errCh, expired, done>>
    BY <1>7 DEF CloseNewConn, CloseIdle, Serve, Accept, StateNew, CloseLate, StateActive,
      HandlerReturns, StateClosed, Leave
  <2> QED
    BY <2>1
<1>8. CASE UNCHANGED vars
  BY <1>8 DEF vars
<1> QED
  BY <1>1, <1>2, <1>3, <1>4, <1>5, <1>6, <1>7, <1>8 DEF Next, Finish, Stop

\* The exit status is true in whatever order the signal, a failing listener, the
\* grace timer and the returns of the components come: the safety half of Exits
\* (runAll, serve).
THEOREM StatusIsTrue == Spec => []StatusTells
<1>1. Init => StatusInv
  BY DEF Init, StatusInv
<1>2. StatusInv /\ Inv => StatusTells
  BY DEF StatusInv, StatusTells
<1>3. Inv /\ StatusInv /\ [Next]_vars => StatusInv'
  BY StatusStep DEF Inv
<1> QED
  BY <1>1, <1>2, <1>3, Invariance, PTL DEF Spec
=============================================================================
