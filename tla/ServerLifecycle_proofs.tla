----------------------- MODULE ServerLifecycle_proofs -----------------------
(***************************************************************************)
(* What TLAPS proves of ServerLifecycle, for any calls and any size of the *)
(* blocking pool.                                                          *)
(***************************************************************************)
EXTENDS ServerLifecycle, TLAPS

(* The workers poll tasks from the moment there is a runtime until it is   *)
(* dropped.                                                                *)
WorkersWhere ==
    /\ workers => thread \in {"accepting", "dropping"}
    /\ thread = "accepting" => workers

(* A call waits for its answer only while there are workers.               *)
OpenOnWorkers == ~workers => \A c \in Calls : call[c] # "open"

(* Handlers exist only while there is a runtime.                           *)
PoolWhere == thread \notin {"accepting", "dropping"} => PoolIdle

(* A call that has not come has no handler.                                *)
NoEarlyHandler == \A c \in Calls : call[c] = "none" => job[c] = "none"

(* The handler that called stop is still in it; the host's stop returned   *)
(* only after the server's thread.                                         *)
StopperWaits ==
    /\ stopper \in Calls => job[stopper] = "stopping"
    /\ host = "stopped" => thread = "ended"

(* Inductive for the life of the callback server.                          *)
LifeInv == TypeOK /\ WorkersWhere /\ OpenOnWorkers /\ PoolWhere /\ NoEarlyHandler
           /\ StopperWaits

(* Every step keeps the types.                                             *)
LEMMA TypeStep == TypeOK /\ [Next]_vars => TypeOK'
<1> SUFFICES ASSUME TypeOK, [Next]_vars PROVE TypeOK'
  OBVIOUS
<1> USE DEF TypeOK
<1>1. CASE UNCHANGED vars
  BY <1>1 DEF vars, serverVars, callVars
<1>2. CASE Start \/ HostStops
  BY <1>2 DEF Start, HostStops, serverVars, callVars
<1>3. CASE ServerStep
  BY <1>3 DEF ServerStep, RuntimeBuilt, RuntimeFails, AcceptEnds, WorkersEnd, TasksLeft,
              RuntimeDropped, JoinReturns, serverVars, callVars
<1>4. ASSUME NEW c \in Calls, ClientStep(c) PROVE TypeOK'
  <2>1. CASE Arrive(c)
    <3>1. PICK fate \in {"queued", "leaked"} : job' = [job EXCEPT ![c] = fate]
      BY <2>1 DEF Arrive
    <3> QED
      BY <2>1, <3>1 DEF Arrive, serverVars
  <2>2. CASE ClientEnds(c) \/ ClientLost(c)
    BY <2>2 DEF ClientEnds, ClientLost, serverVars
  <2> QED
    BY <1>4, <2>1, <2>2 DEF ClientStep
<1>5. ASSUME NEW c \in Calls, HandlerStep(c) PROVE TypeOK'
  BY <1>5 DEF HandlerStep, ReadBlocks, ReadMessage, HandlerStops, Move, serverVars
<1>6. ASSUME NEW c \in Calls, PoolStep(c) \/ ReadEnds(c) PROVE TypeOK'
  BY <1>6 DEF PoolStep, HandlerBegins, HandlerDropped, ReadEnds, Move, serverVars
<1>7. ASSUME NEW c \in Calls, HandlerReturns(c) PROVE TypeOK'
  BY <1>7 DEF HandlerReturns, Move, serverVars
<1> QED
  BY <1>1, <1>2, <1>3, <1>4, <1>5, <1>6, <1>7 DEF Next

(* Every step of host, server, calls and handlers keeps who may run where. *)
LEMMA LifeStep == LifeInv /\ [Next]_vars => LifeInv'
<1> SUFFICES ASSUME LifeInv, [Next]_vars PROVE LifeInv'
  OBVIOUS
<1>0. TypeOK /\ TypeOK'
  BY TypeStep DEF LifeInv
<1> USE NamesAssumption
<1> USE DEF LifeInv, WorkersWhere, OpenOnWorkers, PoolWhere, PoolIdle, NoEarlyHandler, StopperWaits
<1>1. CASE UNCHANGED vars
  BY <1>0, <1>1 DEF vars, serverVars, callVars
<1>2. CASE Start
  BY <1>0, <1>2 DEF Start, callVars
<1>3. CASE HostStops
  BY <1>0, <1>3 DEF HostStops, callVars
<1>4. CASE ServerStep
  <2>1. CASE RuntimeBuilt
    BY <1>0, <2>1 DEF RuntimeBuilt, callVars
  <2>2. CASE RuntimeFails
    BY <1>0, <2>2 DEF RuntimeFails, callVars
  <2>3. CASE AcceptEnds
    BY <1>0, <2>3 DEF AcceptEnds, callVars
  <2>4. CASE WorkersEnd
    <3>1. \A c \in Calls : call'[c] # "open"
      BY <1>0, <2>4 DEF WorkersEnd, TasksLeft, TypeOK
    <3> QED
      BY <1>0, <2>4, <3>1 DEF WorkersEnd
  <2>5. CASE RuntimeDropped
    BY <1>0, <2>5 DEF RuntimeDropped, callVars
  <2>6. CASE JoinReturns
    BY <1>0, <2>6 DEF JoinReturns, serverVars, callVars
  <2> QED
    BY <1>4, <2>1, <2>2, <2>3, <2>4, <2>5, <2>6 DEF ServerStep
<1>5. ASSUME NEW c \in Calls, ClientStep(c) PROVE LifeInv'
  <2>1. CASE Arrive(c)
    <3>1. thread \in {"accepting", "dropping"} /\ workers /\ UNCHANGED <<serverVars, stopper, host>>
      BY <2>1 DEF Arrive
    <3>2. /\ \A d \in Calls \ {c} : job'[d] = job[d] /\ call'[d] = call[d]
          /\ call'[c] = "open"
      BY <1>0, <2>1 DEF Arrive, TypeOK
    <3>3. stopper \in Calls => stopper # c
      BY <2>1 DEF Arrive
    <3> QED
      BY <1>0, <3>1, <3>2, <3>3 DEF serverVars
  <2>2. CASE ClientEnds(c)
    BY <1>0, <2>2 DEF ClientEnds, serverVars
  <2>3. CASE ClientLost(c)
    BY <1>0, <2>3 DEF ClientLost, serverVars, TypeOK
  <2> QED
    BY <1>5, <2>1, <2>2, <2>3 DEF ClientStep
<1>6. ASSUME NEW c \in Calls, HandlerStep(c) \/ ReadEnds(c) PROVE LifeInv'
  <2>1. job[c] \in {"running", "reading"} /\ UNCHANGED <<thread, workers, host, call>>
    BY <1>6 DEF HandlerStep, ReadBlocks, ReadMessage, ReadEnds, HandlerStops, Move, serverVars
  <2>2. \A d \in Calls \ {c} : job'[d] = job[d]
    BY <1>0, <1>6 DEF HandlerStep, ReadBlocks, ReadMessage, ReadEnds, HandlerStops, Move, TypeOK
  <2>3. thread \in {"accepting", "dropping"} /\ call[c] # "none"
    BY <2>1
  <2>4. stopper' = stopper \/ (stopper' = c /\ job'[c] = "stopping")
    BY <1>0, <1>6 DEF HandlerStep, ReadBlocks, ReadMessage, ReadEnds, HandlerStops, TypeOK
  <2> QED
    BY <1>0, <2>1, <2>2, <2>3, <2>4
<1>7. ASSUME NEW c \in Calls, PoolStep(c) \/ HandlerReturns(c) PROVE LifeInv'
  <2>1. job[c] \in {"queued", "running"} /\ UNCHANGED <<thread, workers, host, stopper>>
    BY <1>7 DEF PoolStep, HandlerBegins, HandlerDropped, HandlerReturns, Move, serverVars
  <2>2. /\ \A d \in Calls \ {c} : job'[d] = job[d] /\ call'[d] = call[d]
        /\ call'[c] \in {call[c], "answered"}
    BY <1>0, <1>7 DEF PoolStep, HandlerBegins, HandlerDropped, HandlerReturns, Move, TypeOK
  <2>3. thread \in {"accepting", "dropping"} /\ call[c] # "none"
    BY <2>1
  <2> QED
    BY <1>0, <2>1, <2>2, <2>3
<1> QED
  BY <1>1, <1>2, <1>3, <1>4, <1>5, <1>6, <1>7 DEF Next

(* It holds in every state.                                                *)
LEMMA LifeInvariant == Spec => []LifeInv
<1>1. Init => LifeInv
  BY NamesAssumption DEF Init, LifeInv, TypeOK, WorkersWhere, OpenOnWorkers, PoolWhere, PoolIdle,
                         NoEarlyHandler, StopperWaits
<1>2. LifeInv /\ [Next]_vars => LifeInv'
  BY LifeStep
<1> QED
  BY <1>1, <1>2, PTL DEF Spec

(* Type correctness of the callback server.                                *)
THEOREM TypeCorrect == Spec => []TypeOK
<1>1. LifeInv => TypeOK
  BY DEF LifeInv
<1> QED
  BY <1>1, LifeInvariant, PTL

(* When zpr_grpc_server_stop has returned to the host, no handler runs or  *)
(* will run, and no client waits.                                          *)
THEOREM StopLeavesNothing == Spec => []NothingAfterStop
<1>1. LifeInv => NothingAfterStop
  BY DEF LifeInv, TypeOK, WorkersWhere, OpenOnWorkers, PoolWhere, PoolIdle, StopperWaits,
         NothingAfterStop, OnThread
<1> QED
  BY <1>1, LifeInvariant, PTL

(* A handler that calls zpr_grpc_server_stop on its own server keeps the   *)
(* server's thread from ever ending.                                       *)
THEOREM HandlerStopHangs == Spec => []StopFromHandlerHangs
<1>1. LifeInv => StopFromHandlerHangs
  BY DEF LifeInv, PoolWhere, PoolIdle, StopperWaits, StopFromHandlerHangs
<1> QED
  BY <1>1, LifeInvariant, PTL

-----------------------------------------------------------------------------
(* The stop of the host never waits for itself *)

(* Who has called stop has set the signal, on a server that was started.   *)
SignalGiven == stopper # "nobody" => shutdown /\ thread \notin {"none", "refused"}

(* One caller at most is in stop: the host, or the handler that waits.     *)
OneStopper ==
    /\ host # "idle" => stopper = "host"
    /\ \A c \in Calls : job[c] = "stopping" => stopper = c

(* The tasks of a call end with the workers.                               *)
TasksOnWorkers == ~workers => \A c \in Calls : ~pump[c]

(* Inductive, given LifeInv.                                               *)
WaitInv == SignalGiven /\ OneStopper /\ TasksOnWorkers

(* Every step keeps who is in stop, and that the signal is given.          *)
LEMMA WaitStep == LifeInv /\ WaitInv /\ [Next]_vars => WaitInv'
<1> SUFFICES ASSUME LifeInv, WaitInv, [Next]_vars PROVE WaitInv'
  OBVIOUS
<1>0. TypeOK /\ TypeOK' /\ PoolWhere
  BY TypeStep DEF LifeInv
<1> USE NamesAssumption
<1> USE DEF WaitInv, SignalGiven, OneStopper, TasksOnWorkers
<1>1. CASE UNCHANGED vars
  BY <1>1 DEF vars, serverVars, callVars
<1>2. CASE Start
  BY <1>0, <1>2 DEF Start, callVars
<1>3. CASE HostStops
  BY <1>0, <1>3 DEF HostStops, callVars
<1>4. CASE ServerStep
  <2>1. /\ UNCHANGED <<shutdown, stopper, job>>
        /\ thread' = thread \/ thread' \in {"accepting", "dropping", "ended"}
    BY <1>4 DEF ServerStep, RuntimeBuilt, RuntimeFails, AcceptEnds, WorkersEnd, RuntimeDropped,
                JoinReturns, serverVars, callVars
  <2>2. host # "idle" \/ host' = host
    BY <1>4 DEF ServerStep, RuntimeBuilt, RuntimeFails, AcceptEnds, WorkersEnd, RuntimeDropped,
                JoinReturns, serverVars
  <2>3. TasksOnWorkers'
    BY <1>4 DEF ServerStep, RuntimeBuilt, RuntimeFails, AcceptEnds, WorkersEnd, TasksLeft,
                RuntimeDropped, JoinReturns, serverVars, callVars
  <2> QED
    BY <2>1, <2>2, <2>3
<1>5. ASSUME NEW c \in Calls, ClientStep(c) PROVE WaitInv'
  <2>1. UNCHANGED <<serverVars, stopper, host>>
    BY <1>5 DEF ClientStep, Arrive, ClientEnds, ClientLost
  <2>2. \A d \in Calls : job'[d] = "stopping" => job[d] = "stopping"
    <3>1. CASE Arrive(c)
      BY <1>0, <3>1 DEF Arrive, TypeOK
    <3> QED
      BY <1>5, <3>1 DEF ClientStep, ClientEnds, ClientLost
  <2>3. \A d \in Calls : pump'[d] => pump[d] \/ workers
    BY <1>0, <1>5 DEF ClientStep, Arrive, ClientEnds, ClientLost, TypeOK
  <2> QED
    BY <2>1, <2>2, <2>3 DEF serverVars
<1>6. ASSUME NEW c \in Calls, HandlerStops(c) PROVE WaitInv'
  <2>1. thread \in {"accepting", "dropping"} /\ shutdown' /\ stopper = "nobody" /\ stopper' = c
    BY <1>0, <1>6 DEF HandlerStops, PoolWhere, PoolIdle
  <2>2. \A d \in Calls \ {c} : job'[d] = job[d]
    BY <1>0, <1>6 DEF HandlerStops, TypeOK
  <2> QED
    BY <1>6, <2>1, <2>2 DEF HandlerStops
<1>7. ASSUME NEW c \in Calls,
             ReadBlocks(c) \/ ReadMessage(c) \/ ReadEnds(c) \/ PoolStep(c) \/ HandlerReturns(c)
      PROVE  WaitInv'
  <2>1. UNCHANGED <<serverVars, stopper, host>>
    BY <1>7 DEF ReadBlocks, ReadMessage, ReadEnds, PoolStep, HandlerBegins, HandlerDropped,
                HandlerReturns, Move
  <2>2. \A d \in Calls : job'[d] = "stopping" => job[d] = "stopping"
    BY <1>0, <1>7 DEF ReadBlocks, ReadMessage, ReadEnds, PoolStep, HandlerBegins, HandlerDropped,
                HandlerReturns, Move, TypeOK
  <2>3. \A d \in Calls : pump'[d] => pump[d]
    BY <1>0, <1>7 DEF ReadBlocks, ReadMessage, ReadEnds, PoolStep, HandlerBegins, HandlerDropped,
                HandlerReturns, TypeOK
  <2> QED
    BY <2>1, <2>2, <2>3 DEF serverVars
<1> QED
  BY <1>1, <1>2, <1>3, <1>4, <1>5, <1>6, <1>7 DEF Next, HandlerStep

(* It holds in every state.                                                *)
LEMMA WaitInvariant == Spec => []WaitInv
<1>1. Init => WaitInv
  BY NamesAssumption DEF Init, WaitInv, SignalGiven, OneStopper, TasksOnWorkers
<1> QED
  BY <1>1, WaitStep, LifeInvariant, PTL DEF Spec

(* A handler that is on its way out once its call is gone, or that a       *)
(* thread of the pool takes or gives up.                                   *)
OnItsWay(c) == job[c] = "queued" \/ (job[c] \in {"running", "reading"} /\ ~pump[c])

(* While the host waits in zpr_grpc_server_stop, the server's thread is    *)
(* about to see the signal, or has something to wait for that moves by     *)
(* itself: its workers, or a handler whose call is gone.  It never waits   *)
(* for the host, nor for a client.                                         *)
StopNeverStuck == host = "joining" =>
    \/ thread \in {"starting", "ended"}
    \/ thread = "accepting" /\ shutdown
    \/ thread = "dropping" /\ (workers \/ PoolIdle \/ \E c \in Calls : OnItsWay(c))

(* The safety half of StopReturns: the stop of the host never waits in     *)
(* vain, for any calls and any size of the pool.                           *)
THEOREM StopCanReturn == Spec => []StopNeverStuck
<1>1. LifeInv /\ WaitInv => StopNeverStuck
  <2> SUFFICES ASSUME LifeInv, WaitInv, host = "joining",
                      thread = "dropping", ~workers, NEW c \in Calls,
                      job[c] \notin {"none", "over", "leaked"}
               PROVE  OnItsWay(c)
    BY DEF LifeInv, TypeOK, WaitInv, SignalGiven, OneStopper, StopNeverStuck, PoolIdle
  <2>1. ~pump[c] /\ job[c] # "stopping"
    BY NamesAssumption DEF WaitInv, OneStopper, TasksOnWorkers
  <2>2. job[c] \in {"queued", "running", "reading", "stopping"}
    BY DEF LifeInv, TypeOK
  <2> QED
    BY <2>1, <2>2 DEF OnItsWay
<1> QED
  BY <1>1, LifeInvariant, WaitInvariant, PTL
=============================================================================
