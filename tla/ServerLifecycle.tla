-------------------------- MODULE ServerLifecycle --------------------------
(***************************************************************************)
(* The callback gRPC server from start to stop (crates/zpr/src/            *)
(* grpc_server.rs, TZprGrpcServer in pascal/Zpr.pas): its thread with a    *)
(* runtime of its own, the tasks of its calls on the runtime's workers,    *)
(* the handlers on the runtime's blocking threads, and a stop that joins   *)
(* it all.  What one call carries is in RpcStream.                         *)
(***************************************************************************)
EXTENDS Naturals, FiniteSets

CONSTANTS Calls,
          PoolSize      \* blocking threads: 512, tokio's default, in the code

ASSUME PoolAssumption == PoolSize \in Nat \ {0} /\ IsFiniteSet(Calls)
\* The name of a call is not that of another who may stop the server.
ASSUME NamesAssumption == {"nobody", "host"} \intersect Calls = {}

VARIABLES
    thread,     \* "none", "refused" (start answered ZPR_ERR), "starting", "accepting",
                \* "dropping" the runtime, "ended"
    workers,    \* the runtime's workers poll tasks
    shutdown,   \* the value in the watch channel
    stopper,    \* who has called zpr_grpc_server_stop: "nobody", "host" or a call's handler
    host,       \* "idle", "joining", "stopped"
    call,       \* the client's side: "none", "open", "answered", "cut"
    pump,       \* per call: its tasks (pump_inbound and the response body) exist
    done,       \* per call: its client has finished sending
    job         \* per call, its handler: "none", "queued", "running", "reading" (blocked),
                \* "stopping" (in zpr_grpc_server_stop), "over", "leaked" (never run)

serverVars == <<thread, workers, shutdown>>
callVars == <<call, pump, done, job>>
vars == <<serverVars, stopper, host, callVars>>

Init ==
    /\ thread = "none" /\ workers = FALSE /\ shutdown = FALSE
    /\ stopper = "nobody" /\ host = "idle"
    /\ call = [c \in Calls |-> "none"] /\ pump = [c \in Calls |-> FALSE]
    /\ done = [c \in Calls |-> FALSE] /\ job = [c \in Calls |-> "none"]

-----------------------------------------------------------------------------
(* zpr_grpc_server_start, and the thread it spawns *)

\* ZPR_ERR if the address, the bind or the spawn is no good; else ZPR_OK, before there is
\* a runtime.
Start ==
    /\ thread = "none"
    /\ thread' \in {"refused", "starting"}
    /\ UNCHANGED <<workers, shutdown, stopper, host, callVars>>

RuntimeBuilt ==
    /\ thread = "starting"
    /\ thread' = "accepting" /\ workers' = TRUE
    /\ UNCHANGED <<shutdown, stopper, host, callVars>>

\* No runtime: the thread returns and the listener is closed; nobody is told.
RuntimeFails ==
    /\ thread = "starting"
    /\ thread' = "ended"
    /\ UNCHANGED <<workers, shutdown, stopper, host, callVars>>

\* shutdown.changed() is ready also if the signal was sent before the loop began.
AcceptEnds ==
    /\ thread = "accepting" /\ shutdown
    /\ thread' = "dropping"
    /\ UNCHANGED <<workers, shutdown, stopper, host, callVars>>

-----------------------------------------------------------------------------
(* handle, on a worker *)

\* The tasks are spawned and the handler is queued.  A worker may be doing this while the
\* runtime is being dropped; then spawn_blocking may refuse, and the GrpcStream leaks.
Arrive(c) ==
    /\ call[c] = "none" /\ workers
    /\ call' = [call EXCEPT ![c] = "open"]
    /\ pump' = [pump EXCEPT ![c] = TRUE]
    /\ \E fate \in IF thread = "dropping" THEN {"queued", "leaked"} ELSE {"queued"} :
         job' = [job EXCEPT ![c] = fate]
    /\ UNCHANGED <<serverVars, stopper, host, done>>

\* The request ends, or the connection is lost and the call's tasks with it.
ClientEnds(c) ==
    /\ call[c] = "open" /\ pump[c] /\ ~done[c]
    /\ done' = [done EXCEPT ![c] = TRUE]
    /\ UNCHANGED <<serverVars, stopper, host, call, pump, job>>

ClientLost(c) ==
    /\ call[c] = "open" /\ pump[c]
    /\ call' = [call EXCEPT ![c] = "cut"] /\ pump' = [pump EXCEPT ![c] = FALSE]
    /\ UNCHANGED <<serverVars, stopper, host, done, job>>

-----------------------------------------------------------------------------
(* The handler, on a blocking thread *)

OnThread == {c \in Calls : job[c] \in {"running", "reading", "stopping"}}

FreeThread == Cardinality(OnThread) < PoolSize

Move(c, to) == job' = [job EXCEPT ![c] = to] /\ UNCHANGED <<serverVars, host>>

HandlerBegins(c) ==
    /\ job[c] = "queued" /\ FreeThread
    /\ Move(c, "running")
    /\ UNCHANGED <<stopper, call, pump, done>>

\* The pool, on its way down, gives up what no thread has taken yet.
HandlerDropped(c) ==
    /\ job[c] = "queued" /\ thread = "dropping"
    /\ Move(c, "leaked")
    /\ UNCHANGED <<stopper, call, pump, done>>

\* zpr_grpc_stream_read with nothing to read: at the end of the request it returns at once.
ReadBlocks(c) ==
    /\ job[c] = "running" /\ pump[c] /\ ~done[c]
    /\ Move(c, "reading")
    /\ UNCHANGED <<stopper, call, pump, done>>

ReadMessage(c) ==
    /\ job[c] = "reading" /\ pump[c]
    /\ Move(c, "running")
    /\ UNCHANGED <<stopper, call, pump, done>>

\* The sender of the channel is gone, because the request ended or its task was dropped.
ReadEnds(c) ==
    /\ job[c] = "reading" /\ (done[c] \/ ~pump[c])
    /\ Move(c, "running")
    /\ UNCHANGED <<stopper, call, pump, done>>

\* GrpcTrampoline has a status for every handler, also for one that raised; the client
\* gets it if the body is still there.
HandlerReturns(c) ==
    /\ job[c] = "running"
    /\ Move(c, "over")
    /\ call' = [call EXCEPT ![c] = IF pump[c] THEN "answered" ELSE @]
    /\ pump' = [pump EXCEPT ![c] = FALSE]
    /\ UNCHANGED <<stopper, done>>

-----------------------------------------------------------------------------
(* zpr_grpc_server_stop *)

HostStops ==
    /\ stopper = "nobody" /\ thread \notin {"none", "refused"}
    /\ stopper' = "host" /\ host' = "joining" /\ shutdown' = TRUE
    /\ UNCHANGED <<thread, workers, callVars>>

\* A handler calls it, on the server it serves.
HandlerStops(c) ==
    /\ job[c] = "running" /\ stopper = "nobody"
    /\ stopper' = c /\ shutdown' = TRUE
    /\ job' = [job EXCEPT ![c] = "stopping"]
    /\ UNCHANGED <<thread, workers, host, call, pump, done>>

\* Faulty: the tasks of a call outlive the workers.
TasksLeft_Kept == pump
\* The tasks that are left when the workers are gone
TasksLeft == [c \in Calls |-> FALSE]

WorkersEnd ==
    /\ thread = "dropping" /\ workers
    /\ workers' = FALSE
    /\ pump' = TasksLeft
    /\ call' = [c \in Calls |-> IF call[c] = "open" /\ ~TasksLeft[c] THEN "cut" ELSE call[c]]
    /\ UNCHANGED <<thread, shutdown, stopper, host, done, job>>

\* Faulty: the runtime is left to end in the background.
PoolIdle_Background == TRUE
\* Dropping the runtime waits for every blocking thread.
PoolIdle == \A c \in Calls : job[c] \in {"none", "over", "leaked"}

RuntimeDropped ==
    /\ thread = "dropping" /\ ~workers /\ PoolIdle
    /\ thread' = "ended"
    /\ UNCHANGED <<workers, shutdown, stopper, host, callVars>>

JoinReturns ==
    /\ host = "joining" /\ thread = "ended"
    /\ host' = "stopped"
    /\ UNCHANGED <<serverVars, stopper, callVars>>

-----------------------------------------------------------------------------
ServerStep == RuntimeBuilt \/ RuntimeFails \/ AcceptEnds \/ WorkersEnd \/ RuntimeDropped \/ JoinReturns
ClientStep(c) == Arrive(c) \/ ClientEnds(c) \/ ClientLost(c)
HandlerStep(c) == ReadBlocks(c) \/ ReadMessage(c) \/ HandlerStops(c)
PoolStep(c) == HandlerBegins(c) \/ HandlerDropped(c)

Next == Start \/ HostStops \/ ServerStep
        \/ \E c \in Calls : \/ ClientStep(c) \/ HandlerStep(c) \/ PoolStep(c)
                            \/ ReadEnds(c) \/ HandlerReturns(c)

Spec == Init /\ [][Next]_vars

\* The threads of the server run, and a handler returns when its call is gone (its reads
\* end and its writes fail then).  Nothing is assumed of clients, nor of the host.
Fairness ==
    /\ WF_vars(ServerStep)
    /\ \A c \in Calls : /\ WF_vars(PoolStep(c)) /\ WF_vars(ReadEnds(c))
                        /\ WF_vars(~pump[c] /\ HandlerReturns(c))

FairSpec == Spec /\ Fairness

-----------------------------------------------------------------------------
(* Properties *)

TypeOK ==
    /\ thread \in {"none", "refused", "starting", "accepting", "dropping", "ended"}
    /\ workers \in BOOLEAN /\ shutdown \in BOOLEAN
    /\ stopper \in {"nobody", "host"} \union Calls
    /\ host \in {"idle", "joining", "stopped"}
    /\ call \in [Calls -> {"none", "open", "answered", "cut"}]
    /\ pump \in [Calls -> BOOLEAN] /\ done \in [Calls -> BOOLEAN]
    /\ job \in [Calls -> {"none", "queued", "running", "reading", "stopping", "over", "leaked"}]

\* When stop has returned no handler runs, and none is left to run later: the host may
\* free the user_data, as TZprGrpcServer.Destroy does.  And no client is left waiting:
\* each has its answer, or its connection is cut.
NothingAfterStop == host = "stopped" =>
    OnThread = {} /\ \A c \in Calls : job[c] # "queued" /\ call[c] # "open"

\* A handler that stops its own server waits for itself: the server's thread never ends.
StopFromHandlerHangs == stopper \in Calls => thread # "ended"

\* A stop from outside returns, with handlers queued, running, or blocked in a read from
\* a silent client, and also if it comes before the server has begun to accept.
StopReturns == host = "joining" ~> host = "stopped"
=============================================================================
