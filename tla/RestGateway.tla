---------------------------- MODULE RestGateway ----------------------------
(***************************************************************************)
(* The JSON-to-gRPC gateway (crates/zpr/src/transcode.rs) over the channel *)
(* cache it shares with every other call of the process.  A gateway has a  *)
(* runtime of its own; its requests are the callers in Rest.               *)
(***************************************************************************)
EXTENDS ChannelCache

CONSTANT MaxStarts      \* bound: zpr_transcode_start

ASSUME StartsAssumption == MaxStarts \in Nat

VARIABLES
    gateway,    \* "off", "serving", "deaf" (OK, but no runtime), "stopping" (the signal is
                \* given), "dropping" the runtime, "ended"
    gen,        \* the runtime of the latest gateway
    stage,      \* per connection, its task: "none", "ready" for a request, "body",
                \* "forwarding", "answered"
    reply,      \* the HTTP status of its latest request, 0 if none yet
    grpc,       \* history: the gRPC status call_unary_bytes came back with, or -1
    made        \* history: what became of an OK reply: "nothing", "rendered", or a fault

gateVars == <<gateway, gen>>
restVars == <<stage, reply, grpc, made>>
vars == <<cvars, gateVars, restVars>>

RestInit ==
    /\ Init
    /\ gateway = "off" /\ gen = 0
    /\ stage = [t \in Rest |-> "none"] /\ reply = [t \in Rest |-> 0]
    /\ grpc = [t \in Rest |-> -1] /\ made = [t \in Rest |-> "nothing"]

\* The gateway has a runtime, whose workers poll the connections' tasks.
Alive == gateway \in {"serving", "stopping", "dropping"}

-----------------------------------------------------------------------------
(* serve_one, the pure parts *)

\* What can be wrong with the head of a request, and with its body
HeadFaults == {"method", "path", "service", "rpc", "streaming"}
BodyFaults == {"unreadable", "not_utf8", "mismatch"}

\* The first check that fails answers; 0 goes on.
HeadVerdict(faults) ==
    IF "method" \in faults THEN 405
    ELSE IF faults \intersect {"path", "service", "rpc"} # {} THEN 404
    ELSE IF "streaming" \in faults THEN 501 ELSE 0

BodyVerdict(faults) == IF faults = {} THEN 0 ELSE 400

\* http_status_for_grpc
HttpStatus(code) ==
    CASE code = 0 -> 200 [] code = 3 -> 400 [] code = 5 -> 404 [] code = 7 -> 403
      [] code = 16 -> 401 [] code = 8 -> 429 [] code = 12 -> 501 [] code = 14 -> 503
      [] code = 4 -> 504 [] OTHER -> 500

\* What can become of the bytes of an OK reply: decode fails, or serialize_with_options
Makings == {"rendered", "undecodable", "unrenderable"}

MadeVerdict(making) ==
    CASE making = "undecodable" -> 502 [] making = "unrenderable" -> 500 [] OTHER -> 200

\* Faulty: a reply that could not be decoded or rendered goes out as it is.
Verdict_Unchecked(code, making) == HttpStatus(code)
Verdict(code, making) == IF code = 0 THEN MadeVerdict(making) ELSE HttpStatus(code)

\* Statuses a call can end with on a channel that is kept: one of each kind of answer
KeptCodes == {0, 5}
LostCodes == {2, 14}

-----------------------------------------------------------------------------
(* One connection.  It is served for as long as its task is there, also when *)
(* the signal to stop was given.                                             *)

\* The accept loop has a connection, and spawns its task.  The select takes this branch
\* also when the signal is there.
Connect(t) ==
    /\ gateway \in {"serving", "stopping"} /\ stage[t] = "none"
    /\ stage' = [stage EXCEPT ![t] = "ready"]
    /\ UNCHANGED <<cvars, gateVars, reply, grpc, made>>

\* The task is dropped, at the await where it is.
Dropped(t) ==
    /\ Finish(t) /\ Dialed(t)
    /\ stage' = [stage EXCEPT ![t] = "none"] /\ reply' = [reply EXCEPT ![t] = 0]
    /\ grpc' = [grpc EXCEPT ![t] = -1] /\ made' = [made EXCEPT ![t] = "nothing"]
    /\ UNCHANGED <<cacheVars, dead, proxyVars, ep, breaks, gateVars>>

\* hyper drops the request of a connection that is gone.
ClientLeaves(t) == stage[t] # "none" /\ Dropped(t)

Reply(t, code) ==
    /\ reply' = [reply EXCEPT ![t] = code]
    /\ stage' = [stage EXCEPT ![t] = "answered"]

\* The checks before the first await, for one request after the other
Receive(t) ==
    /\ stage[t] \in {"ready", "answered"}
    /\ \E faults \in SUBSET HeadFaults :
         IF HeadVerdict(faults) # 0
           THEN Reply(t, HeadVerdict(faults))
           ELSE /\ stage' = [stage EXCEPT ![t] = "body"]
                /\ reply' = [reply EXCEPT ![t] = 0]
    /\ grpc' = [grpc EXCEPT ![t] = -1] /\ made' = [made EXCEPT ![t] = "nothing"]
    /\ UNCHANGED <<cvars, gateVars>>

RefuseBody(t) ==
    /\ stage[t] = "body"
    /\ \E faults \in (SUBSET BodyFaults) \ {{}} : Reply(t, BodyVerdict(faults))
    /\ UNCHANGED <<cvars, gateVars, grpc, made>>

\* call_unary_bytes, with the body as the request message
Forward(t, e) ==
    /\ stage[t] = "body"
    /\ Hit(t, e) \/ Miss(t, e)
    /\ stage' = [stage EXCEPT ![t] = "forwarding"]
    /\ UNCHANGED <<gateVars, reply, grpc, made>>

Connected(t) == Insert(t, gen) /\ UNCHANGED <<gateVars, restVars>>

\* Connect and ready failures are told as UNAVAILABLE.
Unreachable(t) ==
    /\ stage[t] = "forwarding"
    /\ DialFails(t) \/ NotReady(t)
    /\ grpc' = [grpc EXCEPT ![t] = 14]
    /\ Reply(t, HttpStatus(14))
    /\ UNCHANGED <<gateVars, made>>

CallReturns(t) ==
    /\ stage[t] = "forwarding"
    /\ \E code \in KeptCodes \union LostCodes, making \in Makings :
         /\ IF code \in LostCodes THEN Lost(t) ELSE Answered(t)
         /\ grpc' = [grpc EXCEPT ![t] = code]
         /\ made' = [made EXCEPT ![t] = IF code = 0 THEN making ELSE "nothing"]
         /\ Reply(t, Verdict(code, making))
    /\ UNCHANGED gateVars

-----------------------------------------------------------------------------
(* zpr_transcode_start and zpr_transcode_stop *)

Start ==
    /\ gateway = "off" /\ gen < MaxStarts
    /\ gateway' \in {"serving", "deaf"}     \* deaf: the runtime could not be built
    /\ gen' = gen + 1
    /\ UNCHANGED <<cvars, restVars>>

\* The signal; the host now waits in join.
Stop ==
    /\ gateway \in {"serving", "deaf"}
    /\ gateway' = IF gateway = "deaf" THEN "ended" ELSE "stopping"
    /\ UNCHANGED <<cvars, gen, restVars>>

\* shutdown_rx.changed() breaks the loop; block_on returns, and the runtime is dropped.
LoopEnds ==
    /\ gateway = "stopping"
    /\ gateway' = "dropping"
    /\ UNCHANGED <<cvars, gen, restVars>>

\* Faulty: a connection with a request is left to finish it.
Droppable_Graceful(t) == stage[t] \in {"ready", "answered"}
\* The drop of the runtime takes every task, wherever it is.
Droppable(t) == stage[t] # "none"

\* One task after the other, by each worker for itself: the others run on meanwhile.
TaskDropped(t) == gateway = "dropping" /\ Droppable(t) /\ Dropped(t)

\* The tasks that drive the channels connected here are among them.
ChannelsDie ==
    /\ gateway = "dropping" /\ gen \notin dead
    /\ dead' = dead \union {gen}
    /\ UNCHANGED <<cacheVars, proxyVars, callVars, breaks, gateVars, restVars>>

\* Faulty: the runtime is shut down in the background, and its tasks run on.
TasksGone_Background == TRUE
TasksGone == \A t \in Rest : stage[t] = "none"

\* The drop returns when the workers are joined, and the thread ends.
RuntimeDropped ==
    /\ gateway = "dropping" /\ gen \in dead /\ TasksGone
    /\ gateway' = "ended"
    /\ UNCHANGED <<cvars, gen, restVars>>

StopReturns ==
    /\ gateway = "ended"
    /\ gateway' = "off"
    /\ UNCHANGED <<cvars, gen, restVars>>

-----------------------------------------------------------------------------
HostCall(t) == CallStep(t, 0) /\ UNCHANGED <<gateVars, restVars>>
SetsProxy == \E p \in Overrides : SetProxy(p) /\ UNCHANGED <<gateVars, restVars>>
Request(t) == \/ Connect(t) \/ ClientLeaves(t) \/ TaskDropped(t)
              \/ Receive(t) \/ RefuseBody(t) \/ Unreachable(t) \/ Connected(t) \/ CallReturns(t)
              \/ \E e \in Endpoints : Forward(t, e)
StopStep == LoopEnds \/ ChannelsDie \/ RuntimeDropped \/ StopReturns
GatewayStep == Start \/ Stop \/ StopStep

Next == (\E t \in Unary \union Streams : HostCall(t)) \/ (\E t \in Rest : Request(t))
        \/ SetsProxy \/ GatewayStep

Spec == RestInit /\ [][Next]_vars

\* The select takes the branch of the signal sooner or later, which stays ready, and the
\* drop of the runtime goes on.  Nothing is assumed of the daemon, of the clients, nor of
\* the host: a request may wait for any of them for ever.
Fairness == WF_vars(StopStep) /\ \A t \in Rest : WF_vars(TaskDropped(t))

FairSpec == Spec /\ Fairness
-----------------------------------------------------------------------------
(* Properties *)

InCache(c) == \E e \in Endpoints : cache[e] = c

\* A channel that was evicted or replaced is never handed out again, however late the
\* callers that still hold it come back.
EvictedStaysOut == \A c \in removed : ~InCache(c)

\* Concurrent first calls may connect twice, but not without bound: the connections to an
\* endpoint are at most one round of all callers for each time its entry was empty.
HandshakesBounded ==
    \A e \in Endpoints : Cardinality({c \in 1..Len(chans) : chans[c].ep = e})
                           <= Cardinality(Callers) * (1 + emptied[e])

\* The HTTP side is told 200 just if the daemon answered OK and its reply was rendered; and
\* neither a call that failed for the transport nor an OK whose reply is no good is ever
\* told as the caller's own mistake.
NoFalseSuccess ==
    \A t \in Rest : /\ reply[t] = 200 <=> made[t] = "rendered"
                    /\ made[t] # "nothing" => grpc[t] = 0
                    /\ grpc[t] \in LostCodes \/ made[t] \in Makings \ {"rendered"}
                         => reply[t] \in 500..599

\* Once stop has returned no request of that gateway runs on: none comes back from its
\* connect to put a channel of the dropped runtime into the cache.
NoLateChannel ==
    [][~Alive => \A c \in (Len(chans) + 1)..Len(chans') : chans'[c].runtime = 0]_vars

\* zpr_transcode_stop returns, with connections that wait for a client, for a connect, or
\* for a daemon that never answers, and with requests that come in after the signal.
StopEnds == gateway = "stopping" ~> gateway = "off"

-----------------------------------------------------------------------------
(* What the comments of the code say, and the code does not do *)

\* grpc.rs:398, "only truly broken transports get evicted": a unary call that ends on a
\* channel without a transport leaves it out of the cache.
BrokenEvicted ==
    [][\A t \in Unary : held[t] # None /\ Broken(held[t]) /\ pc'[t] = "idle"
                          => cache'[ep[t]] # held[t]]_vars
=============================================================================
