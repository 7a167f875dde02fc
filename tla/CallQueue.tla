----------------------------- MODULE CallQueue -----------------------------
(***************************************************************************)
(* The queued gRPC server (crates/zpr/src/grpc_server.rs): the threads of  *)
(* the server's runtime run handle_queued, a reaper sweeps once a second,  *)
(* and the threads of the host (pascal/Zpr.pas, TZprGrpcQueuedServer and   *)
(* TZprGrpcCall) accept, complete, configure and finally stop and free.    *)
(* They share two mutexes (pending, live) and some atomics; an action is   *)
(* what one thread does in one critical section, so every interleaving the *)
(* locks allow is a behaviour.  Message payloads are left to RpcStream.    *)
(***************************************************************************)
EXTENDS Integers, Sequences, FiniteSets

CONSTANTS
    Workers,          \* threads that run handle_queued (2 in the code)
    Hosts,            \* threads of the host that use the queue
    MaxCalls,         \* bound: how many RPCs are let in
    MaxRefused,       \* bound: how many RPCs are refused
    Limits,           \* values the host passes as max_pending
    Deadlines,        \* values the host passes as deadline_ms, in clock ticks
    DefaultLimit,     \* max_pending at start (1024)
    DefaultDeadline,  \* deadline_ms at start (30_000)
    Forever           \* a deadline no clock reaches (u64::MAX / 4 ms)

ASSUME SizesAssumption ==
    /\ MaxCalls \in Nat
    /\ MaxRefused \in Nat
    /\ IsFiniteSet(Workers)
    /\ IsFiniteSet(Hosts)

ASSUME SettingsAssumption ==
    /\ Limits \subseteq Nat
    /\ DefaultLimit \in Limits \ {0}
    /\ Deadlines \subseteq Nat
    /\ DefaultDeadline \in Deadlines
    /\ Forever \in Nat \ {0}
    /\ \A d \in Deadlines : d < Forever

VARIABLES
    pending,      \* Mutex<VecDeque>: ids waiting to be accepted, in order
    live,         \* keys of Mutex<HashMap<u64, LiveCall>>
    ttl,          \* LiveCall.expires_at, as the ticks still to go
    next_id, max_pending, deadline_ms,
    accepted, completed, refused, reaped,
    wpc, wid,     \* per worker: position in handle_queued, and its local id
    rpc,          \* position of the reaper in its loop
    due,          \* the calls with expires_at <= now, at the `now` of the sweep
    expired,      \* the sweep's local Vec<LiveCall>, not yet answered
    hand,         \* per host thread: the LiveCall complete() removed, 0 if none
    object,       \* per id: its TZprGrpcCall, "none", "open" or "completed"
    answered,     \* per id: who sent on its status_tx, "none" if nobody did
    client,       \* per id: what its client knows
    phase,        \* of the server handle and the queue handle
    arrived       \* history: the ids pushed on pending, in order

queueVars == <<pending, live, ttl, next_id, max_pending, deadline_ms>>
counters == <<accepted, completed, refused, reaped>>
workerVars == <<wpc, wid>>
reaperVars == <<rpc, due, expired>>
hostVars == <<hand, object>>
vars == <<queueVars, counters, workerVars, reaperVars, hostVars,
          answered, client, phase, arrived>>

Ids == 1..MaxCalls
Authors == {"host", "deadline", "unavailable"}

\* The runtime's threads exist: connections, pumps and the reaper are served.
Running == phase \in {"serving", "stopping"}
\* The queue handle may still be used.
Usable == phase # "freed"
\* Ids handed out by next_id so far.
Issued == 1..(next_id - 1)

-----------------------------------------------------------------------------
(* CallQueue::new and zpr_grpc_server_start_queued *)
Init ==
    /\ pending = <<>>
    /\ live = {}
    /\ ttl = [id \in Ids |-> 0]
    /\ next_id = 1
    /\ max_pending = DefaultLimit
    /\ deadline_ms = DefaultDeadline
    /\ accepted = 0 /\ completed = 0 /\ refused = 0 /\ reaped = 0
    /\ wpc = [w \in Workers |-> "idle"]
    /\ wid = [w \in Workers |-> 0]
    /\ rpc = "waiting" /\ due = {} /\ expired = {}
    /\ hand = [h \in Hosts |-> 0]
    /\ object = [id \in Ids |-> "none"]
    /\ answered = [id \in Ids |-> "none"]
    /\ client = [id \in Ids |-> "absent"]
    /\ phase = "serving"
    /\ arrived = <<>>

-----------------------------------------------------------------------------
(* handle_queued.  It has no await between the check and the push, so one  *)
(* thread runs it to its end, but it takes the pending lock twice.         *)

\* Faulty: lets one more in.
Full_OffByOne == Len(pending) > max_pending
\* The test under the first lock of `pending`.
Full == Len(pending) >= max_pending

\* RESOURCE_EXHAUSTED at the door: no id, no state.
Refuse(w) ==
    /\ Running /\ wpc[w] = "idle"
    /\ refused < MaxRefused
    /\ Full
    /\ refused' = refused + 1
    /\ UNCHANGED <<queueVars, accepted, completed, reaped, workerVars, reaperVars,
                   hostVars, answered, client, phase, arrived>>

\* Bound: ids are left for this RPC and for those already past the door.
IdsLeft == next_id + Cardinality({w \in Workers : wpc[w] = "admitted"}) <= MaxCalls

Admit(w) ==
    /\ Running /\ wpc[w] = "idle"
    /\ IdsLeft
    /\ ~Full
    /\ wpc' = [wpc EXCEPT ![w] = "admitted"]
    /\ UNCHANGED <<queueVars, counters, wid, reaperVars, hostVars,
                   answered, client, phase, arrived>>

\* Faulty: the two branches swapped.
Stamp_Swapped == IF deadline_ms = 0 THEN deadline_ms ELSE Forever
\* The deadline a call is stamped with, on arrival.
Stamp == IF deadline_ms = 0 THEN Forever ELSE deadline_ms

\* The id, and the insertion into `live`.
Register(w) ==
    /\ wpc[w] = "admitted"
    /\ next_id <= MaxCalls
    /\ next_id' = next_id + 1
    /\ live' = live \union {next_id}
    /\ ttl' = [ttl EXCEPT ![next_id] = Stamp]
    /\ client' = [client EXCEPT ![next_id] = "waiting"]
    /\ wpc' = [wpc EXCEPT ![w] = "registered"]
    /\ wid' = [wid EXCEPT ![w] = next_id]
    /\ UNCHANGED <<pending, max_pending, deadline_ms, counters, reaperVars,
                   hostVars, answered, phase, arrived>>

\* Faulty: a second look at the limit that drops the RPC.
PushBack_DropsIfFull(q, id) == IF Len(q) >= max_pending THEN q ELSE Append(q, id)
PushBack(q, id) == Append(q, id)

\* The second lock of `pending`; then the response head is returned.
Enqueue(w) ==
    /\ wpc[w] = "registered"
    /\ pending' = PushBack(pending, wid[w])
    /\ arrived' = PushBack(arrived, wid[w])
    /\ wpc' = [wpc EXCEPT ![w] = "idle"]
    /\ wid' = [wid EXCEPT ![w] = 0]
    /\ UNCHANGED <<live, ttl, next_id, max_pending, deadline_ms, counters,
                   reaperVars, hostVars, answered, client, phase>>

-----------------------------------------------------------------------------
(* reap_loop *)

\* Time passes for every registered call that is stamped with a real deadline.
Tick ==
    /\ Running
    /\ \E id \in live : ttl[id] \in 1..(Forever - 1)
    /\ ttl' = [id \in Ids |-> IF id \in live /\ ttl[id] \in 1..(Forever - 1)
                              THEN ttl[id] - 1 ELSE ttl[id]]
    /\ UNCHANGED <<pending, live, next_id, max_pending, deadline_ms, counters,
                   workerVars, reaperVars, hostVars, answered, client, phase, arrived>>

\* Faulty: gives up one tick early.
Expired_Early(id) == ttl[id] <= 1
\* c.expires_at <= now
Expired(id) == ttl[id] = 0

\* A tick of the interval with the reaper enabled: `now` is read, no lock is held.
SweepBegin ==
    /\ Running /\ rpc = "waiting"
    /\ deadline_ms # 0
    /\ rpc' = "sweeping"
    /\ due' = {id \in live : Expired(id)}
    /\ UNCHANGED <<queueVars, counters, workerVars, expired, hostVars,
                   answered, client, phase, arrived>>

\* Faulty: does not look whether the call is still there.
Collected_Stale == due
\* `if let Some(c) = live.remove(&id)`
Collected == due \intersect live

\* Under the lock of `live`: what is due and still there is taken out.
SweepCollect ==
    /\ rpc = "sweeping"
    /\ expired' = Collected
    /\ live' = live \ due
    /\ due' = {}
    /\ rpc' = "answering"
    /\ UNCHANGED <<pending, ttl, next_id, max_pending, deadline_ms, counters,
                   workerVars, hostVars, answered, client, phase, arrived>>

\* Outside the lock, one call at a time, in the order of the map.
SweepAnswer(id) ==
    /\ rpc = "answering"
    /\ id \in expired
    /\ answered' = [answered EXCEPT ![id] = "deadline"]
    /\ reaped' = reaped + 1
    /\ expired' = expired \ {id}
    /\ UNCHANGED <<queueVars, accepted, completed, refused, workerVars, rpc, due,
                   hostVars, client, phase, arrived>>

SweepEnd ==
    /\ rpc = "answering" /\ expired = {}
    /\ rpc' = "waiting"
    /\ UNCHANGED <<queueVars, counters, workerVars, due, expired, hostVars,
                   answered, client, phase, arrived>>

\* The other branch of the select: the shutdown signal.
ReaperStop ==
    /\ rpc = "waiting" /\ phase = "stopping"
    /\ rpc' = "stopped"
    /\ UNCHANGED <<queueVars, counters, workerVars, due, expired, hostVars,
                   answered, client, phase, arrived>>

-----------------------------------------------------------------------------
(* The host's side: zpr_grpc_accept, _call_complete, _queue_configure *)

\* What `pending` holds after pop_front, and after push_front on a short buffer.
PopFront == Tail(pending)
\* Faulty: the RPC that did not fit goes to the back.
PushFront_Back(id, q) == Append(q, id)
PushFront(id, q) == <<id>> \o q

\* zpr_grpc_accept: the path fits in the caller's buffer, the RPC is handed out.
Accept ==
    /\ Usable
    /\ pending # <<>>
    /\ pending' = PopFront
    /\ accepted' = accepted + 1
    /\ object' = [object EXCEPT ![Head(pending)] = "open"]
    /\ UNCHANGED <<live, ttl, next_id, max_pending, deadline_ms, completed, refused,
                   reaped, workerVars, reaperVars, hand, answered, client, phase, arrived>>

\* zpr_grpc_accept: it does not fit, and the RPC goes back before the lock is left.
AcceptShort ==
    /\ Usable
    /\ pending # <<>>
    /\ pending' = PushFront(Head(pending), PopFront)
    /\ UNCHANGED <<live, ttl, next_id, max_pending, deadline_ms, counters, workerVars,
                   reaperVars, hostVars, answered, client, phase, arrived>>

\* Faulty: get in the place of remove.
Removed_Kept(id) == live
\* What live.remove(&call_id) leaves
Removed(id) == live \ {id}

\* TZprGrpcCall.Complete: FCompleted is set, then the entry is removed from `live`.
CompleteRemove(h, id) ==
    /\ Usable /\ hand[h] = 0
    /\ object[id] = "open"
    /\ id \in live
    /\ object' = [object EXCEPT ![id] = "completed"]
    /\ live' = Removed(id)
    /\ hand' = [hand EXCEPT ![h] = id]
    /\ UNCHANGED <<pending, ttl, next_id, max_pending, deadline_ms, counters, workerVars,
                   reaperVars, answered, client, phase, arrived>>

\* FCompleted is set, but zpr_grpc_call_complete answers ZPR_ERR: the id is no longer
\* live, or the status message is not UTF-8.  TZprGrpcCall never tries again.
CompleteFails(id) ==
    /\ Usable
    /\ object[id] = "open"
    /\ object' = [object EXCEPT ![id] = "completed"]
    /\ UNCHANGED <<queueVars, counters, workerVars, reaperVars, hand, answered, client,
                   phase, arrived>>

\* With no lock held: status_tx.send, then the counter, then the entry is dropped.
CompleteAnswer(h) ==
    /\ hand[h] # 0
    /\ answered' = [answered EXCEPT ![hand[h]] = "host"]
    /\ completed' = completed + 1
    /\ hand' = [hand EXCEPT ![h] = 0]
    /\ UNCHANGED <<queueVars, accepted, refused, reaped, workerVars, reaperVars, object,
                   client, phase, arrived>>

\* Faulty: takes a max_pending of 0.
Configure_Unchecked(limit, ms) ==
    /\ Usable
    /\ max_pending' = limit
    /\ deadline_ms' = ms
    /\ UNCHANGED <<pending, live, ttl, next_id, counters, workerVars, reaperVars,
                   hostVars, answered, client, phase, arrived>>

\* A max_pending of 0 is rejected.
Configure(limit, ms) ==
    /\ Usable
    /\ limit # 0
    /\ max_pending' = limit
    /\ deadline_ms' = ms
    /\ UNCHANGED <<pending, live, ttl, next_id, counters, workerVars, reaperVars,
                   hostVars, answered, client, phase, arrived>>

-----------------------------------------------------------------------------
(* The client's end of an RPC: OutboundBody, in a connection task *)

\* Trailers go out once a status was sent and the body was returned to hyper.
Deliver(id) ==
    /\ Running
    /\ client[id] = "waiting"
    /\ answered[id] # "none"
    /\ \A w \in Workers : wid[w] # id
    /\ client' = [client EXCEPT ![id] = answered[id]]
    /\ UNCHANGED <<queueVars, counters, workerVars, reaperVars, hostVars,
                   answered, phase, arrived>>

\* The client resets the RPC, or its connection breaks: the queue is not told.
HangUp(id) ==
    /\ Running
    /\ client[id] = "waiting"
    /\ client' = [client EXCEPT ![id] = "gone"]
    /\ UNCHANGED <<queueVars, counters, workerVars, reaperVars, hostVars,
                   answered, phase, arrived>>

-----------------------------------------------------------------------------
(* zpr_grpc_server_stop, then zpr_grpc_queue_free (TZprGrpcQueuedServer.Stop) *)

StopSignal ==
    /\ phase = "serving"
    /\ phase' = "stopping"
    /\ UNCHANGED <<queueVars, counters, workerVars, reaperVars, hostVars,
                   answered, client, arrived>>

\* Faulty: waits for every client to be served, though the reaper has stopped.
PollsEnded_Graceful == \A id \in Ids : client[id] # "waiting"
\* Faulty: a poll of handle_queued that has begun is not waited for.
PollsEnded_ReaperOnly == rpc \in {"waiting", "stopped"}
\* No thread of the runtime is inside handle_queued or a sweep.
PollsEnded == (\A w \in Workers : wpc[w] = "idle") /\ rpc \in {"waiting", "stopped"}

\* The join returns when the runtime is gone: polls in progress have ended, and
\* every task, so every connection, was dropped.
StopJoin ==
    /\ phase = "stopping"
    /\ PollsEnded
    /\ phase' = "stopped"
    /\ rpc' = "stopped"
    /\ client' = [id \in Ids |-> IF client[id] = "waiting" THEN "lost" ELSE client[id]]
    /\ UNCHANGED <<queueVars, counters, workerVars, due, expired, hostVars,
                   answered, arrived>>

\* No thread of the host may be inside the library.  What is left in `live` is
\* drained; the rest of the queue is released with the last Arc.
Free ==
    /\ phase = "stopped"
    /\ \A h \in Hosts : hand[h] = 0
    /\ phase' = "freed"
    /\ answered' = [id \in Ids |-> IF id \in live THEN "unavailable" ELSE answered[id]]
    /\ live' = {}
    /\ UNCHANGED <<pending, ttl, next_id, max_pending, deadline_ms, counters, workerVars,
                   reaperVars, hostVars, client, arrived>>

\* The handles are gone, nothing is left to run.
Gone == phase = "freed" /\ UNCHANGED vars

-----------------------------------------------------------------------------
WorkerStep(w) == Refuse(w) \/ Admit(w) \/ Register(w) \/ Enqueue(w)
ReaperStep == SweepBegin \/ SweepCollect \/ (\E id \in Ids : SweepAnswer(id))
              \/ SweepEnd \/ ReaperStop
HostStep == \/ Accept \/ AcceptShort
            \/ \E h \in Hosts, id \in Ids : CompleteRemove(h, id)
            \/ \E id \in Ids : CompleteFails(id)
            \/ \E h \in Hosts : CompleteAnswer(h)
            \/ \E limit \in Limits, ms \in Deadlines : Configure(limit, ms)
ClientStep == \E id \in Ids : Deliver(id) \/ HangUp(id)
StopStep == StopSignal \/ StopJoin \/ Free

Next == \/ \E w \in Workers : WorkerStep(w)
        \/ Tick \/ ReaperStep
        \/ HostStep
        \/ ClientStep
        \/ StopStep \/ Gone

Spec == Init /\ [][Next]_vars

(* Fairness.  A poll that has begun ends, and so does a host call that is    *)
(* past its lock; time passes; the interval fires while the runtime lives;   *)
(* the select of the reaper takes a shutdown branch that stays ready, sooner *)
(* or later; a connection task is polled when its status arrives; the drop   *)
(* of the runtime returns.  Nothing is assumed of the host: it need not      *)
(* accept or complete.                                                       *)
Fairness ==
    /\ \A w \in Workers : WF_vars(Register(w) \/ Enqueue(w))
    /\ WF_vars(Tick)
    /\ WF_vars(SweepBegin)
    /\ WF_vars(SweepCollect \/ (\E id \in Ids : SweepAnswer(id)) \/ SweepEnd)
    /\ SF_vars(ReaperStop)
    /\ \A h \in Hosts : WF_vars(CompleteAnswer(h))
    /\ \A id \in Ids : WF_vars(Deliver(id))
    /\ WF_vars(StopJoin)

FairSpec == Spec /\ Fairness

-----------------------------------------------------------------------------
(* Properties *)

TypeOK ==
    /\ pending \in Seq(Ids) /\ arrived \in Seq(Ids)
    /\ live \subseteq Ids /\ due \subseteq Ids /\ expired \subseteq Ids
    /\ ttl \in [Ids -> 0..Forever]
    /\ next_id \in 1..(MaxCalls + 1)
    /\ max_pending \in Limits \ {0} /\ deadline_ms \in Deadlines
    /\ accepted \in Nat /\ completed \in Nat /\ refused \in Nat /\ reaped \in Nat
    /\ wpc \in [Workers -> {"idle", "admitted", "registered"}]
    /\ wid \in [Workers -> 0..MaxCalls]
    /\ \A w \in Workers : wid[w] # 0 <=> wpc[w] = "registered"
    /\ rpc \in {"waiting", "sweeping", "answering", "stopped"}
    /\ hand \in [Hosts -> 0..MaxCalls]
    /\ object \in [Ids -> {"none", "open", "completed"}]
    /\ answered \in [Ids -> Authors \union {"none"}]
    /\ client \in [Ids -> Authors \union {"absent", "waiting", "gone", "lost"}]
    /\ phase \in {"serving", "stopping", "stopped", "freed"}

InHand == {hand[h] : h \in Hosts} \ {0}
AnsweredBy(by) == {id \in Ids : answered[id] = by}
Answered == {id \in Ids : answered[id] # "none"}

\* No RPC that was let in is ever lost or answered twice: at every moment each
\* issued id is in exactly one place, the `live` map, the hands of one host thread
\* that is completing it, the sweep's list, or answered, whichever of complete,
\* reap_loop and queue_free won the race for it.
Custody ==
    /\ live \union InHand \union expired \union Answered = Issued
    /\ live \intersect (InHand \union expired \union Answered) = {}
    /\ InHand \intersect (expired \union Answered) = {}
    /\ expired \intersect Answered = {}
    /\ \A h1, h2 \in Hosts : hand[h1] = hand[h2] /\ hand[h1] # 0 => h1 = h2

\* zpr_grpc_accept hands out the RPCs in the order they were queued, each to one
\* caller and once, and a short buffer changes nothing: what was handed out and
\* what is still pending are the two halves of what was queued.
HandedOutInOrder ==
    /\ Len(arrived) = accepted + Len(pending)
    /\ \A i \in 1..Len(pending) : pending[i] = arrived[accepted + i]
    /\ \A i \in 1..Len(arrived) : object[arrived[i]] # "none" <=> i <= accepted
    /\ \A i, j \in 1..Len(arrived) : arrived[i] = arrived[j] => i = j

\* An RPC that was given an id is queued, or its thread in handle_queued still is
\* about to queue it: none is registered in `live` and then forgotten.
EveryCallQueued ==
    Issued = {arrived[i] : i \in 1..Len(arrived)} \union ({wid[w] : w \in Workers} \ {0})

\* The RPCs past the door of handle_queued
PastTheDoor == {w \in Workers : wpc[w] # "idle"}

\* The check of max_pending and the push are two critical sections, so `pending`
\* can overshoot the limit: never by more than the other threads that run
\* handle_queued, for the largest limit the host ever sets.
OvershootBounded ==
    \E limit \in Limits : Len(pending) + Cardinality(PastTheDoor)
                              <= limit + Cardinality(Workers) - 1

\* The counters zpr_grpc_queue_counters reports are exact: `completed` counts the
\* calls the host answered, `reaped` those the reaper answered, none twice.
CountersExact ==
    /\ completed = Cardinality(AnsweredBy("host"))
    /\ reaped = Cardinality(AnsweredBy("deadline"))

\* The reaper answers DEADLINE_EXCEEDED only to a call whose own stamped deadline
\* has run out: not one stamped while the reaper was disabled, and not one that was
\* registered while the sweep was on its way.
NeverReapedEarly == \A id \in expired \union AnsweredBy("deadline") : ttl[id] = 0

\* The promise to clients, as an abstract specification: one status per RPC, and
\* what the client sees is that status.
StatusOf == [id \in Ids |-> IF answered[id] # "none" THEN answered[id]
                            ELSE IF id < next_id THEN "open" ELSE "absent"]
Lifecycle == INSTANCE CallLifecycle WITH status <- StatusOf
ImplementsLifecycle == Lifecycle!LifecycleSpec

\* Whatever the host does or forgets to do, with a deadline set every client is
\* answered, or loses its connection.
EveryClientReleased == \A id \in Ids : client[id] = "waiting" ~> client[id] # "waiting"

\* What zpr_grpc_server_stop and zpr_grpc_queue_free leave behind: after the join no thread
\* is in handle_queued to register one more call, no sweep holds calls back, and no client
\* waits, though those whose connection was dropped never read a status; and when the
\* queue is freed, every RPC that was ever let in has been answered by somebody.
NothingLeft ==
    /\ phase \in {"stopped", "freed"} =>
         PastTheDoor = {} /\ expired = {} /\ \A id \in Ids : client[id] # "waiting"
    /\ phase = "freed" => Answered = Issued

\* zpr_grpc_server_stop returns, whatever handle_queued and the reaper are doing, and also
\* with clients that nobody answers.
StopReturns == phase = "stopping" ~> phase \in {"stopped", "freed"}

=============================================================================
