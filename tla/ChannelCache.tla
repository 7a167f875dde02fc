---------------------------- MODULE ChannelCache ----------------------------
(***************************************************************************)
(* The gRPC client's channel cache (crates/zpr/src/grpc.rs, CHANNELS) and  *)
(* the calls that share it: unary calls, opens of streams, and the unary   *)
(* calls of the REST gateway.  A caller looks up under the lock, connects  *)
(* without it, and inserts under it again; a unary call evicts by name.    *)
(*                                                                         *)
(* A channel is driven by tasks on the runtime it was connected on.  Calls *)
(* of the host connect on the library's own runtime, 0, which is never     *)
(* dropped; the n-th gateway connects on its own runtime, n.               *)
(***************************************************************************)
EXTENDS Integers, Sequences, FiniteSets, ProxyResolve

CONSTANTS
    Unary, Streams, Rest,   \* callers: zpr_grpc_call; the opens; call_unary_bytes
    Endpoints,
    Overrides,      \* what zpr_grpc_set_proxy may put in its slot
    MaxEvictions,   \* bound: calls that end in a way to evict on
    MaxSets         \* bound: calls of zpr_grpc_set_proxy

Callers == Unary \union Streams \union Rest

ASSUME CallersAssumption ==
    /\ IsFiniteSet(Callers)
    /\ Unary \intersect (Streams \union Rest) = {} /\ Streams \intersect Rest = {}
    /\ Unset \in Overrides /\ MaxEvictions \in Nat /\ MaxSets \in Nat

VARIABLES
    cache,      \* CHANNELS: the channel of each endpoint, or None
    chans,      \* every channel connected so far: its runtime and endpoint
    dead,       \* runtimes that have been dropped
    override,   \* PROXY_OVERRIDE
    sets,
    excluded,   \* NO_PROXY matches the hosts of the endpoints
    pc,         \* per caller: "idle", "dialing", "calling", "evicting"
    ep, held,
    via,        \* per caller: the proxy of the connection it is making
    removed,    \* history: channels that have left the cache
    breaks,     \* how many calls were Lost
    emptied     \* history: how often each endpoint's entry was taken out

None == 0
cacheVars == <<cache, chans, removed, emptied>>
callVars == <<pc, ep, via, held>>
proxyVars == <<override, sets, excluded>>
cvars == <<cacheVars, dead, proxyVars, callVars, breaks>>

Init ==
    /\ cache = [e \in Endpoints |-> None] /\ chans = <<>> /\ dead = {}
    /\ override = Unset /\ sets = 0 /\ excluded \in BOOLEAN
    /\ pc = [t \in Callers |-> "idle"]
    /\ ep \in [Callers -> Endpoints]
    /\ via = [t \in Callers |-> NoProxy] /\ held = [t \in Callers |-> None]
    /\ removed = {} /\ breaks = 0 /\ emptied = [e \in Endpoints |-> 0]

Broken(c) == chans[c].runtime \in dead

\* What the entry holds, if anything
Occupant(e) == IF cache[e] = None THEN {} ELSE {cache[e]}

-----------------------------------------------------------------------------
(* get_channel.  A lookup is one critical section; what follows it without   *)
(* an await (the proxy after a miss, ready after a hit) is one step with it. *)

Hit(t, e) ==
    /\ pc[t] = "idle" /\ cache[e] # None
    /\ held' = [held EXCEPT ![t] = cache[e]]
    /\ ep' = [ep EXCEPT ![t] = e]
    /\ pc' = [pc EXCEPT ![t] = "calling"]
    /\ UNCHANGED <<cacheVars, dead, proxyVars, via, breaks>>

\* connect_channel: the proxy is fixed here, for this connection and its reconnects.
Miss(t, e) ==
    /\ pc[t] = "idle" /\ cache[e] = None
    /\ via' = [via EXCEPT ![t] = ResolveProxy(override, excluded)]
    /\ ep' = [ep EXCEPT ![t] = e]
    /\ pc' = [pc EXCEPT ![t] = "dialing"]
    /\ UNCHANGED <<cacheVars, dead, proxyVars, held, breaks>>

\* Faulty: a connected channel is used, and never shared.
Inserted_Never(t, c) == cache
\* insert(endpoint, ch.clone()), over whatever another caller has put there meanwhile
Inserted(t, c) == [cache EXCEPT ![ep[t]] = c]

\* The connection attempt is over, and what it was made with is forgotten.
Dialed(t) == via' = [via EXCEPT ![t] = NoProxy]

\* Connected, on the runtime `r` of the caller
Insert(t, r) ==
    /\ pc[t] = "dialing"
    /\ chans' = Append(chans, [runtime |-> r, ep |-> ep[t]])
    /\ held' = [held EXCEPT ![t] = Len(chans) + 1]
    /\ cache' = Inserted(t, Len(chans) + 1)
    /\ removed' = removed \union Occupant(ep[t])
    /\ pc' = [pc EXCEPT ![t] = "calling"]
    /\ Dialed(t)
    /\ UNCHANGED <<emptied, dead, proxyVars, ep, breaks>>

-----------------------------------------------------------------------------
(* The call itself *)

Finish(t) ==
    /\ pc' = [pc EXCEPT ![t] = "idle"]
    /\ held' = [held EXCEPT ![t] = None]

DialFails(t) ==
    /\ pc[t] = "dialing"
    /\ Finish(t) /\ Dialed(t)
    /\ UNCHANGED <<cacheVars, dead, proxyVars, ep, breaks>>

\* client.ready() fails when the channel's tasks are gone: no caller evicts on this path.
NotReady(t) ==
    /\ pc[t] = "calling" /\ Broken(held[t])
    /\ Finish(t)
    /\ UNCHANGED <<cacheVars, dead, proxyVars, ep, via, breaks>>

\* Faulty: the channel a call went well on is put (back) into the cache.
Kept_Refreshed(t) == [cache EXCEPT ![ep[t]] = held[t]]
Kept(t) == cache

\* A reply, or a status that no caller evicts on
Answered(t) ==
    /\ pc[t] = "calling" /\ ~Broken(held[t])
    /\ cache' = Kept(t)
    /\ Finish(t)
    /\ UNCHANGED <<chans, removed, emptied, dead, proxyVars, ep, via, breaks>>

\* Unavailable, Cancelled or Unknown: a broken connection, a timeout, or the server's
\* own answer.  Only a unary call evicts on it.
Lost(t) ==
    /\ pc[t] = "calling" /\ breaks < MaxEvictions
    /\ breaks' = breaks + 1
    /\ IF t \in Unary THEN pc' = [pc EXCEPT ![t] = "evicting"] /\ UNCHANGED held ELSE Finish(t)
    /\ UNCHANGED <<cacheVars, dead, proxyVars, ep, via>>

\* drop_channel: by endpoint, whichever channel is there by now
Evict(t) ==
    /\ pc[t] = "evicting"
    /\ cache' = [cache EXCEPT ![ep[t]] = None]
    /\ removed' = removed \union Occupant(ep[t])
    /\ emptied' = [emptied EXCEPT ![ep[t]] = @ + Cardinality(Occupant(ep[t]))]
    /\ Finish(t)
    /\ UNCHANGED <<chans, dead, proxyVars, ep, via, breaks>>

-----------------------------------------------------------------------------
\* zpr_grpc_set_proxy: a URL, or NULL, which clears the slot
SetProxy(p) ==
    /\ sets < MaxSets /\ p # override
    /\ override' = p /\ sets' = sets + 1
    /\ UNCHANGED <<cacheVars, dead, excluded, callVars, breaks>>

CallStep(t, r) ==
    \/ \E e \in Endpoints : Hit(t, e) \/ Miss(t, e)
    \/ Insert(t, r) \/ DialFails(t) \/ NotReady(t) \/ Answered(t) \/ Lost(t) \/ Evict(t)
=============================================================================
