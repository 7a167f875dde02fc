# zpr: models, checks and proofs

zpr is a Rust library with a C interface (`crates/zpr/src`) and its Object Pascal
bindings (`pascal/Zpr.pas`): gRPC clients and servers, a REST-to-gRPC transcoder, an HTTP
client, JSON values and protobuf descriptors for hosts that cannot take a callback from a
foreign thread. This directory holds TLA+ modules of its concurrent core, the TLC
configurations that check them and the TLAPS proofs about them. Line numbers below are
those of the modelled commit; `PROJECT.json` maps every definition to its lines.

## Inventory

| component | state | operations | interacts with | hard because | correct when |
|---|---|---|---|---|---|
| queued gRPC server (`grpc_server.rs` 110-177, 450-923) | `pending` queue, `live` map, next id, two settings, four counters; per call a status sender | `handle_queued` (2 runtime threads), `reap_loop` (once a second), `accept`, `call_complete`, `configure`, `counters`, `stats`, `queue_free` (host threads), `server_stop` | two mutexes and atomics shared by runtime and host threads; status by oneshot channel to the connection task | every operation is several critical sections; three parties may answer a call; deadlines; stop at any moment | each call is answered once, by one party, and counted once; calls are handed out in order; none is reaped early; the limit is overshot by a bounded number; every client is released; stop returns |
| data path of one RPC (`grpc_server.rs` 179-376, 748-842) | request body, decoding buffer, inbound and outbound channels of 8, the held message, `client_done`, `OutboundBody` state | `pump_inbound`, `stream_read/_write` (blocking), `call_read_into/_write` (polled), `poll_frame`, handler thread | channels between host, pump and connection task; their closing is a signal | full channels, short buffers, resets, the order of drop and send at the end | nothing lost, duplicated or reordered; trailers last, with the status sent; ends are heard |
| callback server lifecycle (`grpc_server.rs` 378-448, 925-1024, `Zpr.pas` 1526-1600) | shutdown signal, runtime thread | start, accept loop, handler call, stop | handler runs host code on a library thread | handlers not started or still running at stop | stop returns and leaves neither handler nor waiting client; a stop from a handler is known to hang |
| client stream (`grpc.rs` 662-1102) | Pull or Ring mode, held message, ring with loss counter, pump task | open, read, read_into, buffer, stats, cancel | pump on the library runtime, ring behind a mutex | overflow, mode switch with a message held, cancel against the pump, error behind data | the newest messages in order, all losses counted, pump stops, errors heard |
| bidirectional call (`grpc.rs` 445-660) | request channel, a client stream for replies | open (blocks for response headers), send, close_send, read, buffer, cancel | tonic pulls the request channel | open can wait for a reply that waits for a request | no deadlock; half-close; order |
| channel cache, unary call (`grpc.rs` 88-92, 238-278, 311-434) | map endpoint to channel | lookup, connect, insert, evict | concurrent callers, lock dropped across `connect` | double connect, eviction of somebody else's channel | a broken channel is not handed out for ever; a healthy one is kept |
| gRPC proxy (`grpc.rs` 94-236) | override slot | set, resolve, CONNECT tunnel | environment | precedence, empty values, tunnel bytes | documented precedence |
| framing (`grpc_server.rs` 239-303) | decoding buffer | decode, encode, percent-encode | pump and body | partial frames, the compressed flag | decode inverts encode under any chunking |
| HTTP client (`http.rs`) | client built once, override slot | set_proxy, request | first request builds the client | set_proxy races the first request | OK means the proxy is used |
| JSON values (`json.rs`, `Zpr.pas` 1137-1300) | heap handles and their owners | parse, get, push, set, free | ownership crosses the boundary | a failed push has consumed its argument | each handle freed once |
| descriptor pool (`grpc.rs` 1110-1391) | pool of message types | load, JSON to binary and back | none | conversions by prost-reflect | round trip |
| REST transcoder (`transcode.rs`) | server handle | start, serve, stop | an HTTP server over one gRPC channel | status mapping, stop | each request answered once; no false success; nothing runs after stop |
| FFI layer (`ffi.rs`) | runtime, per-thread last error | guard, buffers, last error | everything | stale messages | the message belongs to the failure |
| bindings (`Zpr.pas`) | library handle, wrapper objects | load, unload, wrappers | the C interface | object lifetime against the server's | each call completed once |

## Modules

Abstract:

* `CallLifecycle` is the promise about an RPC of the queued server: opened once, at most one
  status, and the client sees exactly that status or loses its connection. `CallQueue` implements
  it for all calls, `RpcStream` for one that is open.

The server (`grpc_server.rs`, with the Pascal objects that call it):

* `CallQueue` is the queued server. An action is what one thread does in one critical
  section, so the model has every interleaving the two mutexes allow. `handle_queued` is
  `Refuse`, or `Admit` (the test under the first lock), `Register` (id and insertion into
  `live`) and `Enqueue` (the push); `reap_loop` is `SweepBegin` (reads the time),
  `SweepCollect` (one critical section), `SweepAnswer` (one per call, with no lock) and
  `SweepEnd`; `zpr_grpc_call_complete` is `CompleteRemove` and `CompleteAnswer`.
  `TZprGrpcCall.FCompleted`, set before the call that may fail, is `object`. It implements
  `CallLifecycle` under the mapping `StatusOf`.
* `RpcStream` is the data path of one RPC, for both dispatch modes: the client's body,
  `pump_inbound`, both bounded channels, the host's reads (with short buffers) and writes,
  the end of the call, `OutboundBody` and `server_stop`.
* `ServerLifecycle` is the callback server around many calls: a start that answers OK before
  there is a runtime, the accept loop, the tasks of each call on the runtime's workers, the
  handlers queued for and running on its blocking threads, and a stop from outside or from
  a handler. What a call carries is left to `RpcStream`.
* `Framing` has the bytes: length-prefixed frames cut into any sequence of chunks, in both
  directions, the compressed flag, the width of the length field, and the percent-encoding
  of status messages.

The client (`grpc.rs`):

* `ClientStream` is the reading side of a stream: Pull reads, the switch to a ring, the pump,
  cancel.
* `BidiCall` EXTENDS it with the sending side: the open that blocks for the response head, the
  send window that tonic drains, half close, cancel. A server-streaming call is the same
  call with its request already sent. It implements `ClientStream`: its specification implies
  `ClientStream`'s `Spec`, with the same variables.
* `ProxyResolve` is `resolve_proxy`, as operators.
* `ChannelCache` EXTENDS it with the cache and its callers: unary calls, opens of streams, and
  the calls of the gateway. A lookup, an insert and an eviction are one critical section
  each; connecting is between them. A channel belongs to the runtime it was connected on.

The rest:

* `RestGateway` EXTENDS `ChannelCache` with `transcode.rs`: start, connections and the requests
  they carry, the checks of `serve_one` in their order, the call through the shared cache, and
  the verdicts, with what becomes of an OK reply (rendered, undecodable: 502, not renderable:
  500). Stop gives the signal, after which open connections are still served and new ones
  accepted until the loop sees it; then the drop of the gateway's runtime takes the tasks
  one by one, and the channels that were connected on it die.
* `LastError` is the message slot of `ffi.rs` with `Check`, which reads it in a second call.
* `HttpClient` is `http.rs`: `set_proxy` (test, then store) against the build of the shared client
  (`get_or_init`, read of the slot, publication, or a panic that `guard` catches).
* `JsonHandles` is the ownership of JSON values through new, get, push, set and free, with the
  Pascal wrapper's `FOwnsHandle`.
* `HostApi` composes the last three: threads of one host on the blocking half of the library.

`*_proofs` hold the theorems (see below). `MC*` are what TLC runs: they add symmetry and
values a `.cfg` cannot write. Definitions named `X_Something` next to an `X`, commented
"Faulty", are plausible bugs in X; no action uses them. Each property is known to fail
when one of them takes the place of its X.

### What the models abstract

* A message is its number in its sender's order (bytes only in `Framing`); a status is known
  by who sent it, or by its code where the code decides something.
* Time is relative: `ttl` counts the ticks a call has left, so that no bound on a clock is
  needed. A deadline of 0 stamps `Forever`.
* `handle_queued` has no await between its test and its push, so only the runtime's two
  threads can be past the door at once; `Workers` are those threads.
* Bounds in guards that the code does not have: `IdsLeft`, `MaxRefused` (RPCs), `MaxIn`, `MaxOut`,
  `MaxSent`, `MaxAsked`, `MaxFrames` (messages), `MaxEvictions`, `MaxSets`, `MaxStarts`, `MaxPanics`
  (how often these things happen).
* Calls that change nothing (empty polls, a second short buffer, null arguments, counters and
  statistics) are stutters and left out. The two stores of `configure`, and the send and the
  count of `complete`, are one step each: no other step reads both.
* Host calls follow the documented contract: `queue_free` after `server_stop`, with no host
  thread inside the library (`TZprGrpcQueuedServer.Stop`), and nothing after it; a JSON
  wrapper is not used after it was handed over.
* tonic, hyper, reqwest, tokio and the network are external: a body yields its messages, an end
  or, at any moment, an error; a response that is broken is dropped; `tonic::Streaming` is
  FIFO and answers None after an error was taken; dropping a runtime drops its tasks at the
  await where they are and waits for its blocking threads.
* A connection of the gateway carries one request at a time; the streams of one HTTP/2
  connection are several connections of the model. A miss in the channel cache and the
  resolution of the proxy, between which there is no await, are one step.
* The hosts that NO_PROXY excludes are a Boolean: matching suffixes is left out.

## Runs

| run | instance | shows |
|---|---|---|
| `queue_core` | 2 worker threads, 2 host threads, 2 calls, limits {0, 1, 2}, deadlines {0, 1} | `Custody`: each call is in one place or answered, once, whoever wins; `CountersExact`; `NeverReapedEarly` under any reconfiguration; `NothingLeft` of any call or client once stop has returned; `TypeOK` (which has: max_pending is never 0) |
| `queue_door` | 2 worker threads, 1 host, 3 calls, limit 1 | `HandedOutInOrder`, `EveryCallQueued`, `OvershootBounded` |
| `queue_live` | 2 worker threads, 1 host, 2 calls, a deadline | `EveryClientReleased`, `StopReturns`, `ImplementsLifecycle` |
| `rpc_stream` | channels of 2, 4 requests, 3 replies, both modes | `RequestIntact`, `DoneMeansAll`, `ResponseIntact`, `StatusReachesClient`, `HostHearsEnd`, `PumpFinishes` |
| `server_life` | 3 calls, 2 blocking threads | `NothingAfterStop`, `StopReturns` from outside; `StopFromHandlerHangs` |
| `framing` | length field of 2 binary digits, 3 frames, 4 messages (one too long), 10 status messages | `DecodedIsSent`, `EveryMessageDecoded`, `MessageSurvives` |
| `client_stream` | ring of 2 under 4 replies, window of 2 for 3 requests, both styles of server | `RequestsIntact`, `HalfCloseHeard`, `NewestKept`, `NewestArrives`, `InOrder`, `LossAccounted`, `CancelStopsDraining`, `HostLearnsFailure` |
| `client_calls` | a unary call, a stream's open and a REST connection with any number of requests on one endpoint, one eviction, one change of proxy, one gateway | `EvictedStaysOut`, `HandshakesBounded`, `NoFalseSuccess`, `NoLateChannel`, `StopEnds` |
| `host_api` | 2 threads, 2 stores of a proxy, 1 failed build, 2 wrappers | `RaisedOwn`, `ProxyInForce`, `OneOwner`, `EveryRequestServed` |
| `doc_broken_evicted`, `doc_bidi_open`, `doc_json_owner` | the same modules | each violates one sentence of the code's comments, see below |

Bounds. Two calls are enough for a race between three answerers over one call while
another is swept; the third call in `queue_door` is the one that finds the limit overshot,
with both threads past the door. Channels, windows and rings of two are full and still hold
a first and a last message; four requests fill the channel, the pump's hand and the host's
held message. Three calls on two blocking threads leave one handler queued. In `client_calls`
three callers can all miss the cache, and one eviction and one change of proxy can fall
between any two of their steps. A length field of two binary digits is overrun by a message
of four bytes; nothing in the framing depends on the base. In `framing`, `host_api` and
`server_life` the system really stops (everything sent, all handles freed, server stopped), so
deadlock is not an error there; elsewhere the states where everything is over are explicit
(`Gone`, `Over`) or there are none, and deadlock is checked.

Fairness, always weak but for one. `CallQueue`: a poll or a host call past its lock finishes;
time passes; tokio's interval fires and its `select!`, which picks a ready branch at random,
takes a shutdown branch that stays ready (strong fairness of `ReaperStop`); a connection task
with a status is polled; the runtime's drop returns. Nothing is assumed of the host, nor that
a client stays. `RpcStream`: tasks that can run are polled, and for `HostHearsEnd` the host
reads what there is. `BidiCall`: a response head that has come ends the open, tonic polls the
request body, the pump is polled, the host polls its reader until it cancels, in the end with
a buffer that is big enough; of the server only the head is assumed. `RestGateway`: the
accept loop sees its signal, and the drop of the runtime takes every task and returns; nothing
is assumed of the daemon, of the HTTP clients or of the host. `ServerLifecycle`: the
server's threads run, and a handler returns once its call is gone. `Framing`: the connection
delivers and the pump is polled. `HttpClient`: the threads of the host run; not that a server
responds.

### Where the code and its comments differ

With a run:

* `doc_broken_evicted`: "only truly broken transports get evicted" (`grpc.rs` 397). A channel
  connected by the REST gateway dies with the gateway's runtime and stays in the cache; the
  calls that meet it fail in `ready()`, before the code that evicts.
* `doc_bidi_open`: client streaming is "send what you have, `close_send`, then read" (`grpc.rs`
  465). The open blocks for a response head that a server may send only with its reply.
* `doc_json_owner`: instances own their handles "EXCEPT after being handed to Push/SetField"
  (`Zpr.pas` 132). A Push into what is no array consumes the value, fails, and leaves the
  wrapper as the owner of a freed handle.

Without a run, found while modelling:

* `max_pending` can be exceeded by one thread less than there are (two critical sections):
  `OvershootBounded` is what does hold.
* The deadline runs from arrival, so calls nobody accepted are reaped and their ids are still
  handed out; configuring 0 disables the reaper for calls already stamped, too.
* The UNAVAILABLE that `queue_free` sends reaches nobody: the connections went with the
  runtime that `server_stop` joined.
* CLIENT_DONE is also the answer for a request that was cut short.
* A frame with the compressed flag clears the buffer (`grpc_server.rs` 244), so the rest of the
  stream may be decoded from the middle of a frame. A response longer than its length field
  spoils what follows.
* A cancelled stream's pump waits for as long as the server is silent (`grpc.rs` 1031). In
  buffered mode `read_into` answers 0 for an empty ring, where its contract (905) says
  "finished"; a cancel in buffered mode looks to the server like a half close until the pump
  ends.
* An explicit timeout is also sent as `grpc-timeout` for streams, against `grpc.rs` 479. A
  timeout of a unary call ends as Cancelled and evicts a healthy channel.
* `get_channel` inserts with `lock().unwrap()` (268-272) where the rest of the library uses
  `lock_ok`.
* Failures that set no message show the message of an older failure of the thread, against
  `Zpr.pas` 120-124; `RaisedOwn` excludes them.
* A `set_proxy` that races the first request answers OK too late, against `http.rs` 22-24;
  `ProxyInForce` allows that once per thread.
* A channel whose connect was under way when `zpr_grpc_set_proxy` returned is cached with the old
  proxy and kept; its comment (`grpc.rs` 106) speaks of connections made after the call and of
  cached ones only. What does hold of the proxy restates `resolve_proxy`, so no run asks for it.
* An HTTPS_PROXY that is set but empty hides https_proxy. `TZprGrpc` disables the proxy with nil,
  which clears the slot and brings the environment's proxies back.
* The gateway accepts text after the JSON value of a request body.

## Proofs

All for any values of the constants that satisfy the modules' named assumptions: numbers are
naturals (`SizesAssumption`, `StreamAssumption`, `RingAssumption`, `WindowAssumption`,
`PoolAssumption`, `StartsAssumption`, `HttpAssumption`, `WidthAssumption`), capacities are not 0, sets of threads,
calls and callers are finite, kinds of callers are disjoint (`CallersAssumption`), the default
settings are among the settings and shorter than `Forever` (`SettingsAssumption`), names that
stand for "nobody" or "unset" name nothing else (`NamesAssumption`, `HttpAssumption`).

`CallQueue_proofs`:

* `TypeCorrect` (`TypeOK`), by cases on the actions.
* `CustodyHolds` (`Custody`). Custody is not inductive alone: a sweep that found a call due must
  know that the id was issued, and that its list is empty when it starts.
  `CustodyInv == TypeOK /\ Custody /\ SweepLocals` is; the actions that move a call between
  its places have a lemma each, the others leave `custodyVars` alone.
* `ReapedOnTime` (`NeverReapedEarly`), from `CustodyInv`: only `Register` writes a deadline that is
  not shorter, and it writes that of an id in no list.
* `DoorHolds` (`OvershootBounded`). The invariant counts the threads past the door with the
  queue: `Admit` needs room for one more and at most the other threads are past the door;
  `Enqueue` turns one of them into an entry.
* `AcceptsInOrder` (`HandedOutInOrder`) and `NoneForgotten` (`EveryCallQueued`), from `OrderInv`, which
  adds that the id in a thread's hands is in no other's, not queued and nobody's object
  (`HeldApart`), and that an id not yet issued is nobody's object (`UnissuedApart`).
* `StopLeavesNothing` (`NothingLeft`), from `CustodyInv` and `Quiet`: from the join on no thread is
  past the door, no sweep is under way and no client waits, and `queue_free` answers the rest.
* `CountsAreExact` (`CountersExact`), from `CustodyInv`: whoever counts a call has taken it, so
  it had no answer.
* `QueueImplements` (`ImplementsLifecycle`): initial states map to initial states, and every
  critical section is a step of `CallLifecycle` or a stutter under `StatusOf`. `Register` opens,
  `SweepAnswer`, `CompleteAnswer` and `Free` answer one call or all that are live, which by
  `CustodyInv` are open; `Deliver` shows the status; `HangUp` and `StopJoin` are clients that leave.

`RpcStream_proofs`: `TypeCorrect`, `RequestKept` (`RequestIntact`), `DoneIsComplete` (`DoneMeansAll`) and
`ResponseKept` (`ResponseIntact`), from `RpcInv == TypeOK /\ EndsInOrder /\ Written /\ Numbering /\
Endings`: messages are numbered through from the host back to the pump while the channel is
there, and the end of the request overtakes none of them. `DoneMeansAll` speaks of bodies that
broke, too: CLIENT_DONE then means that the host has all that was read off the body.
`DataPathImplements`: each step of the
data path is one of `CallLifecycle` for a call that is open, or a stutter; the status is what the
oneshot holds, the client has lost the response when the body is dropped before its trailers. It
needs that nobody sends a status before the entry is taken or the handler returns
(`NotYetAnswered`). No run checks it.

`ClientStream_proofs`: `TypeCorrect`, `RingKeepsNewest` (`NewestKept`), `LossIsCounted`
(`LossAccounted`), `OrderKept` (`InOrder`) and `CancelStops` (`CancelStopsDraining`), from one
inductive invariant, `StreamInv`. It adds to the properties that a ring exists only after the
switch (`RingLater`: otherwise a Pull read would leave a gap behind the ring), where the pump of
a cancelled stream can be (`CancelledPump`), and, in place of `InOrder`, that all the host has
received or holds back is older than the oldest message of the ring (`GotBefore`).

`BidiCall_proofs`: `ReaderImplements`, every step of a bidirectional call is a step of
`ClientStream` or leaves its variables alone, so every theorem above holds of its replies
(`RepliesInOrder` is `InOrder`); `SendsIntact` (`RequestsIntact`) from
`AskInv`: the window continues what was heard, and the end is behind it.

`ServerLifecycle_proofs`: `TypeCorrect`, `StopLeavesNothing` (`NothingAfterStop`) and
`HandlerStopHangs` (`StopFromHandlerHangs`) from `LifeInv`, which says in which phase of the
server's thread workers, open calls and handlers can exist, and that a handler inside stop
stays there. `StopCanReturn` is the safety half of `StopReturns`: as long as the host is in stop, the
server's thread is about to see the signal, or waits only for its workers and for handlers that
end by themselves, never for the host or a client. With `LifeInv` it rests on `WaitInv`: one
caller at most is in stop, it has given the signal, and the tasks of calls end with the workers.
That the waiting does end needs fairness, and stays with TLC.

`RestGateway_proofs`: `OkIsOk` (`NoFalseSuccess`, from `ReplyInv`: at every stage of a connection
the status, the reply's fate and the verdict fit together), `StopCuts` (`NoLateChannel`, from
`Quiet`: without a runtime no connection has a task, so no caller in `Rest` is connecting, and
from `CacheInv`), `EvictedGone` (`EvictedStaysOut`, from `CacheInv`: an entry holds a channel of
its endpoint that was never taken out, because a channel enters the cache only when it is
new), and `FewHandshakes` (`HandshakesBounded`, from `DialInv`: while the entry is empty nobody
has connected since it was taken out, so the channels made and the callers connecting fit in
one round of all callers each time).

`HostApi_proofs`: `RaisesOwn` (`RaisedOwn`, from `ErrorInv`), `OwnedOnce` (`OneOwner`, from `JsonInv`)
and `ProxyWins` (`ProxyInForce`, from `HttpInv`: one thread builds at a time, the slot holds the
last wish, and what a build has read was wished for at some moment since it began).

`Framing_proofs`, for a length field of any base and width, any messages, and any status
messages that are bytes (`BytesAssumption`):

* `DecodedSent` (`DecodedIsSent`), from `StreamInv`. What was decoded says nothing of what is
  still to come, so the invariant places the receiver in the stream: there is a byte
  sequence `b`, all that was ever sent, and a function `e`, where its frames end, such that the
  frames the format covers lie in `b` one behind the other (`Lies`), the buffer is what `b` has
  behind the last message decoded, and what is under way goes on there (`Reads`). It holds
  until a frame that is compressed or too long is at the front (`Aligned`); what is decoded
  after that counts behind `Covered`. `NextMessage` is its core: while it holds, a buffer with
  a whole header starts with the frame of the next message. Send lays a frame behind `b`,
  Decode moves on by one frame, every other step moves or drops bytes in place
  (`StreamMoves`). The invariant quantifies over all byte sequences, so TLC checks what
  follows from it and not the invariant itself.
* `LengthSurvives`: from_be_bytes inverts to_be_bytes for every length that fits.
* `PercentEncodeTells`: percent encoding is injective on byte strings of any length, and
  printable, the "unambiguous" of `grpc_server.rs` 267. No byte's escape is how another's
  begins (`EscapedTells`), and by induction two messages with one header agree byte for byte
  (`SameHeader`). `MessageKept` (`MessageSurvives`) follows, since the trailers are those of what
  was said (`Answered`).

The digits and the encoding are recursive functions. What they compute is proved by
induction in the form of sets of numbers (`SetInduction`, from the well-foundedness of `<`),
and that they are defined at all by `RecursionExists`; the library's theorems on both take
an operator as a parameter, which the installed provers cannot instantiate.

Only model-checked: every liveness property (`EveryClientReleased`, both `StopReturns`, `StopEnds`,
`StatusReachesClient`, `HostHearsEnd`, `PumpFinishes`, `HalfCloseHeard`, `HostLearnsFailure`,
`NewestArrives`, `EveryMessageDecoded`, `EveryRequestServed`), because the prover has neither
fairness nor ENABLED. Every safety property of a passing run is proved.

## Not modelled

* The descriptor pool, the conversions between JSON and protobuf, and parsing of JSON:
  conversions of prost-reflect and serde_json over immutable data. The gateway's model keeps
  whether they succeed.
* HTTP requests, TLS, the CONNECT tunnel and its prefixed stream: I/O of single connections.
* Loading of the library and wrappers that only convert arguments; the demo, the smoke test,
  the binding checker and the build script.
* `CallQueue` and `RpcStream` are not composed: `RpcStream` has the entry of its call taken away
  by host, reaper or drain at any moment, which is all of the queue that the data path
  sees. `CallQueue` in turn leaves payloads out. What they have in common, the one status of a
  call and who sees it, is `CallLifecycle`, and the proofs show that each implements it.
* Use of a freed handle by the host (a `TZprGrpcCall` that outlives its server, `Zpr.pas` 1796).
