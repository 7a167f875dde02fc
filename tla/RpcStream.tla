----------------------------- MODULE RpcStream -----------------------------
(***************************************************************************)
(* The data path of one RPC inside the gRPC server (grpc_server.rs): the   *)
(* client's request body, the task pump_inbound, the two bounded channels, *)
(* the host that reads and writes, and the response body OutboundBody that *)
(* a connection task polls.  The host is reached in one of two modes: a    *)
(* handler thread that blocks in zpr_grpc_stream_read/_write ("callback"), *)
(* or the polled zpr_grpc_call_read_into/_write on a LiveCall ("queued").  *)
(* Messages are numbered in the order their sender produced them.          *)
(***************************************************************************)
EXTENDS Integers, Sequences

CONSTANTS Cap,       \* capacity of each mpsc channel (8 in the code)
          MaxIn,     \* bound: messages the client sends
          MaxOut     \* bound: messages the host writes

ASSUME StreamAssumption == /\ Cap \in Nat \ {0}
                           /\ MaxIn \in Nat
                           /\ MaxOut \in Nat

VARIABLES
    body,         \* request body: "open", "ended" by the client, or "broken"
    sent,         \* messages the client has put on it
    pumped,       \* messages pump_inbound has taken off it
    pump,         \* "reading", "sending" (holds message number `pumped`), "ended"
    inbound,      \* the mpsc channel to the host
    held,         \* LiveCall.pending_msg, 0 if None
    got,          \* history: what the host received
    client_done,  \* the host was told that the client is done
    entry,        \* queued, the LiveCall: "live", "taken" off the map, "dropped"; callback,
                  \* the GrpcStream: "waiting" for its handler thread, "handling",
                  \* "dropped", or "leaked" with a handler that never ran
    by,           \* who takes it: "none", "host", or "server" (reaper, queue_free)
    status_tx,    \* sender of the oneshot: "held", "sent", or "gone" unused
    written,      \* messages a write accepted
    outbound,     \* the mpsc channel to the client
    state,        \* OutboundBody: "Streaming", "AwaitingStatus", "Done", or "dropped"
    delivered,    \* history: DATA frames handed to the client's stream
    trailer,      \* the status in the TRAILERS frame, "none" before it
    serving       \* the server's runtime exists

requestVars == <<body, sent, pumped, pump>>
hostVars == <<held, got, client_done>>
responseVars == <<state, delivered, trailer>>
vars == <<requestVars, inbound, hostVars, entry, by, status_tx, written, outbound,
          responseVars, serving>>

\* handle and handle_queued: channels made, pump spawned, body returned.
Init ==
    /\ body = "open" /\ sent = 0 /\ pumped = 0 /\ pump = "reading"
    /\ inbound = <<>> /\ held = 0 /\ got = <<>> /\ client_done = FALSE
    /\ entry \in {"live", "waiting"}       \* Dispatch::Queued, Dispatch::Callback
    /\ by = "none" /\ status_tx = "held"
    /\ written = 0 /\ outbound = <<>>
    /\ state = "Streaming" /\ delivered = <<>> /\ trailer = "none"
    /\ serving = TRUE

-----------------------------------------------------------------------------
(* The client *)

ClientSend ==
    /\ body = "open" /\ sent < MaxIn
    /\ sent' = sent + 1
    /\ UNCHANGED <<body, pumped, pump, inbound, hostVars, entry, by, status_tx, written,
                   outbound, responseVars, serving>>

ClientEnd ==
    /\ body = "open"
    /\ body' = "ended"
    /\ UNCHANGED <<sent, pumped, pump, inbound, hostVars, entry, by, status_tx, written,
                   outbound, responseVars, serving>>

\* A reset of the stream or a lost connection, seen by the body as an error ...
ClientBreaks ==
    /\ body # "broken"
    /\ body' = "broken"
    /\ UNCHANGED <<sent, pumped, pump, inbound, hostVars, entry, by, status_tx, written,
                   outbound, responseVars, serving>>

\* ... and by hyper as the end of the response, which it drops.
ResponseDropped ==
    /\ body = "broken"
    /\ state \in {"Streaming", "AwaitingStatus"}
    /\ state' = "dropped"
    /\ UNCHANGED <<requestVars, inbound, hostVars, entry, by, status_tx, written, outbound,
                   delivered, trailer, serving>>

-----------------------------------------------------------------------------
(* pump_inbound.  inbound_rx exists until the entry is dropped. *)

PumpRead ==
    /\ pump = "reading" /\ pumped < sent
    /\ pumped' = pumped + 1
    /\ pump' = "sending"
    /\ UNCHANGED <<body, sent, inbound, hostVars, entry, by, status_tx, written, outbound,
                   responseVars, serving>>

SlotFree(channel) == Len(channel) < Cap

\* tx.send(msg).await waits for a slot.
PumpSend ==
    /\ pump = "sending" /\ entry # "dropped"
    /\ SlotFree(inbound)
    /\ inbound' = Append(inbound, pumped)
    /\ pump' = "reading"
    /\ UNCHANGED <<body, sent, pumped, hostVars, entry, by, status_tx, written, outbound,
                   responseVars, serving>>

\* Faulty: a clean end is taken before the messages in front of it.
BodyOver_Eager == body # "open"
\* Faulty: only an error ends the loop.
BodyOver_OnError == body = "broken"
\* body.frame() yields None after the last message, or an error at any moment.
BodyOver == (body = "ended" /\ pumped = sent) \/ body = "broken"

\* Both ends of the body, and a send with no receiver, simply return.
PumpReturns ==
    /\ \/ pump = "reading" /\ BodyOver
       \/ pump = "sending" /\ entry = "dropped"
    /\ pump' = "ended"
    /\ UNCHANGED <<body, sent, pumped, inbound, hostVars, entry, by, status_tx, written,
                   outbound, responseVars, serving>>

-----------------------------------------------------------------------------
(* The host reads.  Outcomes that change nothing are left out: NONE, a      *)
(* second short buffer, a second CLIENT_DONE, a handler still blocked.      *)

\* The host may read and write: the LiveCall is on the map, or the handler runs.
Open == entry \in {"live", "handling"}

\* zpr_grpc_call_read_into with a message held back by a short buffer
ReadHeld ==
    /\ entry = "live" /\ held # 0
    /\ got' = Append(got, held)
    /\ held' = 0
    /\ UNCHANGED <<requestVars, inbound, client_done, entry, by, status_tx, written,
                   outbound, responseVars, serving>>

\* The next message of the channel, in a buffer that is big enough
Read ==
    /\ Open /\ held = 0 /\ ~client_done
    /\ inbound # <<>>
    /\ got' = Append(got, Head(inbound))
    /\ inbound' = Tail(inbound)
    /\ UNCHANGED <<requestVars, held, client_done, entry, by, status_tx, written, outbound,
                   responseVars, serving>>

\* Faulty: the message that does not fit is dropped.
Hold_Lossy(m) == 0
\* pending_msg = Some(bytes)
Hold(m) == m

\* The next message does not fit: only the queued read has a caller's buffer.
ReadShort ==
    /\ entry = "live" /\ held = 0 /\ ~client_done
    /\ inbound # <<>>
    /\ held' = Hold(Head(inbound))
    /\ inbound' = Tail(inbound)
    /\ UNCHANGED <<requestVars, got, client_done, entry, by, status_tx, written, outbound,
                   responseVars, serving>>

\* CLIENT_DONE, or 0 from zpr_grpc_stream_read: empty, and the pump's sender is gone
ReadDone ==
    /\ Open /\ held = 0 /\ ~client_done
    /\ inbound = <<>> /\ pump = "ended"
    /\ client_done' = TRUE
    /\ UNCHANGED <<requestVars, inbound, held, got, entry, by, status_tx, written, outbound,
                   responseVars, serving>>

-----------------------------------------------------------------------------
(* The host writes: outbound_rx exists until OutboundBody is dropped.       *)

Write ==
    /\ Open /\ written < MaxOut
    /\ state # "dropped"
    /\ SlotFree(outbound)
    /\ written' = written + 1
    /\ outbound' = Append(outbound, written + 1)
    /\ UNCHANGED <<requestVars, inbound, hostVars, entry, by, status_tx,
                   responseVars, serving>>

-----------------------------------------------------------------------------
(* The end of the call on the server's side *)

\* Queued: complete, a sweep or queue_free takes the LiveCall off the map ...
Take(who) ==
    /\ entry = "live"
    /\ entry' = "taken"
    /\ by' = who
    /\ UNCHANGED <<requestVars, inbound, hostVars, status_tx, written, outbound,
                   responseVars, serving>>

\* ... sends the status ...
SendStatus ==
    /\ entry = "taken" /\ status_tx = "held"
    /\ status_tx' = "sent"
    /\ UNCHANGED <<requestVars, inbound, hostVars, entry, by, written, outbound,
                   responseVars, serving>>

\* ... and drops the LiveCall: both its channel ends, and what is left in the inbound.
DropEntry ==
    /\ entry = "taken" /\ status_tx # "held"
    /\ entry' = "dropped"
    /\ inbound' = <<>>
    /\ UNCHANGED <<requestVars, hostVars, by, status_tx, written, outbound, responseVars, serving>>

\* Callback: spawn_blocking has a thread for the handler.
HandlerStarts ==
    /\ serving
    /\ entry = "waiting"
    /\ entry' = "handling"
    /\ UNCHANGED <<requestVars, inbound, hostVars, by, status_tx, written, outbound,
                   responseVars, serving>>

\* The handler returned, and the GrpcStream is dropped first ...
HandlerReturns ==
    /\ entry = "handling"
    /\ entry' = "dropped"
    /\ by' = "host"
    /\ inbound' = <<>>
    /\ UNCHANGED <<requestVars, hostVars, status_tx, written, outbound,
                   responseVars, serving>>

\* ... and its status is sent second.
HandlerStatus ==
    /\ entry = "dropped" /\ status_tx = "held"
    /\ status_tx' = "sent"
    /\ UNCHANGED <<requestVars, inbound, hostVars, entry, by, written, outbound,
                   responseVars, serving>>

-----------------------------------------------------------------------------
(* OutboundBody::poll_frame *)

EmitData ==
    /\ state = "Streaming" /\ outbound # <<>>
    /\ delivered' = Append(delivered, Head(outbound))
    /\ outbound' = Tail(outbound)
    /\ UNCHANGED <<requestVars, inbound, hostVars, entry, by, status_tx, written, state,
                   trailer, serving>>

\* Faulty: the status ends the stream, whatever is still in the channel.
StreamOver_OnStatus == status_tx # "held"
\* Faulty: waits for the end of the request as well.
StreamOver_AfterRequest == outbound = <<>> /\ entry = "dropped" /\ body = "ended"
\* rx.poll_recv is Ready(None): drained, and every sender dropped
StreamOver == outbound = <<>> /\ entry = "dropped"

EmitEnd ==
    /\ state = "Streaming" /\ StreamOver
    /\ state' = "AwaitingStatus"
    /\ UNCHANGED <<requestVars, inbound, hostVars, entry, by, status_tx, written, outbound,
                   delivered, trailer, serving>>

\* A sender dropped unused gives status 13, INTERNAL.
EmitTrailers ==
    /\ state = "AwaitingStatus" /\ status_tx # "held"
    /\ trailer' = IF status_tx = "sent" THEN by ELSE "internal"
    /\ state' = "Done"
    /\ UNCHANGED <<requestVars, inbound, hostVars, entry, by, status_tx, written, outbound,
                   delivered, serving>>

\* zpr_grpc_server_stop drops the runtime, and with it the pump and the response.  A
\* handler that runs is waited for; one that has not begun is cancelled with the
\* status sender it captured, and the raw GrpcStream it would have freed is leaked.
ServerStops ==
    /\ serving
    /\ serving' = FALSE
    /\ pump' = "ended"
    /\ state' = IF state = "Done" THEN state ELSE "dropped"
    /\ entry' = IF entry = "waiting" THEN "leaked" ELSE entry
    /\ status_tx' = IF entry = "waiting" THEN "gone" ELSE status_tx
    /\ UNCHANGED <<body, sent, pumped, inbound, hostVars, by, written, outbound,
                   delivered, trailer>>

-----------------------------------------------------------------------------
ClientStep == ClientSend \/ ClientEnd \/ ClientBreaks
PumpStep == PumpRead \/ PumpSend \/ PumpReturns
ReadStep == ReadHeld \/ Read \/ ReadShort \/ ReadDone
EndStep == SendStatus \/ DropEntry \/ HandlerStatus
BodyStep == EmitData \/ EmitEnd \/ EmitTrailers \/ ResponseDropped

\* The RPC is over on both sides, and its pump with it.
Over == /\ state \in {"Done", "dropped"} /\ pump = "ended" /\ entry \in {"dropped", "leaked"}
        /\ UNCHANGED vars

Next == \/ ClientStep \/ PumpStep \/ ReadStep \/ Write
        \/ \E who \in {"host", "server"} : Take(who)
        \/ HandlerStarts \/ HandlerReturns \/ EndStep \/ BodyStep \/ ServerStops \/ Over

Spec == Init /\ [][Next]_vars

\* Tasks that can run are polled, the client reads what it is sent, a thread that has
\* taken a call answers and drops it, and the host keeps reading what there is to
\* read.  It need not write, and it need not end the call.
Fairness == /\ WF_vars(PumpStep) /\ WF_vars(EndStep)
            /\ WF_vars(BodyStep)
            /\ WF_vars(ReadHeld) /\ WF_vars(Read) /\ WF_vars(ReadDone)

FairSpec == Spec /\ Fairness

-----------------------------------------------------------------------------
(* Properties *)

TypeOK ==
    /\ body \in {"open", "ended", "broken"}
    /\ sent \in 0..MaxIn /\ pumped \in 0..sent
    /\ pump \in {"reading", "sending", "ended"}
    /\ pump = "sending" => pumped > 0
    /\ inbound \in Seq(1..MaxIn) /\ Len(inbound) <= Cap
    /\ held \in 0..MaxIn /\ got \in Seq(1..MaxIn) /\ client_done \in BOOLEAN
    /\ entry \in {"waiting", "live", "handling", "taken", "dropped", "leaked"}
    /\ by \in {"none", "host", "server"}
    /\ status_tx \in {"held", "sent", "gone"}
    /\ written \in 0..MaxOut
    /\ outbound \in Seq(1..MaxOut) /\ Len(outbound) <= Cap
    /\ state \in {"Streaming", "AwaitingStatus", "Done", "dropped"}
    /\ delivered \in Seq(1..MaxOut)
    /\ trailer \in {"none", "host", "server", "internal"}
    /\ serving \in BOOLEAN

Numbered(n) == [i \in 1..n |-> i]
Pumping == IF pump = "sending" THEN <<pumped>> ELSE <<>>
Held == IF held # 0 THEN <<held>> ELSE <<>>

\* No request message is lost, duplicated or reordered between the wire and the host,
\* through the full channel, the pump's blocked send and any number of short buffers:
\* what the host has, what is held back, and what is on its way are all that was read.
RequestIntact ==
    /\ got = Numbered(Len(got))
    /\ serving /\ entry # "dropped" => got \o Held \o inbound \o Pumping = Numbered(pumped)

\* The host cannot tell a request that broke from one that ended, but either way it is told
\* that the client is done only after the last message: it has had every message that was
\* read off the body, the one held back and the one in the pump's hand included, and every
\* message the client sent if the client did end its stream.
DoneMeansAll ==
    serving /\ client_done => got = Numbered(pumped) /\ (body = "ended" => pumped = sent)

\* The trailers come last and carry the status that was sent: every write that was
\* accepted is in front of them, even one still in the channel when the call ended,
\* and no call ends in the INTERNAL of a sender dropped unused.
ResponseIntact ==
    /\ delivered \o outbound = Numbered(written)
    /\ trailer # "none" => delivered = Numbered(written) /\ trailer = by /\ by # "none"

\* A status that was sent reaches the client as trailers, unless its stream is gone.
StatusReachesClient == status_tx # "held" ~> trailer # "none" \/ state = "dropped"

\* A host that keeps reading hears the end of a stream the client has ended, although
\* the pump can only send into a full channel after a read.
HostHearsEnd == body = "ended" /\ Open ~> client_done \/ ~Open

\* pump_inbound does not outlive the call once the client has ended its stream.
PumpFinishes == entry = "dropped" /\ body # "open" ~> pump = "ended"

=============================================================================
