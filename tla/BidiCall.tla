------------------------------ MODULE BidiCall ------------------------------
(***************************************************************************)
(* A bidirectional call on the client's side (crates/zpr/src/grpc.rs,      *)
(* GrpcBidiStream): the host's sends go through a bounded channel that     *)
(* tonic drains as the request body, and the replies come through the      *)
(* reader of ClientStream.  zpr_grpc_bidi_open blocks until the server's   *)
(* response head is there; only then is there a handle.  A server-         *)
(* streaming call is the same with its one request already sent.           *)
(***************************************************************************)
EXTENDS ClientStream

CONSTANTS Window,    \* send_capacity (0 asks for 8)
          MaxAsked,  \* bound: requests the host sends
          Servers,   \* how a server sends its response head, see `style`
          Timeouts   \* whether timeout_ms may be 0 and may not be: a set of BOOLEANs

ASSUME WindowAssumption == Window \in Nat \ {0} /\ MaxAsked \in Nat
                           /\ Servers \subseteq {"at_once", "with_reply"}
                           /\ Timeouts \subseteq BOOLEAN

VARIABLES
    style,      \* of the server: head at once, or with the reply to the whole request
    timed,      \* timeout_ms > 0
    call,       \* "opening", "open", "refused"
    head,       \* the response head has been sent
    tx,         \* the sending half is open
    win,        \* requests in the channel
    body,       \* "live", or "dropped" by tonic with what is in the channel
    heard,      \* requests the server has received
    over,       \* the server has seen the end of the requests
    asked       \* history: requests whose send answered 1

askVars == <<tx, win, body, heard, over, asked>>
openVars == <<style, timed, call, head>>
bvars == <<vars, askVars, openVars>>

BidiInit ==
    /\ Init
    /\ style \in Servers /\ timed \in Timeouts
    /\ call \in {"opening", "open"}         \* "open": a server-streaming call
    /\ head = (call = "open") /\ over = (call = "open") /\ tx = (call = "opening")
    /\ body = IF call = "open" THEN "dropped" ELSE "live"
    /\ win = <<>> /\ heard = <<>> /\ asked = 0

-----------------------------------------------------------------------------
(* zpr_grpc_bidi_open *)

\* A handler of this library's server answers at once; one that computes a reply from
\* all the requests sends its head with that reply.
ServerHead ==
    /\ call = "opening" /\ server = "open" /\ ~head
    /\ style = "with_reply" => over
    /\ head' = TRUE
    /\ UNCHANGED <<vars, askVars, style, timed, call>>

OpenReturns ==
    /\ call = "opening" /\ head
    /\ call' = "open"
    /\ UNCHANGED <<vars, askVars, style, timed, head>>

\* A status instead of a head, or the timeout: the request goes with the future.
OpenFails ==
    /\ call = "opening" /\ ~head
    /\ server = "failed" \/ timed
    /\ call' = "refused"
    /\ tx' = FALSE /\ body' = "dropped"
    /\ UNCHANGED <<vars, win, heard, over, asked, style, timed, head>>

-----------------------------------------------------------------------------
(* The sending half *)

Queued == Append(win, asked + 1)
Room == Len(win) < Window

\* zpr_grpc_bidi_send answering 1; a full window (0) and a dropped one change nothing.
Send ==
    /\ call = "open" /\ handle = "open" /\ tx
    /\ body = "live" /\ Room /\ asked < MaxAsked
    /\ win' = Queued
    /\ asked' = asked + 1
    /\ UNCHANGED <<vars, openVars, tx, body, heard, over>>

\* zpr_grpc_bidi_close_send: s.tx = None
CloseSend ==
    /\ call = "open" /\ handle = "open" /\ tx
    /\ tx' = FALSE
    /\ UNCHANGED <<vars, openVars, win, body, heard, over, asked>>

\* ReqStream::poll_next
PullRequest ==
    /\ body = "live" /\ win # <<>>
    /\ heard' = Append(heard, Head(win))
    /\ win' = Tail(win)
    /\ UNCHANGED <<vars, openVars, tx, body, over, asked>>

\* Faulty: the end is passed on as soon as the sender is gone.
Drained_AtClose == ~tx
\* Faulty: the handle keeps a second sender, which only a cancel drops.
Drained_AtCancel == ~tx /\ win = <<>> /\ handle = "cancelled"
Drained == ~tx /\ win = <<>>

PullEndOfRequests ==
    /\ body = "live" /\ ~over /\ Drained
    /\ over' = TRUE
    /\ UNCHANGED <<vars, openVars, tx, win, body, heard, asked>>

\* The response is over, or nobody holds it any longer: the stream is reset.
BodyDropped ==
    /\ body = "live" /\ call = "open"
    /\ server # "open" \/ (handle = "cancelled" /\ pump \in {"none", "ended"})
    /\ body' = "dropped"
    /\ UNCHANGED <<vars, openVars, tx, win, heard, over, asked>>

-----------------------------------------------------------------------------
(* The replies, through ClientStream's reader *)

Replies ==
    /\ call # "refused" /\ head /\ (style = "with_reply" => over)
    /\ ServerSend \/ ServerEnds("finished")
    /\ UNCHANGED <<askVars, openVars>>

ServerFails == ServerEnds("failed") /\ UNCHANGED <<askVars, openVars>>

\* zpr_grpc_bidi_read_into, zpr_grpc_bidi_buffer and the pump: steps of the reader
OfReader(step) == call = "open" /\ step /\ UNCHANGED <<askVars, openVars>>

Reads == OfReader(ReadStep) \/ OfReader(ShortStep) \/ OfReader(Buffer) \/ OfReader(PumpStep)

\* zpr_grpc_bidi_cancel drops the sender with the reader.
BidiCancel ==
    /\ call = "open"
    /\ Cancel
    /\ tx' = FALSE
    /\ UNCHANGED <<openVars, win, body, heard, over, asked>>

BidiOver == (call = "refused" \/ Over) /\ UNCHANGED bvars

RequestStep == PullRequest \/ PullEndOfRequests
HostStep == Send \/ CloseSend \/ BidiCancel
BidiNext == ServerHead \/ OpenReturns \/ OpenFails \/ HostStep \/ RequestStep \/ BodyDropped
            \/ Replies \/ ServerFails \/ Reads \/ BidiOver

BidiSpec == BidiInit /\ [][BidiNext]_bvars

\* A head that has come ends the open, tonic polls the request body, the pump is polled
\* when its message is there, and the host polls its reader until it cancels: in the end
\* with a buffer that is big enough.  Of the server only the response head is assumed.
BidiFairness ==
    /\ WF_bvars(ServerHead) /\ WF_bvars(OpenReturns) /\ WF_bvars(RequestStep)
    /\ WF_bvars(OfReader(PumpStep)) /\ WF_bvars(OfReader(ReadPending))
    /\ WF_bvars(OfReader(PullRead)) /\ WF_bvars(OfReader(PullError))
    /\ WF_bvars(OfReader(RingRead)) /\ WF_bvars(OfReader(RingError))

BidiFairSpec == BidiSpec /\ BidiFairness

-----------------------------------------------------------------------------
(* Properties *)

\* Every request whose send answered 1 reaches the server once and in order, or is still
\* in the window: backpressure is answered to the host, never a loss.  And a server that
\* sees the end of the requests has all of them, also when the half close or the cancel
\* came while the window was full.
RequestsIntact ==
    /\ heard \o win = [i \in 1..asked |-> i]
    /\ over => win = <<>>

\* A half close is heard, unless the call itself ends first: the server that waits for
\* the whole request gets to compute its reply.
HalfCloseHeard == call = "open" /\ ~tx ~> over \/ body = "dropped"

\* A host that keeps polling is told, once at least, that the stream failed: also when
\* messages are in front of the error, and when the switch to buffered mode comes
\* between the failure and the read that would have met it.
HostLearnsFailure == server = "failed" /\ call = "open"
                     ~> "error" \in told \/ handle = "cancelled"

-----------------------------------------------------------------------------
(* What a comment of the code says, and the code does not do *)

\* grpc.rs:466, "send what you have, call `zpr_grpc_bidi_close_send`, then read": a host
\* whose server is there gets to send.
HostGetsToSend == call = "opening" ~> call # "opening" \/ server = "failed"
=============================================================================
