---------------------------- MODULE ClientStream ----------------------------
(***************************************************************************)
(* A server-streaming call on the client's side (crates/zpr/src/grpc.rs,   *)
(* GrpcClientStream): read straight off the wire (Pull), or, after         *)
(* zpr_grpc_client_stream_buffer, drained by a pump task into a bounded    *)
(* ring that discards its oldest message when full (Ring).  One host       *)
(* thread reads and cancels; the pump runs on the library's runtime.       *)
(* Messages are numbered in the order the server sent them.                *)
(***************************************************************************)
EXTENDS Integers, Sequences

CONSTANTS Cap,       \* `capacity` of the ring
          MaxSent    \* bound: messages the server sends

\* zpr_grpc_client_stream_buffer rejects a capacity of 0.
ASSUME RingAssumption == Cap \in Nat \ {0} /\ MaxSent \in Nat

VARIABLES
    server,     \* "open", "finished" cleanly, or "failed"
    sent,       \* messages the server has sent
    taken,      \* messages taken off the wire: tonic::Streaming is FIFO
    reported,   \* tonic's error was taken: message() answers None from then on
    mode,       \* ClientStreamMode: "Pull" or "Ring"
    pending,    \* a message that did not fit the caller's buffer, 0 if None
    q, dropped, done, err,      \* RingInner
    pump,       \* "none", "reading", "storing", "checking", "ended"
    handle,     \* "open", or "cancelled" and freed
    got,        \* history: the messages the host received
    told,       \* history: the answers of reads that were no message: "zero", "error"
    atCancel    \* history: `taken` when the handle was cancelled

wireVars == <<server, sent>>
ringVars == <<q, dropped, done, err>>
vars == <<wireVars, taken, reported, mode, pending, ringVars, pump, handle, got, told,
          atCancel>>

\* zpr_grpc_client_stream_open
Init ==
    /\ server = "open" /\ sent = 0 /\ taken = 0 /\ reported = FALSE
    /\ mode = "Pull" /\ pending = 0
    /\ q = <<>> /\ dropped = 0 /\ done = FALSE /\ err = FALSE
    /\ pump = "none" /\ handle = "open"
    /\ got = <<>> /\ told = {} /\ atCancel = 0

-----------------------------------------------------------------------------
(* The server, and what tonic's message() makes of it *)

ServerSend ==
    /\ server = "open" /\ sent < MaxSent
    /\ sent' = sent + 1
    /\ UNCHANGED <<server, taken, reported, mode, pending, ringVars, pump, handle, got,
                   told, atCancel>>

ServerEnds(how) ==
    /\ server = "open"
    /\ server' = how
    /\ UNCHANGED <<sent, taken, reported, mode, pending, ringVars, pump, handle, got,
                   told, atCancel>>

\* An error may overtake messages that were not read yet.
WireMessage == ~reported /\ taken < sent
WireError == ~reported /\ server = "failed"
WireEnd == reported \/ (server = "finished" /\ taken = sent)

-----------------------------------------------------------------------------
(* zpr_grpc_client_stream_read and _read_into.  A Pull read blocks until     *)
(* one of its outcomes is there; a second short buffer changes nothing.      *)

\* A message held back by a short buffer outranks the wire and the ring.
ReadPending ==
    /\ handle = "open" /\ pending # 0
    /\ got' = Append(got, pending)
    /\ pending' = 0
    /\ UNCHANGED <<wireVars, taken, reported, mode, ringVars, pump, handle, told, atCancel>>

PullRead ==
    /\ handle = "open" /\ pending = 0 /\ mode = "Pull"
    /\ WireMessage
    /\ taken' = taken + 1
    /\ got' = Append(got, taken + 1)
    /\ UNCHANGED <<wireVars, reported, mode, pending, ringVars, pump, handle, told, atCancel>>

PullShort ==
    /\ handle = "open" /\ pending = 0 /\ mode = "Pull"
    /\ WireMessage
    /\ taken' = taken + 1
    /\ pending' = taken + 1
    /\ UNCHANGED <<wireVars, reported, mode, ringVars, pump, handle, got, told, atCancel>>

PullError ==
    /\ handle = "open" /\ pending = 0 /\ mode = "Pull"
    /\ WireError
    /\ reported' = TRUE
    /\ told' = told \union {"error"}
    /\ UNCHANGED <<wireVars, taken, mode, pending, ringVars, pump, handle, got, atCancel>>

PullEnd ==
    /\ handle = "open" /\ pending = 0 /\ mode = "Pull"
    /\ WireEnd
    /\ told' = told \union {"zero"}
    /\ UNCHANGED <<wireVars, taken, reported, mode, pending, ringVars, pump, handle, got,
                   atCancel>>

RingRead ==
    /\ handle = "open" /\ pending = 0 /\ mode = "Ring"
    /\ q # <<>>
    /\ got' = Append(got, Head(q))
    /\ q' = Tail(q)
    /\ UNCHANGED <<wireVars, taken, reported, mode, pending, dropped, done, err, pump,
                   handle, told, atCancel>>

\* Faulty: the message that does not fit goes back behind the others.
Short_Requeued == [pending |-> 0, q |-> Append(Tail(q), Head(q))]
\* pop_front, then s.pending = Some(bytes)
Short == [pending |-> Head(q), q |-> Tail(q)]

RingShort ==
    /\ handle = "open" /\ pending = 0 /\ mode = "Ring"
    /\ q # <<>>
    /\ pending' = Short.pending
    /\ q' = Short.q
    /\ UNCHANGED <<wireVars, taken, reported, mode, dropped, done, err, pump, handle, got,
                   told, atCancel>>

\* Faulty: an ended ring looks empty, failed or not.
RingFailed_Masked == err /\ ~done
\* g.err, looked at once the ring is empty
RingFailed == err

RingError ==
    /\ handle = "open" /\ pending = 0 /\ mode = "Ring"
    /\ q = <<>> /\ RingFailed
    /\ told' = told \union {"error"}
    /\ UNCHANGED <<wireVars, taken, reported, mode, pending, ringVars, pump, handle, got,
                   atCancel>>

\* Empty, or empty and done: the same answer.
RingZero ==
    /\ handle = "open" /\ pending = 0 /\ mode = "Ring"
    /\ q = <<>> /\ ~RingFailed
    /\ told' = told \union {"zero"}
    /\ UNCHANGED <<wireVars, taken, reported, mode, pending, ringVars, pump, handle, got,
                   atCancel>>

-----------------------------------------------------------------------------
(* zpr_grpc_client_stream_buffer and its pump; zpr_grpc_client_stream_cancel *)

Buffer ==
    /\ handle = "open" /\ mode = "Pull"
    /\ mode' = "Ring"
    /\ pump' = "reading"
    /\ UNCHANGED <<wireVars, taken, reported, pending, ringVars, handle, got, told, atCancel>>

PumpTake ==
    /\ pump = "reading" /\ WireMessage
    /\ taken' = taken + 1
    /\ pump' = "storing"
    /\ UNCHANGED <<wireVars, reported, mode, pending, ringVars, handle, got, told, atCancel>>

Full == Len(q) >= Cap

\* Faulty: a full ring keeps what it has, and the newcomer is lost.
Kept_Oldest == IF Full THEN q ELSE Append(q, taken)
\* if g.q.len() >= g.cap { g.q.pop_front(); } g.q.push_back(msg)
Kept == Append(IF Full THEN Tail(q) ELSE q, taken)

\* Faulty: a loss that is not counted.
Losses_Uncounted == dropped
\* g.dropped += 1
Losses == IF Full THEN dropped + 1 ELSE dropped

\* Under the lock of the ring, whether or not somebody is left to read it
PumpStore ==
    /\ pump = "storing"
    /\ q' = Kept
    /\ dropped' = Losses
    /\ pump' = "checking"
    /\ UNCHANGED <<wireVars, taken, reported, mode, pending, done, err, handle, got, told,
                   atCancel>>

\* Faulty: the loop never looks.
Alone_Unchecked == FALSE
\* Arc::strong_count(&ring) == 1
Alone == handle = "cancelled"

PumpCheck ==
    /\ pump = "checking"
    /\ pump' = IF Alone THEN "ended" ELSE "reading"
    /\ UNCHANGED <<wireVars, taken, reported, mode, pending, ringVars, handle, got, told,
                   atCancel>>

PumpEnds ==
    /\ pump = "reading" /\ WireEnd
    /\ done' = TRUE
    /\ pump' = "ended"
    /\ UNCHANGED <<wireVars, taken, reported, mode, pending, q, dropped, err, handle, got,
                   told, atCancel>>

PumpFails ==
    /\ pump = "reading" /\ WireError
    /\ reported' = TRUE
    /\ err' = TRUE /\ done' = TRUE
    /\ pump' = "ended"
    /\ UNCHANGED <<wireVars, taken, mode, pending, q, dropped, handle, got, told, atCancel>>

\* The handle is freed.  In Pull mode the wire goes with it; a pump keeps its own.
Cancel ==
    /\ handle = "open"
    /\ handle' = "cancelled"
    /\ atCancel' = taken
    /\ UNCHANGED <<wireVars, taken, reported, mode, pending, ringVars, pump, got, told>>

\* Nobody reads, nobody pumps.
Over == handle = "cancelled" /\ pump \in {"none", "ended"} /\ UNCHANGED vars

-----------------------------------------------------------------------------
ServerStep == ServerSend \/ \E how \in {"finished", "failed"} : ServerEnds(how)
ReadStep == ReadPending \/ PullRead \/ PullError \/ PullEnd \/ RingRead \/ RingError \/ RingZero
ShortStep == PullShort \/ RingShort
PumpStep == PumpTake \/ PumpStore \/ PumpCheck \/ PumpEnds \/ PumpFails

Next == ServerStep \/ ReadStep \/ ShortStep \/ Buffer \/ PumpStep \/ Cancel \/ Over

Spec == Init /\ [][Next]_vars

-----------------------------------------------------------------------------
(* Properties *)

TypeOK ==
    /\ server \in {"open", "finished", "failed"}
    /\ sent \in 0..MaxSent /\ taken \in 0..sent /\ reported \in BOOLEAN
    /\ mode \in {"Pull", "Ring"} /\ pending \in 0..MaxSent
    /\ q \in Seq(1..MaxSent) /\ Len(q) <= Cap
    /\ dropped \in Nat /\ done \in BOOLEAN /\ err \in BOOLEAN
    /\ pump \in {"none", "reading", "storing", "checking", "ended"}
    /\ pump = "none" <=> mode = "Pull"
    /\ pump = "storing" => taken > 0
    /\ handle \in {"open", "cancelled"}
    /\ got \in Seq(1..MaxSent)
    /\ told \subseteq {"zero", "error"}
    /\ atCancel \in 0..MaxSent

Held == IF pending # 0 THEN <<pending>> ELSE <<>>
\* Messages taken off the wire and past the ring's lock, or handed to the host
Stored == IF pump = "storing" THEN taken - 1 ELSE taken

\* The ring holds the newest messages, all of them and in order: what it discards is
\* always older than everything it keeps.
NewestKept == \A i \in 1..Len(q) : q[i] = Stored - Len(q) + i

\* The host receives messages in the order the server sent them, none twice: through
\* short buffers, the switch to buffered mode with a message held back, and losses.
InOrder == LET all == got \o Held \o q IN
           \A i, j \in 1..Len(all) : i < j => all[i] < all[j]

\* Loss is counted exactly: `dropped` is the number of messages that came off the wire and
\* that the host has not received and will not receive.  The host of a server stream can ask
\* for it; for a bidirectional call there is no such entry point (grpc.rs:644-652).
LossAccounted == dropped + Len(got) + Len(Held) + Len(q) = Stored

\* A cancelled stream does not go on draining the socket: the pump takes at most one
\* more message off the wire, however cancel falls between its steps.
CancelStopsDraining == handle = "cancelled" => taken <= atCancel + 1

\* Loss never costs the newest message: after a clean end a host that keeps polling
\* has the last message the server sent.
NewestArrives == server = "finished" /\ sent > 0
                 ~> handle = "cancelled" \/ (got # <<>> /\ got[Len(got)] = sent)

=============================================================================
