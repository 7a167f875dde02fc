------------------------------ MODULE Framing ------------------------------
(***************************************************************************)
(* The wire format of crates/zpr/src/grpc_server.rs, byte by byte: length- *)
(* prefixed frames cut into arbitrary DATA chunks on their way, and the    *)
(* percent-encoded grpc-message of the trailers.  A request is decoded by  *)
(* pump_inbound; a response is encoded by the server and decoded by a      *)
(* client, which follows the same format.                                  *)
(***************************************************************************)
EXTENDS Integers, Sequences

CONSTANTS
    Base, LenBytes,     \* of the length field: 256 and 4 in the code
    Messages,           \* what is sent: byte sequences, some of them too long for the field
    MaxFrames,          \* bound: frames sent
    StatusMessages      \* what a host may end a call with

ASSUME WidthAssumption == Base \in Nat \ {0, 1} /\ LenBytes \in Nat \ {0} /\ MaxFrames \in Nat
ASSUME BytesAssumption == Messages \subseteq Seq(Nat) /\ StatusMessages \subseteq Seq(0..255)

VARIABLES
    direction,  \* "request" or "response"
    sent,       \* history: the messages put on the wire
    wire,       \* bytes under way
    sender,     \* "open", "ended" by itself, or "cut" off
    buf,        \* bytes the receiver holds
    pc,         \* the receiver: "reading", "decoding", "done"
    got,        \* history: the messages it decoded
    spoilt,     \* frames before the first the format does not cover; -1 if there is none
    said, trailer   \* the status message the host gave, and the header the client sees

wireVars == <<direction, sent, wire, sender, spoilt>>
pumpVars == <<buf, pc, got>>
endVars == <<said, trailer>>
vars == <<wireVars, pumpVars, endVars>>

HeaderLen == 1 + LenBytes

Init ==
    /\ direction \in {"request", "response"}
    /\ sent = <<>> /\ wire = <<>> /\ sender = "open" /\ spoilt = -1
    /\ buf = <<>> /\ pc = "reading" /\ got = <<>>
    /\ said = <<>> /\ trailer = <<>>

-----------------------------------------------------------------------------
(* Frames *)

\* What is left of n without its k lowest digits
Quotients(n) == LET q[k \in Nat] == IF k = 0 THEN n ELSE q[k - 1] \div Base IN q
\* to_be_bytes of the length, cut to the width of the field
BigEndian(n) == [i \in 1..LenBytes |-> Quotients(n)[LenBytes - i] % Base]
Fits(n) == Quotients(n)[LenBytes] = 0

\* from_be_bytes
Values(digits) == LET v[i \in 0..LenBytes] == IF i = 0 THEN 0 ELSE v[i - 1] * Base + digits[i] IN v
FromBigEndian(digits) == Values(digits)[LenBytes]

\* Faulty: the length counts the header too.
EncodeGrpcFrame_Whole(msg) == <<0>> \o BigEndian(HeaderLen + Len(msg)) \o msg
EncodeGrpcFrame(msg) == <<0>> \o BigEndian(Len(msg)) \o msg

\* A client's frame; the flag says that the message is compressed.
ClientFrame(flag, msg) == <<flag>> \o BigEndian(Len(msg)) \o msg

Compressed(b) == Len(b) >= HeaderLen /\ b[1] # 0
Length(b) == FromBigEndian(SubSeq(b, 2, HeaderLen))

\* Is there a whole message?  Faulty: not when it is the last thing in the buffer.
Whole_Strict(b) == Len(b) >= HeaderLen /\ Len(b) > HeaderLen + Length(b)
Whole(b) == Len(b) >= HeaderLen /\ Len(b) >= HeaderLen + Length(b)

-----------------------------------------------------------------------------
(* The sender and the connection *)

Send ==
    /\ sender = "open" /\ Len(sent) < MaxFrames
    /\ \E msg \in Messages, flag \in IF direction = "request" THEN {0, 1} ELSE {0} :
         /\ direction = "request" => Fits(Len(msg))
         /\ sent' = Append(sent, msg)
         /\ wire' = wire \o (IF direction = "request" THEN ClientFrame(flag, msg)
                                                      ELSE EncodeGrpcFrame(msg))
         /\ spoilt' = IF spoilt = -1 /\ (flag # 0 \/ ~Fits(Len(msg)))
                        THEN Len(sent) ELSE spoilt
    /\ UNCHANGED <<direction, sender, pumpVars, endVars>>

CloseSend ==
    /\ sender = "open" /\ sender' = "ended"
    /\ UNCHANGED <<direction, sent, wire, spoilt, pumpVars, endVars>>

\* The sender is gone, wherever in a frame it was.
Break ==
    /\ sender = "open" /\ sender' = "cut"
    /\ \E n \in 0..Len(wire) : wire' = SubSeq(wire, 1, n)
    /\ UNCHANGED <<direction, sent, spoilt, pumpVars, endVars>>

-----------------------------------------------------------------------------
(* pump_inbound *)

Chunk ==
    /\ pc = "reading"
    /\ \E n \in 1..Len(wire) :
         /\ buf' = buf \o SubSeq(wire, 1, n)
         /\ wire' = SubSeq(wire, n + 1, Len(wire))
    /\ pc' = "decoding"
    /\ UNCHANGED <<direction, sent, sender, spoilt, got, endVars>>

\* try_decode_one returns a message, and the pump sends it on.
Decode ==
    /\ pc = "decoding" /\ ~Compressed(buf) /\ Whole(buf)
    /\ got' = Append(got, SubSeq(buf, HeaderLen + 1, HeaderLen + Length(buf)))
    /\ buf' = SubSeq(buf, HeaderLen + Length(buf) + 1, Len(buf))
    /\ UNCHANGED pc
    /\ UNCHANGED <<wireVars, endVars>>

\* It returns None, and the pump waits for the next chunk.
NoMessage ==
    /\ pc = "decoding" /\ (Compressed(buf) \/ ~Whole(buf))
    /\ buf' = IF Compressed(buf) THEN <<>> ELSE buf
    /\ pc' = "reading"
    /\ UNCHANGED <<wireVars, got, endVars>>

\* The body is over, or failed: bytes of an unfinished message are dropped.
BodyOver ==
    /\ pc = "reading" /\ sender # "open" /\ wire = <<>>
    /\ pc' = "done" /\ buf' = <<>>
    /\ UNCHANGED <<wireVars, got, endVars>>

-----------------------------------------------------------------------------
(* The trailers *)

\* One upper-case digit of {:02X}
Hex(d) == IF d < 10 THEN 48 + d ELSE 55 + d

\* Faulty: the percent sign goes through as it is.
Plain_Percent(b) == b \in 32..126
Plain(b) == b \in 32..36 \union 38..126

Escaped(b) == IF Plain(b) THEN <<b>> ELSE <<37, Hex(b \div 16), Hex(b % 16)>>

\* What is in `out` after each byte
Outs(s) == LET out[i \in 0..Len(s)] == IF i = 0 THEN <<>> ELSE out[i - 1] \o Escaped(s[i]) IN out
PercentEncode(s) == Outs(s)[Len(s)]

\* No header for an empty message
Trailers(message) == PercentEncode(message)

Complete ==
    /\ pc = "done" /\ trailer = <<>> /\ said = <<>>
    /\ \E message \in StatusMessages : said' = message /\ trailer' = Trailers(message)
    /\ UNCHANGED <<wireVars, pumpVars>>

-----------------------------------------------------------------------------
Pump == Chunk \/ Decode \/ NoMessage \/ BodyOver
Next == Send \/ CloseSend \/ Break \/ Pump \/ Complete

Spec == Init /\ [][Next]_vars
\* The connection delivers what it carries, and the pump is polled; nobody has to send.
FairSpec == Spec /\ WF_vars(Pump)

-----------------------------------------------------------------------------
(* Properties *)

\* How many of the messages sent the format covers
Covered == IF spoilt = -1 THEN Len(sent) ELSE spoilt

\* However the stream is cut into chunks, what was decoded are the messages that were
\* sent, whole and in order and no more of them, up to a frame that is compressed or too
\* long for its field.
DecodedIsSent ==
    /\ \A i \in 1..Len(got) : i <= Covered => got[i] = sent[i]
    /\ spoilt = -1 => Len(got) <= Len(sent)

\* Every message the format covers is decoded, also the last of several in one chunk,
\* unless the sender is cut off.
EveryMessageDecoded ==
    \A n \in 1..MaxFrames : (Covered >= n) ~> (Len(got) >= n \/ sender = "cut")

\* No two status messages look the same to the client: it can tell what the host said.
MessageSurvives ==
    said # <<>> => /\ \A i \in 1..Len(trailer) : trailer[i] \in 32..126
                   /\ \A t \in StatusMessages : Trailers(t) = trailer => t = said

=============================================================================
