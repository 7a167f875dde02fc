-------------------------- MODULE RpcStream_proofs --------------------------
(***************************************************************************)
(* What TLAPS proves of RpcStream, for every capacity of the channels and  *)
(* any number of messages in both directions, in both modes of dispatch.   *)
(***************************************************************************)
EXTENDS RpcStream, SequenceTheorems, TLAPS

(* Sequences one longer, and one shorter.                                  *)
LEMMA Appended ==
    ASSUME NEW S, NEW s \in Seq(S), NEW x \in S
    PROVE  /\ Append(s, x) \in Seq(S) /\ Len(s) \in Nat
           /\ Len(Append(s, x)) = Len(s) + 1 /\ Append(s, x)[Len(s) + 1] = x
           /\ \A i \in 1..Len(s) : Append(s, x)[i] = s[i]
BY AppendProperties, LenProperties

(* What a sequence is without its head.                                    *)
LEMMA Shortened ==
    ASSUME NEW S, NEW s \in Seq(S), s # <<>>
    PROVE  /\ Head(s) \in S /\ Head(s) = s[1] /\ Len(s) \in Nat \ {0}
           /\ Tail(s) \in Seq(S) /\ Len(Tail(s)) = Len(s) - 1
           /\ \A i \in 1..(Len(s) - 1) : Tail(s)[i] = s[i + 1]
BY HeadTailProperties, LenProperties, EmptySeq

-----------------------------------------------------------------------------
(* The variables keep their types: no channel outgrows its capacity.       *)
LEMMA TypeStep == TypeOK /\ [Next]_vars => TypeOK'
<1> SUFFICES ASSUME TypeOK, [Next]_vars PROVE TypeOK'
  OBVIOUS
<1> USE StreamAssumption DEF TypeOK
<1>0. CASE UNCHANGED vars \/ Over
  BY <1>0 DEF Over, vars, requestVars, hostVars, responseVars
<1>1. CASE ClientStep
  <2>1. CASE ClientSend
    BY <2>1 DEF ClientSend, hostVars, responseVars
  <2>2. CASE ClientEnd \/ ClientBreaks
    <3>1. /\ body' \in {"ended", "broken"}
          /\ UNCHANGED <<sent, pumped, pump, inbound, hostVars, entry, by, status_tx, written,
                         outbound, responseVars, serving>>
      BY <2>2 DEF ClientEnd, ClientBreaks
    <3> QED
      BY <3>1 DEF hostVars, responseVars
  <2> QED
    BY <1>1, <2>1, <2>2 DEF ClientStep
<1>2. CASE PumpStep
  <2>1. CASE PumpRead
    BY <2>1 DEF PumpRead, hostVars, responseVars
  <2>2. CASE PumpSend
    <3>1. pumped \in 1..MaxIn /\ inbound' = Append(inbound, pumped) /\ Len(inbound) < Cap
      BY <2>2 DEF PumpSend, SlotFree
    <3>2. inbound' \in Seq(1..MaxIn) /\ Len(inbound') <= Cap
      BY <3>1, Appended
    <3> QED
      BY <2>2, <3>2 DEF PumpSend, hostVars, responseVars
  <2>3. CASE PumpReturns
    BY <2>3 DEF PumpReturns, hostVars, responseVars
  <2> QED
    BY <1>2, <2>1, <2>2, <2>3 DEF PumpStep
<1>3. CASE ReadStep
  <2>1. CASE ReadHeld
    <3>1. got' \in Seq(1..MaxIn)
      BY <2>1, Appended DEF ReadHeld
    <3> QED
      BY <2>1, <3>1 DEF ReadHeld, requestVars, responseVars
  <2>2. CASE Read \/ ReadShort
    <3>1. Head(inbound) \in 1..MaxIn /\ Tail(inbound) \in Seq(1..MaxIn)
          /\ Len(Tail(inbound)) <= Cap
      BY <2>2, Shortened DEF Read, ReadShort
    <3>2. Append(got, Head(inbound)) \in Seq(1..MaxIn)
      BY <3>1, Appended
    <3>3. CASE Read
      BY <3>1, <3>2, <3>3 DEF Read, requestVars, responseVars
    <3>4. CASE ReadShort
      BY <3>1, <3>4 DEF ReadShort, Hold, requestVars, responseVars
    <3> QED
      BY <2>2, <3>3, <3>4
  <2>3. CASE ReadDone
    BY <2>3 DEF ReadDone, requestVars, responseVars
  <2> QED
    BY <1>3, <2>1, <2>2, <2>3 DEF ReadStep
<1>4. CASE Write
  <2>1. written + 1 \in 1..MaxOut /\ outbound' = Append(outbound, written + 1)
        /\ Len(outbound) < Cap
    BY <1>4 DEF Write, SlotFree
  <2>2. outbound' \in Seq(1..MaxOut) /\ Len(outbound') <= Cap
    BY <2>1, Appended
  <2> QED
    BY <1>4, <2>1, <2>2 DEF Write, requestVars, hostVars, responseVars
<1>5. ASSUME NEW who \in {"host", "server"}, Take(who) PROVE TypeOK'
  BY <1>5 DEF Take, requestVars, hostVars, responseVars
<1>6. CASE HandlerStarts \/ HandlerReturns \/ EndStep
  <2>1. <<>> \in Seq(1..MaxIn) /\ Len(<<>>) = 0
    BY EmptySeq
  <2>2. CASE HandlerStarts \/ SendStatus \/ HandlerStatus
    <3>1. /\ entry' \in {entry, "handling"} /\ status_tx' \in {status_tx, "sent"}
          /\ UNCHANGED <<requestVars, inbound, hostVars, by, written, outbound, responseVars,
                         serving>>
      BY <2>2 DEF HandlerStarts, SendStatus, HandlerStatus
    <3> QED
      BY <3>1 DEF requestVars, hostVars, responseVars
  <2>3. CASE HandlerReturns \/ DropEntry
    <3>1. inbound' = <<>> /\ entry' = "dropped" /\ by' \in {by, "host"}
          /\ UNCHANGED <<requestVars, hostVars, status_tx, written, outbound, responseVars,
                         serving>>
      BY <2>3 DEF HandlerReturns, DropEntry
    <3>2. inbound' \in Seq(1..MaxIn) /\ Len(inbound') <= Cap
      BY <2>1, <3>1
    <3> QED
      BY <3>1, <3>2 DEF requestVars, hostVars, responseVars
  <2> QED
    BY <1>6, <2>2, <2>3 DEF EndStep
<1>7. CASE BodyStep
  <2>1. CASE EmitData
    <3>1. Head(outbound) \in 1..MaxOut /\ Tail(outbound) \in Seq(1..MaxOut)
          /\ Len(Tail(outbound)) <= Cap
      BY <2>1, Shortened DEF EmitData
    <3>2. Append(delivered, Head(outbound)) \in Seq(1..MaxOut)
      BY <3>1, Appended
    <3> QED
      BY <2>1, <3>1, <3>2 DEF EmitData, requestVars, hostVars
  <2>2. CASE EmitEnd \/ ResponseDropped
    <3>1. /\ state' \in {"AwaitingStatus", "dropped"}
          /\ UNCHANGED <<requestVars, inbound, hostVars, entry, by, status_tx, written,
                         outbound, delivered, trailer, serving>>
      BY <2>2 DEF EmitEnd, ResponseDropped
    <3> QED
      BY <3>1 DEF requestVars, hostVars
  <2>3. CASE EmitTrailers
    BY <2>3 DEF EmitTrailers, requestVars, hostVars
  <2> QED
    BY <1>7, <2>1, <2>2, <2>3 DEF BodyStep
<1>8. CASE ServerStops
  BY <1>8 DEF ServerStops, hostVars
<1> QED
  BY <1>0, <1>1, <1>2, <1>3, <1>4, <1>5, <1>6, <1>7, <1>8 DEF Next
-----------------------------------------------------------------------------
(* The response                                                            *)

(* The body waits for the status when everything is delivered and nobody   *)
(* is left to write; only a handler that never ran loses its sender.       *)
EndsInOrder ==
    /\ state \in {"AwaitingStatus", "Done"} => outbound = <<>> /\ entry = "dropped"
    /\ entry \in {"taken", "dropped"} => by # "none"
    /\ status_tx = "gone" => entry = "leaked"
    /\ trailer # "none" => state = "Done" /\ trailer = by

(* Accepted writes are numbered through, from the client to the channel.   *)
Written ==
    /\ Len(delivered) + Len(outbound) = written
    /\ \A i \in 1..Len(delivered) : delivered[i] = i
    /\ \A i \in 1..Len(outbound) : outbound[i] = Len(delivered) + i

(* The order in which a response ends.                                     *)
LEMMA EndsStep == TypeOK /\ EndsInOrder /\ [Next]_vars => EndsInOrder'
<1> SUFFICES ASSUME TypeOK, EndsInOrder, [Next]_vars PROVE EndsInOrder'
  OBVIOUS
<1> USE DEF EndsInOrder
<1>0. CASE UNCHANGED vars \/ Over
  BY <1>0 DEF Over, vars, responseVars
<1>1. CASE ClientStep \/ PumpStep \/ ReadStep
  <2>1. UNCHANGED <<state, outbound, entry, by, status_tx, trailer>>
    BY <1>1 DEF ClientStep, ClientSend, ClientEnd, ClientBreaks, PumpStep, PumpRead, PumpSend,
                PumpReturns, ReadStep, ReadHeld, Read, ReadShort, ReadDone, responseVars
  <2> QED
    BY <2>1
<1>2. CASE Write
  BY <1>2 DEF Write, Open, responseVars
<1>3. ASSUME NEW who \in {"host", "server"}, Take(who) PROVE EndsInOrder'
  BY <1>3 DEF Take, responseVars
<1>4. CASE HandlerStarts \/ HandlerReturns
  BY <1>4 DEF HandlerStarts, HandlerReturns, responseVars
<1>5. CASE EndStep
  BY <1>5 DEF EndStep, SendStatus, DropEntry, HandlerStatus, responseVars
<1>6. CASE BodyStep
  BY <1>6 DEF BodyStep, EmitData, EmitEnd, StreamOver, EmitTrailers, ResponseDropped, TypeOK
<1>7. CASE ServerStops
  BY <1>7 DEF ServerStops, TypeOK
<1> QED
  BY <1>0, <1>1, <1>2, <1>3, <1>4, <1>5, <1>6, <1>7 DEF Next

(* Accepted writes move from the channel to the body, in order.            *)
LEMMA WrittenStep == TypeOK /\ Written /\ [Next]_vars => Written'
<1> SUFFICES ASSUME TypeOK, Written, [Next]_vars PROVE Written'
  OBVIOUS
<1>t. /\ delivered \in Seq(1..MaxOut) /\ outbound \in Seq(1..MaxOut) /\ written \in Nat
      /\ Len(delivered) \in Nat /\ Len(outbound) \in Nat
  BY LenProperties, StreamAssumption DEF TypeOK
<1>0. CASE UNCHANGED <<delivered, outbound, written>>
  BY <1>0 DEF Written
<1>1. CASE Write
  <2>1. /\ written + 1 \in 1..MaxOut /\ written' = written + 1 /\ delivered' = delivered
        /\ outbound' = Append(outbound, written + 1)
    BY <1>1, StreamAssumption DEF Write, responseVars, TypeOK
  <2>2. /\ Len(outbound') = Len(outbound) + 1 /\ outbound'[Len(outbound) + 1] = written + 1
        /\ \A i \in 1..Len(outbound) : outbound'[i] = outbound[i]
    BY <1>t, <2>1, Appended
  <2>3. ASSUME NEW i \in 1..Len(outbound') PROVE outbound'[i] = Len(delivered) + i
    <3>1. i \in 1..Len(outbound) \/ i = Len(outbound) + 1
      BY <1>t, <2>2
    <3> QED
      BY <1>t, <2>2, <3>1 DEF Written
  <2>4. Len(delivered) + Len(outbound') = written'
    <3>1. Len(delivered) + Len(outbound) = written /\ Len(outbound') = Len(outbound) + 1
      BY <2>2 DEF Written
    <3>2. Len(delivered) + Len(outbound') = written + 1
      BY <1>t, <3>1
    <3> QED
      BY <2>1, <3>2
  <2> QED
    BY <2>1, <2>3, <2>4 DEF Written
<1>2. CASE EmitData
  <2>1. /\ outbound # <<>> /\ written' = written
        /\ delivered' = Append(delivered, Head(outbound)) /\ outbound' = Tail(outbound)
    BY <1>2 DEF EmitData
  <2>2. /\ Head(outbound) \in 1..MaxOut /\ Head(outbound) = outbound[1]
        /\ Len(outbound) > 0 /\ Len(outbound') = Len(outbound) - 1
        /\ \A i \in 1..(Len(outbound) - 1) : outbound'[i] = outbound[i + 1]
    <3>1. /\ Head(outbound) \in 1..MaxOut /\ Head(outbound) = outbound[1]
          /\ Len(outbound) \in Nat \ {0} /\ Len(Tail(outbound)) = Len(outbound) - 1
          /\ \A i \in 1..(Len(outbound) - 1) : Tail(outbound)[i] = outbound[i + 1]
      BY <1>t, <2>1, Shortened
    <3> QED
      BY <2>1, <3>1
  <2>3. Head(outbound) = Len(delivered) + 1
    <3>1. 1 \in 1..Len(outbound)
      BY <1>t, <2>2
    <3> QED
      BY <2>2, <3>1 DEF Written
  <2>4. /\ Len(delivered') = Len(delivered) + 1
        /\ delivered'[Len(delivered) + 1] = Len(delivered) + 1
        /\ \A i \in 1..Len(delivered) : delivered'[i] = delivered[i]
    BY <1>t, <2>1, <2>2, <2>3, Appended
  <2>5. ASSUME NEW i \in 1..Len(delivered') PROVE delivered'[i] = i
    <3>1. i \in 1..Len(delivered) \/ i = Len(delivered) + 1
      BY <1>t, <2>4
    <3> QED
      BY <2>4, <3>1 DEF Written
  <2>6. ASSUME NEW i \in 1..Len(outbound') PROVE outbound'[i] = Len(delivered') + i
    <3>1. i \in Nat /\ i + 1 \in 1..Len(outbound) /\ outbound'[i] = outbound[i + 1]
      BY <1>t, <2>2
    <3>2. outbound[i + 1] = Len(delivered) + (i + 1)
      BY <3>1 DEF Written
    <3> QED
      BY <1>t, <2>4, <3>1, <3>2
  <2>7. Len(delivered') + Len(outbound') = written
    <3>1. Len(delivered) + Len(outbound) = written
      BY DEF Written
    <3>2. Len(outbound') = Len(outbound) - 1 /\ Len(delivered') = Len(delivered) + 1
      BY <2>2, <2>4
    <3> QED
      BY <1>t, <3>1, <3>2
  <2> QED
    BY <2>1, <2>5, <2>6, <2>7 DEF Written
<1>3. CASE ClientStep \/ PumpStep \/ ReadStep
  BY <1>0, <1>3 DEF ClientStep, ClientSend, ClientEnd, ClientBreaks, PumpStep, PumpRead,
                    PumpSend, PumpReturns, ReadStep, ReadHeld, Read, ReadShort, ReadDone,
                    responseVars
<1>4. CASE UNCHANGED vars \/ Over \/ (\E who \in {"host", "server"} : Take(who))
           \/ HandlerStarts \/ HandlerReturns \/ EndStep
  BY <1>0, <1>4 DEF Over, vars, Take, HandlerStarts, HandlerReturns, EndStep, SendStatus,
                    DropEntry, HandlerStatus, responseVars
<1>5. CASE EmitEnd \/ EmitTrailers \/ ResponseDropped \/ ServerStops
  BY <1>0, <1>5 DEF EmitEnd, EmitTrailers, ResponseDropped, ServerStops
<1> QED
  BY <1>1, <1>2, <1>3, <1>4, <1>5 DEF Next, BodyStep
-----------------------------------------------------------------------------
(* The request                                                             *)

(* Messages in the host's held slot, and in the pump's hand.               *)
HeldLen == IF held # 0 THEN 1 ELSE 0
PumpLen == IF pump = "sending" THEN 1 ELSE 0

(* Messages are numbered through, from the host back to the pump; while    *)
(* the channel is there, none is missing between them.                     *)
Numbering ==
    /\ \A i \in 1..Len(got) : got[i] = i
    /\ held # 0 => held = Len(got) + 1
    /\ \A i \in 1..Len(inbound) : inbound[i] = Len(got) + HeldLen + i
    /\ serving /\ entry # "dropped" => Len(got) + HeldLen + Len(inbound) + PumpLen = pumped

(* The pump ends with the body, unless its receiver or the runtime is gone *)
(* before; the host is told of the end only when it has everything.        *)
Endings ==
    /\ ~serving => pump = "ended"
    /\ pump = "ended" /\ serving /\ entry # "dropped"
         => body # "open" /\ (body = "ended" => pumped = sent)
    /\ client_done => held = 0
    /\ client_done /\ serving =>
         pump = "ended" /\ body # "open" /\ Len(got) = pumped /\ (body = "ended" => pumped = sent)

(* What of the types the numbering of the request speaks of.               *)
RequestTypes ==
    /\ got \in Seq(1..MaxIn) /\ inbound \in Seq(1..MaxIn) /\ held \in 0..MaxIn
    /\ Len(got) \in Nat /\ Len(inbound) \in Nat /\ HeldLen \in Nat /\ PumpLen \in Nat
    /\ pumped \in 0..sent /\ sent \in 0..MaxIn /\ MaxIn \in Nat

(* It follows from the type invariant.                                     *)
LEMMA RequestTyped == TypeOK => RequestTypes
BY LenProperties, StreamAssumption DEF TypeOK, RequestTypes, HeldLen, PumpLen

(* One message more for the host, which is the next.                       *)
LEMMA GotOneMore ==
    ASSUME RequestTypes, Numbering, got' = Append(got, Len(got) + 1), Len(got) + 1 \in 1..MaxIn
    PROVE  /\ Len(got') = Len(got) + 1
           /\ \A i \in 1..Len(got') : got'[i] = i
<1>1. /\ Len(got') = Len(got) + 1 /\ got'[Len(got) + 1] = Len(got) + 1
      /\ \A i \in 1..Len(got) : got'[i] = got[i]
  BY Appended DEF RequestTypes
<1>2. ASSUME NEW i \in 1..Len(got') PROVE got'[i] = i
  <2>1. i \in 1..Len(got) \/ i = Len(got) + 1
    BY <1>1 DEF RequestTypes
  <2> QED
    BY <1>1, <2>1 DEF Numbering
<1> QED
  BY <1>1, <1>2

(* The channel gives its oldest message, which is the host's next.         *)
LEMMA HeadIsNext ==
    ASSUME RequestTypes, Numbering, inbound # <<>>, held = 0
    PROVE  /\ Head(inbound) = Len(got) + 1 /\ Head(inbound) \in 1..MaxIn
           /\ Len(Tail(inbound)) = Len(inbound) - 1
           /\ \A i \in 1..Len(Tail(inbound)) : Tail(inbound)[i] = Len(got) + 1 + i
<1>1. /\ Head(inbound) \in 1..MaxIn /\ Head(inbound) = inbound[1]
      /\ Len(inbound) \in Nat \ {0} /\ Len(Tail(inbound)) = Len(inbound) - 1
      /\ \A i \in 1..(Len(inbound) - 1) : Tail(inbound)[i] = inbound[i + 1]
  BY Shortened DEF RequestTypes
<1>2. \A i \in 1..Len(inbound) : inbound[i] = Len(got) + i
  BY DEF Numbering, HeldLen, RequestTypes
<1>3. Head(inbound) = Len(got) + 1
  BY <1>1, <1>2
<1>4. ASSUME NEW i \in 1..Len(Tail(inbound)) PROVE Tail(inbound)[i] = Len(got) + 1 + i
  <2>1. i \in Nat /\ i + 1 \in 1..Len(inbound) /\ Tail(inbound)[i] = inbound[i + 1]
    BY <1>1
  <2>2. inbound[i + 1] = Len(got) + (i + 1)
    BY <1>2, <2>1
  <2> QED
    BY <2>1, <2>2 DEF RequestTypes
<1> QED
  BY <1>1, <1>3, <1>4

(* Every step moves at most one message, to the next place of its number.  *)
LEMMA NumberingStep == TypeOK /\ Numbering /\ Endings /\ [Next]_vars => Numbering'
<1> SUFFICES ASSUME TypeOK, Numbering, Endings, [Next]_vars PROVE Numbering'
  OBVIOUS
<1>t. RequestTypes
  BY RequestTyped
<1>0. ASSUME UNCHANGED <<got, held, inbound, pump, pumped>>,
             serving' => serving, entry' # "dropped" => entry # "dropped"
      PROVE  Numbering'
  BY <1>0 DEF Numbering, HeldLen, PumpLen
<1>1. CASE PumpRead
  <2>1. /\ UNCHANGED <<got, held, inbound, serving, entry>> /\ pumped' = pumped + 1
        /\ pump = "reading" /\ pump' = "sending"
    BY <1>1 DEF PumpRead, hostVars
  <2>2. HeldLen' = HeldLen /\ PumpLen = 0 /\ PumpLen' = 1
    BY <2>1 DEF HeldLen, PumpLen
  <2>3. \A i \in 1..Len(inbound) : inbound'[i] = Len(got) + HeldLen + i
    BY <2>1 DEF Numbering
  <2>4. serving /\ entry # "dropped"
          => Len(got) + HeldLen + Len(inbound) + 1 = pumped + 1
    BY <1>t, <2>2 DEF Numbering, RequestTypes
  <2> QED
    BY <2>1, <2>2, <2>3, <2>4 DEF Numbering
<1>2. CASE PumpSend
  <2>1. /\ UNCHANGED <<got, held, pumped, serving, entry>> /\ inbound' = Append(inbound, pumped)
        /\ pump = "sending" /\ pump' = "reading" /\ serving /\ entry # "dropped"
        /\ pumped \in 1..MaxIn
    BY <1>2, StreamAssumption DEF PumpSend, hostVars, Endings, TypeOK
  <2>2. HeldLen' = HeldLen /\ PumpLen = 1 /\ PumpLen' = 0
    BY <2>1 DEF HeldLen, PumpLen
  <2>3. /\ Len(inbound') = Len(inbound) + 1 /\ inbound'[Len(inbound) + 1] = pumped
        /\ \A i \in 1..Len(inbound) : inbound'[i] = inbound[i]
    BY <1>t, <2>1, Appended DEF RequestTypes
  <2>4. Len(got) + HeldLen + Len(inbound) + 1 = pumped
    BY <2>1, <2>2 DEF Numbering
  <2>5. ASSUME NEW i \in 1..Len(inbound') PROVE inbound'[i] = Len(got) + HeldLen + i
    <3>1. i \in 1..Len(inbound) \/ i = Len(inbound) + 1
      BY <1>t, <2>3 DEF RequestTypes
    <3>2. CASE i \in 1..Len(inbound)
      BY <2>3, <3>2 DEF Numbering
    <3>3. CASE i = Len(inbound) + 1
      BY <1>t, <2>3, <2>4, <3>3 DEF RequestTypes
    <3> QED
      BY <3>1, <3>2, <3>3
  <2>6. Len(got) + HeldLen + Len(inbound') + 0 = pumped
    BY <1>t, <2>3, <2>4 DEF RequestTypes
  <2> QED
    BY <2>1, <2>2, <2>5, <2>6 DEF Numbering
<1>3. CASE PumpReturns
  <2>1. UNCHANGED <<got, held, inbound, serving, entry, pumped>>
    BY <1>3 DEF PumpReturns, hostVars
  <2>2. HeldLen' = HeldLen /\ (entry # "dropped" => PumpLen' = PumpLen)
    BY <1>3, <2>1 DEF PumpReturns, HeldLen, PumpLen
  <2> QED
    BY <2>1, <2>2 DEF Numbering
<1>4. CASE ReadHeld
  <2>1. /\ UNCHANGED <<inbound, pump, pumped, serving, entry>> /\ held # 0 /\ held' = 0
        /\ got' = Append(got, Len(got) + 1) /\ Len(got) + 1 \in 1..MaxIn
    BY <1>4, <1>t DEF ReadHeld, requestVars, Numbering, RequestTypes
  <2>2. Len(got') = Len(got) + 1 /\ \A i \in 1..Len(got') : got'[i] = i
    BY <1>t, <2>1, GotOneMore
  <2>3. HeldLen = 1 /\ HeldLen' = 0 /\ PumpLen' = PumpLen
    BY <2>1 DEF HeldLen, PumpLen
  <2>4. Len(got') + HeldLen' = Len(got) + HeldLen
    BY <1>t, <2>2, <2>3 DEF RequestTypes
  <2> QED
    BY <2>1, <2>2, <2>3, <2>4 DEF Numbering
<1>5. CASE Read
  <2>1. /\ UNCHANGED <<held, pump, pumped, serving, entry>> /\ held = 0 /\ inbound # <<>>
        /\ got' = Append(got, Head(inbound)) /\ inbound' = Tail(inbound)
    BY <1>5 DEF Read, requestVars
  <2>2. /\ got' = Append(got, Len(got) + 1) /\ Len(got) + 1 \in 1..MaxIn
        /\ Len(inbound') = Len(inbound) - 1
        /\ \A i \in 1..Len(inbound') : inbound'[i] = Len(got) + 1 + i
    BY <1>t, <2>1, HeadIsNext
  <2>3. Len(got') = Len(got) + 1 /\ \A i \in 1..Len(got') : got'[i] = i
    BY <1>t, <2>2, GotOneMore
  <2>4. HeldLen = 0 /\ HeldLen' = 0 /\ PumpLen' = PumpLen
    BY <2>1 DEF HeldLen, PumpLen
  <2>5. ASSUME NEW i \in 1..Len(inbound') PROVE inbound'[i] = Len(got') + HeldLen' + i
    BY <1>t, <2>2, <2>3, <2>4 DEF RequestTypes
  <2>6. serving /\ entry # "dropped"
          => Len(got') + HeldLen' + Len(inbound') + PumpLen' = pumped
    <3>1. Len(got') + HeldLen' + Len(inbound') + PumpLen'
            = Len(got) + HeldLen + Len(inbound) + PumpLen
      <4>1. Len(got') = Len(got) + 1 /\ Len(inbound') = Len(inbound) - 1
        BY <2>2, <2>3
      <4> QED
        BY <1>t, <2>4, <4>1 DEF RequestTypes
    <3> QED
      BY <3>1 DEF Numbering
  <2> QED
    BY <2>1, <2>3, <2>5, <2>6 DEF Numbering
<1>6. CASE ReadShort
  <2>1. /\ UNCHANGED <<got, pump, pumped, serving, entry>> /\ held = 0 /\ inbound # <<>>
        /\ held' = Head(inbound) /\ inbound' = Tail(inbound)
    BY <1>6 DEF ReadShort, Hold, requestVars
  <2>2. /\ held' = Len(got) + 1 /\ Len(inbound') = Len(inbound) - 1
        /\ \A i \in 1..Len(inbound') : inbound'[i] = Len(got) + 1 + i
    BY <1>t, <2>1, HeadIsNext
  <2>3. HeldLen = 0 /\ HeldLen' = 1 /\ PumpLen' = PumpLen
    BY <1>t, <2>1, <2>2 DEF HeldLen, PumpLen, RequestTypes
  <2>4. serving /\ entry # "dropped"
          => Len(got) + 1 + Len(inbound') + PumpLen = pumped
    <3>1. Len(got) + 1 + Len(inbound') + PumpLen = Len(got) + HeldLen + Len(inbound) + PumpLen
      <4>1. Len(inbound') = Len(inbound) - 1
        BY <2>2
      <4> QED
        BY <1>t, <2>3, <4>1 DEF RequestTypes
    <3> QED
      BY <3>1 DEF Numbering
  <2> QED
    BY <2>1, <2>2, <2>3, <2>4 DEF Numbering
<1>7. CASE HandlerReturns \/ DropEntry
  <2>1. inbound' = <<>> /\ entry' = "dropped" /\ got' = got /\ held' = held
    BY <1>7 DEF HandlerReturns, DropEntry, hostVars
  <2>2. Len(inbound') = 0
    BY <2>1, EmptySeq
  <2> QED
    BY <2>1, <2>2 DEF Numbering
<1>8. CASE ServerStops
  <2>1. UNCHANGED <<got, held, inbound>> /\ serving' = FALSE
    BY <1>8 DEF ServerStops, hostVars
  <2> QED
    BY <2>1 DEF Numbering, HeldLen
<1>9. CASE ClientStep \/ ReadDone \/ Write \/ HandlerStarts \/ SendStatus \/ HandlerStatus
           \/ (\E who \in {"host", "server"} : Take(who))
  BY <1>0, <1>9 DEF ClientStep, ClientSend, ClientEnd, ClientBreaks, ReadDone, Write,
                    HandlerStarts, SendStatus, HandlerStatus, Take, requestVars, hostVars
<1>10. CASE BodyStep \/ UNCHANGED vars \/ Over
  BY <1>0, <1>10 DEF BodyStep, EmitData, EmitEnd, EmitTrailers, ResponseDropped, Over, vars,
                     requestVars, hostVars
<1> QED
  BY <1>1, <1>2, <1>3, <1>4, <1>5, <1>6, <1>7, <1>8, <1>9, <1>10
     DEF Next, PumpStep, ReadStep, EndStep

(* The end of the request overtakes no message.                            *)
LEMMA EndingsStep == TypeOK /\ Numbering /\ Endings /\ [Next]_vars => Endings'
<1> SUFFICES ASSUME TypeOK, Numbering, Endings, [Next]_vars PROVE Endings'
  OBVIOUS
<1>0. ASSUME UNCHANGED <<serving, pump, body, pumped, sent, client_done, held, got>>,
             entry' # "dropped" => entry # "dropped"
      PROVE  Endings'
  BY <1>0 DEF Endings
<1>1. CASE ClientStep
  BY <1>1 DEF ClientStep, ClientSend, ClientEnd, ClientBreaks, hostVars, Endings
<1>2. CASE PumpRead \/ PumpSend
  BY <1>2 DEF PumpRead, PumpSend, hostVars, Endings
<1>3. CASE PumpReturns
  BY <1>3 DEF PumpReturns, BodyOver, hostVars, Endings
<1>4. CASE ReadHeld \/ Read \/ ReadShort
  BY <1>4 DEF ReadHeld, Read, ReadShort, requestVars, Endings
<1>5. CASE ReadDone
  <2>1. /\ held = 0 /\ inbound = <<>> /\ pump = "ended" /\ entry # "dropped"
        /\ UNCHANGED <<requestVars, held, got, entry, serving>>
    BY <1>5 DEF ReadDone, Open
  <2>2. HeldLen = 0 /\ Len(inbound) = 0 /\ PumpLen = 0
    BY <2>1, EmptySeq DEF HeldLen, PumpLen
  <2>3. serving => Len(got) + 0 + 0 + 0 = pumped
    BY <2>1, <2>2 DEF Numbering
  <2>4. serving => Len(got) = pumped
    BY <2>3, RequestTyped DEF RequestTypes
  <2> QED
    BY <2>1, <2>4 DEF requestVars, Endings
<1>6. CASE HandlerReturns \/ EndStep
  BY <1>6 DEF HandlerReturns, EndStep, SendStatus, DropEntry, HandlerStatus, requestVars,
              hostVars, Endings
<1>7. CASE ServerStops
  BY <1>7 DEF ServerStops, hostVars, Endings
<1>8. CASE BodyStep
  BY <1>0, <1>8 DEF BodyStep, EmitData, EmitEnd, EmitTrailers, ResponseDropped, requestVars,
                    hostVars
<1>9. CASE Write \/ HandlerStarts \/ UNCHANGED vars \/ Over
           \/ (\E who \in {"host", "server"} : Take(who))
  BY <1>0, <1>9 DEF Write, HandlerStarts, Take, Over, vars, requestVars, hostVars
<1> QED
  BY <1>1, <1>2, <1>3, <1>4, <1>5, <1>6, <1>7, <1>8, <1>9 DEF Next, PumpStep, ReadStep

-----------------------------------------------------------------------------
(* The invariant of one RPC is inductive.                                  *)
RpcInv == TypeOK /\ EndsInOrder /\ Written /\ Numbering /\ Endings

(* The invariant holds in every state.                                     *)
LEMMA RpcInvariant == Spec => []RpcInv
<1>1. Init => RpcInv
  <2> SUFFICES ASSUME Init PROVE RpcInv
    OBVIOUS
  <2> USE DEF Init
  <2>0. Len(<<>>) = 0 /\ <<>> \in Seq(1..MaxIn) /\ <<>> \in Seq(1..MaxOut)
    BY EmptySeq
  <2>1. TypeOK
    <3>1. sent \in 0..MaxIn /\ pumped \in 0..sent /\ held \in 0..MaxIn /\ written \in 0..MaxOut
      BY StreamAssumption
    <3>2. /\ inbound \in Seq(1..MaxIn) /\ Len(inbound) <= Cap /\ got \in Seq(1..MaxIn)
          /\ outbound \in Seq(1..MaxOut) /\ Len(outbound) <= Cap /\ delivered \in Seq(1..MaxOut)
      BY <2>0, StreamAssumption
    <3> QED
      BY <3>1, <3>2 DEF TypeOK
  <2>2. EndsInOrder /\ Written
    BY <2>0 DEF EndsInOrder, Written
  <2>3. Numbering /\ Endings
    BY <2>0 DEF Numbering, Endings, HeldLen, PumpLen
  <2> QED
    BY <2>1, <2>2, <2>3 DEF RpcInv
<1>2. RpcInv /\ [Next]_vars => RpcInv'
  BY TypeStep, EndsStep, WrittenStep, NumberingStep, EndingsStep DEF RpcInv
<1> QED
  BY <1>1, <1>2, PTL DEF Spec

(* The channels are bounded and every variable keeps its type.             *)
THEOREM TypeCorrect == Spec => []TypeOK
<1>1. RpcInv => TypeOK
  BY DEF RpcInv
<1> QED
  BY <1>1, RpcInvariant, PTL

(* A sequence numbered through is the one of its length.                   *)
LEMMA IsNumbered ==
    ASSUME NEW s \in Seq(Nat), \A i \in 1..Len(s) : s[i] = i
    PROVE  s = Numbered(Len(s))
BY SeqDef DEF Numbered

(* Two parts of one numbering make one.                                    *)
LEMMA JoinNumbered ==
    ASSUME NEW s \in Seq(Nat), NEW t \in Seq(Nat),
           \A i \in 1..Len(s) : s[i] = i, \A i \in 1..Len(t) : t[i] = Len(s) + i
    PROVE  /\ s \o t \in Seq(Nat) /\ Len(s \o t) = Len(s) + Len(t)
           /\ \A i \in 1..Len(s \o t) : (s \o t)[i] = i
<1> DEFINE all == s \o t
<1>1. /\ all \in Seq(Nat) /\ Len(all) = Len(s) + Len(t) /\ Len(s) \in Nat /\ Len(t) \in Nat
      /\ \A i \in 1..Len(s) + Len(t) : all[i] = IF i <= Len(s) THEN s[i] ELSE t[i - Len(s)]
  BY ConcatProperties, LenProperties
<1> HIDE DEF all
<1>2. ASSUME NEW i \in 1..Len(all) PROVE all[i] = i
  <2>0. i \in 1..Len(s) + Len(t) /\ i \in Nat
    BY <1>1
  <2>1. CASE i <= Len(s)
    <3>1. i \in 1..Len(s) /\ all[i] = s[i]
      BY <1>1, <2>0, <2>1
    <3> QED
      BY <3>1
  <2>2. CASE ~(i <= Len(s))
    <3>1. i - Len(s) \in 1..Len(t)
      BY <1>1, <2>0, <2>2
    <3>2. all[i] = t[i - Len(s)]
      BY <1>1, <2>0, <2>2
    <3>3. t[i - Len(s)] = Len(s) + (i - Len(s))
      BY <3>1
    <3> QED
      BY <1>1, <2>0, <3>2, <3>3
  <2> QED
    BY <2>1, <2>2
<1> QED
  BY <1>1, <1>2 DEF all

(* Every write that was accepted is in front of the trailers, and the      *)
(* trailers are those of whoever ended the call.                           *)
THEOREM ResponseKept == Spec => []ResponseIntact
<1>1. RpcInv => ResponseIntact
  <2> SUFFICES ASSUME RpcInv PROVE ResponseIntact
    OBVIOUS
  <2>1. /\ delivered \in Seq(Nat) /\ outbound \in Seq(Nat)
        /\ Len(delivered) \in Nat /\ Len(outbound) \in Nat
    <3>1. 1..MaxOut \subseteq Nat
      BY StreamAssumption
    <3> QED
      BY <3>1, SeqMonotonic, LenProperties DEF RpcInv, TypeOK
  <2>2. delivered \o outbound = Numbered(written)
    <3>1. /\ delivered \o outbound \in Seq(Nat) /\ Len(delivered \o outbound) = written
          /\ \A i \in 1..Len(delivered \o outbound) : (delivered \o outbound)[i] = i
      BY <2>1, JoinNumbered DEF RpcInv, Written
    <3> QED
      BY <3>1, IsNumbered
  <2>3. ASSUME trailer # "none" PROVE delivered = Numbered(written) /\ trailer = by /\ by # "none"
    <3>1. outbound = <<>> /\ trailer = by /\ by # "none"
      BY <2>3 DEF RpcInv, EndsInOrder
    <3>2. Len(delivered) = written
      BY <2>1, <3>1, EmptySeq DEF RpcInv, Written
    <3>3. delivered = Numbered(Len(delivered))
      BY <2>1, IsNumbered DEF RpcInv, Written
    <3> QED
      BY <3>1, <3>2, <3>3
  <2> QED
    BY <2>2, <2>3 DEF ResponseIntact
<1> QED
  BY <1>1, RpcInvariant, PTL

(* What the host has are the first messages, in order.                     *)
LEMMA GotNumbered == RpcInv => got \in Seq(Nat) /\ got = Numbered(Len(got))
<1> SUFFICES ASSUME RpcInv PROVE got \in Seq(Nat) /\ got = Numbered(Len(got))
  OBVIOUS
<1>1. got \in Seq(Nat)
  <2>1. 1..MaxIn \subseteq Nat
    BY StreamAssumption
  <2> QED
    BY <2>1, SeqMonotonic DEF RpcInv, TypeOK
<1> QED
  BY <1>1, IsNumbered DEF RpcInv, Numbering

(* The host that is told of the end has every message that was read off    *)
(* the body, also when that broke, and all the client sent if it did not.  *)
THEOREM DoneIsComplete == Spec => []DoneMeansAll
<1>1. RpcInv => DoneMeansAll
  BY GotNumbered DEF RpcInv, Endings, DoneMeansAll
<1> QED
  BY <1>1, RpcInvariant, PTL

(* Between the wire and the host no request message is lost, repeated or   *)
(* reordered.                                                              *)
THEOREM RequestKept == Spec => []RequestIntact
<1>1. RpcInv => RequestIntact
  <2> SUFFICES ASSUME RpcInv, serving, entry # "dropped"
               PROVE  got \o Held \o inbound \o Pumping = Numbered(pumped)
    BY GotNumbered DEF RequestIntact
  <2>t. RequestTypes /\ inbound \in Seq(Nat) /\ got \in Seq(Nat)
    <3>1. 1..MaxIn \subseteq Nat
      BY StreamAssumption
    <3> QED
      BY <3>1, RequestTyped, SeqMonotonic DEF RpcInv, RequestTypes
  <2>1. /\ Held \in Seq(Nat) /\ Len(Held) = HeldLen
        /\ \A i \in 1..Len(Held) : Held[i] = Len(got) + i
    BY <2>t DEF Held, HeldLen, RpcInv, Numbering, RequestTypes
  <2>2. /\ Pumping \in Seq(Nat) /\ Len(Pumping) = PumpLen
        /\ \A i \in 1..Len(Pumping) : Pumping[i] = Len(got) + HeldLen + Len(inbound) + i
    <3>1. CASE pump = "sending"
      <4>1. Pumping = <<pumped>> /\ PumpLen = 1 /\ pumped \in Nat
        BY <2>t, <3>1 DEF Pumping, PumpLen, RequestTypes
      <4>2. Len(got) + HeldLen + Len(inbound) + 1 = pumped
        BY <4>1 DEF RpcInv, Numbering
      <4> QED
        BY <4>1, <4>2
    <3>2. CASE pump # "sending"
      BY <3>2, EmptySeq DEF Pumping, PumpLen
    <3> QED
      BY <3>1, <3>2
  <2> DEFINE a == got \o Held
             b == a \o inbound
             c == b \o Pumping
  <2>3. a \in Seq(Nat) /\ Len(a) = Len(got) + HeldLen /\ \A i \in 1..Len(a) : a[i] = i
    BY <2>t, <2>1, JoinNumbered DEF RpcInv, Numbering
  <2> HIDE DEF a
  <2>4. /\ b \in Seq(Nat) /\ Len(b) = Len(got) + HeldLen + Len(inbound)
        /\ \A i \in 1..Len(b) : b[i] = i
    <3>1. \A i \in 1..Len(inbound) : inbound[i] = Len(a) + i
      BY <2>3 DEF RpcInv, Numbering
    <3> QED
      BY <2>t, <2>3, <3>1, JoinNumbered
  <2> HIDE DEF b
  <2>5. /\ c \in Seq(Nat) /\ Len(c) = Len(got) + HeldLen + Len(inbound) + PumpLen
        /\ \A i \in 1..Len(c) : c[i] = i
    BY <2>2, <2>4, JoinNumbered
  <2> HIDE DEF c
  <2>6. Len(c) = pumped
    BY <2>5 DEF RpcInv, Numbering
  <2>7. c = Numbered(pumped)
    BY <2>5, <2>6, IsNumbered
  <2> QED
    BY <2>7 DEF a, b, c
<1> QED
  BY <1>1, RpcInvariant, PTL

-----------------------------------------------------------------------------
(* The call, as CallLifecycle describes it *)

\* The one call of this module, from the moment it is open: its status is in the oneshot,
\* and its client waits for the trailers or has lost the response.
StatusOf == [id \in {1} |-> IF status_tx = "sent" THEN by ELSE "open"]
Seen == [id \in {1} |-> IF trailer # "none" THEN trailer
                        ELSE IF state = "dropped" THEN "lost" ELSE "waiting"]
Lifecycle == INSTANCE CallLifecycle WITH Ids <- {1}, Authors <- {"host", "server"},
                                         status <- StatusOf, client <- Seen

(* Nobody has a status for a call that is still in the host's hands.       *)
NotYetAnswered == entry \in {"live", "waiting", "handling"} => status_tx = "held"

(* The oneshot is used after the call was taken, or its handler returned.  *)
LEMMA NotYetAnsweredStep == NotYetAnswered /\ [Next]_vars => NotYetAnswered'
<1> SUFFICES ASSUME NotYetAnswered, [Next]_vars PROVE NotYetAnswered'
  OBVIOUS
<1>1. CASE UNCHANGED <<entry, status_tx>>
  BY <1>1 DEF NotYetAnswered
<1>2. CASE ClientStep \/ PumpStep \/ ReadStep \/ Write \/ BodyStep \/ Over \/ UNCHANGED vars
  BY <1>1, <1>2 DEF ClientStep, ClientSend, ClientEnd, ClientBreaks, PumpStep, PumpRead,
     PumpSend, PumpReturns, ReadStep, ReadHeld, Read, ReadShort, ReadDone, Write, BodyStep,
     EmitData, EmitEnd, EmitTrailers, ResponseDropped, Over, vars
<1>3. CASE HandlerStarts \/ HandlerReturns \/ EndStep \/ ServerStops
           \/ (\E who \in {"host", "server"} : Take(who))
  BY <1>3 DEF NotYetAnswered, HandlerStarts, HandlerReturns, EndStep, SendStatus, DropEntry,
              HandlerStatus, ServerStops, Take
<1> QED
  BY <1>2, <1>3 DEF Next

(* Each step of the data path is a step of CallLifecycle, or the client    *)
(* can tell nothing of it.                                                 *)
LEMMA LifecycleStep ==
    RpcInv /\ NotYetAnswered /\ [Next]_vars
      => [Lifecycle!LifecycleNext]_(Lifecycle!lifecycleVars)
<1> SUFFICES ASSUME RpcInv, NotYetAnswered, [Next]_vars
             PROVE  [Lifecycle!LifecycleNext]_(Lifecycle!lifecycleVars)
  OBVIOUS
<1>a. TypeOK /\ EndsInOrder
  BY DEF RpcInv
<1>0. ASSUME StatusOf' = StatusOf, Seen' = Seen PROVE UNCHANGED Lifecycle!lifecycleVars
  BY <1>0 DEF Lifecycle!lifecycleVars
<1>1. ASSUME UNCHANGED <<state, trailer, status_tx>>, status_tx = "sent" => by' = by
      PROVE  UNCHANGED Lifecycle!lifecycleVars
  <2>1. StatusOf' = StatusOf /\ Seen' = Seen
    BY <1>1 DEF StatusOf, Seen
  <2> QED
    BY <1>0, <2>1
<1>2. CASE ClientStep \/ PumpStep \/ ReadStep \/ Write \/ Over \/ UNCHANGED vars
  BY <1>1, <1>2 DEF ClientStep, ClientSend, ClientEnd, ClientBreaks, PumpStep, PumpRead,
     PumpSend, PumpReturns, ReadStep, ReadHeld, Read, ReadShort, ReadDone, Write, Over, vars,
     responseVars
<1>3. CASE HandlerStarts \/ HandlerReturns \/ DropEntry
           \/ (\E who \in {"host", "server"} : Take(who))
  BY <1>1, <1>3 DEF NotYetAnswered, HandlerStarts, HandlerReturns, DropEntry, Take, responseVars
<1>4. CASE SendStatus \/ HandlerStatus
  <2>1. /\ status_tx = "held" /\ status_tx' = "sent" /\ entry \in {"taken", "dropped"}
        /\ UNCHANGED <<by, state, trailer>>
    BY <1>4 DEF SendStatus, HandlerStatus, responseVars
  <2>2. by \in {"host", "server"}
    BY <1>a, <2>1 DEF TypeOK, EndsInOrder
  <2>3. /\ StatusOf = [id \in {1} |-> "open"] /\ StatusOf' = [id \in {1} |-> by]
        /\ Seen' = Seen
    BY <2>1 DEF StatusOf, Seen
  <2>4. Lifecycle!Answer({1}, by)
    BY <2>3 DEF Lifecycle!Answer
  <2> QED
    BY <2>2, <2>4 DEF Lifecycle!LifecycleNext
<1>5. ASSUME state \in {"Streaming", "AwaitingStatus"}, state' = "dropped", trailer' = trailer,
             StatusOf' = StatusOf
      PROVE  Lifecycle!LifecycleNext
  <2>1. trailer = "none"
    BY <1>a, <1>5 DEF EndsInOrder
  <2>2. Seen = [id \in {1} |-> "waiting"] /\ Seen' = [id \in {1} |-> "lost"]
    BY <1>5, <2>1 DEF Seen
  <2>3. Lifecycle!Leave({1}, "lost")
    BY <1>5, <2>2 DEF Lifecycle!Leave
  <2> QED
    BY <2>3 DEF Lifecycle!LifecycleNext
<1>6. CASE EmitData \/ EmitEnd
  <2>1. UNCHANGED <<status_tx, by, trailer>> /\ state # "dropped" /\ state' # "dropped"
    BY <1>6 DEF EmitData, EmitEnd
  <2>2. StatusOf' = StatusOf /\ Seen' = Seen
    BY <2>1 DEF StatusOf, Seen
  <2> QED
    BY <1>0, <2>2
<1>7. CASE EmitTrailers
  <2>1. /\ state = "AwaitingStatus" /\ UNCHANGED <<status_tx, by>> /\ status_tx # "held"
        /\ trailer = "none" /\ entry = "dropped" /\ by \in {"host", "server"}
    BY <1>7, <1>a DEF EmitTrailers, EndsInOrder, TypeOK
  <2>2. status_tx = "sent"
    BY <1>a, <2>1 DEF EndsInOrder, TypeOK
  <2>3. trailer' = by
    BY <1>7, <2>2 DEF EmitTrailers
  <2>4. /\ StatusOf = [id \in {1} |-> by] /\ StatusOf' = StatusOf
        /\ Seen = [id \in {1} |-> "waiting"] /\ Seen' = [id \in {1} |-> by]
    BY <2>1, <2>2, <2>3 DEF StatusOf, Seen
  <2>5. Lifecycle!See(1)
    BY <2>1, <2>4 DEF Lifecycle!See
  <2> QED
    BY <2>5 DEF Lifecycle!LifecycleNext
<1>8. CASE ResponseDropped
  <2>1. StatusOf' = StatusOf
    BY <1>8 DEF ResponseDropped, StatusOf
  <2> QED
    BY <1>5, <1>8, <2>1 DEF ResponseDropped
<1>9. CASE ServerStops
  <2>1. StatusOf' = StatusOf
    BY <1>9 DEF ServerStops, StatusOf, NotYetAnswered
  <2>2. trailer' = trailer
    BY <1>9 DEF ServerStops
  <2>3. CASE state \in {"Done", "dropped"}
    <3>1. state' = state
      BY <1>9, <2>3 DEF ServerStops
    <3>2. Seen' = Seen
      BY <2>2, <3>1 DEF Seen
    <3> QED
      BY <1>0, <2>1, <3>2
  <2>4. CASE state \in {"Streaming", "AwaitingStatus"}
    <3>1. state' = "dropped"
      BY <1>9, <2>4 DEF ServerStops
    <3> QED
      BY <1>5, <2>1, <2>2, <2>4, <3>1
  <2> QED
    BY <1>a, <2>3, <2>4 DEF TypeOK
<1> QED
  BY <1>2, <1>3, <1>4, <1>6, <1>7, <1>8, <1>9 DEF Next, EndStep, BodyStep

(* The data path keeps what CallQueue promises of the call, in both modes: *)
(* one status at most, set once, and the trailers are that status or the   *)
(* client loses its response.                                              *)
OneStatus ==
    /\ StatusOf = [id \in {1} |-> "open"] /\ Seen = [id \in {1} |-> "waiting"]
    /\ [][Lifecycle!LifecycleNext]_(Lifecycle!lifecycleVars)

(* The body, the oneshot and the host together implement CallLifecycle for *)
(* a call that has been opened.                                            *)
THEOREM DataPathImplements == Spec => OneStatus
<1>1. Init => NotYetAnswered
  BY DEF Init, NotYetAnswered
<1>2. Init => StatusOf = [id \in {1} |-> "open"] /\ Seen = [id \in {1} |-> "waiting"]
  BY DEF Init, StatusOf, Seen
<1>3. Spec => []NotYetAnswered
  BY <1>1, NotYetAnsweredStep, PTL DEF Spec
<1> QED
  BY <1>2, <1>3, RpcInvariant, LifecycleStep, PTL DEF Spec, OneStatus

=============================================================================
