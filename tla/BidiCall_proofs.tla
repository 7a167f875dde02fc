--------------------------- MODULE BidiCall_proofs ---------------------------
(***************************************************************************)
(* What TLAPS proves of BidiCall, for every window, every capacity of the  *)
(* ring and every length of the two streams: the sending half, and that    *)
(* the reading half is the client stream, so that what is proved of that   *)
(* holds of it.                                                            *)
(***************************************************************************)
EXTENDS BidiCall, ClientStream_proofs

(* Every step of a bidirectional call is a step of its reader, or none.    *)
LEMMA ReaderStep == [BidiNext]_bvars => [Next]_vars
<1> SUFFICES ASSUME [BidiNext]_bvars PROVE [Next]_vars
  OBVIOUS
<1>1. CASE UNCHANGED bvars
  BY <1>1 DEF bvars
<1>2. CASE ServerHead \/ OpenReturns \/ OpenFails \/ BidiOver
  BY <1>2 DEF ServerHead, OpenReturns, OpenFails, BidiOver, bvars
<1>3. CASE HostStep
  <2>1. CASE Send \/ CloseSend
    BY <2>1 DEF Send, CloseSend
  <2>2. CASE BidiCancel
    BY <2>2 DEF BidiCancel, Next
  <2> QED
    BY <1>3, <2>1, <2>2 DEF HostStep
<1>4. CASE RequestStep \/ BodyDropped
  BY <1>4 DEF RequestStep, PullRequest, PullEndOfRequests, BodyDropped
<1>5. CASE Replies \/ ServerFails
  <2>1. ServerSend \/ ServerEnds("finished") \/ ServerEnds("failed")
    BY <1>5 DEF Replies, ServerFails
  <2> QED
    BY <2>1 DEF Next, ServerStep
<1>6. CASE Reads
  <2>1. ReadStep \/ ShortStep \/ Buffer \/ PumpStep
    BY <1>6 DEF Reads, OfReader
  <2> QED
    BY <2>1 DEF Next
<1> QED
  BY <1>1, <1>2, <1>3, <1>4, <1>5, <1>6 DEF BidiNext

(* The reading half of a bidirectional call implements the client stream.  *)
THEOREM ReaderImplements == BidiSpec => Spec
<1>1. BidiInit => Init
  BY DEF BidiInit
<1> QED
  BY <1>1, ReaderStep, PTL DEF BidiSpec, Spec

(* It never reorders or repeats a reply.                                   *)
THEOREM RepliesInOrder == BidiSpec => []InOrder
BY ReaderImplements, OrderKept, PTL

-----------------------------------------------------------------------------
(* What was sent is what the server has heard, and after it the window.    *)
Numbering ==
    /\ heard \in Seq(Nat) /\ win \in Seq(Nat) /\ asked \in Nat
    /\ Len(heard) + Len(win) = asked
    /\ \A i \in 1..Len(heard) : heard[i] = i
    /\ \A i \in 1..Len(win) : win[i] = Len(heard) + i

(* The end is passed on only behind the last request, and the sender does  *)
(* not come back.                                                          *)
EndBehind == over => ~tx /\ win = <<>>

(* Inductive for the requests of a bidirectional call.                     *)
AskInv == Numbering /\ EndBehind

(* zpr_grpc_bidi_send numbers its message behind the window.               *)
LEMMA SendKeeps == ASSUME AskInv, Send PROVE AskInv'
<1>1. /\ win' = Append(win, asked + 1) /\ asked' = asked + 1 /\ heard' = heard
      /\ tx /\ over' = over
  BY DEF Send, Queued
<1>2. heard \in Seq(Nat) /\ win \in Seq(Nat) /\ asked \in Nat /\ Len(win) \in Nat
      /\ Len(heard) \in Nat /\ Len(heard) + Len(win) = asked
  BY LenProperties DEF AskInv, Numbering
<1>3. /\ win' \in Seq(Nat) /\ Len(win') = Len(win) + 1 /\ win'[Len(win) + 1] = asked + 1
      /\ \A i \in 1..Len(win) : win'[i] = win[i]
  BY <1>1, <1>2, AppendProperties
<1>4. ASSUME NEW i \in 1..Len(win') PROVE win'[i] = Len(heard) + i
  <2>1. i \in 1..Len(win) \/ i = Len(win) + 1
    BY <1>2, <1>3
  <2> QED
    BY <1>2, <1>3, <2>1 DEF AskInv, Numbering
<1>5. Numbering'
  BY <1>1, <1>2, <1>3, <1>4 DEF AskInv, Numbering
<1>6. EndBehind'
  BY <1>1 DEF AskInv, EndBehind
<1> QED
  BY <1>5, <1>6 DEF AskInv

(* tonic takes the oldest message of the window, and it is the next.       *)
LEMMA PullKeeps == ASSUME AskInv, PullRequest PROVE AskInv'
<1>1. /\ win # <<>> /\ heard' = Append(heard, Head(win)) /\ win' = Tail(win)
      /\ UNCHANGED <<asked, over, tx>>
  BY DEF PullRequest
<1>2. heard \in Seq(Nat) /\ win \in Seq(Nat) /\ asked \in Nat /\ Len(win) \in Nat
      /\ Len(heard) \in Nat /\ Len(heard) + Len(win) = asked /\ Len(win) > 0
  BY <1>1, LenProperties, EmptySeq DEF AskInv, Numbering
<1>3. /\ Head(win) \in Nat /\ Head(win) = win[1] /\ win' \in Seq(Nat)
      /\ Len(win') = Len(win) - 1
      /\ \A i \in 1..Len(win') : win'[i] = win[i + 1]
  BY <1>1, <1>2, HeadTailProperties
<1>4. Head(win) = Len(heard) + 1
  BY <1>2, <1>3 DEF AskInv, Numbering
<1>5. /\ heard' \in Seq(Nat) /\ Len(heard') = Len(heard) + 1
      /\ heard'[Len(heard) + 1] = Len(heard) + 1
      /\ \A i \in 1..Len(heard) : heard'[i] = heard[i]
  BY <1>1, <1>2, <1>3, <1>4, AppendProperties
<1>6. ASSUME NEW i \in 1..Len(heard') PROVE heard'[i] = i
  <2>1. i \in 1..Len(heard) \/ i = Len(heard) + 1
    BY <1>2, <1>5
  <2>2. \A j \in 1..Len(heard) : heard[j] = j
    BY DEF AskInv, Numbering
  <2> QED
    BY <1>5, <2>1, <2>2
<1>7. ASSUME NEW i \in 1..Len(win') PROVE win'[i] = Len(heard') + i
  <2>1. i \in Nat /\ i + 1 \in 1..Len(win) /\ win'[i] = win[i + 1]
    BY <1>2, <1>3
  <2>2. win[i + 1] = Len(heard) + (i + 1)
    BY <2>1 DEF AskInv, Numbering
  <2> QED
    BY <1>2, <1>5, <2>1, <2>2
<1>8. Numbering'
  <2>1. Len(heard') = Len(heard) + 1 /\ Len(win') = Len(win) - 1
    BY <1>3, <1>5
  <2>2. Len(heard') + Len(win') = asked
    BY <1>2, <2>1
  <2>3. asked' = asked
    BY <1>1
  <2> QED
    BY <1>2, <1>3, <1>5, <1>6, <1>7, <2>2, <2>3 DEF Numbering
<1>9. EndBehind'
  BY <1>1 DEF AskInv, EndBehind
<1> QED
  BY <1>8, <1>9 DEF AskInv

(* A half close or a cancel ends the sends; every other step leaves the    *)
(* requests alone.                                                         *)
LEMMA AskStep == AskInv /\ [BidiNext]_bvars => AskInv'
<1> SUFFICES ASSUME AskInv, [BidiNext]_bvars PROVE AskInv'
  OBVIOUS
<1>0. ASSUME UNCHANGED <<win, heard, asked>>, over' => ~tx' /\ (over \/ win = <<>>)
      PROVE  AskInv'
  BY <1>0 DEF AskInv, Numbering, EndBehind
<1>a. ASSUME UNCHANGED <<win, heard, asked, over>>, tx' => tx PROVE AskInv'
  BY <1>a, <1>0 DEF AskInv, EndBehind
<1>1. CASE UNCHANGED bvars
  BY <1>1, <1>a DEF bvars, askVars
<1>2. CASE ServerHead \/ OpenReturns \/ OpenFails \/ BidiOver
  BY <1>2, <1>a DEF ServerHead, OpenReturns, OpenFails, BidiOver, bvars, askVars
<1>3. CASE HostStep
  <2>1. CASE CloseSend \/ BidiCancel
    BY <2>1, <1>a DEF CloseSend, BidiCancel
  <2> QED
    BY <1>3, <2>1, SendKeeps DEF HostStep
<1>4. CASE RequestStep
  <2>1. CASE PullEndOfRequests
    BY <2>1, <1>0 DEF PullEndOfRequests, Drained
  <2> QED
    BY <1>4, <2>1, PullKeeps DEF RequestStep
<1>5. CASE BodyDropped
  BY <1>5, <1>a DEF BodyDropped
<1>6. CASE Replies \/ ServerFails \/ Reads
  BY <1>6, <1>a DEF Replies, ServerFails, Reads, OfReader, askVars
<1> QED
  BY <1>1, <1>2, <1>3, <1>4, <1>5, <1>6 DEF BidiNext

(* The numbering holds in every state.                                     *)
LEMMA AskInvariant == BidiSpec => []AskInv
<1>1. BidiInit => AskInv
  <2> SUFFICES ASSUME BidiInit PROVE AskInv
    OBVIOUS
  <2>1. win = <<>> /\ heard = <<>> /\ asked = 0 /\ (over => ~tx)
    BY DEF BidiInit
  <2>2. <<>> \in Seq(Nat) /\ Len(<<>>) = 0
    BY EmptySeq
  <2> QED
    BY <2>1, <2>2 DEF AskInv, Numbering, EndBehind
<1> QED
  BY <1>1, AskStep, PTL DEF BidiSpec

(* A send that was answered 1 is heard once and in its place, or still in  *)
(* the window; and the server that sees the end has had them all.          *)
THEOREM SendsIntact == BidiSpec => []RequestsIntact
<1>1. AskInv => RequestsIntact
  <2> SUFFICES ASSUME AskInv PROVE RequestsIntact
    OBVIOUS
  <2> DEFINE all == heard \o win
  <2>1. heard \in Seq(Nat) /\ win \in Seq(Nat) /\ Len(heard) + Len(win) = asked
        /\ Len(heard) \in Nat /\ Len(win) \in Nat
    BY LenProperties DEF AskInv, Numbering
  <2>2. /\ all \in Seq(Nat) /\ Len(all) = asked
        /\ \A i \in 1..asked : all[i] = IF i <= Len(heard) THEN heard[i]
                                        ELSE win[i - Len(heard)]
    BY <2>1, ConcatProperties
  <2> HIDE DEF all
  <2>3. ASSUME NEW i \in 1..asked PROVE all[i] = i
    <3>1. CASE i <= Len(heard)
      BY <2>1, <2>2, <3>1 DEF AskInv, Numbering
    <3>2. CASE ~(i <= Len(heard))
      <4>1. i - Len(heard) \in 1..Len(win) /\ all[i] = win[i - Len(heard)]
        BY <2>1, <2>2, <3>2
      <4> QED
        BY <2>1, <4>1 DEF AskInv, Numbering
    <3> QED
      BY <3>1, <3>2
  <2>4. all = [i \in 1..asked |-> i]
    BY <2>2, <2>3, SeqDef
  <2>5. over => win = <<>>
    BY DEF AskInv, EndBehind
  <2> QED
    BY <2>4, <2>5 DEF all, RequestsIntact
<1> QED
  BY <1>1, AskInvariant, PTL
=============================================================================
