------------------------- MODULE ClientStream_proofs -------------------------
(***************************************************************************)
(* What TLAPS proves of ClientStream, for every capacity of the ring and   *)
(* every length of the stream.                                             *)
(***************************************************************************)
EXTENDS ClientStream, SequenceTheorems, TLAPS

(* A ring exists only once the stream is buffered.                         *)
RingLater == mode = "Pull" => q = <<>>

(* What a cancelled stream's pump may still have taken, and where it is    *)
(* when it has.                                                            *)
CancelledPump ==
    handle = "cancelled" =>
        \/ taken = atCancel
        \/ taken = atCancel + 1 /\ pump \in {"storing", "checking", "ended"}

(* Everything the host has, or holds back, is older than all of the ring.  *)
Older == Stored - Len(q)
GotBefore == /\ \A i, j \in 1..Len(got) : i < j => got[i] < got[j]
             /\ \A i \in 1..Len(got) : got[i] <= Older
             /\ pending # 0 => /\ pending <= Older
                               /\ \A i \in 1..Len(got) : got[i] < pending

StreamInv == /\ TypeOK /\ RingLater /\ NewestKept /\ LossAccounted
             /\ GotBefore /\ CancelledPump

(* What a store leaves in the ring: one message more, or as many as before *)
(* and one loss more.                                                      *)
LEMMA KeptLength ==
    ASSUME TypeOK, taken \in 1..MaxSent
    PROVE  /\ Kept \in Seq(1..MaxSent) /\ Len(Kept) <= Cap
           /\ Losses \in Nat
           /\ Losses + Len(Kept) = dropped + Len(q) + 1
           /\ Len(Kept) \in {Len(q), Len(q) + 1}
           /\ Kept[Len(Kept)] = taken
           /\ \A i \in 1..(Len(Kept) - 1) : Kept[i] = q[Len(q) - Len(Kept) + 1 + i]
<1> USE RingAssumption DEF TypeOK
<1>1. CASE Full
  <2>1. q # <<>> /\ Len(q) = Cap
    BY <1>1 DEF Full
  <2>2. /\ Tail(q) \in Seq(1..MaxSent) /\ Len(Tail(q)) = Len(q) - 1
        /\ \A i \in 1..Len(Tail(q)) : Tail(q)[i] = q[i + 1]
    BY <2>1, HeadTailProperties
  <2>3. Kept = Append(Tail(q), taken) /\ Losses = dropped + 1
    BY <1>1 DEF Kept, Losses
  <2>4. /\ Kept \in Seq(1..MaxSent) /\ Len(Kept) = Len(q) /\ Kept[Len(q)] = taken
        /\ \A i \in 1..(Len(q) - 1) : Kept[i] = Tail(q)[i]
    BY <2>1, <2>2, <2>3, AppendProperties
  <2>5. \A i \in 1..(Len(q) - 1) : Kept[i] = q[i + 1]
    BY <2>1, <2>2, <2>4
  <2>6. ASSUME NEW i \in 1..(Len(Kept) - 1)
        PROVE  Kept[i] = q[Len(q) - Len(Kept) + 1 + i]
    <3>1. i \in 1..(Len(q) - 1) /\ Len(q) - Len(Kept) + 1 + i = i + 1
      BY <2>1, <2>4
    <3> QED
      BY <3>1, <2>5
  <2>7. Losses \in Nat /\ Losses + Len(Kept) = dropped + Len(q) + 1
    <3>1. Len(q) \in Nat /\ dropped \in Nat
      BY LenProperties
    <3>2. Losses = dropped + 1 /\ Len(Kept) = Len(q)
      BY <2>3, <2>4
    <3> HIDE DEF TypeOK
    <3> QED
      BY <3>1, <3>2
  <2> QED
    BY <2>1, <2>4, <2>6, <2>7
<1>2. CASE ~Full
  BY <1>2 DEF Full, Kept, Losses
<1> QED
  BY <1>1, <1>2

(* The variables keep their types: in particular the ring never holds more *)
(* than its capacity.                                                      *)
LEMMA TypeStep == TypeOK /\ [Next]_vars => TypeOK'
<1> SUFFICES ASSUME TypeOK, [Next]_vars PROVE TypeOK'
  OBVIOUS
<1> USE RingAssumption DEF TypeOK
<1>0. CASE UNCHANGED vars
  BY <1>0 DEF vars, wireVars, ringVars
<1>1. CASE ServerStep
  <2>1. CASE ServerSend
    BY <2>1 DEF ServerSend, ringVars
  <2>2. ASSUME NEW how \in {"finished", "failed"}, ServerEnds(how) PROVE TypeOK'
    BY <2>2 DEF ServerEnds, ringVars
  <2> QED
    BY <1>1, <2>1, <2>2 DEF ServerStep
<1>2. CASE ReadStep
  <2>1. CASE ReadPending
    BY <2>1 DEF ReadPending, wireVars, ringVars
  <2>2. CASE PullRead
    BY <2>2 DEF PullRead, WireMessage, wireVars, ringVars
  <2>3. CASE PullError \/ PullEnd
    BY <2>3 DEF PullError, PullEnd, wireVars, ringVars
  <2>4. CASE RingRead
    BY <2>4, HeadTailProperties DEF RingRead, wireVars
  <2>5. CASE RingError \/ RingZero
    BY <2>5 DEF RingError, RingZero, wireVars, ringVars
  <2> QED
    BY <1>2, <2>1, <2>2, <2>3, <2>4, <2>5 DEF ReadStep
<1>3. CASE ShortStep
  <2>1. CASE PullShort
    BY <2>1 DEF PullShort, WireMessage, wireVars, ringVars
  <2>2. CASE RingShort
    BY <2>2, HeadTailProperties DEF RingShort, Short, wireVars
  <2> QED
    BY <1>3, <2>1, <2>2 DEF ShortStep
<1>4. CASE Buffer
  BY <1>4 DEF Buffer, wireVars, ringVars
<1>5. CASE PumpStep
  <2>1. CASE PumpTake
    BY <2>1 DEF PumpTake, WireMessage, wireVars, ringVars
  <2>2. CASE PumpStore
    <3>1. taken \in 1..MaxSent
      BY <2>2 DEF PumpStore
    <3> QED
      BY <2>2, <3>1, KeptLength DEF PumpStore, wireVars
  <2>3. CASE PumpCheck
    BY <2>3 DEF PumpCheck, wireVars, ringVars
  <2>4. CASE PumpEnds \/ PumpFails
    BY <2>4 DEF PumpEnds, PumpFails, wireVars
  <2> QED
    BY <1>5, <2>1, <2>2, <2>3, <2>4 DEF PumpStep
<1>6. CASE Cancel
  BY <1>6 DEF Cancel, wireVars, ringVars
<1> QED
  BY <1>0, <1>1, <1>2, <1>3, <1>4, <1>5, <1>6 DEF Next, Over

(* Nothing overtakes the pump: a ring exists only after the switch, and a  *)
(* cancelled pump has taken at most one message more.                      *)
LEMMA PumpLocalsStep ==
    TypeOK /\ RingLater /\ CancelledPump /\ [Next]_vars => RingLater' /\ CancelledPump'
<1> SUFFICES ASSUME TypeOK, RingLater, CancelledPump, [Next]_vars
             PROVE RingLater' /\ CancelledPump'
  OBVIOUS
<1> USE DEF TypeOK, RingLater, CancelledPump
<1>0. CASE UNCHANGED vars
  BY <1>0 DEF vars, ringVars
<1>1. CASE ServerStep
  BY <1>1 DEF ServerStep, ServerSend, ServerEnds, ringVars
<1>2. CASE ReadStep
  BY <1>2 DEF ReadStep, ReadPending, PullRead, PullError, PullEnd, RingRead, RingError,
              RingZero, ringVars
<1>3. CASE ShortStep
  BY <1>3 DEF ShortStep, PullShort, RingShort, ringVars
<1>4. CASE Buffer
  BY <1>4 DEF Buffer, ringVars
<1>5. CASE PumpTake \/ PumpCheck
  BY <1>5 DEF PumpTake, PumpCheck, Alone, ringVars
<1>6. CASE PumpStore \/ PumpEnds \/ PumpFails
  BY <1>6 DEF PumpStore, PumpEnds, PumpFails
<1>7. CASE Cancel
  BY <1>7 DEF Cancel, ringVars
<1> QED
  BY <1>0, <1>1, <1>2, <1>3, <1>4, <1>5, <1>6, <1>7 DEF Next, PumpStep, Over

(* The accounts balance over every step that touches them.                 *)
LEMMA LossStep ==
    TypeOK /\ LossAccounted /\ [Next]_vars => LossAccounted'
<1> SUFFICES ASSUME TypeOK, LossAccounted, [Next]_vars PROVE LossAccounted'
  OBVIOUS
<1> DEFINE balance == <<dropped, got, pending, q, taken, pump>>
<1> USE DEF LossAccounted, Stored
<1>0. ASSUME UNCHANGED balance PROVE LossAccounted'
  BY <1>0 DEF Held
<1>h. Len(Held) = IF pending # 0 THEN 1 ELSE 0
  BY DEF Held
<1>i. Len(Held') = IF pending' # 0 THEN 1 ELSE 0
  BY DEF Held
<1>l. Len(q) \in Nat /\ Len(got) \in Nat /\ dropped \in Nat /\ taken \in Nat
  BY LenProperties DEF TypeOK
<1>1. CASE ServerStep \/ PullError \/ PullEnd \/ RingError \/ RingZero \/ Cancel \/ Over
           \/ UNCHANGED vars
  BY <1>0, <1>1 DEF ServerStep, ServerSend, ServerEnds, PullError, PullEnd, RingError,
                    RingZero, Cancel, Over, vars, ringVars
<1>2. CASE ReadPending \/ PullRead \/ PullShort
  <2>1. /\ dropped' = dropped /\ q' = q /\ pump' = pump
        /\ \/ pending # 0 /\ pending' = 0 /\ Len(got') = Len(got) + 1 /\ taken' = taken
           \/ /\ pending = 0 /\ pump = "none" /\ taken' = taken + 1
              /\ \/ pending' = 0 /\ Len(got') = Len(got) + 1
                 \/ pending' # 0 /\ got' = got
    BY <1>2 DEF ReadPending, PullRead, PullShort, TypeOK, ringVars
  <2> QED
    BY <2>1, <1>h, <1>i, <1>l
<1>3. CASE RingRead \/ RingShort
  <2>1. /\ q # <<>> /\ Len(Tail(q)) = Len(q) - 1 /\ Head(q) \in 1..MaxSent
    BY <1>3, HeadTailProperties DEF RingRead, RingShort, TypeOK
  <2>2. /\ Len(q') = Len(q) - 1
        /\ dropped' = dropped /\ taken' = taken /\ pump' = pump
    BY <1>3, <2>1 DEF RingRead, RingShort, Short
  <2>3. /\ Len(Held) = 0
        /\ Len(got') + Len(Held') = Len(got) + 1
    BY <1>3, <2>1, <1>h, <1>i, <1>l DEF RingRead, RingShort, Short, TypeOK
  <2>4. Len(got') \in Nat /\ Len(Held') \in Nat
    BY <1>3, <2>1, <1>i, <1>l DEF RingRead, RingShort, Short, TypeOK
  <2> QED
    BY <2>2, <2>3, <2>4, <1>l
<1>4. CASE PumpStore
  <2>1. taken \in 1..MaxSent
    BY <1>4, RingAssumption DEF PumpStore, TypeOK
  <2>2. /\ Kept \in Seq(1..MaxSent) /\ Losses \in Nat
        /\ Losses + Len(Kept) = dropped + Len(q) + 1
    BY <2>1, KeptLength
  <2>3. dropped' = Losses /\ q' = Kept
    BY <1>4 DEF PumpStore
  <2>4. /\ dropped' + Len(q') = dropped + Len(q) + 1
        /\ dropped' \in Nat /\ Len(q') \in Nat
    BY <2>2, <2>3, LenProperties
  <2>5. /\ pump = "storing" /\ pump' = "checking" /\ taken' = taken
        /\ got' = got /\ Len(Held') = Len(Held)
    BY <1>4 DEF PumpStore, Held
  <2>6. Len(Held) \in Nat
    BY <1>h
  <2>7. dropped + Len(got) + Len(Held) + Len(q) = Stored /\ taken \in Nat
    BY <1>l
  <2>8. Stored' = Stored + 1
    BY <2>5, <1>l
  <2> HIDE DEF Held, LossAccounted, Stored
  <2>9. ASSUME NEW d \in Nat, NEW g \in Nat, NEW h \in Nat, NEW k \in Nat, NEW e \in Nat,
               NEW m \in Nat, e + m = d + k + 1
        PROVE  e + g + h + m = d + g + h + k + 1
    BY <2>9
  <2>10. dropped' + Len(got) + Len(Held) + Len(q')
           = dropped + Len(got) + Len(Held) + Len(q) + 1
    BY <2>4, <2>6, <2>9, <1>l
  <2> QED
    BY <2>5, <2>7, <2>8, <2>10 DEF LossAccounted
<1>5. CASE Buffer \/ PumpTake \/ PumpCheck \/ PumpEnds \/ PumpFails
  <2>1. /\ dropped' = dropped /\ q' = q /\ got' = got /\ Len(Held') = Len(Held)
        /\ \/ pump # "storing" /\ pump' # "storing" /\ taken' = taken
           \/ pump # "storing" /\ pump' = "storing" /\ taken' = taken + 1
    BY <1>5 DEF Buffer, PumpTake, PumpCheck, PumpEnds, PumpFails, ringVars, Held, TypeOK
  <2> QED
    BY <2>1, <1>h, <1>l
<1> QED
  BY <1>1, <1>2, <1>3, <1>4, <1>5 DEF Next, ReadStep, ShortStep, PumpStep

(* A later message at the end of a growing sequence keeps it growing.      *)
LEMMA AppendGrows ==
    ASSUME NEW s \in Seq(1..MaxSent), NEW n \in 1..MaxSent,
           \A i, j \in 1..Len(s) : i < j => s[i] < s[j],
           \A i \in 1..Len(s) : s[i] < n
    PROVE  /\ \A i, j \in 1..Len(Append(s, n)) : i < j => Append(s, n)[i] < Append(s, n)[j]
           /\ \A i \in 1..Len(Append(s, n)) : Append(s, n)[i] <= n
<1>1. /\ Len(Append(s, n)) = Len(s) + 1 /\ Append(s, n)[Len(s) + 1] = n
      /\ \A i \in 1..Len(s) : Append(s, n)[i] = s[i]
  BY AppendProperties
<1>2. Len(s) \in Nat /\ \A i \in 1..Len(s) : s[i] \in 1..MaxSent
  BY ElementOfSeq, LenProperties
<1> QED
  BY <1>1, <1>2, RingAssumption

(* The head of the ring is the message after everything older than it.     *)
LEMMA HeadOfRing ==
    ASSUME TypeOK, NewestKept, q # <<>>
    PROVE  /\ Head(q) = Older + 1 /\ Head(q) \in 1..MaxSent
           /\ Len(Tail(q)) = Len(q) - 1
           /\ \A i \in 1..Len(Tail(q)) : Tail(q)[i] = q[i + 1]
<1>0. q \in Seq(1..MaxSent) /\ Len(q) \in Nat \ {0}
  BY EmptySeq DEF TypeOK
<1>1. /\ Head(q) \in 1..MaxSent /\ Len(Tail(q)) = Len(q) - 1
      /\ \A i \in 1..Len(Tail(q)) : Tail(q)[i] = q[i + 1]
  BY <1>0, HeadTailProperties
<1>3. Head(q) = q[1]
  BY <1>0
<1>2. q[1] = Stored - Len(q) + 1 /\ Stored \in Int
  BY <1>0, RingAssumption DEF NewestKept, Stored, TypeOK
<1> QED
  BY <1>0, <1>1, <1>2, <1>3 DEF Older

(* Where messages come off the wire, are stored, or leave the ring, the    *)
(* ring is still the newest ones.                                          *)
LEMMA NewestStep ==
    TypeOK /\ RingLater /\ NewestKept /\ [Next]_vars => NewestKept'
<1> SUFFICES ASSUME TypeOK, RingLater, NewestKept, [Next]_vars PROVE NewestKept'
  OBVIOUS
<1>0. ASSUME q' = q, Stored' = Stored PROVE NewestKept'
  BY <1>0 DEF NewestKept
<1>1. ASSUME q' = q, q = <<>> PROVE NewestKept'
  BY <1>1 DEF NewestKept
<1>2. CASE PullRead \/ PullShort
  BY <1>2, <1>1 DEF PullRead, PullShort, ringVars, RingLater
<1>3. CASE RingRead \/ RingShort
  <2>1. q # <<>> /\ q' = Tail(q) /\ Stored' = Stored
    BY <1>3 DEF RingRead, RingShort, Short, Stored
  <2>2. Stored \in Int /\ Len(q) \in Nat
    BY RingAssumption, LenProperties DEF Stored, TypeOK
  <2> QED
    BY <2>1, <2>2, HeadOfRing DEF NewestKept
<1>4. CASE PumpStore
  <2>1. taken \in 1..MaxSent /\ q' = Kept /\ Stored = taken - 1 /\ Stored' = taken
    BY <1>4, RingAssumption DEF PumpStore, Stored, TypeOK
  <2>2. /\ Len(q) \in Nat /\ Len(Kept) \in Nat /\ Len(Kept) \in {Len(q), Len(q) + 1}
        /\ Kept[Len(Kept)] = taken
        /\ \A i \in 1..(Len(Kept) - 1) : Kept[i] = q[Len(q) - Len(Kept) + 1 + i]
    BY <2>1, KeptLength, LenProperties DEF TypeOK
  <2>3. ASSUME NEW i \in 1..Len(Kept) PROVE Kept[i] = taken - Len(Kept) + i
    <3>1. CASE i = Len(Kept)
      BY <3>1, <2>1, <2>2
    <3>2. CASE i # Len(Kept)
      <4>1. LET k == Len(q) - Len(Kept) + 1 + i
            IN  k \in 1..Len(q) /\ Kept[i] = q[k] /\ q[k] = (taken - 1) - Len(q) + k
        BY <3>2, <2>1, <2>2 DEF NewestKept
      <4> QED
        BY <4>1, <2>1, <2>2
    <3> QED
      BY <3>1, <3>2
  <2> QED
    BY <2>1, <2>3 DEF NewestKept
<1>5. CASE PumpTake
  BY <1>5, <1>0, RingAssumption DEF PumpTake, Stored, TypeOK, ringVars
<1>6. CASE Buffer \/ PumpCheck \/ PumpEnds \/ PumpFails
  BY <1>6, <1>0 DEF Buffer, PumpCheck, PumpEnds, PumpFails, Stored, TypeOK, ringVars
<1>7. CASE ServerStep \/ ReadPending \/ PullError \/ PullEnd \/ RingError \/ RingZero
           \/ Cancel \/ Over \/ UNCHANGED vars
  BY <1>7, <1>0 DEF ServerStep, ServerSend, ServerEnds, ReadPending, PullError, PullEnd,
                    RingError, RingZero, Cancel, Over, vars, ringVars, Stored
<1> QED
  BY <1>2, <1>3, <1>4, <1>5, <1>6, <1>7 DEF Next, ReadStep, ShortStep, PumpStep

(* What the host has received is older than what waits for it.             *)
LEMMA GotStep ==
    TypeOK /\ RingLater /\ NewestKept /\ GotBefore /\ [Next]_vars => GotBefore'
<1> SUFFICES ASSUME TypeOK, RingLater, NewestKept, GotBefore, [Next]_vars
             PROVE GotBefore'
  OBVIOUS
<1>t. /\ Len(q) \in Nat /\ Stored \in Int /\ Older \in Int /\ pending \in Int
      /\ got \in Seq(1..MaxSent)
      /\ \A i \in 1..Len(got) : got[i] \in Int
  BY RingAssumption, LenProperties, ElementOfSeq DEF Older, Stored, TypeOK
<1>0. ASSUME got' = got, pending' = pending, Older' \in Int, Older' >= Older
      PROVE  GotBefore'
  BY <1>0, <1>t DEF GotBefore
<1>a. ASSUME NEW n \in 1..MaxSent, got' = Append(got, n), pending' = 0,
             \A i \in 1..Len(got) : got[i] < n, n <= Older', Older' \in Int
      PROVE  GotBefore'
  <2>1. \A i, j \in 1..Len(got) : i < j => got[i] < got[j]
    BY DEF GotBefore
  <2>2. /\ \A i, j \in 1..Len(got') : i < j => got'[i] < got'[j]
        /\ \A i \in 1..Len(got') : got'[i] <= n
    BY <1>a, <1>t, <2>1, AppendGrows
  <2>3. \A i \in 1..Len(got') : got'[i] \in Int
    BY <1>a, <1>t, AppendProperties, ElementOfSeq
  <2> QED
    BY <1>a, <2>2, <2>3, RingAssumption DEF GotBefore
<1>b. ASSUME pending' \in 1..MaxSent, got' = got, pending' <= Older', Older' \in Int,
             \A i \in 1..Len(got) : got[i] < pending'
      PROVE  GotBefore'
  BY <1>b, <1>t, RingAssumption DEF GotBefore
<1>1. CASE ReadPending
  <2>1. pending \in 1..MaxSent /\ pending <= Older /\ Older' = Older
    BY <1>1 DEF ReadPending, Older, Stored, GotBefore, TypeOK, ringVars
  <2> QED
    BY <1>1, <1>a, <1>t, <2>1 DEF ReadPending, GotBefore
<1>2. CASE PullRead \/ PullShort
  <2>1. /\ q = <<>> /\ q' = q /\ Stored = taken /\ Stored' = taken + 1 /\ taken \in Nat
        /\ taken + 1 \in 1..MaxSent
    BY <1>2, RingAssumption
       DEF PullRead, PullShort, WireMessage, RingLater, Stored, TypeOK, ringVars
  <2>2. Older = taken /\ Older' = taken + 1
    BY <2>1 DEF Older
  <2> QED
    BY <1>2, <1>a, <1>b, <1>t, <2>1, <2>2 DEF PullRead, PullShort, GotBefore
<1>3. CASE RingRead \/ RingShort
  <2>1. q # <<>> /\ q' = Tail(q) /\ Stored' = Stored
    BY <1>3 DEF RingRead, RingShort, Short, Stored
  <2>2. Head(q) \in 1..MaxSent /\ Head(q) = Older + 1 /\ Older' = Older + 1
    BY <1>t, <2>1, HeadOfRing DEF Older
  <2>3. \A i \in 1..Len(got) : got[i] < Head(q)
    BY <1>t, <2>2 DEF GotBefore
  <2>4. CASE RingRead
    <3>1. got' = Append(got, Head(q)) /\ pending' = 0
      BY <2>4 DEF RingRead
    <3>2. Head(q) <= Older' /\ Older' \in Int
      BY <1>t, <2>2
    <3> QED
      BY <1>a, <2>2, <2>3, <3>1, <3>2
  <2>5. CASE RingShort
    BY <2>5, <1>b, <1>t, <2>2, <2>3 DEF RingShort, Short
  <2> QED
    BY <1>3, <2>4, <2>5
<1>4. CASE PumpStore
  <2>1. taken \in 1..MaxSent /\ q' = Kept /\ Stored = taken - 1 /\ Stored' = taken
    BY <1>4, RingAssumption DEF PumpStore, Stored, TypeOK
  <2>2. Len(Kept) \in {Len(q), Len(q) + 1}
    BY <2>1, KeptLength
  <2>3. Older' \in Int /\ Older' >= Older
    BY <1>t, <2>1, <2>2 DEF Older
  <2> QED
    BY <1>4, <1>0, <2>3 DEF PumpStore
<1>5. CASE Buffer \/ PumpTake \/ PumpCheck \/ PumpEnds \/ PumpFails
  <2>1. Stored' = Stored /\ q' = q
    BY <1>5, RingAssumption
       DEF Buffer, PumpTake, PumpCheck, PumpEnds, PumpFails, Stored, TypeOK, ringVars
  <2>2. Older' = Older
    BY <2>1 DEF Older
  <2> QED
    BY <1>5, <1>0, <1>t, <2>2 DEF Buffer, PumpTake, PumpCheck, PumpEnds, PumpFails
<1>6. CASE ServerStep \/ PullError \/ PullEnd \/ RingError \/ RingZero
           \/ Cancel \/ Over \/ UNCHANGED vars
  <2>1. Stored' = Stored /\ q' = q /\ got' = got /\ pending' = pending
    BY <1>6 DEF ServerStep, ServerSend, ServerEnds, PullError, PullEnd, RingError, RingZero,
                Cancel, Over, vars, ringVars, Stored
  <2>2. Older' = Older
    BY <2>1 DEF Older
  <2> QED
    BY <1>0, <1>t, <2>1, <2>2
<1> QED
  BY <1>1, <1>2, <1>3, <1>4, <1>5, <1>6 DEF Next, ReadStep, ShortStep, PumpStep

(* Received, held back, still in the ring: in this order the messages are  *)
(* in the order of the server.                                             *)
LEMMA InOrderFollows == StreamInv => InOrder
<1> SUFFICES ASSUME StreamInv PROVE InOrder
  OBVIOUS
<1> USE DEF StreamInv
<1> DEFINE front == got \o Held
           all == front \o q
<1>0. /\ Held \in Seq(1..MaxSent)
      /\ Len(Held) = IF pending # 0 THEN 1 ELSE 0
      /\ pending # 0 => Held[1] = pending
  <2>1. CASE pending = 0
    BY <2>1 DEF Held
  <2>2. CASE pending # 0
    <3>1. Held = <<pending>> /\ pending \in 1..MaxSent
      BY <2>2, RingAssumption DEF TypeOK, Held
    <3> QED
      BY <2>2, <3>1
  <2> QED
    BY <2>1, <2>2
<1>1. /\ got \in Seq(1..MaxSent) /\ q \in Seq(1..MaxSent)
      /\ Len(got) \in Nat /\ Len(q) \in Nat /\ Older \in Int /\ pending \in Int
      /\ \A i \in 1..Len(got) : got[i] \in Int
  BY RingAssumption, LenProperties, ElementOfSeq DEF TypeOK, Older, Stored
<1>g. /\ \A i, j \in 1..Len(got) : i < j => got[i] < got[j]
      /\ \A i \in 1..Len(got) : got[i] <= Older
      /\ pending # 0 => /\ pending <= Older
                        /\ \A i \in 1..Len(got) : got[i] < pending
  BY DEF GotBefore
<1> HIDE DEF StreamInv
<1>2. /\ front \in Seq(1..MaxSent) /\ Len(front) = Len(got) + Len(Held)
      /\ \A i \in 1..Len(front) : front[i] = IF i <= Len(got) THEN got[i]
                                             ELSE Held[i - Len(got)]
  <2>1. got \in Seq(1..MaxSent) /\ Held \in Seq(1..MaxSent)
    BY <1>0, <1>1
  <2>2. /\ front \in Seq(1..MaxSent) /\ Len(front) = Len(got) + Len(Held)
        /\ \A i \in 1..Len(got) + Len(Held) : front[i] = IF i <= Len(got) THEN got[i]
                                                       ELSE Held[i - Len(got)]
    BY <2>1, ConcatProperties
  <2> HIDE DEF front
  <2> QED
    BY <2>2
<1> HIDE DEF front
<1>3. /\ \A i, j \in 1..Len(front) : i < j => front[i] < front[j]
      /\ \A i \in 1..Len(front) : front[i] <= Older /\ front[i] \in Int
  <2>1. CASE pending = 0
    <3>1. Len(front) = Len(got) /\ \A i \in 1..Len(got) : front[i] = got[i]
      BY <1>0, <1>1, <1>2, <2>1
    <3> QED
      BY <1>1, <1>g, <3>1
  <2>2. CASE pending # 0
    <3>1. /\ Len(front) = Len(got) + 1 /\ front[Len(got) + 1] = pending
          /\ \A i \in 1..Len(got) : front[i] = got[i]
      BY <1>0, <1>1, <1>2, <2>2
    <3>2. /\ Len(front) \in Nat
          /\ \A i \in 1..Len(front) : i \in 1..Len(got) \/ i = Len(got) + 1
      BY <1>1, <3>1
    <3>3. \A i \in 1..Len(front) : front[i] <= Older /\ front[i] \in Int
      BY <1>1, <1>g, <2>2, <3>1, <3>2
    <3>4. ASSUME NEW i \in 1..Len(front), NEW j \in 1..Len(front), i < j
          PROVE  front[i] < front[j]
      <4>1. i \in 1..Len(got)
        BY <1>1, <3>1, <3>4
      <4>2. CASE j \in 1..Len(got)
        BY <1>g, <3>1, <3>4, <4>1, <4>2
      <4>3. CASE j = Len(got) + 1
        BY <1>g, <2>2, <3>1, <4>1, <4>3
      <4> QED
        BY <3>2, <4>2, <4>3
    <3> QED
      BY <3>3, <3>4
  <2> QED
    BY <2>1, <2>2
<1>4. /\ Len(all) = Len(front) + Len(q) /\ Len(front) \in Nat
      /\ \A i \in 1..Len(all) : all[i] = IF i <= Len(front) THEN front[i]
                                         ELSE q[i - Len(front)]
  <2>1. front \in Seq(1..MaxSent) /\ q \in Seq(1..MaxSent)
    BY <1>1, <1>2
  <2>2. Len(front) \in Nat /\ Len(all) = Len(front) + Len(q)
    BY <2>1, ConcatProperties, LenProperties
  <2>3. \A i \in 1..Len(front) + Len(q) : all[i] = IF i <= Len(front) THEN front[i]
                                                  ELSE q[i - Len(front)]
    BY <2>1, ConcatProperties
  <2> HIDE DEF all
  <2> QED
    BY <2>2, <2>3
<1> HIDE DEF all
<1>5. \A i \in 1..Len(q) : q[i] = Older + i
  BY <1>1, RingAssumption DEF StreamInv, NewestKept, Older, Stored, TypeOK
<1>6. ASSUME NEW i \in 1..Len(all), NEW j \in 1..Len(all), i < j PROVE all[i] < all[j]
  <2>1. CASE j <= Len(front)
    BY <1>3, <1>4, <1>6, <2>1
  <2>2. CASE i <= Len(front) /\ j > Len(front)
    <3>1. all[i] = front[i] /\ all[j] = q[j - Len(front)]
      BY <1>4, <2>2
    <3>2. j - Len(front) \in 1..Len(q)
      BY <1>1, <1>4, <2>2
    <3>3. all[j] = Older + (j - Len(front))
      BY <1>5, <3>1, <3>2
    <3>4. front[i] <= Older /\ front[i] \in Int
      BY <1>3, <1>4, <2>2
    <3>5. Older \in Int /\ j - Len(front) \in Nat \ {0}
      BY <1>1, <3>2
    <3> HIDE DEF Older, front
    <3> QED
      BY <3>1, <3>3, <3>4, <3>5
  <2>3. CASE i > Len(front)
    <3>1. i - Len(front) \in 1..Len(q) /\ j - Len(front) \in 1..Len(q)
      BY <1>1, <1>4, <1>6, <2>3
    <3>a. ~(i <= Len(front)) /\ ~(j <= Len(front))
      BY <1>4, <1>6, <2>3
    <3>b. all[i] = q[i - Len(front)] /\ all[j] = q[j - Len(front)]
      BY <1>4, <3>a
    <3>2. all[i] = Older + (i - Len(front)) /\ all[j] = Older + (j - Len(front))
      BY <1>5, <3>1, <3>b
    <3>3. Older \in Int /\ Len(front) \in Nat /\ i \in Nat /\ j \in Nat
      BY <1>1, <1>4
    <3> HIDE DEF Older, front
    <3> QED
      BY <1>6, <3>2, <3>3
  <2> QED
    BY <1>4, <2>1, <2>2, <2>3
<1> QED
  BY <1>6 DEF InOrder, all, front

-----------------------------------------------------------------------------
(* The invariant is inductive.                                             *)
LEMMA StreamInvariant == Spec => []StreamInv
<1>1. Init => StreamInv
  <2> SUFFICES ASSUME Init PROVE StreamInv
    OBVIOUS
  <2> USE RingAssumption DEF Init
  <2>0. <<>> \in Seq(1..MaxSent) /\ Len(<<>>) = 0
    BY EmptySeq
  <2>1. TypeOK
    <3>1. /\ sent \in 0..MaxSent /\ taken \in 0..sent /\ pending \in 0..MaxSent
          /\ dropped \in Nat /\ atCancel \in 0..MaxSent
          /\ pump = "storing" => taken > 0
      OBVIOUS
    <3>2. /\ q \in Seq(1..MaxSent) /\ Len(q) <= Cap /\ got \in Seq(1..MaxSent)
      BY <2>0
    <3>3. /\ server \in {"open", "finished", "failed"}
          /\ mode \in {"Pull", "Ring"}
          /\ reported \in BOOLEAN /\ done \in BOOLEAN /\ err \in BOOLEAN
          /\ pump \in {"none", "reading", "storing", "checking", "ended"}
          /\ pump = "none" <=> mode = "Pull"
          /\ handle \in {"open", "cancelled"}
          /\ told \subseteq {"zero", "error"}
      OBVIOUS
    <3> QED
      BY <3>1, <3>2, <3>3 DEF TypeOK
  <2>2. Held = <<>> /\ Stored = 0 /\ Len(q) = 0 /\ Len(got) = 0
    BY DEF Held, Stored
  <2>3. RingLater /\ NewestKept /\ LossAccounted /\ GotBefore /\ CancelledPump
    BY <2>2 DEF RingLater, NewestKept, LossAccounted, GotBefore, CancelledPump
  <2> QED
    BY <2>1, <2>3 DEF StreamInv
<1>2. StreamInv /\ [Next]_vars => StreamInv'
  BY TypeStep, PumpLocalsStep, LossStep, NewestStep, GotStep DEF StreamInv
<1> QED
  BY <1>1, <1>2, PTL DEF Spec

(* The ring never exceeds its capacity, and every variable keeps its type. *)
THEOREM TypeCorrect == Spec => []TypeOK
BY StreamInvariant, PTL DEF StreamInv

(* A full ring discards the oldest message, and what it keeps are the      *)
(* newest ones without a gap.                                              *)
THEOREM RingKeepsNewest == Spec => []NewestKept
BY StreamInvariant, PTL DEF StreamInv

(* `dropped` is exactly what the host has lost: no loss is invisible.      *)
THEOREM LossIsCounted == Spec => []LossAccounted
BY StreamInvariant, PTL DEF StreamInv

(* Short buffers, the switch to buffered mode and losses never reorder or  *)
(* repeat a message.                                                       *)
THEOREM OrderKept == Spec => []InOrder
BY StreamInvariant, InOrderFollows, PTL

(* A cancelled stream's pump takes at most one more message off the wire.  *)
THEOREM CancelStops == Spec => []CancelStopsDraining
<1>1. StreamInv => CancelStopsDraining
  BY DEF StreamInv, CancelledPump, CancelStopsDraining, TypeOK
<1> QED
  BY <1>1, StreamInvariant, PTL
=============================================================================
