--------------------------- MODULE Framing_proofs ---------------------------
(***************************************************************************)
(* What TLAPS proves of Framing: for a length field of any width, any      *)
(* messages and any way of cutting the stream, and for any status message. *)
(* The length field and the percent-encoding are recursive functions; what *)
(* they compute is proved by induction, stated with sets of numbers.       *)
(***************************************************************************)
EXTENDS Framing, SequenceTheorems, WellFoundedInduction, TLAPS

-----------------------------------------------------------------------------
(* Induction and recursion over the natural numbers *)

Less == {p \in Nat \X Nat : p[1] < p[2]}

(* The order of the natural numbers, as a set of pairs, is well-founded.   *)
LEMMA LessWellFounded == IsWellFoundedOn(Less, Nat)
<1>1. IsWellFoundedOn({p \in Nat \X Nat : p[1] < p[2]}, Nat)
  BY NatLessThanWellFounded, Zenon DEF OpToRel
<1> QED
  BY <1>1 DEF Less

(* Any set of natural numbers has a least one.                             *)
LEMMA LeastNumber ==
    ASSUME NEW S \in SUBSET Nat, S # {}
    PROVE  \E m \in S : \A n \in S : m <= n
<1>1. PICK m \in S : \A n \in S : <<n, m>> \notin Less
  BY LessWellFounded, WFMin, Zenon
<1>2. \A n \in S : ~ (n < m)
  BY <1>1 DEF Less
<1> QED
  BY <1>2

(* Induction: a set with 0 and the successor of each of its members.       *)
LEMMA SetInduction ==
    ASSUME NEW S \in SUBSET Nat, 0 \in S, \A n \in S : n + 1 \in S
    PROVE  S = Nat
<1>1. SUFFICES ASSUME Nat \ S # {} PROVE FALSE
  OBVIOUS
<1>2. PICK m \in Nat \ S : \A n \in Nat \ S : m <= n
  BY <1>1, LeastNumber
<1>3. m - 1 \in S
  BY <1>2
<1> QED
  BY <1>2, <1>3

\* g is what the recursion with start a and step F gives for 0..n.
Unrolled(g, n, T, a, F) ==
    /\ g \in [0..n -> T] /\ g[0] = a
    /\ \A k \in 0..(n - 1) : g[k + 1] = F[<<k + 1, g[k]>>]

(* The recursion can be unrolled to any depth.                             *)
LEMMA UnrolledExists ==
    ASSUME NEW T, NEW a \in T, NEW F \in [Nat \X T -> T]
    PROVE  \A n \in Nat : \E g : Unrolled(g, n, T, a, F)
<1> DEFINE S == {n \in Nat : \E g : Unrolled(g, n, T, a, F)}
<1>1. 0 \in S
  <2>1. Unrolled([k \in 0..0 |-> a], 0, T, a, F)
    BY DEF Unrolled
  <2> QED
    BY <2>1
<1>2. ASSUME NEW n \in S PROVE n + 1 \in S
  <2>1. PICK g : Unrolled(g, n, T, a, F)
    OBVIOUS
  <2> DEFINE h == [k \in 0..(n + 1) |-> IF k = n + 1 THEN F[<<n + 1, g[n]>>] ELSE g[k]]
  <2>2. g[n] \in T /\ n \in Nat
    BY <2>1 DEF Unrolled
  <2>3. h \in [0..(n + 1) -> T] /\ h[0] = a
    BY <2>1, <2>2 DEF Unrolled
  <2>4. ASSUME NEW k \in 0..n PROVE h[k + 1] = F[<<k + 1, h[k]>>]
    <3>1. CASE k = n
      <4>1. h[n + 1] = F[<<n + 1, g[n]>>] /\ h[n] = g[n]
        BY <2>2
      <4> QED
        BY <3>1, <4>1
    <3>2. CASE k < n
      <4>1. h[k + 1] = g[k + 1] /\ h[k] = g[k]
        BY <3>2, <2>2
      <4> QED
        BY <4>1, <3>2, <2>1, <2>2 DEF Unrolled
    <3> QED
      BY <3>1, <3>2, <2>2
  <2> HIDE DEF h
  <2>5. Unrolled(h, n + 1, T, a, F)
    BY <2>3, <2>4, <2>2, (n + 1) - 1 = n DEF Unrolled
  <2> QED
    BY <2>2, <2>5
<1> HIDE DEF S
<1>3. S \in SUBSET Nat
  BY DEF S
<1>4. S = Nat
  BY <1>1, <1>2, <1>3, SetInduction
<1> QED
  BY <1>4 DEF S

\* f is what the recursion with start a and step F gives.
Unfolds(f, T, a, F) ==
    /\ f \in [Nat -> T] /\ f[0] = a
    /\ \A n \in Nat : f[n + 1] = F[<<n + 1, f[n]>>]

(* So a function defined by recursion over the natural numbers exists.     *)
LEMMA RecursionExists ==
    ASSUME NEW T, NEW a \in T, NEW F \in [Nat \X T -> T]
    PROVE  \E f : Unfolds(f, T, a, F)
<1> DEFINE G == [n \in Nat |-> CHOOSE g : Unrolled(g, n, T, a, F)]
<1>1. \A n \in Nat : Unrolled(G[n], n, T, a, F)
  BY UnrolledExists
<1> HIDE DEF G
<1> DEFINE f == [n \in Nat |-> G[n][n]]
<1>2. f \in [Nat -> T] /\ f[0] = a
  BY <1>1 DEF Unrolled
<1>3. ASSUME NEW n \in Nat PROVE f[n + 1] = F[<<n + 1, f[n]>>]
  <2>1. G[n + 1][n] = G[n][n]
    <3> DEFINE S == {k \in Nat : k <= n => G[n + 1][k] = G[n][k]}
    <3>1. 0 \in S
      BY <1>1, n + 1 \in Nat DEF Unrolled
    <3>2. ASSUME NEW k \in S PROVE k + 1 \in S
      <4> SUFFICES ASSUME k + 1 <= n PROVE G[n + 1][k + 1] = G[n][k + 1]
        OBVIOUS
      <4>1. G[n][k + 1] = F[<<k + 1, G[n][k]>>] /\ G[n + 1][k + 1] = F[<<k + 1, G[n + 1][k]>>]
        BY <1>1, n + 1 \in Nat, k \in 0..(n - 1), k \in 0..((n + 1) - 1) DEF Unrolled
      <4> QED
        BY <4>1
    <3> HIDE DEF S
    <3>3. S = Nat
      BY <3>1, <3>2, SetInduction, S \in SUBSET Nat DEF S
    <3> QED
      BY <3>3 DEF S
  <2>2. G[n + 1][n + 1] = F[<<n + 1, G[n + 1][n]>>]
    BY <1>1, n + 1 \in Nat, n \in 0..((n + 1) - 1) DEF Unrolled
  <2> QED
    BY <2>1, <2>2
<1> QED
  BY <1>2, <1>3 DEF Unfolds

-----------------------------------------------------------------------------
(* The length field *)

(* Division with remainder, the one fact of arithmetic the digits need.    *)
LEMMA Division ==
    ASSUME NEW n \in Nat
    PROVE  /\ n \div Base \in Nat
           /\ n % Base \in 0..(Base - 1)
           /\ n = (n \div Base) * Base + (n % Base)
BY WidthAssumption

(* Quotients divides once more for each digit.                             *)
LEMMA QuotientsDef ==
    ASSUME NEW n \in Nat
    PROVE  /\ Quotients(n) \in [Nat -> Nat]
           /\ Quotients(n)[0] = n
           /\ \A k \in Nat : Quotients(n)[k + 1] = Quotients(n)[k] \div Base
<1> DEFINE F == [p \in Nat \X Nat |-> p[2] \div Base]
           Step(q) == [k \in Nat |-> IF k = 0 THEN n ELSE q[k - 1] \div Base]
<1>1. F \in [Nat \X Nat -> Nat]
  BY Division
<1>2. \A j, k \in Nat : F[<<j, k>>] = k \div Base
  OBVIOUS
<1> HIDE DEF F
<1>3. PICK f : Unfolds(f, Nat, n, F)
  BY <1>1, RecursionExists, Zenon
<1>4. \A k \in Nat : f[k + 1] = f[k] \div Base
  <2>1. \A k \in Nat : f[k] \in Nat /\ f[k + 1] = F[<<k + 1, f[k]>>]
    BY <1>3 DEF Unfolds
  <2> QED
    BY <1>2, <2>1, \A k \in Nat : k + 1 \in Nat
<1>5. f = Step(f)
  <2>1. ASSUME NEW k \in Nat, k # 0 PROVE f[k] = f[k - 1] \div Base
    BY <1>4, <2>1, k - 1 \in Nat, (k - 1) + 1 = k
  <2> QED
    BY <2>1, <1>3 DEF Unfolds
<1>6. PICK q : q = Quotients(n) /\ q = Step(q)
  BY <1>5 DEF Quotients
<1>8. q[0] = n /\ \A k \in Nat : q[k + 1] = q[k] \div Base
  <2>1. q[0] = n
    BY <1>6
  <2>2. ASSUME NEW k \in Nat PROVE q[k + 1] = q[k] \div Base
    BY <1>6, k + 1 \in Nat, k + 1 # 0, (k + 1) - 1 = k
  <2> QED
    BY <2>1, <2>2
<1>7. \A k \in Nat : q[k] \in Nat
  <2> DEFINE S == {k \in Nat : q[k] \in Nat}
  <2>1. 0 \in S /\ \A k \in S : k + 1 \in S
    BY <1>8, Division
  <2> HIDE DEF S
  <2>2. S = Nat
    BY <2>1, SetInduction, S \in SUBSET Nat DEF S
  <2> QED
    BY <2>2 DEF S
<1>9. q \in [Nat -> Nat]
  BY <1>6, <1>7
<1> QED
  BY <1>6, <1>8, <1>9

(* A length that fits its field is read back as it was written: what the   *)
(* first i digits are worth is the quotient by the others.                 *)
THEOREM LengthSurvives ==
    ASSUME NEW n \in Nat, Fits(n)
    PROVE  FromBigEndian(BigEndian(n)) = n
<1> DEFINE q == Quotients(n)
           d == BigEndian(n)
           Step(v) == [i \in 0..LenBytes |-> IF i = 0 THEN 0 ELSE v[i - 1] * Base + d[i]]
           w == [i \in 0..LenBytes |-> q[LenBytes - i]]
<1>1. /\ q \in [Nat -> Nat] /\ q[0] = n /\ q[LenBytes] = 0
      /\ \A k \in Nat : q[k + 1] = q[k] \div Base
  BY QuotientsDef DEF Fits
<1>2. \A i \in 1..LenBytes : d[i] = q[LenBytes - i] % Base
  BY DEF BigEndian
<1> HIDE DEF q, d
<1>3. \A v : v = Step(v) => \A i \in 0..LenBytes : v[i] = q[LenBytes - i]
  <2> SUFFICES ASSUME NEW v, v = Step(v)
               PROVE  \A i \in 0..LenBytes : v[i] = q[LenBytes - i]
    OBVIOUS
  <2> DEFINE S == {i \in Nat : i <= LenBytes => v[i] = q[LenBytes - i]}
  <2>1. 0 \in S
    BY <1>1, WidthAssumption, LenBytes - 0 = LenBytes, 0 \in 0..LenBytes
  <2>2. ASSUME NEW i \in S PROVE i + 1 \in S
    <3> SUFFICES ASSUME i + 1 <= LenBytes PROVE v[i + 1] = q[LenBytes - (i + 1)]
      OBVIOUS
    <3> DEFINE k == LenBytes - (i + 1)
    <3>1. k \in Nat /\ k + 1 = LenBytes - i
      BY WidthAssumption
    <3>2. v[i + 1] = v[i] * Base + d[i + 1]
      BY i + 1 \in 0..LenBytes, i + 1 # 0, (i + 1) - 1 = i
    <3>3. v[i] = q[LenBytes - i] /\ d[i + 1] = q[k] % Base
      BY <1>2, WidthAssumption, i + 1 \in 1..LenBytes
    <3>4. q[k] = q[k + 1] * Base + (q[k] % Base)
      BY <1>1, <3>1, Division
    <3> QED
      BY <3>1, <3>2, <3>3, <3>4
  <2> HIDE DEF S
  <2>3. S = Nat
    BY <2>1, <2>2, SetInduction, S \in SUBSET Nat DEF S
  <2>4. \A i \in 0..LenBytes : i \in S /\ i <= LenBytes
    BY <2>3, WidthAssumption
  <2> QED
    BY <2>4 DEF S
<1>4. w = Step(w)
  <2>1. w[0] = 0
    BY <1>1, WidthAssumption, LenBytes - 0 = LenBytes
  <2>2. ASSUME NEW i \in 1..LenBytes PROVE w[i] = w[i - 1] * Base + d[i]
    <3> DEFINE k == LenBytes - i
    <3>1. k \in Nat /\ k + 1 = LenBytes - (i - 1) /\ i - 1 \in 0..LenBytes /\ i \in 0..LenBytes
      BY WidthAssumption
    <3>2. w[i] = q[k] /\ w[i - 1] = q[k + 1] /\ d[i] = q[k] % Base
      BY <1>2, <3>1
    <3>3. q[k] = q[k + 1] * Base + (q[k] % Base)
      BY <1>1, <3>1, Division
    <3> QED
      BY <3>2, <3>3
  <2> HIDE DEF w
  <2>3. \A i \in 0..LenBytes : i # 0 => i \in 1..LenBytes
    BY WidthAssumption
  <2>4. w = [i \in 0..LenBytes |-> w[i]]
    BY DEF w
  <2> QED
    BY <2>1, <2>2, <2>3, <2>4
<1>5. PICK v : v = Values(d) /\ v = Step(v)
  BY <1>4 DEF Values
<1>6. v[LenBytes] = q[0]
  BY <1>3, <1>5, WidthAssumption, LenBytes - LenBytes = 0, LenBytes \in 0..LenBytes
<1> QED
  BY <1>1, <1>5, <1>6 DEF FromBigEndian, d

(* Any digits are a number.                                                *)
LEMMA FromBigEndianNat ==
    ASSUME NEW d, \A i \in 1..LenBytes : d[i] \in Nat
    PROVE  FromBigEndian(d) \in Nat
<1> DEFINE Step(v) == [i \in 0..LenBytes |-> IF i = 0 THEN 0 ELSE v[i - 1] * Base + d[i]]
           F == [p \in Nat \X Nat |-> p[2] * Base + (IF p[1] \in 1..LenBytes THEN d[p[1]] ELSE 0)]
<1>1. F \in [Nat \X Nat -> Nat]
  BY WidthAssumption
<1>2. \A j, k \in Nat : j \in 1..LenBytes => F[<<j, k>>] = k * Base + d[j]
  OBVIOUS
<1> HIDE DEF F
<1>3. PICK f : Unfolds(f, Nat, 0, F)
  BY <1>1, RecursionExists, 0 \in Nat, Zenon
<1>4. f[0] = 0 /\ \A i \in Nat : f[i] \in Nat /\ f[i + 1] = F[<<i + 1, f[i]>>]
  BY <1>3 DEF Unfolds
<1>5. ASSUME NEW i \in 1..LenBytes PROVE f[i] = f[i - 1] * Base + d[i]
  <2>1. i - 1 \in Nat /\ (i - 1) + 1 = i /\ i \in Nat
    BY WidthAssumption
  <2>2. f[i - 1] \in Nat /\ f[i] = F[<<i, f[i - 1]>>]
    BY <1>4, <2>1
  <2>3. F[<<i, f[i - 1]>>] = f[i - 1] * Base + d[i]
    BY <1>2, <2>1, <2>2
  <2> QED
    BY <2>2, <2>3
<1> DEFINE w == [i \in 0..LenBytes |-> f[i]]
<1>6. \A i \in 1..LenBytes : i - 1 \in 0..LenBytes /\ i \in 0..LenBytes
  BY WidthAssumption
<1>7. \A i \in 0..LenBytes : i # 0 => i \in 1..LenBytes
  BY WidthAssumption
<1>8. \A i \in 0..LenBytes : w[i] = IF i = 0 THEN 0 ELSE w[i - 1] * Base + d[i]
  BY <1>4, <1>5, <1>6, <1>7
<1>9. w = Step(w)
  BY <1>8
<1>10. PICK v : v = Values(d) /\ v = Step(v)
  BY <1>9 DEF Values
<1> DEFINE S == {i \in Nat : i <= LenBytes => v[i] \in Nat}
<1>11. 0 \in S
  <2>1. 0 \in 0..LenBytes
    BY WidthAssumption
  <2>2. v[0] = 0
    BY <1>10, <2>1
  <2> QED
    BY <2>2
<1>12. ASSUME NEW i \in S PROVE i + 1 \in S
  <2> SUFFICES ASSUME i + 1 <= LenBytes PROVE v[i + 1] \in Nat
    OBVIOUS
  <2>1. i + 1 \in 1..LenBytes /\ i + 1 \in 0..LenBytes /\ i + 1 # 0 /\ (i + 1) - 1 = i
    BY WidthAssumption
  <2>2. v[i + 1] = v[i] * Base + d[i + 1]
    BY <1>10, <2>1
  <2>3. v[i] \in Nat /\ d[i + 1] \in Nat
    BY <2>1, WidthAssumption
  <2> QED
    BY <2>2, <2>3, WidthAssumption
<1> HIDE DEF S
<1>13. S = Nat
  BY <1>11, <1>12, SetInduction, S \in SUBSET Nat DEF S
<1>14. v[LenBytes] \in Nat
  BY <1>13, WidthAssumption DEF S
<1> QED
  BY <1>10, <1>14 DEF FromBigEndian

-----------------------------------------------------------------------------
(* Frames *)

Bytes == Seq(Nat)

(* A frame is the flag, the length and the message, one after the other.   *)
LEMMA FrameLayout ==
    ASSUME NEW flag \in Nat, NEW msg \in Bytes
    PROVE  LET frame == ClientFrame(flag, msg)
           IN  /\ frame \in Bytes /\ Len(frame) = HeaderLen + Len(msg)
               /\ frame[1] = flag
               /\ \A i \in 1..LenBytes : frame[1 + i] = BigEndian(Len(msg))[i]
               /\ \A i \in 1..Len(msg) : frame[HeaderLen + i] = msg[i]
<1> DEFINE d == BigEndian(Len(msg))
           h == <<flag>> \o d
<1>1. Len(msg) \in Nat
  BY LenProperties DEF Bytes
<1>2. \A i \in 1..LenBytes : Quotients(Len(msg))[LenBytes - i] % Base \in Nat
  <2> SUFFICES ASSUME NEW i \in 1..LenBytes PROVE Quotients(Len(msg))[LenBytes - i] % Base \in Nat
    OBVIOUS
  <2>1. LenBytes - i \in Nat
    BY WidthAssumption
  <2>2. PICK q \in [Nat -> Nat] : q = Quotients(Len(msg))
    BY <1>1, QuotientsDef
  <2>3. q[LenBytes - i] % Base \in Nat
    BY <2>1, Division, WidthAssumption
  <2> QED
    BY <2>2, <2>3
<1>3. d \in Bytes /\ Len(d) = LenBytes
  BY <1>2, WidthAssumption DEF BigEndian, Bytes
<1> HIDE DEF d
<1>4. h \in Bytes /\ Len(h) = HeaderLen /\ h[1] = flag /\ \A i \in 1..LenBytes : h[1 + i] = d[i]
  <2>1. <<flag>> \in Bytes /\ Len(<<flag>>) = 1 /\ <<flag>>[1] = flag
    BY DEF Bytes
  <2> QED
    BY <1>3, <2>1, ConcatProperties, WidthAssumption DEF HeaderLen, Bytes
<1> HIDE DEF h
<1>5. HeaderLen \in Nat
  BY WidthAssumption DEF HeaderLen
<1>6. /\ h \o msg \in Bytes /\ Len(h \o msg) = HeaderLen + Len(msg)
      /\ \A i \in 1..(HeaderLen + Len(msg)) :
            (h \o msg)[i] = IF i <= HeaderLen THEN h[i] ELSE msg[i - HeaderLen]
  BY <1>4, ConcatProperties DEF Bytes
<1>7. ClientFrame(flag, msg) = h \o msg
  BY DEF ClientFrame, h, d
<1>8. (h \o msg)[1] = flag
  BY <1>1, <1>4, <1>5, <1>6, WidthAssumption DEF HeaderLen
<1>9. \A i \in 1..LenBytes : (h \o msg)[1 + i] = d[i]
  <2> SUFFICES ASSUME NEW i \in 1..LenBytes PROVE (h \o msg)[1 + i] = d[i]
    OBVIOUS
  <2>1. 1 + i \in 1..(HeaderLen + Len(msg)) /\ 1 + i <= HeaderLen
    BY <1>1, WidthAssumption DEF HeaderLen
  <2> QED
    BY <1>4, <1>6, <2>1
<1>10. \A i \in 1..Len(msg) : (h \o msg)[HeaderLen + i] = msg[i]
  <2> SUFFICES ASSUME NEW i \in 1..Len(msg) PROVE (h \o msg)[HeaderLen + i] = msg[i]
    OBVIOUS
  <2>1. /\ HeaderLen + i \in 1..(HeaderLen + Len(msg)) /\ ~ (HeaderLen + i <= HeaderLen)
        /\ (HeaderLen + i) - HeaderLen = i
    BY <1>1, <1>5
  <2> QED
    BY <1>6, <2>1
<1> QED
  BY <1>6, <1>7, <1>8, <1>9, <1>10 DEF d

(* The server's frames are those of a client that does not compress.       *)
LEMMA ServerFrame ==
    ASSUME NEW msg
    PROVE  EncodeGrpcFrame(msg) = ClientFrame(0, msg)
BY DEF EncodeGrpcFrame, ClientFrame

(* try_decode_one finds the message at the front of a buffer that goes on  *)
(* as the frame does, as far as it goes.                                   *)
LEMMA Unframe ==
    ASSUME NEW b \in Bytes, NEW msg \in Bytes, Fits(Len(msg)), Len(b) >= HeaderLen,
           \A j \in 1..(HeaderLen + Len(msg)) : j <= Len(b) => b[j] = EncodeGrpcFrame(msg)[j]
    PROVE  /\ ~Compressed(b) /\ Length(b) = Len(msg)
           /\ Len(b) >= HeaderLen + Len(msg)
                => SubSeq(b, HeaderLen + 1, HeaderLen + Len(msg)) = msg
<1> DEFINE frame == EncodeGrpcFrame(msg)
           d == BigEndian(Len(msg))
<1>1. /\ Len(msg) \in Nat /\ Len(b) \in Nat /\ HeaderLen \in Nat /\ HeaderLen = 1 + LenBytes
      /\ \A j \in 1..Len(b) : b[j] \in Nat
  BY LenProperties, ElementOfSeq, WidthAssumption DEF Bytes, HeaderLen
<1>2. /\ frame[1] = 0 /\ \A i \in 1..LenBytes : frame[1 + i] = d[i]
      /\ \A i \in 1..Len(msg) : frame[HeaderLen + i] = msg[i]
  <2>1. frame = ClientFrame(0, msg)
    BY ServerFrame
  <2>2. /\ ClientFrame(0, msg)[1] = 0
        /\ \A i \in 1..LenBytes : ClientFrame(0, msg)[1 + i] = d[i]
        /\ \A i \in 1..Len(msg) : ClientFrame(0, msg)[HeaderLen + i] = msg[i]
    BY FrameLayout, 0 \in Nat, Zenon
  <2> QED
    BY <2>1, <2>2, Zenon
<1> HIDE DEF frame
<1>3. ~Compressed(b)
  BY <1>1, <1>2, WidthAssumption DEF Compressed, frame
<1>4. SubSeq(b, 2, HeaderLen) = d
  <2>1. \A i \in 1..LenBytes : b[1 + i] = d[i]
    <3> SUFFICES ASSUME NEW i \in 1..LenBytes PROVE b[1 + i] = d[i]
      OBVIOUS
    <3>1. 1 + i \in 1..(HeaderLen + Len(msg)) /\ 1 + i <= Len(b)
      BY <1>1, WidthAssumption
    <3> QED
      BY <1>2, <3>1 DEF frame
  <2>2. d = [i \in 1..LenBytes |-> d[i]]
    BY DEF BigEndian
  <2> HIDE DEF d
  <2>3. SubSeq(b, 2, HeaderLen) = [i \in 1..LenBytes |-> b[1 + i]]
    BY <1>1, WidthAssumption
  <2> QED
    BY <2>1, <2>2, <2>3
<1>5. Length(b) = Len(msg)
  BY <1>1, <1>4, LengthSurvives DEF Length
<1>6. ASSUME Len(b) >= HeaderLen + Len(msg)
      PROVE  SubSeq(b, HeaderLen + 1, HeaderLen + Len(msg)) = msg
  <2> DEFINE s == SubSeq(b, HeaderLen + 1, HeaderLen + Len(msg))
  <2>1. \A i \in (HeaderLen + 1)..(HeaderLen + Len(msg)) : b[i] \in Nat
    BY <1>1, <1>6
  <2>2. /\ s \in Bytes /\ Len(s) = Len(msg)
        /\ \A i \in 1..Len(msg) : s[i] = b[HeaderLen + i]
    <3>1. /\ HeaderLen + 1 \in Int /\ HeaderLen + Len(msg) \in Int
      BY <1>1
    <3>2. /\ s \in Seq(Nat)
          /\ Len(s) = IF HeaderLen + 1 <= HeaderLen + Len(msg)
                        THEN (HeaderLen + Len(msg)) - (HeaderLen + 1) + 1 ELSE 0
          /\ \A i \in 1..((HeaderLen + Len(msg)) - (HeaderLen + 1) + 1) : s[i] = b[(HeaderLen + 1) + i - 1]
      BY <2>1, <3>1, SubSeqProperties
    <3> HIDE DEF s
    <3>3. (HeaderLen + Len(msg)) - (HeaderLen + 1) + 1 = Len(msg)
      BY <1>1
    <3>4. Len(s) = Len(msg)
      BY <1>1, <3>2, <3>3
    <3>5. \A i \in 1..Len(msg) : s[i] = b[HeaderLen + i]
      <4> SUFFICES ASSUME NEW i \in 1..Len(msg) PROVE s[i] = b[HeaderLen + i]
        OBVIOUS
      <4>1. (HeaderLen + 1) + i - 1 = HeaderLen + i
        BY <1>1
      <4> QED
        BY <3>2, <3>3, <4>1
    <3> QED
      BY <3>2, <3>4, <3>5 DEF Bytes
  <2> HIDE DEF s
  <2>3. \A i \in 1..Len(msg) : b[HeaderLen + i] = msg[i]
    <3> SUFFICES ASSUME NEW i \in 1..Len(msg) PROVE b[HeaderLen + i] = msg[i]
      OBVIOUS
    <3>1. HeaderLen + i \in 1..(HeaderLen + Len(msg)) /\ HeaderLen + i <= Len(b)
      BY <1>1, <1>6
    <3> QED
      BY <1>2, <3>1 DEF frame
  <2>4. s = msg
    BY <2>2, <2>3, SeqEqual DEF Bytes
  <2> QED
    BY <2>4 DEF s
<1> QED
  BY <1>3, <1>5, <1>6

(* A whole message and what is behind it are byte sequences, whatever the  *)
(* buffer holds.                                                           *)
LEMMA CutTypes ==
    ASSUME NEW b \in Bytes, Whole(b)
    PROVE  /\ Length(b) \in Nat
           /\ SubSeq(b, HeaderLen + 1, HeaderLen + Length(b)) \in Bytes
           /\ SubSeq(b, HeaderLen + Length(b) + 1, Len(b)) \in Bytes
<1>1. Len(b) \in Nat /\ HeaderLen \in Nat /\ HeaderLen = 1 + LenBytes /\ LenBytes \in Nat
  BY LenProperties, WidthAssumption DEF Bytes, HeaderLen
<1>2. \A i \in 1..Len(b) : b[i] \in Nat
  BY ElementOfSeq DEF Bytes
<1>3. Len(b) >= HeaderLen /\ Len(b) >= HeaderLen + Length(b)
  BY DEF Whole
<1>4. Length(b) \in Nat
  <2>1. SubSeq(b, 2, HeaderLen) = [i \in 1..LenBytes |-> b[1 + i]]
    BY <1>1
  <2>2. \A i \in 1..LenBytes : 1 + i \in 1..Len(b)
    BY <1>1, <1>3
  <2>3. \A i \in 1..LenBytes : SubSeq(b, 2, HeaderLen)[i] \in Nat
    BY <1>2, <2>1, <2>2
  <2> QED
    BY <2>3, FromBigEndianNat DEF Length
<1>5. PICK l \in Nat, h \in Nat, k \in Nat : l = Length(b) /\ h = HeaderLen /\ k = Len(b)
  BY <1>1, <1>4
<1>6. k >= h + l
  BY <1>3, <1>5
<1>7. \A i \in (h + 1)..(h + l) : i \in 1..k
  BY <1>6
<1>8. \A i \in (h + l + 1)..k : i \in 1..k
  OBVIOUS
<1>9. SubSeq(b, h + 1, h + l) \in Seq(Nat) /\ SubSeq(b, h + l + 1, k) \in Seq(Nat)
  BY <1>2, <1>5, <1>7, <1>8, SubSeqProperties
<1> QED
  BY <1>4, <1>5, <1>9 DEF Bytes

-----------------------------------------------------------------------------
(* Pieces of a stream *)

\* r is what the stream b has behind its first p bytes, as far as r goes.
Reads(b, p, r) == p + Len(r) <= Len(b) /\ \A j \in 1..Len(r) : r[j] = b[p + j]

(* Sending more does not change what was sent.                             *)
LEMMA ReadsMore ==
    ASSUME NEW b \in Bytes, NEW p \in Nat, NEW r \in Bytes, NEW f \in Bytes, Reads(b, p, r)
    PROVE  Reads(b \o f, p, r)
<1>1. Len(b) \in Nat /\ Len(r) \in Nat /\ Len(f) \in Nat
  BY LenProperties DEF Bytes
<1>2. /\ Len(b \o f) = Len(b) + Len(f)
      /\ \A i \in 1..(Len(b) + Len(f)) : i <= Len(b) => (b \o f)[i] = b[i]
  BY ConcatProperties DEF Bytes
<1>3. \A j \in 1..Len(r) : p + j \in 1..(Len(b) + Len(f)) /\ p + j <= Len(b)
  BY <1>1 DEF Reads
<1> QED
  BY <1>1, <1>2, <1>3 DEF Reads

(* Two pieces of which the second goes on where the first ends are one.    *)
LEMMA ReadsJoin ==
    ASSUME NEW b \in Bytes, NEW p \in Nat, NEW r \in Bytes, NEW s \in Bytes,
           Reads(b, p, r), Reads(b, p + Len(r), s)
    PROVE  Reads(b, p, r \o s)
<1>1. Len(b) \in Nat /\ Len(r) \in Nat /\ Len(s) \in Nat
  BY LenProperties DEF Bytes
<1>2. /\ Len(r \o s) = Len(r) + Len(s)
      /\ \A i \in 1..(Len(r) + Len(s)) : (r \o s)[i] = IF i <= Len(r) THEN r[i] ELSE s[i - Len(r)]
  BY ConcatProperties DEF Bytes
<1>3. ASSUME NEW j \in 1..(Len(r) + Len(s)) PROVE (r \o s)[j] = b[p + j]
  <2>1. CASE j <= Len(r)
    BY <1>1, <1>2, <2>1 DEF Reads
  <2>2. CASE j > Len(r)
    <3>1. j - Len(r) \in 1..Len(s) /\ (p + Len(r)) + (j - Len(r)) = p + j
      BY <1>1, <2>2
    <3> QED
      BY <1>1, <1>2, <2>2, <3>1 DEF Reads
  <2> QED
    BY <1>1, <2>1, <2>2
<1> QED
  BY <1>1, <1>2, <1>3 DEF Reads

(* What was sent last is at the end.                                       *)
LEMMA ReadsLast ==
    ASSUME NEW b \in Bytes, NEW f \in Bytes
    PROVE  Reads(b \o f, Len(b), f)
<1>1. Len(b) \in Nat /\ Len(f) \in Nat
  BY LenProperties DEF Bytes
<1>2. /\ Len(b \o f) = Len(b) + Len(f)
      /\ \A i \in 1..(Len(b) + Len(f)) : (b \o f)[i] = IF i <= Len(b) THEN b[i] ELSE f[i - Len(b)]
  BY ConcatProperties DEF Bytes
<1>3. \A j \in 1..Len(f) : /\ Len(b) + j \in 1..(Len(b) + Len(f)) /\ ~ (Len(b) + j <= Len(b))
                           /\ (Len(b) + j) - Len(b) = j
  BY <1>1
<1> QED
  BY <1>1, <1>2, <1>3 DEF Reads

(* A piece cut in two is two pieces.                                       *)
LEMMA ReadsCut ==
    ASSUME NEW b \in Bytes, NEW p \in Nat, NEW r \in Bytes, NEW n \in 0..Len(r), Reads(b, p, r)
    PROVE  /\ SubSeq(r, 1, n) \in Bytes /\ Len(SubSeq(r, 1, n)) = n
           /\ SubSeq(r, n + 1, Len(r)) \in Bytes /\ Len(SubSeq(r, n + 1, Len(r))) = Len(r) - n
           /\ Reads(b, p, SubSeq(r, 1, n)) /\ Reads(b, p + n, SubSeq(r, n + 1, Len(r)))
<1>1. Len(b) \in Nat /\ Len(r) \in Nat /\ n \in Nat /\ n <= Len(r)
  BY LenProperties DEF Bytes
<1>2. \A i \in 1..Len(r) : r[i] \in Nat
  BY ElementOfSeq DEF Bytes
<1> DEFINE s == SubSeq(r, 1, n)
           t == SubSeq(r, n + 1, Len(r))
<1>3. s \in Bytes /\ Len(s) = n /\ \A i \in 1..n : s[i] = r[i]
  <2>1. /\ s \in Seq(Nat) /\ Len(s) = IF 1 <= n THEN n - 1 + 1 ELSE 0
        /\ \A i \in 1..(n - 1 + 1) : s[i] = r[1 + i - 1]
    BY <1>1, <1>2, SubSeqProperties
  <2> HIDE DEF s
  <2>2. n - 1 + 1 = n /\ \A i \in 1..n : 1 + i - 1 = i
    BY <1>1
  <2> QED
    BY <1>1, <2>1, <2>2 DEF Bytes
<1>4. t \in Bytes /\ Len(t) = Len(r) - n /\ \A i \in 1..(Len(r) - n) : t[i] = r[n + i]
  <2>1. /\ t \in Seq(Nat) /\ Len(t) = IF n + 1 <= Len(r) THEN Len(r) - (n + 1) + 1 ELSE 0
        /\ \A i \in 1..(Len(r) - (n + 1) + 1) : t[i] = r[(n + 1) + i - 1]
    BY <1>1, <1>2, SubSeqProperties
  <2> HIDE DEF t
  <2>2. Len(r) - (n + 1) + 1 = Len(r) - n
    BY <1>1
  <2>3. \A i \in 1..(Len(r) - n) : (n + 1) + i - 1 = n + i
    BY <1>1
  <2>4. \A i \in 1..(Len(r) - n) : t[i] = r[n + i]
    BY <2>1, <2>2, <2>3
  <2>5. Len(t) = Len(r) - n
    <3>1. Len(t) = IF n + 1 <= Len(r) THEN Len(r) - (n + 1) + 1 ELSE 0
      BY <2>1
    <3>2. CASE n + 1 <= Len(r)
      BY <2>2, <3>1, <3>2
    <3>3. CASE ~ (n + 1 <= Len(r))
      BY <1>1, <3>1, <3>3
    <3> QED
      BY <3>2, <3>3
  <2> QED
    BY <2>1, <2>4, <2>5 DEF Bytes
<1> HIDE DEF s, t
<1>5. Reads(b, p, s)
  <2>1. p + Len(r) <= Len(b) /\ \A j \in 1..n : r[j] = b[p + j]
    BY <1>1 DEF Reads
  <2>2. p + Len(s) <= Len(b)
    BY <1>1, <1>3, <2>1
  <2>3. \A j \in 1..Len(s) : s[j] = b[p + j]
    BY <1>3, <2>1
  <2> QED
    BY <2>2, <2>3 DEF Reads
<1>6. Reads(b, p + n, t)
  <2>1. ASSUME NEW j \in 1..(Len(r) - n) PROVE t[j] = b[(p + n) + j]
    <3>1. n + j \in 1..Len(r) /\ p + (n + j) = (p + n) + j
      BY <1>1
    <3> QED
      BY <1>4, <3>1 DEF Reads
  <2> QED
    BY <1>1, <1>4, <2>1 DEF Reads
<1> QED
  BY <1>3, <1>4, <1>5, <1>6 DEF s, t

-----------------------------------------------------------------------------
(* The inductive invariant *)

FrameTypes ==
    /\ direction \in {"request", "response"}
    /\ sent \in Seq(Bytes) /\ got \in Seq(Bytes)
    /\ wire \in Bytes /\ buf \in Bytes
    /\ sender \in {"open", "ended", "cut"}
    /\ pc \in {"reading", "decoding", "done"}
    /\ spoilt = -1 \/ spoilt \in 0..Len(sent)

\* The i-th frame lies in b behind the one before it.
Lies(b, e, i) ==
    /\ Fits(Len(sent[i]))
    /\ e[i] = e[i - 1] + (HeaderLen + Len(sent[i]))
    /\ Reads(b, e[i - 1], EncodeGrpcFrame(sent[i]))

\* b is all that was ever sent and e where its frames end: what the receiver holds goes
\* on where the last message it decoded ended, and what is under way goes on there.
Laid(b, e) ==
    /\ \A i \in Nat : 0 < i /\ i <= Covered => Lies(b, e, i)
    /\ spoilt = -1 => e[Len(sent)] = Len(b)
    /\ Reads(b, e[Len(got)], buf)
    /\ Reads(b, e[Len(got)] + Len(buf), wire)
    /\ sender = "open" => e[Len(got)] + Len(buf) + Len(wire) = Len(b)

\* No frame that the format does not cover has come to the front yet.
Aligned == spoilt = -1 \/ Len(got) < spoilt

StreamLaid == Aligned => Len(got) <= Len(sent) /\ \E b \in Bytes, e \in [Nat -> Nat] : Laid(b, e)
GotIsSent == \A i \in 1..Len(got) : i <= Covered => got[i] = sent[i]

StreamInv == FrameTypes /\ StreamLaid /\ GotIsSent

(* The sizes that the proofs below compute with.                           *)
LEMMA StreamSizes ==
    ASSUME FrameTypes
    PROVE  /\ Len(sent) \in Nat /\ Len(got) \in Nat /\ Len(wire) \in Nat /\ Len(buf) \in Nat
           /\ Covered \in Nat /\ Covered <= Len(sent) /\ HeaderLen \in Nat /\ HeaderLen > 0
           /\ \A i \in 1..Len(sent) : sent[i] \in Bytes /\ Len(sent[i]) \in Nat
<1>1. Len(sent) \in Nat /\ Len(got) \in Nat /\ Len(wire) \in Nat /\ Len(buf) \in Nat
  BY LenProperties DEF FrameTypes, Bytes
<1>2. \A i \in 1..Len(sent) : sent[i] \in Bytes /\ Len(sent[i]) \in Nat
  BY ElementOfSeq, LenProperties DEF FrameTypes, Bytes
<1>3. HeaderLen \in Nat /\ HeaderLen > 0
  BY WidthAssumption DEF HeaderLen
<1>4. Covered \in Nat /\ Covered <= Len(sent)
  BY <1>1 DEF FrameTypes, Covered
<1> QED
  BY <1>1, <1>2, <1>3, <1>4

(* At first nothing was sent.                                              *)
LEMMA StreamStarts == Init => StreamInv
<1> SUFFICES ASSUME Init PROVE StreamInv
  OBVIOUS
<1>1. FrameTypes
  BY DEF Init, FrameTypes, Bytes
<1>2. Len(sent) = 0 /\ Len(got) = 0 /\ Len(buf) = 0 /\ Len(wire) = 0 /\ Covered = 0
  BY DEF Init, Covered
<1>3. Laid(<<>>, [i \in Nat |-> 0])
  <2>1. Len(<<>>) = 0
    OBVIOUS
  <2> QED
    BY <1>2, <2>1 DEF Laid, Reads
<1>4. <<>> \in Bytes /\ [i \in Nat |-> 0] \in [Nat -> Nat]
  BY DEF Bytes
<1>5. StreamLaid
  BY <1>2, <1>3, <1>4 DEF StreamLaid
<1>6. GotIsSent
  BY <1>2 DEF GotIsSent
<1> QED
  BY <1>1, <1>5, <1>6 DEF StreamInv

(* The message at the front of the buffer is the next one that was sent.   *)
LEMMA NextMessage ==
    ASSUME StreamInv, Aligned, Len(buf) >= HeaderLen
    PROVE  /\ Len(got) + 1 <= Covered /\ ~Compressed(buf)
           /\ Length(buf) = Len(sent[Len(got) + 1])
           /\ Len(buf) >= HeaderLen + Length(buf)
                => SubSeq(buf, HeaderLen + 1, HeaderLen + Length(buf)) = sent[Len(got) + 1]
<1> DEFINE n == Len(got) + 1
<1>1. Len(got) \in Nat /\ Len(buf) \in Nat /\ HeaderLen \in Nat /\ HeaderLen > 0
  BY StreamSizes DEF StreamInv
<1>12. Len(sent) \in Nat /\ Covered \in Nat /\ Covered <= Len(sent)
  BY StreamSizes DEF StreamInv
<1>13. buf \in Bytes /\ \A i \in 1..Len(sent) : sent[i] \in Bytes /\ Len(sent[i]) \in Nat
  BY StreamSizes DEF StreamInv, FrameTypes
<1>2. Len(got) <= Len(sent)
  BY DEF StreamInv, StreamLaid
<1>3. PICK b \in Bytes, e \in [Nat -> Nat] : Laid(b, e)
  BY DEF StreamInv, StreamLaid
<1>4. Len(b) \in Nat /\ e[Len(got)] \in Nat
  <2>1. Len(b) \in Nat
    BY LenProperties DEF Bytes
  <2> QED
    BY <1>1, <2>1
<1>5. e[Len(got)] + Len(buf) <= Len(b)
  BY <1>3 DEF Laid, Reads
<1>14. PICK g \in Nat, k \in Nat, c \in Nat : g = Len(got) /\ k = Len(sent) /\ c = Covered
  BY <1>1, <1>12
<1>15. c <= k
  BY <1>12, <1>14
<1>6. n \in Nat /\ 0 < n /\ n <= Covered
  <2>1. CASE spoilt = -1
    <3>1. c = k
      BY <1>14, <2>1 DEF Covered
    <3>2. g # k
      <4>1. e[k] = Len(b)
        BY <1>3, <1>14, <2>1 DEF Laid
      <4>2. e[g] # Len(b)
        BY <1>1, <1>4, <1>5, <1>14
      <4> QED
        BY <4>1, <4>2
    <3>3. g <= k
      BY <1>2, <1>14
    <3>4. g + 1 \in Nat /\ 0 < g + 1 /\ g + 1 <= c
      BY <3>1, <3>2, <3>3
    <3> QED
      BY <1>14, <3>4
  <2>2. CASE spoilt # -1
    <3>1. c = spoilt /\ g < spoilt
      BY <1>14, <2>2 DEF Aligned, Covered
    <3>2. g + 1 \in Nat /\ 0 < g + 1 /\ g + 1 <= c
      BY <3>1
    <3> QED
      BY <1>14, <3>2
  <2> QED
    BY <2>1, <2>2
<1>7. n \in 1..Len(sent) /\ n - 1 = Len(got)
  <2>1. g + 1 <= c
    BY <1>6, <1>14
  <2>2. g + 1 \in 1..k /\ (g + 1) - 1 = g
    BY <1>15, <2>1
  <2> QED
    BY <1>14, <2>2
<1>8. Lies(b, e, n)
  BY <1>3, <1>6 DEF Laid
<1>9. \A j \in 1..(HeaderLen + Len(sent[n])) : j <= Len(buf) => buf[j] = EncodeGrpcFrame(sent[n])[j]
  <2> SUFFICES ASSUME NEW j \in 1..(HeaderLen + Len(sent[n])), j <= Len(buf)
               PROVE  buf[j] = EncodeGrpcFrame(sent[n])[j]
    OBVIOUS
  <2>1. buf[j] = b[e[Len(got)] + j]
    BY <1>1, <1>3 DEF Laid, Reads
  <2>2. Reads(b, e[n - 1], EncodeGrpcFrame(sent[n])) /\ j \in 1..Len(EncodeGrpcFrame(sent[n]))
    <3>1. Len(EncodeGrpcFrame(sent[n])) = HeaderLen + Len(sent[n])
      BY <1>7, <1>13, FrameLayout, ServerFrame, 0 \in Nat
    <3> QED
      BY <1>8, <3>1 DEF Lies
  <2> QED
    BY <1>7, <2>1, <2>2 DEF Reads
<1>10. sent[n] \in Bytes /\ Fits(Len(sent[n]))
  BY <1>7, <1>8, <1>13 DEF Lies
<1> HIDE DEF n
<1>11. /\ ~Compressed(buf) /\ Length(buf) = Len(sent[n])
       /\ Len(buf) >= HeaderLen + Len(sent[n])
            => SubSeq(buf, HeaderLen + 1, HeaderLen + Len(sent[n])) = sent[n]
  BY <1>9, <1>10, <1>13, Unframe
<1> QED
  BY <1>6, <1>11 DEF n

(* Sending lays one more frame behind the others; the format covers it if  *)
(* it covered all before it, it is not compressed and not too long.        *)
LEMMA SendKeepsStream ==
    ASSUME StreamInv, Send
    PROVE  StreamInv'
<1>1. Len(got) \in Nat /\ Len(sent) \in Nat /\ Len(buf) \in Nat /\ Len(wire) \in Nat /\ HeaderLen \in Nat
  BY StreamSizes DEF StreamInv
<1>2. Covered \in Nat /\ Covered <= Len(sent)
  BY StreamSizes DEF StreamInv
<1>3. \A i \in Nat : 0 < i /\ i <= Len(sent) => sent[i] \in Bytes /\ Len(sent[i]) \in Nat
  BY StreamSizes DEF StreamInv
<1>4. sent \in Seq(Bytes) /\ wire \in Bytes /\ buf \in Bytes /\ FrameTypes /\ StreamLaid /\ GotIsSent
  BY DEF StreamInv, FrameTypes
<1>5. PICK msg \in Messages, flag \in {0, 1} :
        /\ sent' = Append(sent, msg)
        /\ wire' = wire \o ClientFrame(flag, msg)
        /\ spoilt' = IF spoilt = -1 /\ (flag # 0 \/ ~Fits(Len(msg))) THEN Len(sent) ELSE spoilt
  BY ServerFrame DEF Send
<1>6. sender = "open" /\ direction' = direction /\ sender' = sender /\ buf' = buf /\ pc' = pc /\ got' = got
  BY DEF Send, pumpVars
<1>7. msg \in Bytes /\ Len(msg) \in Nat
  BY BytesAssumption, LenProperties DEF Bytes
<1>8. PICK frame \in Bytes : frame = ClientFrame(flag, msg) /\ Len(frame) = HeaderLen + Len(msg)
  BY <1>7, FrameLayout, flag \in Nat
<1>9. Len(frame) \in Nat
  BY <1>1, <1>7, <1>8
<1>10. sent' \in Seq(Bytes) /\ Len(sent') = Len(sent) + 1 /\ sent'[Len(sent) + 1] = msg
  BY <1>4, <1>5, <1>7, AppendProperties
<1>11. \A i \in Nat : 0 < i /\ i <= Len(sent) => sent'[i] = sent[i]
  BY <1>1, <1>4, <1>5, <1>7, AppendProperties
<1>12. wire' \in Bytes /\ Len(wire') = Len(wire) + Len(frame)
  BY <1>4, <1>5, <1>8, ConcatProperties DEF Bytes
<1>18. PICK k \in Nat, c \in Nat : k = Len(sent) /\ c = Covered
  BY <1>1, <1>2
<1>19. c <= k
  BY <1>2, <1>18
<1>13. FrameTypes'
  <2>1. spoilt' = -1 \/ spoilt' \in 0..Len(sent')
    BY <1>1, <1>4, <1>5, <1>10 DEF FrameTypes
  <2> QED
    BY <1>4, <1>6, <1>10, <1>12, <2>1 DEF FrameTypes
<1>14. spoilt # -1 => spoilt' = spoilt /\ Covered' = Covered
  BY <1>5 DEF Covered
<1>15. spoilt = -1 => Covered = Len(sent) /\ Len(got) <= Len(sent)
  BY <1>4 DEF Covered, StreamLaid, Aligned
<1>16. GotIsSent'
  <2> SUFFICES ASSUME NEW i \in 1..Len(got), i <= Covered'
               PROVE  got[i] = sent'[i]
    BY <1>6 DEF GotIsSent
  <2>1. i \in Nat /\ 0 < i /\ i <= Len(got)
    BY <1>1
  <2>2. i <= Covered
    BY <1>1, <1>14, <1>15, <2>1
  <2>3. i <= Len(sent)
    BY <1>1, <1>2, <2>1, <2>2
  <2>4. got[i] = sent[i]
    BY <1>4, <2>2 DEF GotIsSent
  <2> QED
    BY <1>11, <2>1, <2>3, <2>4
<1>17. StreamLaid'
  <2> SUFFICES ASSUME Aligned'
               PROVE  (Len(got) <= Len(sent) /\ \E b \in Bytes, e \in [Nat -> Nat] : Laid(b, e))'
    BY DEF StreamLaid
  <2>1. Aligned
    BY <1>5, <1>6 DEF Aligned
  <2>2. Len(got) <= Len(sent)
    BY <1>4, <2>1 DEF StreamLaid
  <2>3. PICK b \in Bytes, e \in [Nat -> Nat] : Laid(b, e)
    BY <1>4, <2>1 DEF StreamLaid
  <2>4. Len(b) \in Nat
    BY LenProperties DEF Bytes
  <2>5. PICK b2 \in Bytes : b2 = b \o frame /\ Len(b2) = Len(b) + Len(frame)
    BY ConcatProperties DEF Bytes
  <2>6. Len(b2) \in Nat
    BY <1>9, <2>4, <2>5
  <2>7. PICK e2 \in [Nat -> Nat] : e2 = [e EXCEPT ![Len(sent) + 1] = Len(b2)]
    BY <1>1, <2>6
  <2>8. e2[Len(sent) + 1] = Len(b2) /\ \A i \in Nat : i <= Len(sent) => e2[i] = e[i]
    BY <1>1, <2>7
  <2>9. ASSUME NEW i \in Nat, 0 < i, i <= Covered' PROVE Lies(b2, e2, i)'
    <3>1. CASE i <= Covered
      <4>1. i <= Len(sent) /\ i - 1 \in Nat /\ i - 1 <= Len(sent)
        <5>1. i <= k
          BY <1>18, <1>19, <2>9, <3>1
        <5>2. i - 1 \in Nat /\ i - 1 <= k
          BY <2>9, <5>1
        <5> QED
          BY <1>18, <5>1, <5>2
      <4>2. sent'[i] = sent[i] /\ sent[i] \in Bytes
        BY <1>3, <1>11, <2>9, <4>1
      <4>3. e2[i] = e[i] /\ e2[i - 1] = e[i - 1] /\ e[i - 1] \in Nat
        BY <2>8, <4>1
      <4>4. Lies(b, e, i)
        BY <2>3, <2>9, <3>1 DEF Laid
      <4>5. EncodeGrpcFrame(sent[i]) \in Bytes
        BY <4>2, FrameLayout, ServerFrame, 0 \in Nat
      <4>6. Reads(b2, e[i - 1], EncodeGrpcFrame(sent[i]))
        BY <2>5, <4>3, <4>4, <4>5, ReadsMore DEF Lies
      <4> QED
        BY <4>2, <4>3, <4>4, <4>6 DEF Lies
    <3>2. CASE ~ (i <= Covered)
      <4>1. spoilt = -1
        BY <1>14, <2>9, <3>2
      <4>2. spoilt' = -1
        BY <1>5, <1>15, <2>9, <3>2, <4>1 DEF Covered
      <4>3. i = Len(sent) + 1
        <5>1. Covered' = k + 1 /\ c = k
          BY <1>10, <1>15, <1>18, <4>1, <4>2 DEF Covered
        <5>2. i <= k + 1 /\ ~ (i <= k)
          BY <1>18, <2>9, <3>2, <5>1
        <5>3. i = k + 1
          BY <5>2
        <5> QED
          BY <1>18, <5>3
      <4>4. flag = 0 /\ Fits(Len(msg))
        BY <1>1, <1>5, <4>1, <4>2
      <4>5. frame = EncodeGrpcFrame(msg)
        BY <1>8, <4>4, ServerFrame
      <4>6. sent'[i] = msg /\ e2[i] = Len(b2)
        BY <1>10, <2>8, <4>3
      <4>7. e2[i - 1] = Len(b)
        <5>1. i - 1 = k
          BY <1>18, <4>3
        <5>2. e[k] = Len(b)
          BY <1>18, <2>3, <4>1 DEF Laid
        <5>3. e2[k] = e[k]
          <6>1. k <= k
            OBVIOUS
          <6> QED
            BY <1>18, <2>8, <6>1
        <5> QED
          BY <5>1, <5>2, <5>3
      <4>8. Reads(b2, Len(b), EncodeGrpcFrame(msg))
        BY <2>5, <4>5, ReadsLast
      <4> QED
        BY <1>8, <2>5, <4>4, <4>6, <4>7, <4>8 DEF Lies
    <3> QED
      BY <3>1, <3>2
  <2>10. PICK p \in Nat : p = e[Len(got)]
    BY <1>1
  <2>11. e2[Len(got)] = p
    BY <1>1, <2>2, <2>8, <2>10
  <2>12. PICK held \in Nat : held = Len(buf)
    BY <1>1
  <2>13. PICK q \in Nat : q = p + held
    OBVIOUS
  <2>14. Reads(b, p, buf) /\ Reads(b, q, wire) /\ q + Len(wire) = Len(b)
    BY <1>6, <2>3, <2>10, <2>12, <2>13 DEF Laid
  <2>15. Reads(b2, p, buf) /\ Reads(b2, q, wire)
    BY <1>4, <2>5, <2>14, ReadsMore
  <2>16. Reads(b2, q + Len(wire), frame)
    BY <2>5, <2>14, ReadsLast
  <2>17. Reads(b2, q, wire')
    BY <1>4, <1>5, <1>8, <2>15, <2>16, ReadsJoin
  <2>18. q + Len(wire') = Len(b2)
    <3>1. PICK w \in Nat, f \in Nat, l \in Nat : w = Len(wire) /\ f = Len(frame) /\ l = Len(b)
      BY <1>1, <1>9, <2>4
    <3>2. Len(wire') = w + f /\ Len(b2) = l + f /\ q + w = l
      BY <1>12, <2>5, <2>14, <3>1
    <3>3. q + (w + f) = l + f
      BY <3>2
    <3> QED
      BY <3>2, <3>3
  <2>19. spoilt' = -1 => e2[Len(sent')] = Len(b2)
    BY <1>10, <2>8
  <2>20. Laid(b2, e2)'
    BY <1>6, <2>9, <2>11, <2>12, <2>13, <2>15, <2>17, <2>18, <2>19 DEF Laid
  <2>21. (Len(got) <= Len(sent))'
    BY <1>1, <1>6, <1>10, <2>2
  <2> QED
    BY <2>20, <2>21
<1> QED
  BY <1>13, <1>16, <1>17 DEF StreamInv

(* Moving bytes between the connection and the buffer, or losing those at  *)
(* the end, keeps the stream in place.                                     *)
LEMMA StreamMoves ==
    ASSUME StreamInv, UNCHANGED <<direction, sent, spoilt, got>>,
           sender' \in {"open", "ended", "cut"}, pc' \in {"reading", "decoding", "done"},
           wire' \in Bytes, buf' \in Bytes, sender' = "open" => sender = "open",
           sender' = "open" => Len(buf') + Len(wire') = Len(buf) + Len(wire),
           Aligned => \A b \in Bytes, p \in Nat :
                        Reads(b, p, buf) /\ Reads(b, p + Len(buf), wire)
                          => Reads(b, p, buf') /\ Reads(b, p + Len(buf'), wire')
    PROVE  StreamInv'
<1>1. FrameTypes' /\ GotIsSent'
  BY DEF StreamInv, FrameTypes, GotIsSent, Covered
<1>2. ASSUME Aligned'
      PROVE  (Len(got) <= Len(sent) /\ \E b \in Bytes, e \in [Nat -> Nat] : Laid(b, e))'
  <2>1. Aligned
    BY <1>2 DEF Aligned
  <2>2. PICK b \in Bytes, e \in [Nat -> Nat] : Laid(b, e)
    BY <2>1 DEF StreamInv, StreamLaid
  <2>3. PICK p \in Nat : p = e[Len(got)]
    BY StreamSizes DEF StreamInv
  <2>4. Reads(b, p, buf) /\ Reads(b, p + Len(buf), wire)
    BY <2>2, <2>3 DEF Laid
  <2>5. Reads(b, p, buf') /\ Reads(b, p + Len(buf'), wire')
    BY <2>1, <2>4
  <2>6. sender' = "open" => p + Len(buf') + Len(wire') = Len(b)
    <3> SUFFICES ASSUME sender' = "open" PROVE p + Len(buf') + Len(wire') = Len(b)
      OBVIOUS
    <3>1. p + Len(buf) + Len(wire) = Len(b)
      BY <2>2, <2>3 DEF Laid
    <3>2. PICK h \in Nat, w \in Nat : h = Len(buf) /\ w = Len(wire)
      BY StreamSizes DEF StreamInv
    <3>3. PICK h2 \in Nat, w2 \in Nat : h2 = Len(buf') /\ w2 = Len(wire')
      BY LenProperties DEF Bytes
    <3>4. h2 + w2 = h + w
      BY <3>2, <3>3
    <3>5. p + h2 + w2 = p + h + w
      BY <3>4
    <3> QED
      BY <3>1, <3>2, <3>3, <3>5
  <2>7. (\A i \in Nat : 0 < i /\ i <= Covered => Lies(b, e, i))'
    <3>1. \A i \in Nat : 0 < i /\ i <= Covered => Lies(b, e, i)
      BY <2>2 DEF Laid
    <3>2. Covered' = Covered /\ \A i \in Nat : Lies(b, e, i)' = Lies(b, e, i)
      BY DEF Covered, Lies
    <3> QED
      BY <3>1, <3>2
  <2>8. (spoilt = -1 => e[Len(sent)] = Len(b))'
    BY <2>2 DEF Laid
  <2>9. Laid(b, e)'
    BY <2>3, <2>5, <2>6, <2>7, <2>8 DEF Laid
  <2>10. (Len(got) <= Len(sent))'
    BY <2>1 DEF StreamInv, StreamLaid
  <2> QED
    BY <2>9, <2>10
<1> QED
  BY <1>1, <1>2 DEF StreamInv, StreamLaid

(* Breaking the connection loses the end of what is under way.             *)
LEMMA BreakKeepsStream ==
    ASSUME StreamInv, Break
    PROVE  StreamInv'
<1>1. wire \in Bytes /\ buf \in Bytes /\ pc \in {"reading", "decoding", "done"} /\ Len(buf) \in Nat
  BY StreamSizes DEF StreamInv, FrameTypes
<1>2. PICK n \in 0..Len(wire) : wire' = SubSeq(wire, 1, n)
  BY DEF Break
<1>3. /\ sender' = "cut" /\ buf' = buf /\ pc' = pc
      /\ UNCHANGED <<direction, sent, spoilt, got>>
  BY DEF Break, pumpVars
<1>4. wire' \in Bytes
  <2>1. Reads(wire, 0, wire)
    BY StreamSizes DEF StreamInv, Reads
  <2> QED
    BY <1>1, <1>2, <2>1, ReadsCut
<1>5. ASSUME NEW b \in Bytes, NEW p \in Nat, Reads(b, p, buf), Reads(b, p + Len(buf), wire)
      PROVE  Reads(b, p, buf') /\ Reads(b, p + Len(buf'), wire')
  <2>1. p + Len(buf) \in Nat
    BY <1>1
  <2> QED
    BY <1>1, <1>2, <1>3, <1>5, <2>1, ReadsCut
<1> QED
  BY <1>1, <1>3, <1>4, <1>5, StreamMoves

(* A chunk goes from the front of what is under way to the end of the      *)
(* buffer.                                                                 *)
LEMMA ChunkKeepsStream ==
    ASSUME StreamInv, Chunk
    PROVE  StreamInv'
<1>1. wire \in Bytes /\ buf \in Bytes /\ sender \in {"open", "ended", "cut"}
      /\ Len(buf) \in Nat /\ Len(wire) \in Nat
  BY StreamSizes DEF StreamInv, FrameTypes
<1>2. PICK n \in 1..Len(wire) :
        buf' = buf \o SubSeq(wire, 1, n) /\ wire' = SubSeq(wire, n + 1, Len(wire))
  BY DEF Chunk
<1>3. /\ sender' = sender /\ pc' = "decoding"
      /\ UNCHANGED <<direction, sent, spoilt, got>>
  BY DEF Chunk
<1>4. n \in 0..Len(wire) /\ n \in Nat /\ n <= Len(wire)
  BY <1>1
<1>5. PICK chunk \in Bytes, rest \in Bytes :
        /\ chunk = SubSeq(wire, 1, n) /\ Len(chunk) = n
        /\ rest = SubSeq(wire, n + 1, Len(wire)) /\ Len(rest) = Len(wire) - n
  <2>1. Reads(wire, 0, wire)
    BY <1>1 DEF Reads
  <2>2. /\ SubSeq(wire, 1, n) \in Bytes /\ Len(SubSeq(wire, 1, n)) = n
        /\ SubSeq(wire, n + 1, Len(wire)) \in Bytes
        /\ Len(SubSeq(wire, n + 1, Len(wire))) = Len(wire) - n
    BY <1>1, <1>4, <2>1, ReadsCut, 0 \in Nat
  <2> QED
    BY <2>2, Zenon
<1>6. buf' \in Bytes /\ wire' \in Bytes /\ Len(buf') = Len(buf) + n /\ Len(wire') = Len(wire) - n
  BY <1>1, <1>2, <1>5, ConcatProperties DEF Bytes
<1>7. Len(buf') + Len(wire') = Len(buf) + Len(wire)
  <2>1. PICK h \in Nat, w \in Nat : h = Len(buf) /\ w = Len(wire)
    BY <1>1
  <2>2. (h + n) + (w - n) = h + w
    BY <1>4
  <2> QED
    BY <1>6, <2>1, <2>2
<1>8. ASSUME NEW b \in Bytes, NEW p \in Nat, Reads(b, p, buf), Reads(b, p + Len(buf), wire)
      PROVE  Reads(b, p, buf') /\ Reads(b, p + Len(buf'), wire')
  <2>1. PICK q \in Nat : q = p + Len(buf)
    BY <1>1
  <2>2. Reads(b, q, chunk) /\ Reads(b, q + n, rest)
    BY <1>1, <1>4, <1>5, <1>8, <2>1, ReadsCut
  <2>3. Reads(b, p, buf \o chunk)
    BY <1>1, <1>8, <2>1, <2>2, ReadsJoin
  <2>4. p + Len(buf') = q + n
    BY <1>1, <1>4, <1>6, <2>1
  <2> QED
    BY <1>2, <1>5, <2>2, <2>3, <2>4
<1> QED
  BY <1>1, <1>3, <1>6, <1>7, <1>8, StreamMoves

(* Only a buffer that is spoilt is emptied while the stream goes on.       *)
LEMMA NoMessageKeepsStream ==
    ASSUME StreamInv, NoMessage
    PROVE  StreamInv'
<1>1. wire \in Bytes /\ buf \in Bytes /\ sender \in {"open", "ended", "cut"}
  BY DEF StreamInv, FrameTypes
<1>2. /\ buf' = (IF Compressed(buf) THEN <<>> ELSE buf) /\ pc' = "reading"
      /\ UNCHANGED <<direction, sent, wire, sender, spoilt, got>>
  BY DEF NoMessage, wireVars
<1>3. buf' \in Bytes
  BY <1>1, <1>2 DEF Bytes
<1>4. CASE Aligned
  <2>1. ~Compressed(buf)
    BY <1>4, NextMessage DEF Compressed
  <2>2. buf' = buf
    BY <1>2, <2>1
  <2> QED
    BY <1>1, <1>2, <2>2, StreamMoves
<1>5. CASE ~Aligned
  <2>1. ~Aligned'
    BY <1>2, <1>5 DEF Aligned
  <2>2. FrameTypes' /\ GotIsSent'
    BY <1>2, <1>3 DEF StreamInv, FrameTypes, GotIsSent, Covered
  <2> QED
    BY <2>1, <2>2 DEF StreamInv, StreamLaid
<1> QED
  BY <1>4, <1>5

(* When the body is over nothing is under way.                             *)
LEMMA BodyOverKeepsStream ==
    ASSUME StreamInv, BodyOver
    PROVE  StreamInv'
<1>1. buf \in Bytes /\ sender \in {"open", "ended", "cut"} /\ Len(buf) \in Nat
  BY StreamSizes DEF StreamInv, FrameTypes
<1>2. /\ sender # "open" /\ wire = <<>> /\ pc' = "done" /\ buf' = <<>>
      /\ UNCHANGED <<direction, sent, wire, sender, spoilt, got>>
  BY DEF BodyOver, wireVars
<1>3. Len(<<>>) = 0 /\ <<>> \in Bytes
  BY DEF Bytes
<1>4. ASSUME NEW b \in Bytes, NEW p \in Nat, Reads(b, p, buf), Reads(b, p + Len(buf), wire)
      PROVE  Reads(b, p, buf') /\ Reads(b, p + Len(buf'), wire')
  <2>1. p + Len(buf) <= Len(b)
    BY <1>4 DEF Reads
  <2>2. Len(b) \in Nat
    BY LenProperties DEF Bytes
  <2>3. p <= Len(b)
    BY <1>1, <2>1, <2>2
  <2>4. Reads(b, p, <<>>)
    BY <1>3, <2>2, <2>3 DEF Reads
  <2> QED
    BY <1>2, <1>3, <2>4, p + 0 = p
<1> QED
  BY <1>1, <1>2, <1>3, <1>4, StreamMoves

(* The steps that touch none of the bytes.                                 *)
LEMMA OthersKeepStream ==
    ASSUME StreamInv, CloseSend \/ Complete \/ UNCHANGED vars
    PROVE  StreamInv'
<1>1. /\ UNCHANGED <<direction, sent, wire, spoilt, buf, got, pc>>
      /\ sender' = sender \/ sender' = "ended"
  BY DEF CloseSend, Complete, vars, wireVars, pumpVars
<1>2. wire \in Bytes /\ buf \in Bytes /\ sender \in {"open", "ended", "cut"}
      /\ pc \in {"reading", "decoding", "done"}
  BY DEF StreamInv, FrameTypes
<1>3. /\ sender' \in {"open", "ended", "cut"} /\ pc' \in {"reading", "decoding", "done"}
      /\ sender' = "open" => sender = "open"
  BY <1>1, <1>2
<1> QED
  BY <1>1, <1>2, <1>3, StreamMoves

(* Decoding takes the next message from the front of the buffer.           *)
LEMMA DecodeKeepsStream ==
    ASSUME StreamInv, Decode
    PROVE  StreamInv'
<1>1. /\ Len(got) \in Nat /\ Len(sent) \in Nat /\ Len(buf) \in Nat /\ Len(wire) \in Nat
      /\ HeaderLen \in Nat /\ Covered \in Nat
  BY StreamSizes DEF StreamInv
<1>2. wire \in Bytes /\ buf \in Bytes /\ got \in Seq(Bytes) /\ FrameTypes /\ StreamLaid /\ GotIsSent
  BY DEF StreamInv, FrameTypes
<1>3. Whole(buf)
  BY DEF Decode
<1>4. PICK msg \in Bytes, rest \in Bytes, l \in Nat :
        /\ l = Length(buf)
        /\ msg = SubSeq(buf, HeaderLen + 1, HeaderLen + l)
        /\ rest = SubSeq(buf, HeaderLen + l + 1, Len(buf))
  BY <1>2, <1>3, CutTypes
<1>5. got' = Append(got, msg) /\ buf' = rest /\ UNCHANGED <<direction, sent, wire, sender, spoilt, pc>>
  BY <1>4 DEF Decode, wireVars
<1>6. got' \in Seq(Bytes) /\ Len(got') = Len(got) + 1 /\ got'[Len(got) + 1] = msg
  BY <1>2, <1>4, <1>5, AppendProperties
<1>7. \A i \in 1..Len(got) : got'[i] = got[i]
  BY <1>2, <1>4, <1>5, AppendProperties
<1>8. FrameTypes' /\ Covered' = Covered
  BY <1>2, <1>5, <1>6 DEF FrameTypes, Covered
<1>9. PICK g \in Nat, h \in Nat, k \in Nat, w \in Nat, c \in Nat :
        g = Len(got) /\ h = Len(buf) /\ k = Len(sent) /\ w = Len(wire) /\ c = Covered
  BY <1>1
<1>10. ASSUME Aligned
       PROVE  g + 1 <= c /\ l = Len(sent[g + 1]) /\ msg = sent[g + 1]
  <2>1. Len(buf) >= HeaderLen /\ Len(buf) >= HeaderLen + Length(buf)
    BY <1>3 DEF Whole
  <2>2. /\ Len(got) + 1 <= Covered
        /\ Length(buf) = Len(sent[Len(got) + 1])
        /\ SubSeq(buf, HeaderLen + 1, HeaderLen + Length(buf)) = sent[Len(got) + 1]
    BY <1>10, <2>1, NextMessage
  <2> QED
    BY <1>4, <1>9, <2>2
<1>11. ASSUME ~Aligned PROVE ~ (g + 1 <= c)
  <2>1. spoilt # -1 /\ ~ (g < spoilt) /\ c = spoilt
    BY <1>9, <1>11 DEF Aligned, Covered
  <2> QED
    BY <2>1
<1>12. GotIsSent'
  <2> SUFFICES ASSUME NEW i \in 1..(g + 1), i <= c
               PROVE  got'[i] = sent[i]
    BY <1>5, <1>6, <1>8, <1>9 DEF GotIsSent
  <2>1. CASE i = g + 1
    BY <1>6, <1>9, <1>10, <1>11, <2>1
  <2>2. CASE i # g + 1
    <3>1. i \in 1..g
      BY <2>2
    <3> QED
      BY <1>2, <1>7, <1>9, <3>1 DEF GotIsSent
  <2> QED
    BY <2>1, <2>2
<1>13. ASSUME Aligned'
       PROVE  (Len(got) <= Len(sent) /\ \E b \in Bytes, e \in [Nat -> Nat] : Laid(b, e))'
  <2>1. Aligned
    <3>1. CASE spoilt = -1
      BY <3>1 DEF Aligned
    <3>2. CASE spoilt # -1
      <4>1. g + 1 < spoilt
        BY <1>5, <1>6, <1>9, <1>13, <3>2 DEF Aligned
      <4>2. spoilt \in Nat
        BY <1>1, <1>2, <3>2 DEF FrameTypes
      <4>3. g < spoilt
        BY <4>1, <4>2
      <4> QED
        BY <1>9, <4>3 DEF Aligned
    <3> QED
      BY <3>1, <3>2
  <2>2. PICK b \in Bytes, e \in [Nat -> Nat] : Laid(b, e)
    BY <1>2, <2>1 DEF StreamLaid
  <2>3. PICK p \in Nat, q \in Nat, x \in Nat : p = e[g] /\ q = p + h /\ x = HeaderLen + l
    BY <1>1
  <2>4. Reads(b, p, buf) /\ Reads(b, q, wire) /\ (sender = "open" => q + w = Len(b))
    BY <1>9, <2>2, <2>3 DEF Laid
  <2>5. x <= h
    BY <1>3, <1>4, <1>9, <2>3 DEF Whole
  <2>6. Reads(b, p + x, rest) /\ Len(rest) = h - x
    <3>1. x \in 0..Len(buf)
      BY <1>9, <2>5
    <3>2. /\ Reads(b, p + x, SubSeq(buf, x + 1, Len(buf)))
          /\ Len(SubSeq(buf, x + 1, Len(buf))) = Len(buf) - x
      BY <1>2, <2>4, <3>1, ReadsCut
    <3> QED
      BY <1>4, <1>9, <2>3, <3>2
  <2>7. e[g + 1] = p + x
    <3>1. Lies(b, e, g + 1)
      <4>1. g + 1 \in Nat /\ 0 < g + 1 /\ g + 1 <= c
        BY <1>10, <2>1
      <4> QED
        BY <1>9, <2>2, <4>1 DEF Laid
    <3>2. e[g + 1] = e[(g + 1) - 1] + (HeaderLen + Len(sent[g + 1]))
      BY <3>1 DEF Lies
    <3>3. (g + 1) - 1 = g
      OBVIOUS
    <3> QED
      BY <1>10, <2>1, <2>3, <3>2, <3>3
  <2>8. (p + x) + (h - x) = q
    BY <2>3, <2>5
  <2>9. e[Len(got')] = p + x /\ Len(buf') = h - x
    BY <1>5, <1>6, <1>9, <2>6, <2>7
  <2>10. Reads(b, e[Len(got')], buf') /\ Reads(b, e[Len(got')] + Len(buf'), wire)
    BY <1>5, <2>4, <2>6, <2>8, <2>9
  <2>11. sender = "open" => e[Len(got')] + Len(buf') + Len(wire) = Len(b)
    BY <1>9, <2>4, <2>8, <2>9
  <2>12. (\A i \in Nat : 0 < i /\ i <= Covered => Lies(b, e, i))'
    <3>1. \A i \in Nat : 0 < i /\ i <= Covered => Lies(b, e, i)
      BY <2>2 DEF Laid
    <3>2. \A i \in Nat : Lies(b, e, i)' = Lies(b, e, i)
      BY <1>5 DEF Lies
    <3> QED
      BY <1>8, <3>1, <3>2
  <2>13. (spoilt = -1 => e[Len(sent)] = Len(b))'
    BY <1>5, <2>2 DEF Laid
  <2>14. Laid(b, e)'
    BY <1>5, <2>10, <2>11, <2>12, <2>13 DEF Laid
  <2>15. g + 1 <= k
    <3>1. c <= k
      BY <1>2, <1>9, StreamSizes
    <3> QED
      BY <1>10, <2>1, <3>1
  <2> QED
    BY <1>5, <1>6, <1>9, <2>14, <2>15
<1> QED
  BY <1>8, <1>12, <1>13 DEF StreamInv, StreamLaid

(* However the stream is cut, broken off or closed, what the receiver      *)
(* decoded, holds and has still to come stays in line with what was sent.  *)
LEMMA StreamInvariant == Spec => []StreamInv
<1>1. Init => StreamInv
  BY StreamStarts
<1>2. StreamInv /\ [Next]_vars => StreamInv'
  <2> SUFFICES ASSUME StreamInv, [Next]_vars PROVE StreamInv'
    OBVIOUS
  <2>1. CASE Send
    BY <2>1, SendKeepsStream
  <2>2. CASE Break
    BY <2>2, BreakKeepsStream
  <2>3. CASE Chunk
    BY <2>3, ChunkKeepsStream
  <2>4. CASE Decode
    BY <2>4, DecodeKeepsStream
  <2>5. CASE NoMessage
    BY <2>5, NoMessageKeepsStream
  <2>6. CASE BodyOver
    BY <2>6, BodyOverKeepsStream
  <2>7. CASE CloseSend \/ Complete \/ UNCHANGED vars
    BY <2>7, OthersKeepStream
  <2> QED
    BY <2>1, <2>2, <2>3, <2>4, <2>5, <2>6, <2>7 DEF Next, Pump
<1> QED
  BY <1>1, <1>2, PTL DEF Spec

(* What was decoded are the messages that were sent, whole and in order    *)
(* and no more of them, up to a frame that is compressed or too long for   *)
(* its length field: try_decode_one loses, adds and splits nothing,        *)
(* whatever the chunks in which the body arrives.                          *)
THEOREM DecodedSent == Spec => []DecodedIsSent
<1>1. StreamInv => DecodedIsSent
  BY DEF StreamInv, StreamLaid, GotIsSent, Aligned, DecodedIsSent
<1> QED
  BY <1>1, StreamInvariant, PTL

-----------------------------------------------------------------------------
(* The trailers *)

Octets == 0..255
Printable == 32..126

(* A byte becomes one printable byte or three.                             *)
LEMMA EscapedTypes ==
    ASSUME NEW b \in Octets
    PROVE  /\ Escaped(b) \in Bytes /\ Len(Escaped(b)) \in Nat /\ Len(Escaped(b)) >= 1
           /\ \A i \in 1..Len(Escaped(b)) : Escaped(b)[i] \in Printable
<1>1. b \div 16 \in 0..15 /\ b % 16 \in 0..15
  BY DEF Octets
<1>2. Hex(b \div 16) \in Printable /\ Hex(b % 16) \in Printable
  BY <1>1 DEF Hex, Printable
<1>3. CASE Plain(b)
  <2>1. Escaped(b) = <<b>> /\ b \in Printable
    BY <1>3 DEF Escaped, Plain, Printable
  <2> QED
    BY <2>1 DEF Bytes, Printable
<1>4. CASE ~Plain(b)
  <2>1. Escaped(b) = <<37, Hex(b \div 16), Hex(b % 16)>>
    BY <1>4 DEF Escaped
  <2> QED
    BY <1>2, <2>1 DEF Bytes, Printable
<1> QED
  BY <1>3, <1>4

(* Two bytes of which one is written as the other begins are the same: no  *)
(* byte that goes through as it is looks like the start of an escape.      *)
LEMMA EscapedTells ==
    ASSUME NEW b \in Octets, NEW c \in Octets,
           \A i \in 1..3 : i <= Len(Escaped(b)) /\ i <= Len(Escaped(c)) => Escaped(b)[i] = Escaped(c)[i]
    PROVE  b = c
<1>1. CASE Plain(b) /\ Plain(c)
  <2>1. Escaped(b) = <<b>> /\ Escaped(c) = <<c>>
    BY <1>1 DEF Escaped
  <2> QED
    BY <2>1
<1>2. CASE Plain(b) /\ ~Plain(c)
  <2>1. Escaped(b) = <<b>> /\ Escaped(c) = <<37, Hex(c \div 16), Hex(c % 16)>>
    BY <1>2 DEF Escaped
  <2>2. b = 37
    BY <2>1
  <2> QED
    BY <1>2, <2>2 DEF Plain
<1>3. CASE ~Plain(b) /\ Plain(c)
  <2>1. Escaped(c) = <<c>> /\ Escaped(b) = <<37, Hex(b \div 16), Hex(b % 16)>>
    BY <1>3 DEF Escaped
  <2>2. c = 37
    BY <2>1
  <2> QED
    BY <1>3, <2>2 DEF Plain
<1>4. CASE ~Plain(b) /\ ~Plain(c)
  <2>1. /\ Escaped(b) = <<37, Hex(b \div 16), Hex(b % 16)>>
        /\ Escaped(c) = <<37, Hex(c \div 16), Hex(c % 16)>>
    BY <1>4 DEF Escaped
  <2>2. Hex(b \div 16) = Hex(c \div 16) /\ Hex(b % 16) = Hex(c % 16)
    BY <2>1
  <2>3. \A x, y \in 0..15 : Hex(x) = Hex(y) => x = y
    BY DEF Hex
  <2>4. /\ b \div 16 \in 0..15 /\ b % 16 \in 0..15 /\ b = 16 * (b \div 16) + (b % 16)
        /\ c \div 16 \in 0..15 /\ c % 16 \in 0..15 /\ c = 16 * (c \div 16) + (c % 16)
    BY DEF Octets
  <2>5. b \div 16 = c \div 16 /\ b % 16 = c % 16
    BY <2>2, <2>3, <2>4
  <2> QED
    BY <2>4, <2>5
<1> QED
  BY <1>1, <1>2, <1>3, <1>4

(* Outs appends what each byte becomes.                                    *)
LEMMA OutsDef ==
    ASSUME NEW s \in Seq(Octets)
    PROVE  /\ Outs(s)[0] = <<>>
           /\ \A i \in Nat : i <= Len(s) => Outs(s)[i] \in Bytes
           /\ \A i \in Nat : i < Len(s) => Outs(s)[i + 1] = Outs(s)[i] \o Escaped(s[i + 1])
<1> DEFINE Step(o) == [i \in 0..Len(s) |-> IF i = 0 THEN <<>> ELSE o[i - 1] \o Escaped(s[i])]
           F == [p \in Nat \X Bytes |->
                   IF p[1] \in 1..Len(s) THEN p[2] \o Escaped(s[p[1]]) ELSE p[2]]
<1>1. Len(s) \in Nat
  BY LenProperties
<1>2. ASSUME NEW i \in Nat, i < Len(s)
      PROVE  s[i + 1] \in Octets /\ Escaped(s[i + 1]) \in Bytes
  <2>1. i + 1 \in 1..Len(s)
    BY <1>1, <1>2
  <2> QED
    BY <2>1, ElementOfSeq, EscapedTypes
<1>3. F \in [Nat \X Bytes -> Bytes]
  <2> SUFFICES ASSUME NEW j \in Nat, NEW o \in Bytes
               PROVE  (IF j \in 1..Len(s) THEN o \o Escaped(s[j]) ELSE o) \in Bytes
    OBVIOUS
  <2>1. CASE j \in 1..Len(s)
    <3>1. Escaped(s[j]) \in Bytes
      BY <2>1, ElementOfSeq, EscapedTypes
    <3> QED
      BY <2>1, <3>1, ConcatProperties DEF Bytes
  <2> QED
    BY <2>1
<1>4. \A j \in Nat : \A o \in Bytes : j \in 1..Len(s) => F[<<j, o>>] = o \o Escaped(s[j])
  OBVIOUS
<1> HIDE DEF F
<1>5. <<>> \in Bytes
  BY DEF Bytes
<1>6. PICK f : Unfolds(f, Bytes, <<>>, F)
  BY <1>3, <1>5, RecursionExists, Zenon
<1>7. f[0] = <<>> /\ \A i \in Nat : f[i] \in Bytes /\ f[i + 1] = F[<<i + 1, f[i]>>]
  BY <1>6 DEF Unfolds
<1>8. ASSUME NEW i \in 1..Len(s) PROVE f[i] = f[i - 1] \o Escaped(s[i])
  <2>1. i - 1 \in Nat /\ (i - 1) + 1 = i /\ i \in Nat
    BY <1>1
  <2>2. f[i - 1] \in Bytes /\ f[i] = F[<<i, f[i - 1]>>]
    BY <1>7, <2>1
  <2>3. F[<<i, f[i - 1]>>] = f[i - 1] \o Escaped(s[i])
    BY <1>4, <2>1, <2>2
  <2> QED
    BY <2>2, <2>3
<1> DEFINE w == [i \in 0..Len(s) |-> f[i]]
<1>9. \A i \in 1..Len(s) : i - 1 \in 0..Len(s) /\ i \in 0..Len(s)
  BY <1>1
<1>10. \A i \in 0..Len(s) : i # 0 => i \in 1..Len(s)
  BY <1>1
<1>11. \A i \in 0..Len(s) : w[i] = IF i = 0 THEN <<>> ELSE w[i - 1] \o Escaped(s[i])
  BY <1>7, <1>8, <1>9, <1>10
<1>12. w = Step(w)
  BY <1>11
<1>13. PICK o : o = Outs(s) /\ o = Step(o)
  BY <1>12 DEF Outs
<1>14. o[0] = <<>>
  <2>1. 0 \in 0..Len(s)
    BY <1>1
  <2> QED
    BY <1>13, <2>1
<1>15. ASSUME NEW i \in Nat, i < Len(s) PROVE o[i + 1] = o[i] \o Escaped(s[i + 1])
  <2>1. i + 1 \in 0..Len(s) /\ i + 1 # 0 /\ (i + 1) - 1 = i
    BY <1>1, <1>15
  <2> QED
    BY <1>13, <2>1
<1> DEFINE S == {i \in Nat : i <= Len(s) => o[i] \in Bytes}
<1>16. 0 \in S
  BY <1>5, <1>14
<1>17. ASSUME NEW i \in S PROVE i + 1 \in S
  <2> SUFFICES ASSUME i + 1 <= Len(s) PROVE o[i + 1] \in Bytes
    OBVIOUS
  <2>1. i < Len(s) /\ i <= Len(s)
    BY <1>1
  <2>2. o[i + 1] = o[i] \o Escaped(s[i + 1]) /\ o[i] \in Bytes /\ Escaped(s[i + 1]) \in Bytes
    BY <1>2, <1>15, <2>1
  <2> QED
    BY <2>2, ConcatProperties DEF Bytes
<1> HIDE DEF S
<1>18. S = Nat
  BY <1>16, <1>17, SetInduction, S \in SUBSET Nat DEF S
<1>19. \A i \in Nat : i <= Len(s) => o[i] \in Bytes
  BY <1>18 DEF S
<1> QED
  BY <1>13, <1>14, <1>15, <1>19

(* So in the header each byte is found where the one before it ended.      *)
LEMMA OutsLaid ==
    ASSUME NEW s \in Seq(Octets)
    PROVE  \A k \in Nat : k <= Len(s) =>
             /\ \A j \in 1..Len(Outs(s)[k]) : Outs(s)[k][j] \in Printable
             /\ \A i \in Nat : i < k => Reads(Outs(s)[k], Len(Outs(s)[i]), Escaped(s[i + 1]))
<1> DEFINE P(k) == /\ \A j \in 1..Len(Outs(s)[k]) : Outs(s)[k][j] \in Printable
                   /\ \A i \in Nat : i < k => Reads(Outs(s)[k], Len(Outs(s)[i]), Escaped(s[i + 1]))
           S == {k \in Nat : k <= Len(s) => P(k)}
<1>1. Len(s) \in Nat
  BY LenProperties
<1>2. 0 \in S
  <2>1. Outs(s)[0] = <<>> /\ Len(<<>>) = 0
    BY OutsDef
  <2>2. Len(Outs(s)[0]) = 0
    BY <2>1, Zenon
  <2>3. P(0)
    BY <2>2
  <2> QED
    BY <2>3
<1>3. ASSUME NEW k \in S PROVE k + 1 \in S
  <2> SUFFICES ASSUME k + 1 <= Len(s) PROVE P(k + 1)
    OBVIOUS
  <2>1. k \in Nat /\ k < Len(s) /\ k <= Len(s) /\ k + 1 \in 1..Len(s)
    BY <1>1
  <2>2. P(k)
    BY <2>1
  <2>3. s[k + 1] \in Octets
    BY <2>1, ElementOfSeq
  <2>4. PICK a \in Bytes, c \in Bytes : a = Outs(s)[k] /\ c = Escaped(s[k + 1]) /\ Outs(s)[k + 1] = a \o c
    BY <2>1, <2>3, OutsDef, EscapedTypes
  <2>5. \A j \in 1..Len(c) : c[j] \in Printable
    BY <2>3, <2>4, EscapedTypes
  <2>6. \A j \in 1..Len(a \o c) : (a \o c)[j] \in Printable
    <3> SUFFICES ASSUME NEW j \in 1..Len(a \o c) PROVE (a \o c)[j] \in Printable
      OBVIOUS
    <3>1. PICK m \in Nat, n \in Nat : m = Len(a) /\ n = Len(c)
      BY LenProperties DEF Bytes
    <3>2. /\ Len(a \o c) = m + n
          /\ \A i \in 1..(m + n) : (a \o c)[i] = IF i <= m THEN a[i] ELSE c[i - m]
      BY <3>1, ConcatProperties DEF Bytes
    <3>3. j \in 1..(m + n)
      BY <3>2
    <3>4. CASE j <= m
      <4>1. j \in 1..m
        BY <3>3, <3>4
      <4> QED
        BY <2>2, <2>4, <3>1, <3>2, <3>3, <3>4, <4>1
    <3>5. CASE ~ (j <= m)
      <4>1. j - m \in 1..n
        BY <3>3, <3>5
      <4> QED
        BY <2>5, <3>1, <3>2, <3>3, <3>5, <4>1
    <3> QED
      BY <3>4, <3>5
  <2>7. ASSUME NEW i \in Nat, i < k + 1
        PROVE  Reads(a \o c, Len(Outs(s)[i]), Escaped(s[i + 1]))
    <3>1. CASE i = k
      BY <2>4, <3>1, ReadsLast
    <3>2. CASE i # k
      <4>1. i < k /\ i <= Len(s) /\ i + 1 \in 1..Len(s)
        BY <1>1, <2>1, <2>7, <3>2
      <4>2. Reads(a, Len(Outs(s)[i]), Escaped(s[i + 1]))
        BY <2>2, <2>4, <4>1
      <4>3. Len(Outs(s)[i]) \in Nat
        BY <4>1, OutsDef, LenProperties DEF Bytes
      <4>4. Escaped(s[i + 1]) \in Bytes
        BY <4>1, ElementOfSeq, EscapedTypes
      <4> QED
        BY <4>2, <4>3, <4>4, ReadsMore
    <3> QED
      BY <3>1, <3>2
  <2> QED
    BY <2>4, <2>6, <2>7
<1> HIDE DEF S
<1>4. S = Nat
  BY <1>2, <1>3, SetInduction, S \in SUBSET Nat DEF S
<1> QED
  BY <1>4 DEF S

(* Where a byte of the message begins in the header.                       *)
LEMMA Positions ==
    ASSUME NEW s \in Seq(Octets), NEW k \in Nat, k < Len(s)
    PROVE  /\ s[k + 1] \in Octets
           /\ Len(Outs(s)[k]) \in Nat /\ Len(Escaped(s[k + 1])) \in Nat /\ Len(PercentEncode(s)) \in Nat
           /\ Len(Outs(s)[k + 1]) = Len(Outs(s)[k]) + Len(Escaped(s[k + 1]))
           /\ Len(Outs(s)[k]) < Len(PercentEncode(s))
           /\ Reads(PercentEncode(s), Len(Outs(s)[k]), Escaped(s[k + 1]))
<1>1. Len(s) \in Nat
  BY LenProperties
<1>2. k + 1 \in 1..Len(s) /\ k <= Len(s) /\ Len(s) <= Len(s)
  BY <1>1
<1>3. s[k + 1] \in Octets
  BY <1>2, ElementOfSeq
<1>4. PICK a \in Bytes, c \in Bytes, out \in Bytes :
        a = Outs(s)[k] /\ c = Escaped(s[k + 1]) /\ out = PercentEncode(s) /\ Outs(s)[k + 1] = a \o c
  BY <1>1, <1>2, <1>3, OutsDef, EscapedTypes DEF PercentEncode
<1>5. Len(a) \in Nat /\ Len(c) \in Nat /\ Len(out) \in Nat /\ Len(c) >= 1
  BY <1>3, <1>4, EscapedTypes, LenProperties DEF Bytes
<1>6. Len(a \o c) = Len(a) + Len(c)
  BY ConcatProperties DEF Bytes
<1>7. Reads(out, Len(a), c)
  BY <1>1, <1>2, <1>4, OutsLaid DEF PercentEncode
<1>8. Len(a) < Len(out)
  <2>1. Len(a) + Len(c) <= Len(out)
    BY <1>7 DEF Reads
  <2>2. PICK l \in Nat, m \in Nat, n \in Nat : l = Len(a) /\ m = Len(c) /\ n = Len(out)
    BY <1>5
  <2> QED
    BY <1>5, <2>1, <2>2
<1> QED
  BY <1>3, <1>4, <1>5, <1>6, <1>7, <1>8

(* Of two messages with the same header each starts with the other.        *)
LEMMA SameHeader ==
    ASSUME NEW s \in Seq(Octets), NEW t \in Seq(Octets), PercentEncode(s) = PercentEncode(t)
    PROVE  Len(s) <= Len(t) /\ \A j \in 1..Len(s) : s[j] = t[j]
<1> DEFINE P(k) == /\ k <= Len(t) /\ Len(Outs(s)[k]) = Len(Outs(t)[k])
                   /\ \A j \in 1..k : s[j] = t[j]
           S == {k \in Nat : k <= Len(s) => P(k)}
<1>1. Len(s) \in Nat /\ Len(t) \in Nat
  BY LenProperties
<1>2. 0 \in S
  <2>1. Outs(s)[0] = <<>> /\ Outs(t)[0] = <<>>
    BY OutsDef
  <2>2. P(0)
    BY <1>1, <2>1
  <2> QED
    BY <2>2
<1>3. ASSUME NEW k \in S PROVE k + 1 \in S
  <2> SUFFICES ASSUME k + 1 <= Len(s) PROVE P(k + 1)
    OBVIOUS
  <2>1. k \in Nat /\ k < Len(s) /\ k <= Len(s)
    BY <1>1
  <2>2. P(k)
    BY <2>1
  <2> HIDE DEF S
  <2>0. PICK out : out = PercentEncode(s)
    OBVIOUS
  <2>3. PICK x \in Octets, p \in Nat :
          /\ x = s[k + 1] /\ p = Len(Outs(s)[k])
          /\ Len(Outs(s)[k + 1]) = p + Len(Escaped(x))
          /\ Len(out) \in Nat /\ p < Len(out) /\ Reads(out, p, Escaped(x))
    BY <2>0, <2>1, Positions
  <2>4. k < Len(t)
    <3>1. k # Len(t)
      <4>1. p = Len(Outs(t)[k]) /\ Len(out) = Len(Outs(t)[Len(t)])
        BY <2>0, <2>2, <2>3 DEF PercentEncode
      <4>2. p # Len(out)
        BY <2>3
      <4> QED
        BY <4>1, <4>2
    <3> QED
      BY <1>1, <2>1, <2>2, <3>1
  <2>5. PICK y \in Octets :
          /\ y = t[k + 1] /\ Len(Outs(t)[k + 1]) = p + Len(Escaped(y))
          /\ Reads(out, p, Escaped(y))
    BY <2>0, <2>1, <2>2, <2>3, <2>4, Positions
  <2>6. PICK m \in Nat, n \in Nat : m = Len(Escaped(x)) /\ n = Len(Escaped(y))
    BY EscapedTypes
  <2>7. x = y
    <3>1. ASSUME NEW i \in 1..3, i <= m, i <= n PROVE Escaped(x)[i] = Escaped(y)[i]
      <4>1. i \in 1..m /\ i \in 1..n
        BY <3>1
      <4>2. Escaped(x)[i] = out[p + i] /\ Escaped(y)[i] = out[p + i]
        BY <2>3, <2>5, <2>6, <4>1 DEF Reads
      <4> QED
        BY <4>2
    <3> QED
      BY <2>6, <3>1, EscapedTells
  <2>8. Len(Outs(s)[k + 1]) = Len(Outs(t)[k + 1])
    BY <2>3, <2>5, <2>7
  <2>9. ASSUME NEW j \in 1..(k + 1) PROVE s[j] = t[j]
    <3>1. CASE j = k + 1
      BY <2>3, <2>5, <2>7, <3>1
    <3>2. CASE j # k + 1
      <4>1. j \in 1..k
        BY <2>1, <3>2
      <4> QED
        BY <2>2, <4>1
    <3> QED
      BY <3>1, <3>2
  <2>10. k + 1 <= Len(t)
    BY <1>1, <2>1, <2>4
  <2> QED
    BY <2>8, <2>9, <2>10
<1> HIDE DEF S
<1>4. S = Nat
  BY <1>2, <1>3, SetInduction, S \in SUBSET Nat DEF S
<1>5. Len(s) <= Len(s)
  BY <1>1
<1> QED
  BY <1>1, <1>4, <1>5 DEF S

(* percent_encode gives no two messages the same header, and every byte of *)
(* it is printable: the client can tell the messages of the host apart,    *)
(* also when they hold percent signs, controls or bytes of no text.        *)
THEOREM PercentEncodeTells ==
    ASSUME NEW s \in Seq(0..255), NEW t \in Seq(0..255)
    PROVE  /\ \A i \in 1..Len(PercentEncode(s)) : PercentEncode(s)[i] \in 32..126
           /\ PercentEncode(s) = PercentEncode(t) => s = t
<1>1. s \in Seq(Octets) /\ t \in Seq(Octets) /\ Len(s) \in Nat /\ Len(t) \in Nat
  BY LenProperties DEF Octets
<1>2. \A i \in 1..Len(PercentEncode(s)) : PercentEncode(s)[i] \in Printable
  <2>1. Len(s) <= Len(s)
    BY <1>1
  <2> QED
    BY <1>1, <2>1, OutsLaid DEF PercentEncode
<1>3. ASSUME PercentEncode(s) = PercentEncode(t) PROVE s = t
  <2>1. Len(s) <= Len(t) /\ Len(t) <= Len(s) /\ \A j \in 1..Len(s) : s[j] = t[j]
    BY <1>1, <1>3, SameHeader
  <2>2. Len(s) = Len(t)
    BY <1>1, <2>1
  <2> QED
    BY <1>1, <2>1, <2>2, SeqEqual
<1> QED
  BY <1>2, <1>3 DEF Printable

\* The header is that of what the host said.
Answered == said # <<>> => said \in StatusMessages /\ trailer = Trailers(said)

(* The client can tell what the host said when it ended the call: what the *)
(* trailers carry is printable, and no other status message looks like it. *)
THEOREM MessageKept == Spec => []MessageSurvives
<1>1. Init => Answered
  BY DEF Init, Answered
<1>2. Answered /\ [Next]_vars => Answered'
  <2> SUFFICES ASSUME Answered, [Next]_vars PROVE Answered'
    OBVIOUS
  <2>1. CASE Complete
    BY <2>1 DEF Complete, Answered
  <2>2. CASE UNCHANGED <<said, trailer>>
    BY <2>2 DEF Answered
  <2> QED
    BY <2>1, <2>2
       DEF Next, Send, CloseSend, Break, Pump, Chunk, Decode, NoMessage, BodyOver, vars, endVars
<1>3. Answered => MessageSurvives
  <2> SUFFICES ASSUME Answered, said # <<>>
               PROVE  /\ \A i \in 1..Len(trailer) : trailer[i] \in 32..126
                      /\ \A t \in StatusMessages : Trailers(t) = trailer => t = said
    BY DEF MessageSurvives
  <2>1. said \in Seq(0..255) /\ \A t \in StatusMessages : t \in Seq(0..255)
    BY BytesAssumption DEF Answered
  <2>2. trailer = PercentEncode(said)
    BY DEF Answered, Trailers
  <2> QED
    BY <2>1, <2>2, PercentEncodeTells DEF Trailers
<1> QED
  BY <1>1, <1>2, <1>3, PTL DEF Spec

=============================================================================
