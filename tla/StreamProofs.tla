---------------------------- MODULE StreamProofs ----------------------------
(***************************************************************************)
(* What a stream of frames keeps.  First the four byte header and what it  *)
(* tells of a message; then sequences of frames, by induction on their     *)
(* number; then the inductive invariant of module Stream and that the      *)
(* stream implements Channel.                                              *)
(*                                                                         *)
(* The theorems on the stream assume ~Nested, that a read completes only   *)
(* when the handler of the read before has returned: with Nested the       *)
(* handler's consume() may take bytes of the next frame.                   *)
(***************************************************************************)
EXTENDS Stream, FiniteSetTheorems, SequenceTheorems, TLAPS

(* Division by the base, as the shifts and masks of toBigEndian do it, in  *)
(* terms that the provers can use.                                         *)
LEMMA DivisionFacts ==
    ASSUME NEW n \in Nat
    PROVE  /\ n \div ByteRange \in Nat
           /\ n % ByteRange \in Byte
           /\ n = (n % ByteRange) + ByteRange * (n \div ByteRange)
  BY ByteRangeAssumption DEF Byte

(* Each shift by a byte divides the bound by the base.                     *)
LEMMA QuotientBound ==
    ASSUME NEW n \in Nat, NEW bound \in Nat, n < ByteRange * bound
    PROVE  n \div ByteRange < bound
  <1> DEFINE q == n \div ByteRange
  <1>1. q \in Nat /\ n % ByteRange \in Nat /\ n = (n % ByteRange) + ByteRange * q
    BY DivisionFacts, ByteRangeAssumption DEF Byte
  <1>2. SUFFICES ASSUME q >= bound PROVE FALSE
    BY <1>1
  <1>3. ByteRange * q >= ByteRange * bound
    <2> HIDE DEF q
    <2>1. PICK d \in Nat : q = bound + d
      BY <1>1, <1>2
    <2>2. ByteRange * q = ByteRange * bound + ByteRange * d
      BY <2>1, ByteRangeAssumption
    <2>3. ByteRange * d \in Nat /\ ByteRange * bound \in Nat
      BY ByteRangeAssumption
    <2> QED BY <2>2, <2>3
  <1>4. ByteRange * q \in Nat /\ ByteRange * bound \in Nat
    BY <1>1, ByteRangeAssumption
  <1> HIDE DEF q
  <1> QED BY <1>1, <1>3, <1>4

(* The header keeps every size that fits a std::uint32_t: what asyncRead   *)
(* reads from the header is the number that Frame's constructor wrote.     *)
THEOREM HeaderRoundTrip ==
    ASSUME NEW n \in 0 .. HeaderLimit - 1
    PROVE  /\ ToBigEndian(n) \in Seq(Byte)
           /\ Len(ToBigEndian(n)) = HeaderSize
           /\ FromBigEndian(ToBigEndian(n)) = n
  <1> DEFINE q1 == n \div ByteRange
             q2 == q1 \div ByteRange
             q3 == q2 \div ByteRange
             q4 == q3 \div ByteRange
             b2 == ByteRange * ByteRange
             b3 == ByteRange * b2
  <1>1. ByteRange \in Nat /\ b2 \in Nat /\ b3 \in Nat /\ n \in Nat
    BY ByteRangeAssumption DEF HeaderLimit
  <1>2. /\ q1 \in Nat /\ n % ByteRange \in Byte
        /\ n = (n % ByteRange) + ByteRange * q1
    BY <1>1, DivisionFacts
  <1>3. /\ q2 \in Nat /\ q1 % ByteRange \in Byte
        /\ q1 = (q1 % ByteRange) + ByteRange * q2
    BY <1>2, DivisionFacts
  <1>4. /\ q3 \in Nat /\ q2 % ByteRange \in Byte
        /\ q2 = (q2 % ByteRange) + ByteRange * q3
    BY <1>3, DivisionFacts
  <1>5. /\ q4 \in Nat /\ q3 % ByteRange \in Byte
        /\ q3 = (q3 % ByteRange) + ByteRange * q4
    BY <1>4, DivisionFacts
  <1>6. q3 < ByteRange
    <2>1. n < ByteRange * b3
      BY <1>1 DEF HeaderLimit
    <2>2. q1 < b3
      BY <2>1, <1>1, QuotientBound
    <2>3. q2 < b2
      BY <2>2, <1>1, <1>2, QuotientBound
    <2> QED BY <2>3, <1>1, <1>3, QuotientBound
  <1>7. q3 % ByteRange = q3
    BY <1>1, <1>4, <1>6, ByteRangeAssumption
  <1>8. ToBigEndian(n) =
            <<q3 % ByteRange, q2 % ByteRange, q1 % ByteRange, n % ByteRange>>
    BY DEF ToBigEndian
  <1> HIDE DEF q1, q2, q3, q4
  <1>9. FromBigEndian(ToBigEndian(n)) =
            (n % ByteRange) + ByteRange *
                ((q1 % ByteRange) + ByteRange *
                    ((q2 % ByteRange) + ByteRange * (q3 % ByteRange)))
    BY <1>8 DEF FromBigEndian
  <1>10. FromBigEndian(ToBigEndian(n)) = n
    BY <1>2, <1>3, <1>4, <1>7, <1>9
  <1>11. ToBigEndian(n) \in Seq(Byte) /\ Len(ToBigEndian(n)) = HeaderSize
    BY <1>2, <1>3, <1>4, <1>5, <1>8 DEF HeaderSize
  <1> QED BY <1>10, <1>11

(* The parts of a frame whose size fits the header.                        *)
LEMMA FrameParts ==
    ASSUME NEW message \in Seq(Byte), Len(message) < HeaderLimit
    PROVE  /\ NumDataBytes(message) = Len(message)
           /\ FrameOf(message) = ToBigEndian(Len(message)) \o message
           /\ FrameOf(message) \in Seq(Byte)
           /\ Len(FrameOf(message)) = HeaderSize + Len(message)
           /\ \A i \in 1 .. HeaderSize :
                FrameOf(message)[i] = ToBigEndian(Len(message))[i]
           /\ \A i \in 1 .. Len(message) :
                FrameOf(message)[HeaderSize + i] = message[i]
  <1>1. HeaderLimit \in Nat /\ Len(message) \in 0 .. HeaderLimit - 1
    BY ByteRangeAssumption DEF HeaderLimit
  <1>2. NumDataBytes(message) = Len(message)
    BY <1>1 DEF NumDataBytes
  <1>3. SubSeq(message, 1, Len(message)) = message
    OBVIOUS
  <1>4. FrameOf(message) = ToBigEndian(Len(message)) \o message
    BY <1>2, <1>3 DEF FrameOf
  <1>5. /\ ToBigEndian(Len(message)) \in Seq(Byte)
        /\ Len(ToBigEndian(Len(message))) = HeaderSize
    BY <1>1, HeaderRoundTrip
  <1> DEFINE header == ToBigEndian(Len(message))
  <1> HIDE DEF header
  <1>6. /\ header \o message \in Seq(Byte)
        /\ Len(header \o message) = HeaderSize + Len(message)
    BY <1>5 DEF header
  <1>7. \A i \in 1 .. HeaderSize : (header \o message)[i] = header[i]
    BY <1>5, <1>6 DEF header, HeaderSize
  <1>8. \A i \in 1 .. Len(message) :
            (header \o message)[HeaderSize + i] = message[i]
    BY <1>5, <1>6 DEF header, HeaderSize
  <1> QED BY <1>2, <1>4, <1>6, <1>7, <1>8 DEF header

(* A frame tells its reader exactly the message: the size announced is that*)
(* of the data, the data are the message, and the datagram is accepted.    *)
THEOREM FrameRoundTrip ==
    ASSUME NEW message \in Seq(Byte), Len(message) < HeaderLimit
    PROVE  /\ FromBigEndian(FrameOf(message)) = Len(message)
           /\ View(FrameOf(message), Len(message), HeaderSize) = message
           /\ ValidDatagram(FrameOf(message))
  <1> DEFINE frame == FrameOf(message)
             header == ToBigEndian(Len(message))
  <1>1. Len(message) \in 0 .. HeaderLimit - 1
    BY ByteRangeAssumption DEF HeaderLimit
  <1>2. FromBigEndian(header) = Len(message)
    BY <1>1, HeaderRoundTrip
  <1>3. /\ frame \in Seq(Byte)
        /\ Len(frame) = HeaderSize + Len(message)
        /\ \A i \in 1 .. HeaderSize : frame[i] = header[i]
        /\ \A i \in 1 .. Len(message) : frame[HeaderSize + i] = message[i]
    BY FrameParts
  <1> HIDE DEF frame, header
  <1>4. FromBigEndian(frame) = Len(message)
    BY <1>2, <1>3 DEF FromBigEndian, HeaderSize
  <1>5. View(frame, Len(message), HeaderSize) = message
    BY <1>3 DEF View, HeaderSize
  <1>6. ValidDatagram(frame)
    <2>1. Len(frame) >= HeaderSize /\ Len(frame) >= HeaderSize + Len(message)
      BY <1>3 DEF HeaderSize
    <2> QED BY <1>4, <2>1 DEF ValidDatagram
  <1> QED BY <1>4, <1>5, <1>6 DEF frame

(* A datagram that was cut short, by the network or because the receiver's *)
(* buffer is too small, is not taken for a message.                        *)
THEOREM ShortDatagramInvalid ==
    ASSUME NEW message \in Seq(Byte), Len(message) < HeaderLimit,
           NEW k \in 0 .. HeaderSize + Len(message) - 1
    PROVE  ~ValidDatagram(SubSeq(FrameOf(message), 1, k))
  <1> DEFINE frame == FrameOf(message)
             part == SubSeq(frame, 1, k)
  <1>1. /\ frame \in Seq(Byte)
        /\ Len(frame) = HeaderSize + Len(message)
    BY FrameParts
  <1>2. FromBigEndian(frame) = Len(message)
    BY FrameRoundTrip
  <1>3. Len(part) = k /\ \A i \in 1 .. k : part[i] = frame[i]
    BY <1>1 DEF HeaderSize
  <1> HIDE DEF frame, part
  <1>4. k < HeaderSize => ~ValidDatagram(part)
    BY <1>3 DEF ValidDatagram, HeaderSize
  <1>5. k >= HeaderSize => ~ValidDatagram(part)
    <2> SUFFICES ASSUME k >= HeaderSize PROVE ~ValidDatagram(part)
      OBVIOUS
    <2>1. FromBigEndian(part) = Len(message)
      BY <1>2, <1>3 DEF FromBigEndian, HeaderSize
    <2>2. ~(Len(part) >= HeaderSize + Len(message))
      BY <1>3 DEF HeaderSize
    <2> QED BY <2>1, <2>2 DEF ValidDatagram
  <1>6. ~ValidDatagram(part)
    BY <1>4, <1>5 DEF HeaderSize
  <1> QED BY <1>6 DEF part, frame

-----------------------------------------------------------------------------
(* Flattening a sequence of sequences.                                     *)

(* A set with 0 and with the successor of each of its elements holds every *)
(* natural number: otherwise the numbers of the set up to the one left out *)
(* would be mapped into fewer by adding one.                               *)
LEMMA NatSetInduction ==
    ASSUME NEW S, 0 \in S, \A n \in Nat : n \in S => n + 1 \in S
    PROVE  \A n \in Nat : n \in S
<1> SUFFICES ASSUME NEW n \in Nat, n \notin S PROVE FALSE
  OBVIOUS
<1> DEFINE A == {i \in 0 .. n : i \in S}
           B == A \ {0}
           f == [i \in A |-> i + 1]
<1>1. A \in SUBSET Nat /\ \A i \in A : i <= n
  OBVIOUS
<1>2. 0 \in A
  OBVIOUS
<1>3. f \in [A -> B]
  OBVIOUS
<1>4. \A x, y \in A : f[x] = f[y] => x = y
  OBVIOUS
<1> HIDE DEF A, f
<1>5. IsFiniteSet(A)
  BY <1>1, FS_BoundedSetOfNaturals
<1>6. IsFiniteSet(B) /\ Cardinality(B) = Cardinality(A) - 1
  BY <1>2, <1>5, FS_RemoveElement
<1>7. Cardinality(A) \in Nat
  BY <1>5, FS_CardinalityType
<1> HIDE DEF B
<1>8. Cardinality(B) < Cardinality(A)
  BY <1>6, <1>7
<1>9. \E x, y \in A : x # y /\ f[x] = f[y]
  BY <1>3, <1>5, <1>6, <1>8, FS_PigeonHole
<1> QED BY <1>4, <1>9

(* f solves the recursion by which FlattenSeq is defined.                  *)
IsFlattening(f, seqs) ==
    f = [i \in 1 .. Len(seqs) |->
            IF i = 1 THEN seqs[i] ELSE f[i - 1] \o seqs[i]]

(* The recursion of FlattenSeq has at most one solution.                   *)
LEMMA FlatteningUnique ==
    ASSUME NEW seqs, Len(seqs) \in Nat,
           NEW f, IsFlattening(f, seqs), NEW g, IsFlattening(g, seqs)
    PROVE  f = g
<1> DEFINE S == {n \in Nat : n \in 1 .. Len(seqs) => f[n] = g[n]}
<1>1. /\ DOMAIN f = 1 .. Len(seqs) /\ DOMAIN g = 1 .. Len(seqs)
      /\ f = [i \in 1 .. Len(seqs) |-> f[i]]
      /\ g = [i \in 1 .. Len(seqs) |-> g[i]]
  BY DEF IsFlattening
<1>a. \A i \in 1 .. Len(seqs) :
         /\ f[i] = IF i = 1 THEN seqs[i] ELSE f[i - 1] \o seqs[i]
         /\ g[i] = IF i = 1 THEN seqs[i] ELSE g[i - 1] \o seqs[i]
  BY Zenon DEF IsFlattening
<1>2. 0 \in S
  OBVIOUS
<1>3. \A n \in Nat : n \in S => n + 1 \in S
  <2> SUFFICES ASSUME NEW n \in Nat, n \in S, n + 1 \in 1 .. Len(seqs)
               PROVE  f[n + 1] = g[n + 1]
    OBVIOUS
  <2>1. CASE n = 0
    <3>1. 1 \in 1 .. Len(seqs) /\ n + 1 = 1
      BY <2>1
    <3>2. f[1] = seqs[1] /\ g[1] = seqs[1]
      BY <3>1, <1>a
    <3> QED BY <3>1, <3>2
  <2>2. CASE n # 0
    <3>1. f[n] = g[n] /\ (n + 1) - 1 = n /\ n + 1 # 1
      BY <2>2
    <3>2. /\ f[n + 1] = f[n] \o seqs[n + 1]
          /\ g[n + 1] = g[n] \o seqs[n + 1]
      BY <3>1, <1>a
    <3> QED BY <3>1, <3>2
  <2> QED BY <2>1, <2>2
<1> HIDE DEF S
<1>4. \A n \in Nat : n \in S
  BY <1>2, <1>3, NatSetInduction
<1>5. \A n \in 1 .. Len(seqs) : f[n] = g[n]
  BY <1>4 DEF S
<1> QED BY <1>1, <1>5

(* FlattenSeq is the last element of the solution.                         *)
LEMMA FlatteningIs ==
    ASSUME NEW seqs, Len(seqs) \in Nat, Len(seqs) # 0,
           NEW f, IsFlattening(f, seqs)
    PROVE  FlattenSeq(seqs) = f[Len(seqs)]
<1> DEFINE chosen ==
        CHOOSE g : g = [i \in 1 .. Len(seqs) |->
            IF i = 1 THEN seqs[i] ELSE g[i - 1] \o seqs[i]]
<1>1. IsFlattening(chosen, seqs)
  BY DEF IsFlattening
<1>2. chosen = f
  BY <1>1, FlatteningUnique
<1> QED BY <1>2 DEF FlattenSeq

(* The recursion of FlattenSeq has a solution, whose elements are          *)
(* sequences.                                                              *)
LEMMA FlatteningExists ==
    ASSUME NEW X, NEW seqs \in Seq(Seq(X))
    PROVE  \E f \in [1 .. Len(seqs) -> Seq(X)] : IsFlattening(f, seqs)
<1> DEFINE Upto(f, n) ==
             \A i \in 1 .. n :
                 f[i] = IF i = 1 THEN seqs[i] ELSE f[i - 1] \o seqs[i]
           P(n) == n <= Len(seqs) =>
                       \E f \in [1 .. n -> Seq(X)] : Upto(f, n)
           S == {n \in Nat : P(n)}
<1>0. \A i \in 1 .. Len(seqs) : seqs[i] \in Seq(X)
  OBVIOUS
<1>1. P(0)
  <2>1. [i \in 1 .. 0 |-> <<>>] \in [1 .. 0 -> Seq(X)] /\ Upto([i \in 1 .. 0 |-> <<>>], 0)
    OBVIOUS
  <2> QED BY <2>1
<1>2. ASSUME NEW n \in Nat, P(n) PROVE P(n + 1)
  <2> SUFFICES ASSUME n + 1 <= Len(seqs)
               PROVE  \E f \in [1 .. n + 1 -> Seq(X)] : Upto(f, n + 1)
    OBVIOUS
  <2>1. PICK f \in [1 .. n -> Seq(X)] : Upto(f, n)
    <3>1. n <= Len(seqs)
      OBVIOUS
    <3> QED BY <1>2, <3>1
  <2> DEFINE g == [i \in 1 .. n + 1 |-> IF i <= n THEN f[i]
                    ELSE IF i = 1 THEN seqs[i] ELSE f[n] \o seqs[i]]
  <2>2. g \in [1 .. n + 1 -> Seq(X)]
    <3>1. ASSUME NEW i \in 1 .. n + 1 PROVE g[i] \in Seq(X)
      <4>1. CASE i <= n
        BY <4>1
      <4>2. CASE i = n + 1 /\ n = 0
        BY <4>2, <1>0
      <4>3. CASE i = n + 1 /\ n # 0
        <5>1. f[n] \in Seq(X) /\ seqs[i] \in Seq(X)
          BY <4>3, <1>0
        <5>2. f[n] \o seqs[i] \in Seq(X)
          BY <5>1
        <5> QED BY <4>3, <5>2
      <4> QED BY <4>1, <4>2, <4>3
    <3> QED BY <3>1
  <2>3. ASSUME NEW i \in 1 .. n + 1
        PROVE  g[i] = IF i = 1 THEN seqs[i] ELSE g[i - 1] \o seqs[i]
    <3>1. CASE i <= n
      <4>0. i \in 1 .. n
        BY <3>1
      <4>1. f[i] = IF i = 1 THEN seqs[i] ELSE f[i - 1] \o seqs[i]
        BY <2>1, <4>0
      <4>2. g[i] = f[i] /\ (i # 1 => g[i - 1] = f[i - 1])
        BY <3>1
      <4> QED BY <4>1, <4>2
    <3>2. CASE i = n + 1
      <4>1. i = 1 => g[i] = seqs[i]
        BY <3>2
      <4>2. i # 1 => g[i] = f[n] \o seqs[i] /\ g[i - 1] = f[n]
        <5>1. ~(i <= n) /\ i - 1 = n /\ (i # 1 => n \in 1 .. n + 1)
          BY <3>2
        <5> QED BY <5>1
      <4> QED BY <4>1, <4>2
    <3> QED BY <3>1, <3>2
  <2> QED BY <2>2, <2>3
<1> HIDE DEF P
<1>3. 0 \in S /\ \A n \in Nat : n \in S => n + 1 \in S
  BY <1>1, <1>2
<1> HIDE DEF S
<1>4. Len(seqs) \in S
  BY <1>3, NatSetInduction
<1>5. P(Len(seqs))
  BY <1>4 DEF S
<1>6. PICK f \in [1 .. Len(seqs) -> Seq(X)] : Upto(f, Len(seqs))
  BY <1>5 DEF P
<1>7. IsFlattening(f, seqs)
  BY <1>6 DEF IsFlattening
<1> QED BY <1>7

(* A sequence of byte sequences is flattened to a byte sequence.           *)
LEMMA FlattenType ==
    ASSUME NEW X, NEW seqs \in Seq(Seq(X))
    PROVE  FlattenSeq(seqs) \in Seq(X)
<1>1. CASE Len(seqs) = 0
  <2>1. FlattenSeq(seqs) = seqs /\ seqs = <<>>
    BY <1>1 DEF FlattenSeq
  <2> QED BY <2>1
<1>2. CASE Len(seqs) # 0
  <2>1. PICK f \in [1 .. Len(seqs) -> Seq(X)] : IsFlattening(f, seqs)
    BY FlatteningExists
  <2>2. FlattenSeq(seqs) = f[Len(seqs)]
    BY <1>2, <2>1, FlatteningIs
  <2>3. Len(seqs) \in 1 .. Len(seqs)
    BY <1>2
  <2> QED BY <2>2, <2>3
<1> QED BY <1>1, <1>2

(* Nothing is left of no frames.                                           *)
LEMMA FlattenEmpty == FlattenSeq(<<>>) = <<>>
  BY DEF FlattenSeq

(* A frame written is put behind those that are left.                      *)
LEMMA FlattenAppend ==
    ASSUME NEW X, NEW seqs \in Seq(Seq(X)), NEW last \in Seq(X)
    PROVE  FlattenSeq(Append(seqs, last)) = FlattenSeq(seqs) \o last
<1> DEFINE n == Len(seqs)
           longer == Append(seqs, last)
<1> SUFFICES FlattenSeq(longer) = FlattenSeq(seqs) \o last
  OBVIOUS
<1>1. /\ longer \in Seq(Seq(X)) /\ Len(longer) = n + 1 /\ n \in Nat
      /\ \A i \in 1 .. n : longer[i] = seqs[i]
      /\ longer[n + 1] = last
  OBVIOUS
<1> HIDE DEF longer
<1>3. PICK g \in [1 .. Len(longer) -> Seq(X)] : IsFlattening(g, longer)
  BY <1>1, FlatteningExists
<1>4. FlattenSeq(longer) = g[n + 1]
  <2>1. Len(longer) \in Nat /\ Len(longer) # 0
    BY <1>1
  <2>2. FlattenSeq(longer) = g[Len(longer)]
    BY <1>3, <2>1, FlatteningIs
  <2> QED BY <1>1, <2>2
<1>g. \A i \in 1 .. n + 1 :
        g[i] = IF i = 1 THEN longer[i] ELSE g[i - 1] \o longer[i]
  BY <1>1, <1>3, Zenon DEF IsFlattening
<1>5. CASE n = 0
  <2>1. seqs = <<>> /\ FlattenSeq(seqs) = <<>>
    BY <1>5, FlattenEmpty
  <2>2. g[n + 1] = last
    BY <1>1, <1>g, <1>5
  <2>3. <<>> \o last = last
    OBVIOUS
  <2> QED BY <1>4, <2>1, <2>2, <2>3
<1>6. CASE n # 0
  <2> DEFINE front == [i \in 1 .. n |-> g[i]]
  <2>1. IsFlattening(front, seqs)
    <3>1. ASSUME NEW i \in 1 .. n
          PROVE  front[i] = IF i = 1 THEN seqs[i] ELSE front[i - 1] \o seqs[i]
      <4>1. /\ i \in 1 .. n + 1 /\ front[i] = g[i] /\ longer[i] = seqs[i]
            /\ (i # 1 => front[i - 1] = g[i - 1])
        BY <1>1
      <4> QED BY <4>1, <1>g
    <3> QED BY <3>1 DEF IsFlattening
  <2>2. FlattenSeq(seqs) = front[n]
    BY <1>1, <1>6, <2>1, FlatteningIs
  <2>3. front[n] = g[n]
    BY <1>1, <1>6
  <2>4. g[n + 1] = g[n] \o last
    <3>1. n + 1 \in 1 .. n + 1 /\ n + 1 # 1 /\ (n + 1) - 1 = n
      BY <1>1, <1>6
    <3> QED BY <3>1, <1>1, <1>g
  <2> QED BY <1>4, <2>2, <2>3, <2>4
<1> QED BY <1>1, <1>5, <1>6

(* Where bytes lie, in the streambuf, on their way or with the writer,     *)
(* does not change the stream they make up.                                *)
LEMMA Regroup ==
    \A X : \A s, t, u \in Seq(X) : (s \o t) \o u = s \o (t \o u)
  BY ConcatAssociative, Zenon

(* A frame read is taken from the front of those that are left.            *)
LEMMA FlattenFirst ==
    ASSUME NEW X, NEW seqs \in Seq(Seq(X)), NEW first \in Seq(X)
    PROVE  FlattenSeq(<<first>> \o seqs) = first \o FlattenSeq(seqs)
<1> DEFINE n == Len(seqs)
           longer == <<first>> \o seqs
<1> SUFFICES FlattenSeq(longer) = first \o FlattenSeq(seqs)
  OBVIOUS
<1>1. /\ longer \in Seq(Seq(X)) /\ Len(longer) = n + 1 /\ n \in Nat
      /\ longer[1] = first
      /\ \A i \in 2 .. n + 1 : longer[i] = seqs[i - 1]
  <2>1. <<first>> \in Seq(Seq(X)) /\ Len(<<first>>) = 1
    OBVIOUS
  <2> QED BY <2>1
<1>2. PICK f \in [1 .. n -> Seq(X)] : IsFlattening(f, seqs)
  BY FlatteningExists
<1>f. \A i \in 1 .. n :
        f[i] = IF i = 1 THEN seqs[i] ELSE f[i - 1] \o seqs[i]
  BY <1>2, Zenon DEF IsFlattening
<1> HIDE DEF longer
<1> DEFINE g == [i \in 1 .. n + 1 |-> IF i = 1 THEN first ELSE first \o f[i - 1]]
<1>3. IsFlattening(g, longer)
  <2>1. ASSUME NEW i \in 1 .. n + 1
        PROVE  g[i] = IF i = 1 THEN longer[i] ELSE g[i - 1] \o longer[i]
    <3>1. CASE i = 1
      BY <1>1, <3>1
    <3>2. CASE i = 2
      <4>1. 1 \in 1 .. n /\ 2 \in 2 .. n + 1
        BY <3>2
      <4>2. f[1] = seqs[1]
        BY <4>1, <1>f
      <4>3. longer[2] = seqs[2 - 1]
        BY <4>1, <1>1
      <4>4. g[2] = first \o f[1] /\ g[1] = first /\ 2 - 1 = 1
        BY <1>1, <4>1
      <4> HIDE DEF g
      <4>5. longer[2] = seqs[1]
        BY <4>3
      <4>6. g[2] = g[1] \o longer[2]
        BY <4>2, <4>4, <4>5, Zenon
      <4>7. i # 1 /\ i - 1 = 1
        BY <3>2
      <4> QED BY <3>2, <4>6, <4>7, Zenon
    <3>3. CASE i > 2
      <4>1. i - 1 \in 1 .. n /\ i - 1 # 1 /\ i - 2 \in 1 .. n /\ i \in 2 .. n + 1
             /\ (i - 1) - 1 = i - 2
        <5>1. n \in Nat
          BY <1>1
        <5> HIDE DEF n
        <5> QED BY <5>1, <3>3
      <4>2. f[i - 1] = f[i - 2] \o seqs[i - 1]
        BY <4>1, <1>f
      <4>3. longer[i] = seqs[i - 1]
        BY <4>1, <1>1
      <4>4. g[i] = first \o f[i - 1] /\ g[i - 1] = first \o f[i - 2]
        BY <4>1
      <4>5. f[i - 2] \in Seq(X) /\ seqs[i - 1] \in Seq(X)
        <5>1. seqs \in [1 .. n -> Seq(X)]
          OBVIOUS
        <5> QED BY <4>1, <1>2, <5>1
      <4>6. first \o (f[i - 2] \o seqs[i - 1]) = (first \o f[i - 2]) \o seqs[i - 1]
        <5>1. \A s, t \in Seq(X) : first \o (s \o t) = (first \o s) \o t
          BY Regroup
        <5> QED BY <4>5, <5>1, Zenon
      <4> HIDE DEF g
      <4>7. g[i] = g[i - 1] \o longer[i]
        BY <4>2, <4>3, <4>4, <4>6, Zenon
      <4>8. i # 1
        BY <3>3
      <4> QED BY <4>7, <4>8, Zenon
    <3> QED BY <3>1, <3>2, <3>3
  <2>2. g = [i \in 1 .. Len(longer) |->
                IF i = 1 THEN longer[i] ELSE g[i - 1] \o longer[i]]
    <3>1. g = [i \in 1 .. n + 1 |-> g[i]]
      OBVIOUS
    <3> HIDE DEF g
    <3> QED BY <2>1, <3>1, <1>1
  <2> QED BY <2>2 DEF IsFlattening
<1>4. FlattenSeq(longer) = g[n + 1]
  <2> HIDE DEF g
  <2>1. Len(longer) \in Nat /\ Len(longer) # 0
    BY <1>1
  <2>2. FlattenSeq(longer) = g[Len(longer)]
    BY <1>3, <2>1, FlatteningIs
  <2> QED BY <1>1, <2>2
<1>5. CASE n = 0
  <2>1. seqs = <<>> /\ FlattenSeq(seqs) = <<>>
    BY <1>5, FlattenEmpty
  <2>2. g[n + 1] = first
    BY <1>5
  <2>3. first \o <<>> = first
    OBVIOUS
  <2> QED BY <1>4, <2>1, <2>2, <2>3
<1>6. CASE n # 0
  <2>1. FlattenSeq(seqs) = f[n]
    BY <1>1, <1>2, <1>6, FlatteningIs
  <2>2. g[n + 1] = first \o f[n]
    BY <1>1, <1>6
  <2> QED BY <1>4, <2>1, <2>2
<1> QED BY <1>1, <1>5, <1>6

(* The frames of the messages of s behind the first d.                     *)
Frames(s, d) == [i \in 1 .. Len(s) - d |-> FrameOf(s[d + i])]

(* The header limit, the capacity of the streambuf and the messages: what  *)
(* the proofs use of the constants.                                        *)
LEMMA SizesFit ==
    /\ HeaderLimit \in Nat /\ HeaderLimit >= 16
    /\ HeaderSize = 4 /\ Capacity \in Nat /\ Capacity = MaxMessageSize + 4
    /\ Messages \subseteq Seq(Byte)
    /\ \A m \in Messages : Len(m) < HeaderLimit
    /\ MaxMessageSize \in Nat
  <1>1. ByteRange \in Nat /\ ByteRange >= 2
    BY ByteRangeAssumption
  <1> DEFINE b2 == ByteRange * ByteRange
             b3 == ByteRange * b2
             b4 == ByteRange * b3
  <1>2. \A x \in Nat : ByteRange * x \in Nat /\ ByteRange * x >= 2 * x
    <2> SUFFICES ASSUME NEW x \in Nat
                 PROVE  ByteRange * x \in Nat /\ ByteRange * x >= 2 * x
      OBVIOUS
    <2>1. PICK e \in Nat : ByteRange = 2 + e
      <3>1. ByteRange - 2 \in Nat /\ ByteRange = 2 + (ByteRange - 2)
        BY <1>1
      <3> QED BY <3>1
    <2>2. ByteRange * x = 2 * x + e * x /\ e * x \in Nat
      BY <2>1
    <2> QED BY <2>2
  <1>3. b2 \in Nat /\ b2 >= 4
    BY <1>1, <1>2
  <1>4. b3 \in Nat /\ b3 >= 8
    <2> HIDE DEF b2
    <2>1. ByteRange * b2 \in Nat /\ ByteRange * b2 >= 2 * b2
      BY <1>2, <1>3
    <2> QED BY <1>3, <2>1
  <1>5. b4 \in Nat /\ b4 >= 16
    <2> HIDE DEF b3
    <2>1. ByteRange * b3 \in Nat /\ ByteRange * b3 >= 2 * b3
      BY <1>2, <1>4
    <2> QED BY <1>4, <2>1
  <1>6. HeaderLimit \in Nat /\ HeaderLimit >= 16
    BY <1>5 DEF HeaderLimit
  <1> QED BY <1>6, StreamAssumption DEF HeaderSize, Capacity

(* The streambuf holds a message of the maximum size and its header.       *)
LEMMA CapacityIs ==
    /\ MaxMessageSize \in Nat /\ Capacity \in Nat
    /\ Capacity = MaxMessageSize + 4
  BY SizesFit

(* The frame of a message that may be sent.                                *)
LEMMA FrameOfMessage ==
    ASSUME NEW m \in Messages
    PROVE  /\ FrameOf(m) \in Seq(Byte)
           /\ m \in Seq(Byte)
           /\ Len(FrameOf(m)) = 4 + Len(m)
           /\ FromBigEndian(FrameOf(m)) = Len(m)
           /\ View(FrameOf(m), Len(m), 4) = m
           /\ Len(m) \in Nat /\ Len(m) < HeaderLimit
  <1>1. m \in Seq(Byte) /\ Len(m) < HeaderLimit
    BY SizesFit
  <1>2. /\ FrameOf(m) \in Seq(Byte)
        /\ Len(FrameOf(m)) = HeaderSize + Len(m)
    BY <1>1, FrameParts
  <1>3. /\ FromBigEndian(FrameOf(m)) = Len(m)
        /\ View(FrameOf(m), Len(m), HeaderSize) = m
    BY <1>1, FrameRoundTrip
  <1> QED BY <1>1, <1>2, <1>3 DEF HeaderSize

(* The frames of the messages behind the first d are sequences of bytes.   *)
LEMMA FramesType ==
    ASSUME NEW s \in Seq(Messages), NEW d \in 0 .. Len(s)
    PROVE  /\ Frames(s, d) \in Seq(Seq(Byte))
           /\ Len(Frames(s, d)) = Len(s) - d
           /\ FlattenSeq(Frames(s, d)) \in Seq(Byte)
  <1>1. ASSUME NEW i \in 1 .. Len(s) - d PROVE FrameOf(s[d + i]) \in Seq(Byte)
    <2>1. s[d + i] \in Messages
      OBVIOUS
    <2> QED BY <2>1, FrameOfMessage
  <1>2. Len(s) - d \in Nat
    OBVIOUS
  <1>3. Frames(s, d) \in Seq(Seq(Byte)) /\ Len(Frames(s, d)) = Len(s) - d
    BY <1>1, <1>2 DEF Frames
  <1> QED BY <1>3, FlattenType

(* asyncWrite of m puts its frame behind those left.                       *)
LEMMA FramesWritten ==
    ASSUME NEW s \in Seq(Messages), NEW d \in 0 .. Len(s), NEW m \in Messages
    PROVE  FlattenSeq(Frames(Append(s, m), d)) =
               FlattenSeq(Frames(s, d)) \o FrameOf(m)
  <1> DEFINE longer == Append(s, m)
             frames == Frames(s, d)
  <1>1. /\ longer \in Seq(Messages) /\ Len(longer) = Len(s) + 1
        /\ \A i \in 1 .. Len(s) : longer[i] = s[i]
        /\ longer[Len(s) + 1] = m
    OBVIOUS
  <1>2. frames \in Seq(Seq(Byte)) /\ Len(frames) = Len(s) - d
    BY FramesType
  <1>3. FrameOf(m) \in Seq(Byte)
    BY FrameOfMessage
  <1>4. d \in 0 .. Len(longer)
    BY <1>1
  <1> HIDE DEF longer
  <1>5. Frames(longer, d) \in Seq(Seq(Byte)) /\ Len(Frames(longer, d)) = Len(longer) - d
    BY <1>1, <1>4, FramesType
  <1>6. Frames(longer, d) = Append(frames, FrameOf(m))
    <2> DEFINE other == Append(frames, FrameOf(m))
    <2>1. /\ other \in Seq(Seq(Byte)) /\ Len(other) = Len(longer) - d
          /\ \A i \in 1 .. Len(frames) : other[i] = frames[i]
          /\ other[Len(frames) + 1] = FrameOf(m)
      <3> HIDE DEF frames
      <3> QED BY <1>1, <1>2, <1>3
    <2> HIDE DEF other
    <2>2. ASSUME NEW i \in 1 .. Len(longer) - d
          PROVE  Frames(longer, d)[i] = other[i]
      <3>1. Frames(longer, d)[i] = FrameOf(longer[d + i])
        BY DEF Frames
      <3>2. CASE i <= Len(s) - d
        <4>1. i \in 1 .. Len(frames) /\ d + i \in 1 .. Len(s)
          BY <1>2, <3>2
        <4>2. longer[d + i] = s[d + i] /\ other[i] = frames[i]
          BY <4>1, <1>1, <2>1
        <4>3. frames[i] = FrameOf(s[d + i])
          BY <3>2 DEF Frames
        <4> HIDE DEF frames
        <4> QED BY <3>1, <4>2, <4>3
      <3>3. CASE i = Len(s) - d + 1
        <4>1. d + i = Len(s) + 1 /\ i = Len(frames) + 1
          BY <1>2, <3>3
        <4> HIDE DEF frames
        <4> QED BY <3>1, <4>1, <1>1, <2>1
      <3> QED BY <1>1, <3>2, <3>3
    <2>3. Frames(longer, d) = other
      BY <1>5, <2>1, <2>2, SeqEqual
    <2> QED BY <2>3 DEF other
  <1>7. FlattenSeq(Append(frames, FrameOf(m))) = FlattenSeq(frames) \o FrameOf(m)
    <2> HIDE DEF frames
    <2> QED BY <1>2, <1>3, FlattenAppend
  <1> QED BY <1>6, <1>7 DEF longer

(* The frame of the next message is the first of those left.               *)
LEMMA FramesDelivered ==
    ASSUME NEW s \in Seq(Messages), NEW d \in 0 .. Len(s), d < Len(s)
    PROVE  /\ s[d + 1] \in Messages
           /\ FlattenSeq(Frames(s, d)) =
                  FrameOf(s[d + 1]) \o FlattenSeq(Frames(s, d + 1))
  <1> DEFINE rest == Frames(s, d + 1)
             first == FrameOf(s[d + 1])
  <1>1. s[d + 1] \in Messages
    OBVIOUS
  <1>2. first \in Seq(Byte)
    BY <1>1, FrameOfMessage
  <1>3. rest \in Seq(Seq(Byte)) /\ Len(rest) = Len(s) - (d + 1)
    <2>1. d + 1 \in 0 .. Len(s)
      OBVIOUS
    <2> QED BY <2>1, FramesType
  <1>4. Frames(s, d) \in Seq(Seq(Byte)) /\ Len(Frames(s, d)) = Len(s) - d
    BY FramesType
  <1>5. Frames(s, d) = <<first>> \o rest
    <2> DEFINE other == <<first>> \o rest
    <2>1. /\ other \in Seq(Seq(Byte)) /\ Len(other) = Len(s) - d
          /\ other[1] = first
          /\ \A i \in 1 .. Len(rest) : other[i + 1] = rest[i]
      <3> HIDE DEF first, rest
      <3>1. <<first>> \in Seq(Seq(Byte)) /\ Len(<<first>>) = 1 /\ <<first>>[1] = first
        BY <1>2
      <3> QED BY <1>3, <3>1
    <2> HIDE DEF other
    <2>2. ASSUME NEW i \in 1 .. Len(s) - d PROVE Frames(s, d)[i] = other[i]
      <3>1. Frames(s, d)[i] = FrameOf(s[d + i])
        BY DEF Frames
      <3>2. CASE i = 1
        BY <2>1, <3>1, <3>2
      <3>3. CASE i > 1
        <4>1. i - 1 \in 1 .. Len(s) - (d + 1) /\ (i - 1) + 1 = i
          BY <3>3
        <4>2. rest[i - 1] = FrameOf(s[(d + 1) + (i - 1)])
          BY <4>1 DEF Frames
        <4>3. (d + 1) + (i - 1) = d + i
          OBVIOUS
        <4>4. other[i] = rest[i - 1]
          <5> HIDE DEF rest
          <5> QED BY <2>1, <1>3, <4>1
        <4> HIDE DEF rest
        <4> QED BY <3>1, <4>2, <4>3, <4>4
      <3> QED BY <3>2, <3>3
    <2>3. Frames(s, d) = other
      BY <1>4, <2>1, <2>2, SeqEqual
    <2> QED BY <2>3 DEF other
  <1>6. FlattenSeq(<<first>> \o rest) = first \o FlattenSeq(rest)
    <2> HIDE DEF first, rest
    <2> QED BY <1>2, <1>3, FlattenFirst
  <1> QED BY <1>1, <1>5, <1>6

(* When all messages are delivered no frame is left.                       *)
LEMMA NoFramesLeft ==
    ASSUME NEW s \in Seq(Messages)
    PROVE  FlattenSeq(Frames(s, Len(s))) = <<>>
  <1>1. Len(s) - Len(s) = 0 /\ 1 .. 0 = {}
    OBVIOUS
  <1>2. Frames(s, Len(s)) = <<>>
    BY <1>1 DEF Frames
  <1> QED BY <1>2, FlattenEmpty

(* The sequences a and c agree where both have elements; if they are      *)
(* equally long, they are equal, and so are b and d.                       *)
Agree(a, b, c, d) ==
    /\ \A i \in 1 .. Len(a) : i <= Len(c) => a[i] = c[i]
    /\ Len(a) = Len(c) => a = c /\ b = d

(* Two ways to split one stream agree on the part that both have in front. *)
LEMMA SameSplit ==
    ASSUME NEW X, NEW a \in Seq(X), NEW b \in Seq(X),
           NEW c \in Seq(X), NEW d \in Seq(X), a \o b = c \o d
    PROVE  Agree(a, b, c, d)
  <1>0. ASSUME NEW s \in Seq(X), NEW t \in Seq(X)
        PROVE  /\ s \o t \in Seq(X) /\ Len(s \o t) = Len(s) + Len(t)
               /\ \A i \in 1 .. Len(s) : (s \o t)[i] = s[i]
               /\ \A i \in 1 .. Len(t) : (s \o t)[Len(s) + i] = t[i]
    OBVIOUS
  <1>1. /\ a \o b \in Seq(X) /\ Len(a \o b) = Len(a) + Len(b)
        /\ \A i \in 1 .. Len(a) : (a \o b)[i] = a[i]
        /\ \A i \in 1 .. Len(b) : (a \o b)[Len(a) + i] = b[i]
    BY <1>0, Zenon
  <1>2. /\ c \o d \in Seq(X) /\ Len(c \o d) = Len(c) + Len(d)
        /\ \A i \in 1 .. Len(c) : (c \o d)[i] = c[i]
        /\ \A i \in 1 .. Len(d) : (c \o d)[Len(c) + i] = d[i]
    BY <1>0, Zenon
  <1> DEFINE ab == a \o b
             cd == c \o d
  <1>3. ab = cd
    OBVIOUS
  <1>4. Len(a) \in Nat /\ Len(b) \in Nat /\ Len(c) \in Nat /\ Len(d) \in Nat
    OBVIOUS
  <1> HIDE DEF ab, cd
  <1>5. Len(a) + Len(b) = Len(c) + Len(d)
    BY <1>1, <1>2, <1>3 DEF ab, cd
  <1>6. ASSUME NEW i \in 1 .. Len(a), i <= Len(c) PROVE a[i] = c[i]
    <2>1. i \in 1 .. Len(c)
      BY <1>4, <1>6
    <2> QED BY <2>1, <1>1, <1>2, <1>3 DEF ab, cd
  <1>7. ASSUME Len(a) = Len(c) PROVE a = c /\ b = d
    <2>1. a = c
      <3>1. \A i \in 1 .. Len(a) : a[i] = c[i]
        BY <1>4, <1>6, <1>7
      <3> QED BY <3>1, <1>7, SeqEqual
    <2>2. Len(b) = Len(d)
      BY <1>4, <1>5, <1>7
    <2>3. \A i \in 1 .. Len(b) : b[i] = d[i]
      BY <2>2, <1>1, <1>2, <1>3, <1>7 DEF ab, cd
    <2> QED BY <2>1, <2>2, <2>3, SeqEqual
  <1> QED BY <1>6, <1>7 DEF Agree

(* The same for sequences of bytes.                                        *)
LEMMA BytesSplit ==
    \A a, b, c, d \in Seq(Byte) :
        a \o b = c \o d => Agree(a, b, c, d)
  BY SameSplit, Zenon

(* The bytes of the streambuf that no handler has still to consume.        *)
Unconsumed == SubSeq(buffer, late + 1, Len(buffer))

(* A writer that is idle has handed over its frame.                        *)
WriterAt == writer = "idle" => writing = <<>>

(* What is in the streambuf at each stage of a read.                       *)
ReaderAt ==
    /\ late <= Len(buffer)
    /\ reader = "idle" => Len(buffer) = late /\ goal = 0 /\ ~full
    /\ reader = "header" =>
          /\ goal = HeaderSize /\ Len(buffer) = late + transferred
          /\ late > 0 => transferred = 0
    /\ reader = "data" =>
          /\ goal = FromBigEndian(buffer) /\ goal > 0
          /\ late = 0 /\ Len(buffer) = HeaderSize + transferred
    /\ reader = "failed" => goal = 0 /\ ~full
    /\ result = "invalidFrame" => reader = "failed"

(* What the running handler will consume is the frame of the last message. *)
LateIsLast ==
    late > 0 /\ reader # "failed" =>
        delivered # <<>> /\ late = HeaderSize + Len(Last(delivered))

(* The messages delivered are the first of those sent.                     *)
DeliveredAsSent ==
    /\ Len(delivered) <= Len(sent)
    /\ \A i \in 1 .. Len(delivered) : delivered[i] = sent[i]

(* The condition of InvalidOnlyIfTooLarge.                                 *)
TooLarge ==
    \/ /\ Len(delivered) < Len(sent)
       /\ Len(sent[Len(delivered) + 1]) > MaxMessageSize
    \/ delivered # <<>> /\ Len(Last(delivered)) = MaxMessageSize

(* A read meets a full streambuf only under that condition, and otherwise  *)
(* has room for a byte.                                                    *)
FullIsTooLarge ==
    /\ Reading /\ full => TooLarge
    /\ Reading /\ ~full /\ transferred < goal => Len(buffer) < Capacity

(* The inductive invariant.                                                *)
StreamInv ==
    /\ StreamTypeOK /\ WriterAt /\ ReaderAt /\ LateIsLast
    /\ DeliveredAsSent /\ Aligned /\ FullIsTooLarge /\ InvalidOnlyIfTooLarge

(* Aligned in terms of the frames left, before and after a step.           *)
LEMMA AlignedIs ==
    /\ Aligned <=>
        (reader # "failed" =>
            (Unconsumed \o wire) \o writing =
                FlattenSeq(Frames(sent, Len(delivered))))
    /\ Aligned' <=>
        (reader' # "failed" =>
            (Unconsumed' \o wire') \o writing' =
                FlattenSeq(Frames(sent', Len(delivered'))))
  BY DEF Aligned, FramesLeft, Frames, Unconsumed

(* The types of the state, one by one.                                     *)
LEMMA TypeFacts ==
    ASSUME StreamTypeOK
    PROVE  /\ sent \in Seq(Messages) /\ delivered \in Seq(Seq(Byte))
           /\ writing \in Seq(Byte) /\ wire \in Seq(Byte) /\ buffer \in Seq(Byte)
           /\ goal \in Nat /\ transferred \in Nat /\ transferred <= goal
           /\ late \in Nat
           /\ full \in BOOLEAN
           /\ writerOpen \in BOOLEAN /\ readerOpen \in BOOLEAN
           /\ Len(delivered) \in Nat /\ Len(sent) \in Nat /\ Len(buffer) \in Nat
           /\ Unconsumed \in Seq(Byte)
           /\ late = 0 => Unconsumed = buffer
  <1>1. /\ sent \in Seq(Messages) /\ delivered \in Seq(Seq(Byte))
        /\ writing \in Seq(Byte) /\ wire \in Seq(Byte) /\ buffer \in Seq(Byte)
        /\ writerOpen \in BOOLEAN /\ readerOpen \in BOOLEAN /\ full \in BOOLEAN
    BY DEF StreamTypeOK
  <1>2. goal \in Nat /\ transferred \in Nat /\ transferred <= goal /\ late \in Nat
    BY SizesFit DEF StreamTypeOK
  <1>3. Unconsumed \in Seq(Byte) /\ (late = 0 => Unconsumed = buffer)
    <2>1. late + 1 \in Nat \ {0} /\ (late = 0 => late + 1 = 1)
      BY <1>2
    <2>2. \A i \in late + 1 .. Len(buffer) : buffer[i] \in Byte
      BY <1>1, <1>2
    <2>3. SubSeq(buffer, late + 1, Len(buffer)) \in Seq(Byte)
      BY <1>1, <2>1, <2>2
    <2>4. SubSeq(buffer, 1, Len(buffer)) = buffer
      BY <1>1
    <2> QED BY <2>1, <2>3, <2>4 DEF Unconsumed
  <1> QED BY <1>1, <1>2, <1>3

(* Once four bytes are in the streambuf they are the header of the next    *)
(* message, and when all of its bytes are there the streambuf holds        *)
(* exactly its frame.                                                      *)
LEMMA FrontFrame ==
    ASSUME StreamInv, reader # "failed", late = 0, Len(buffer) >= 4
    PROVE  /\ Len(delivered) < Len(sent)
           /\ sent[Len(delivered) + 1] \in Messages
           /\ FromBigEndian(buffer) = Len(sent[Len(delivered) + 1])
           /\ Len(buffer) = 4 + Len(sent[Len(delivered) + 1]) =>
                /\ buffer = FrameOf(sent[Len(delivered) + 1])
                /\ wire \o writing =
                        FlattenSeq(Frames(sent, Len(delivered) + 1))
  <1> DEFINE d == Len(delivered)
             m == sent[d + 1]
             rest == FlattenSeq(Frames(sent, d + 1))
  <1>1. /\ sent \in Seq(Messages) /\ d \in 0 .. Len(sent)
        /\ buffer \in Seq(Byte) /\ wire \in Seq(Byte) /\ writing \in Seq(Byte)
        /\ Unconsumed = buffer
    BY TypeFacts DEF StreamInv, DeliveredAsSent
  <1>2. (buffer \o wire) \o writing = FlattenSeq(Frames(sent, d))
    BY <1>1, AlignedIs DEF StreamInv
  <1>3. (buffer \o wire) \o writing = buffer \o (wire \o writing)
    <2>1. \A s, t, u \in Seq(Byte) : (s \o t) \o u = s \o (t \o u)
      BY Regroup
    <2> QED BY <1>1, <2>1, Zenon
  <1>4. wire \o writing \in Seq(Byte)
    BY <1>1
  <1>5. d < Len(sent)
    <2> SUFFICES ASSUME d = Len(sent) PROVE FALSE
      BY <1>1
    <2>1. FlattenSeq(Frames(sent, d)) = <<>>
      BY <1>1, NoFramesLeft
    <2> DEFINE tail == wire \o writing
    <2>2. Len(buffer \o tail) = Len(buffer) + Len(tail) /\ Len(tail) \in Nat
      <3> HIDE DEF tail
      <3>1. tail \in Seq(Byte)
        BY <1>4 DEF tail
      <3> QED BY <1>1, <3>1
    <2>3. Len(buffer \o tail) = 0
      <3>1. buffer \o tail = <<>>
        BY <1>2, <1>3, <2>1, Zenon
      <3> HIDE DEF tail
      <3> QED BY <3>1
    <2> HIDE DEF tail
    <2> QED BY <2>2, <2>3
  <1>6. m \in Messages /\ FlattenSeq(Frames(sent, d)) = FrameOf(m) \o rest
    BY <1>1, <1>5, FramesDelivered
  <1>7. rest \in Seq(Byte)
    <2>1. d + 1 \in 0 .. Len(sent)
      BY <1>1, <1>5
    <2> QED BY <1>1, <2>1, FramesType
  <1>8. /\ FrameOf(m) \in Seq(Byte) /\ Len(FrameOf(m)) = 4 + Len(m)
        /\ FromBigEndian(FrameOf(m)) = Len(m) /\ Len(m) \in Nat
    BY <1>6, FrameOfMessage
  <1>9. buffer \o (wire \o writing) = FrameOf(m) \o rest
    BY <1>2, <1>3, <1>6
  <1>10. /\ \A i \in 1 .. Len(buffer) : i <= Len(FrameOf(m)) => buffer[i] = FrameOf(m)[i]
         /\ Len(buffer) = Len(FrameOf(m)) =>
               buffer = FrameOf(m) /\ wire \o writing = rest
    <2> DEFINE frame == FrameOf(m)
               tail == wire \o writing
    <2> HIDE DEF frame, tail, rest
    <2>1. /\ frame \in Seq(Byte) /\ tail \in Seq(Byte) /\ rest \in Seq(Byte)
          /\ buffer \o tail = frame \o rest
      BY <1>4, <1>7, <1>8, <1>9 DEF frame, tail
    <2>2. Agree(buffer, tail, frame, rest)
      <3>1. buffer \in Seq(Byte)
        BY <1>1
      <3> QED BY <2>1, <3>1, BytesSplit, Zenon
    <2> QED BY <2>2 DEF Agree, frame, tail
  <1>11. FromBigEndian(buffer) = FromBigEndian(FrameOf(m))
    <2> DEFINE frame == FrameOf(m)
    <2> HIDE DEF frame, m
    <2>1. \A i \in 1 .. 4 : buffer[i] = frame[i]
      BY <1>1, <1>8, <1>10 DEF frame
    <2>2. FromBigEndian(buffer) = FromBigEndian(frame)
      BY <2>1 DEF FromBigEndian
    <2> QED BY <2>2 DEF frame
  <1> QED BY <1>5, <1>6, <1>8, <1>10, <1>11

(* The invariant holds before anything is written or read.                 *)
LEMMA InitKeeps == StreamInit => StreamInv
  <1> SUFFICES ASSUME StreamInit PROVE StreamInv
    OBVIOUS
  <1> USE DEF StreamInit
  <1>1. StreamTypeOK
    <2>1. <<>> \in Seq(Messages) /\ <<>> \in Seq(Seq(Byte)) /\ <<>> \in Seq(Byte)
      OBVIOUS
    <2>2. Len(<<>>) = 0 /\ MaxSent \in Nat
      BY StreamAssumption
    <2>3. 0 \in 0 .. HeaderLimit - 1 /\ 0 \in 0 .. 0 /\ 0 \in 0 .. Capacity
      BY SizesFit
    <2>4. 0 <= MaxSent /\ 0 <= Capacity
      BY SizesFit, <2>2
    <2> QED BY <2>1, <2>2, <2>3, <2>4 DEF StreamTypeOK
  <1>2. WriterAt /\ ReaderAt /\ LateIsLast /\ FullIsTooLarge /\ InvalidOnlyIfTooLarge
    BY DEF WriterAt, ReaderAt, LateIsLast, FullIsTooLarge, InvalidOnlyIfTooLarge, Reading
  <1>3. DeliveredAsSent
    BY DEF DeliveredAsSent
  <1>4. Aligned
    <2>1. Unconsumed = <<>>
      BY DEF Unconsumed
    <2>2. <<>> \in Seq(Messages) /\ Len(<<>>) = 0
      OBVIOUS
    <2>3. FlattenSeq(Frames(sent, Len(delivered))) = <<>>
      BY <2>2, NoFramesLeft
    <2>4. (Unconsumed \o wire) \o writing = <<>>
      BY <2>1
    <2> QED BY <2>3, <2>4, AlignedIs
  <1> QED BY <1>1, <1>2, <1>3, <1>4 DEF StreamInv

(* asyncWrite is begun only when the frame before was handed over.         *)
LEMMA AsyncWriteKeeps ==
    ASSUME StreamInv, NEW m \in Messages, AsyncWrite(m)
    PROVE  StreamInv'
  <1>1. /\ sent \in Seq(Messages) /\ delivered \in Seq(Seq(Byte))
        /\ wire \in Seq(Byte) /\ buffer \in Seq(Byte)
        /\ Unconsumed \in Seq(Byte)
        /\ Len(sent) \in Nat /\ Len(delivered) \in 0 .. Len(sent)
    BY TypeFacts DEF StreamInv, DeliveredAsSent
  <1>2. /\ sent' = Append(sent, m) /\ Len(sent') = Len(sent) + 1
        /\ sent' \in Seq(Messages)
        /\ \A i \in 1 .. Len(sent) : sent'[i] = sent[i]
        /\ Len(sent) < MaxSent
    BY <1>1 DEF AsyncWrite
  <1>3. /\ writer = "idle" /\ writer' = "writing" /\ writing' = FrameOf(m)
        /\ UNCHANGED <<writerOpen, wire, readerOpen, buffer, reader, goal,
                       transferred, full, late, result, delivered>>
    BY DEF AsyncWrite, readerVars
  <1>4. FrameOf(m) \in Seq(Byte)
    BY FrameOfMessage
  <1>5. StreamTypeOK'
    <2>1. Len(sent') <= MaxSent
      BY <1>1, <1>2, StreamAssumption
    <2> QED BY <1>1, <1>2, <1>3, <1>4, <2>1 DEF StreamInv, StreamTypeOK, Capacity
  <1>6. WriterAt' /\ ReaderAt' /\ LateIsLast'
    BY <1>3 DEF StreamInv, WriterAt, ReaderAt, LateIsLast
  <1>7. DeliveredAsSent'
    BY <1>1, <1>2, <1>3 DEF StreamInv, DeliveredAsSent
  <1>8. Aligned'
    <2> SUFFICES ASSUME reader # "failed"
                 PROVE  (Unconsumed' \o wire') \o writing' =
                            FlattenSeq(Frames(sent', Len(delivered')))
      BY <1>3, AlignedIs
    <2>1. writing = <<>>
      BY <1>3 DEF StreamInv, WriterAt
    <2>2. (Unconsumed \o wire) \o writing = FlattenSeq(Frames(sent, Len(delivered)))
      BY AlignedIs DEF StreamInv
    <2> DEFINE before == Unconsumed \o wire
    <2>3. before \in Seq(Byte)
      BY <1>1
    <2>4. before \o <<>> = before
      <3> HIDE DEF before
      <3> QED BY <2>3
    <2>5. before = FlattenSeq(Frames(sent, Len(delivered)))
      BY <2>1, <2>2, <2>4
    <2>6. FlattenSeq(Frames(sent', Len(delivered))) =
              FlattenSeq(Frames(sent, Len(delivered))) \o FrameOf(m)
      BY <1>1, <1>2, FramesWritten
    <2>7. Unconsumed' = Unconsumed
      BY <1>3 DEF Unconsumed
    <2> HIDE DEF before
    <2> QED BY <1>3, <2>5, <2>6, <2>7 DEF before
  <1>9. TooLarge => TooLarge'
    BY <1>1, <1>2, <1>3 DEF TooLarge
  <1>10. FullIsTooLarge' /\ InvalidOnlyIfTooLarge'
    BY <1>3, <1>9 DEF StreamInv, FullIsTooLarge, InvalidOnlyIfTooLarge, TooLarge,
                      Reading, Capacity
  <1> QED BY <1>5, <1>6, <1>7, <1>8, <1>10 DEF StreamInv

(* A byte moves from one sequence to the next.                             *)
LEMMA ByteMoves ==
    ASSUME NEW s \in Seq(Byte), NEW t \in Seq(Byte), t # <<>>
    PROVE  /\ Head(t) \in Byte /\ Tail(t) \in Seq(Byte)
           /\ Append(s, Head(t)) \in Seq(Byte)
           /\ Len(Append(s, Head(t))) = Len(s) + 1
           /\ Append(s, Head(t)) \o Tail(t) = s \o t
  <1>1. Head(t) \in Byte /\ Tail(t) \in Seq(Byte) /\ t = <<Head(t)>> \o Tail(t)
    BY HeadTailProperties
  <1>2. /\ Append(s, Head(t)) \in Seq(Byte)
        /\ Len(Append(s, Head(t))) = Len(s) + 1
    BY <1>1
  <1>3. Append(s, Head(t)) = s \o <<Head(t)>>
    BY <1>1, AppendIsConcat
  <1>4. <<Head(t)>> \in Seq(Byte)
    BY <1>1
  <1>5. \A a, b, c \in Seq(Byte) : (a \o b) \o c = a \o (b \o c)
    BY Regroup
  <1>6. (s \o <<Head(t)>>) \o Tail(t) = s \o (<<Head(t)>> \o Tail(t))
    BY <1>1, <1>4, <1>5, Zenon
  <1> QED BY <1>1, <1>2, <1>3, <1>6, Zenon

(* A byte goes from the writer to the wire.                                *)
LEMMA HandOverKeeps ==
    ASSUME StreamInv, HandOver
    PROVE  StreamInv'
  <1>1. /\ writing \in Seq(Byte) /\ wire \in Seq(Byte) /\ Unconsumed \in Seq(Byte)
    BY TypeFacts DEF StreamInv
  <1>2. /\ writer = "writing" /\ writing # <<>>
        /\ wire' = Append(wire, Head(writing)) /\ writing' = Tail(writing)
        /\ UNCHANGED <<sent, writer, writerOpen, readerOpen, buffer, reader, goal,
                       transferred, full, late, result, delivered>>
    BY DEF HandOver, readerVars
  <1>3. /\ wire' \in Seq(Byte) /\ writing' \in Seq(Byte)
        /\ wire' \o writing' = wire \o writing
    BY <1>1, <1>2, ByteMoves
  <1>4. StreamTypeOK'
    BY <1>2, <1>3 DEF StreamInv, StreamTypeOK, Capacity
  <1>5. WriterAt' /\ ReaderAt' /\ LateIsLast' /\ DeliveredAsSent'
    BY <1>2 DEF StreamInv, WriterAt, ReaderAt, LateIsLast, DeliveredAsSent
  <1>6. Aligned'
    <2>1. Unconsumed' = Unconsumed
      BY <1>2 DEF Unconsumed
    <2>2. \A a, b, c \in Seq(Byte) : (a \o b) \o c = a \o (b \o c)
      BY Regroup
    <2>3. (Unconsumed \o wire') \o writing' = (Unconsumed \o wire) \o writing
      <3>1. (Unconsumed \o wire') \o writing' = Unconsumed \o (wire' \o writing')
        BY <1>1, <1>3, <2>2, Zenon
      <3>2. (Unconsumed \o wire) \o writing = Unconsumed \o (wire \o writing)
        BY <1>1, <2>2, Zenon
      <3> QED BY <1>3, <3>1, <3>2, Zenon
    <2> QED BY <1>2, <2>1, <2>3, AlignedIs DEF StreamInv
  <1>7. FullIsTooLarge' /\ InvalidOnlyIfTooLarge'
    BY <1>2 DEF StreamInv, FullIsTooLarge, InvalidOnlyIfTooLarge, TooLarge,
                Reading, Capacity
  <1> QED BY <1>4, <1>5, <1>6, <1>7 DEF StreamInv

(* The writer's state and is_open of both ends matter to the invariant only*)
(* in that a writer with bytes left is not idle.                           *)
LEMMA EndsKeep ==
    ASSUME StreamInv, WriteHandler \/ CloseWriter \/ CloseReader
    PROVE  StreamInv'
  <1>1. /\ UNCHANGED <<sent, writing, wire, buffer, reader, goal, transferred,
                       full, late, result, delivered>>
        /\ writer' \in {"idle", "writing", "failed"}
        /\ writer' = "idle" => writing = <<>>
        /\ writerOpen' \in BOOLEAN /\ readerOpen' \in BOOLEAN
    BY DEF StreamInv, StreamTypeOK, WriterAt, WriteHandler, CloseWriter,
           CloseReader, writerVars, readerVars
  <1>2. StreamTypeOK'
    BY <1>1 DEF StreamInv, StreamTypeOK, Capacity
  <1>3. WriterAt' /\ ReaderAt' /\ LateIsLast' /\ DeliveredAsSent'
    BY <1>1 DEF StreamInv, WriterAt, ReaderAt, LateIsLast, DeliveredAsSent
  <1>4. Aligned'
    BY <1>1, AlignedIs DEF StreamInv, Unconsumed
  <1>5. FullIsTooLarge' /\ InvalidOnlyIfTooLarge'
    BY <1>1 DEF StreamInv, FullIsTooLarge, InvalidOnlyIfTooLarge, TooLarge,
                Reading, Capacity
  <1> QED BY <1>2, <1>3, <1>4, <1>5 DEF StreamInv

(* A read begun in the handler of the last finds the bytes of that message *)
(* still in the streambuf; they fill it if the message has the maximum     *)
(* size.                                                                   *)
LEMMA AsyncReadKeeps ==
    ASSUME StreamInv, AsyncRead
    PROVE  StreamInv'
  <1>1. /\ late \in Nat /\ Len(buffer) \in Nat /\ Len(buffer) <= Capacity
    BY TypeFacts DEF StreamInv, StreamTypeOK
  <1>2. /\ reader = "idle" /\ reader' = "header" /\ goal' = 4
        /\ transferred' = 0 /\ full' = (Len(buffer) = Capacity)
        /\ result' = "none"
        /\ UNCHANGED <<sent, writer, writing, writerOpen, wire, readerOpen,
                       buffer, late, delivered>>
    BY <1>1, SizesFit DEF AsyncRead, InitiateRead, writerVars, Room, HeaderSize
  <1>f. full' \in BOOLEAN /\ (full' <=> Len(buffer) = Capacity)
    BY <1>2, Zenon
  <1>3. Len(buffer) = late
    BY <1>2 DEF StreamInv, ReaderAt
  <1>4. StreamTypeOK'
    <2>1. goal' \in 0 .. HeaderLimit - 1 /\ transferred' \in 0 .. goal'
      BY <1>2, SizesFit
    <2>3. Capacity' = Capacity
      BY DEF Capacity
    <2> QED BY <1>2, <1>f, <2>1, <2>3 DEF StreamInv, StreamTypeOK
  <1>5. WriterAt' /\ LateIsLast' /\ DeliveredAsSent'
    BY <1>2 DEF StreamInv, WriterAt, LateIsLast, DeliveredAsSent
  <1>6. ReaderAt'
    BY <1>1, <1>2, <1>3 DEF ReaderAt, HeaderSize
  <1>7. Aligned'
    BY <1>2, AlignedIs DEF StreamInv, Unconsumed
  <1>8. FullIsTooLarge'
    <2>1. full' => TooLarge'
      <3> SUFFICES ASSUME full' PROVE TooLarge'
        OBVIOUS
      <3>1. late = Capacity /\ late > 0
        BY <1>f, <1>3, CapacityIs
      <3>2. delivered # <<>> /\ late = HeaderSize + Len(Last(delivered))
        BY <1>2, <3>1 DEF StreamInv, LateIsLast
      <3>3. Len(Last(delivered)) \in Nat
        <4>1. delivered \in Seq(Seq(Byte))
          BY TypeFacts DEF StreamInv
        <4>2. Len(delivered) \in 1 .. Len(delivered)
          BY <3>2, <4>1
        <4>3. delivered[Len(delivered)] \in Seq(Byte)
          BY <4>1, <4>2
        <4> QED BY <4>3 DEF Last
      <3>4. Len(Last(delivered)) = MaxMessageSize
        <4> DEFINE size == Len(Last(delivered))
        <4>1. late = 4 + size /\ size \in Nat
          BY <3>2, <3>3 DEF HeaderSize
        <4> HIDE DEF size
        <4>2. size = MaxMessageSize
          <5>1. 4 + size = MaxMessageSize + 4
            BY <3>1, <4>1, CapacityIs, Zenon
          <5>2. MaxMessageSize \in Nat
            BY CapacityIs
          <5> QED BY <4>1, <5>1, <5>2
        <4> QED BY <4>2 DEF size
      <3> QED BY <1>2, <3>2, <3>4 DEF TooLarge
    <2>2. ~full' => Len(buffer') < Capacity'
      BY <1>1, <1>2, <1>f, CapacityIs DEF Capacity
    <2> QED BY <2>1, <2>2 DEF FullIsTooLarge
  <1>9. InvalidOnlyIfTooLarge'
    BY <1>2 DEF InvalidOnlyIfTooLarge
  <1> QED BY <1>4, <1>5, <1>6, <1>7, <1>8, <1>9 DEF StreamInv

(* With one worker nothing of the streambuf is to be consumed any more when*)
(* a read takes a step: its frame is all there is in the streambuf.        *)
LEMMA ReadingAt ==
    ASSUME StreamInv, ~Nested, Reading, WorkerFree
    PROVE  /\ late = 0 /\ reader # "failed" /\ reader # "idle"
           /\ FrameBytes = Len(buffer)
           /\ Len(buffer) = IF reader = "data" THEN 4 + transferred
                                               ELSE transferred
           /\ reader \in {"header", "data"}
           /\ reader = "header" => goal = 4
  <1>1. late = 0
    BY DEF WorkerFree
  <1>2. transferred \in Nat
    BY TypeFacts DEF StreamInv
  <1> QED BY <1>1, <1>2 DEF StreamInv, ReaderAt, Reading, FrameBytes, HeaderSize

(* A byte arrives; the streambuf is full before the frame is complete only *)
(* if the message is too large.                                            *)
LEMMA ReadSomeKeeps ==
    ASSUME StreamInv, ~Nested, ReadSome
    PROVE  StreamInv'
  <1>1. /\ late = 0 /\ reader # "failed" /\ reader # "idle"
        /\ Len(buffer) = IF reader = "data" THEN 4 + transferred ELSE transferred
        /\ reader \in {"header", "data"}
        /\ reader = "header" => goal = 4
    BY ReadingAt DEF ReadSome
  <1>2. /\ writing \in Seq(Byte) /\ wire \in Seq(Byte) /\ buffer \in Seq(Byte)
        /\ sent \in Seq(Messages) /\ delivered \in Seq(Seq(Byte))
        /\ Len(delivered) \in Nat
        /\ goal \in Nat /\ transferred \in Nat /\ Len(buffer) \in Nat
        /\ Unconsumed = buffer
    BY <1>1, TypeFacts DEF StreamInv
  <1>3. /\ wire # <<>> /\ ~full /\ transferred < goal
        /\ buffer' = Append(buffer, Head(wire)) /\ wire' = Tail(wire)
        /\ transferred' = transferred + 1
        /\ full' = (transferred' < goal /\ Len(buffer') = Capacity)
        /\ UNCHANGED <<sent, writer, writing, writerOpen, readerOpen, reader,
                       goal, late, result, delivered>>
    BY DEF ReadSome, writerVars
  <1>f. /\ full' \in BOOLEAN
        /\ full' <=> transferred' < goal /\ Len(buffer') = Capacity
    BY <1>3, Zenon
  <1>4. /\ wire' \in Seq(Byte) /\ buffer' \in Seq(Byte)
        /\ Len(buffer') = Len(buffer) + 1
        /\ buffer' \o wire' = buffer \o wire
        /\ \A i \in 1 .. Len(buffer) : buffer'[i] = buffer[i]
    <2>1. \A i \in 1 .. Len(buffer) : buffer'[i] = buffer[i]
      <3>1. Head(wire) \in Byte
        BY <1>2, <1>3, ByteMoves
      <3> QED BY <1>2, <1>3, <3>1
    <2> QED BY <1>2, <1>3, <2>1, ByteMoves
  <1>5. Len(buffer) < Capacity
    BY <1>1, <1>3 DEF StreamInv, FullIsTooLarge, Reading
  <1>6. Capacity' = Capacity
    BY DEF Capacity
  <1>7. StreamTypeOK'
    <2>1. transferred' \in 0 .. goal'
      BY <1>2, <1>3
    <2>2. Len(buffer') <= Capacity
      BY <1>2, <1>4, <1>5, CapacityIs
    <2> QED BY <1>3, <1>f, <1>4, <1>6, <2>1, <2>2 DEF StreamInv, StreamTypeOK
  <1>8. WriterAt' /\ LateIsLast' /\ DeliveredAsSent'
    BY <1>3 DEF StreamInv, WriterAt, LateIsLast, DeliveredAsSent
  <1>9. ReaderAt'
    <2>1. reader = "data" => FromBigEndian(buffer') = FromBigEndian(buffer)
      <3> SUFFICES ASSUME reader = "data"
                   PROVE  FromBigEndian(buffer') = FromBigEndian(buffer)
        OBVIOUS
      <3>1. Len(buffer) >= 4
        BY <1>1, <1>2
      <3>2. \A i \in 1 .. 4 : buffer'[i] = buffer[i]
        BY <1>2, <1>4, <3>1
      <3> QED BY <3>2 DEF FromBigEndian
    <2>2. late' = 0 /\ late' <= Len(buffer')
      BY <1>1, <1>2, <1>3, <1>4
    <2>3. /\ reader' = "header" => Len(buffer') = late' + transferred'
          /\ reader' = "data" => Len(buffer') = 4 + transferred'
      BY <1>1, <1>2, <1>3, <1>4
    <2> QED BY <1>1, <1>3, <2>1, <2>2, <2>3 DEF StreamInv, ReaderAt, HeaderSize
  <1>10. Aligned'
    <2>1. Unconsumed' = buffer'
      <3>1. late' + 1 = 1
        BY <1>1, <1>3
      <3>2. SubSeq(buffer', 1, Len(buffer')) = buffer'
        BY <1>4
      <3> QED BY <3>1, <3>2 DEF Unconsumed
    <2>2. Unconsumed' \o wire' = Unconsumed \o wire
      BY <1>2, <1>4, <2>1
    <2> QED BY <1>3, <2>2, AlignedIs DEF StreamInv
  <1>11. full' => TooLarge'
    <2> SUFFICES ASSUME full' PROVE TooLarge'
      OBVIOUS
    <2>1. transferred' < goal /\ Len(buffer') = Capacity
      BY <1>f
    <2>a. transferred' = transferred + 1 /\ transferred' \in Nat
      BY <1>2, <1>3
    <2>2. reader = "data"
      <3> SUFFICES ASSUME reader = "header" PROVE FALSE
        BY <1>1
      <3>1. Len(buffer') = transferred' /\ goal = 4
        BY <1>1, <1>2, <1>3, <1>4
      <3>2. transferred' = MaxMessageSize + 4
        BY <2>1, <3>1, CapacityIs
      <3>3. transferred' < 4
        BY <2>1, <3>1
      <3> QED BY <3>2, <3>3, CapacityIs
    <2>3. Len(buffer) >= 4
      BY <1>1, <1>2, <2>2
    <2>4. /\ Len(delivered) < Len(sent)
          /\ FromBigEndian(buffer) = Len(sent[Len(delivered) + 1])
      BY <1>1, <2>3, FrontFrame
    <2>5. goal = Len(sent[Len(delivered) + 1])
      BY <2>2, <2>4 DEF StreamInv, ReaderAt
    <2>6. MaxMessageSize < goal
      BY <1>1, <1>2, <1>3, <1>4, <2>1, <2>2, CapacityIs
    <2>7. Len(sent[Len(delivered) + 1]) > MaxMessageSize
      BY <2>5, <2>6, <1>2, CapacityIs
    <2> QED BY <1>3, <2>4, <2>7 DEF TooLarge
  <1>12. FullIsTooLarge'
    <2>1. ~full' /\ transferred' < goal' => Len(buffer') < Capacity'
      BY <1>2, <1>3, <1>f, <1>4, <1>5, <1>6, CapacityIs
    <2> QED BY <1>11, <2>1 DEF FullIsTooLarge
  <1>13. InvalidOnlyIfTooLarge'
    BY <1>3 DEF StreamInv, InvalidOnlyIfTooLarge
  <1> QED BY <1>7, <1>8, <1>9, <1>10, <1>12, <1>13 DEF StreamInv

(* A read that ends with an error leaves the invariant of a failed reader. *)
LEMMA FailureKeeps ==
    ASSUME StreamInv, ~Nested, Reading, WorkerFree,
           NEW e \in {"aborted", "failedOperation", "invalidFrame"},
           CallHandler(e, FrameBytes), UNCHANGED delivered,
           e = "invalidFrame" => full
    PROVE  StreamInv'
  <1>1. late = 0 /\ FrameBytes = Len(buffer)
    BY ReadingAt
  <1>2. Len(buffer) \in Nat /\ Len(buffer) <= Capacity
    BY TypeFacts DEF StreamInv, StreamTypeOK
  <1>3. /\ result' = e /\ late' = Len(buffer) /\ reader' = "failed"
        /\ goal' = 0 /\ transferred' = 0 /\ full' = FALSE
        /\ UNCHANGED <<sent, writer, writing, writerOpen, wire, readerOpen,
                       buffer, delivered>>
    BY <1>1, <1>2 DEF CallHandler, writerVars
  <1>4. StreamTypeOK'
    <2>1. /\ goal' \in 0 .. HeaderLimit - 1 /\ transferred' \in 0 .. goal'
          /\ late' \in 0 .. Capacity
      BY <1>2, <1>3, SizesFit
    <2>2. Capacity' = Capacity
      BY DEF Capacity
    <2> QED BY <1>3, <2>1, <2>2 DEF StreamInv, StreamTypeOK
  <1>5. WriterAt' /\ ReaderAt' /\ LateIsLast' /\ DeliveredAsSent'
    BY <1>2, <1>3 DEF StreamInv, WriterAt, ReaderAt, LateIsLast, DeliveredAsSent
  <1>6. Aligned' /\ FullIsTooLarge'
    BY <1>3 DEF Aligned, FullIsTooLarge, Reading
  <1>7. InvalidOnlyIfTooLarge'
    BY <1>3 DEF StreamInv, FullIsTooLarge, TooLarge, InvalidOnlyIfTooLarge
  <1> QED BY <1>4, <1>5, <1>6, <1>7 DEF StreamInv

(* The header announces the size of the next message.                      *)
LEMMA HeaderCompleteKeeps ==
    ASSUME StreamInv, ~Nested, HeaderComplete
    PROVE  StreamInv'
  <1>1. /\ reader = "header" /\ transferred = goal /\ FromBigEndian(buffer) > 0
        /\ Reading /\ WorkerFree
    BY DEF HeaderComplete, Completed, NumDataBytesFromBuffer, Reading
  <1>2. late = 0 /\ goal = 4 /\ Len(buffer) = 4
    BY <1>1, ReadingAt
  <1> DEFINE m == sent[Len(delivered) + 1]
  <1>3. /\ Len(delivered) < Len(sent) /\ m \in Messages
        /\ FromBigEndian(buffer) = Len(m)
    BY <1>1, <1>2, FrontFrame
  <1>4. Len(m) \in Nat /\ Len(m) < HeaderLimit
    BY <1>3, FrameOfMessage
  <1>5. /\ reader' = "data" /\ goal' = FromBigEndian(buffer)
        /\ transferred' = 0 /\ full' = (Capacity - 4 = 0)
        /\ UNCHANGED <<sent, writer, writing, writerOpen, wire, readerOpen,
                       buffer, late, result, delivered>>
    BY <1>2 DEF HeaderComplete, InitiateRead, NumDataBytesFromBuffer, Room,
                writerVars
  <1>f. full' \in BOOLEAN /\ (full' <=> Capacity - 4 = 0)
    BY <1>5, Zenon
  <1>6. Capacity' = Capacity
    BY DEF Capacity
  <1> HIDE DEF m
  <1>7. StreamTypeOK'
    <2>1. goal' \in 0 .. HeaderLimit - 1 /\ transferred' \in 0 .. goal'
      BY <1>3, <1>4, <1>5, SizesFit
    <2> QED BY <1>5, <1>f, <1>6, <2>1 DEF StreamInv, StreamTypeOK
  <1>8. WriterAt' /\ LateIsLast' /\ DeliveredAsSent'
    BY <1>1, <1>5 DEF StreamInv, WriterAt, LateIsLast, DeliveredAsSent
  <1>9. ReaderAt'
    <2>1. result' # "invalidFrame"
      BY <1>1, <1>5 DEF StreamInv, ReaderAt
    <2>2. goal' > 0 /\ FromBigEndian(buffer') = FromBigEndian(buffer)
      BY <1>1, <1>5
    <2> QED BY <1>2, <1>5, <2>1, <2>2 DEF ReaderAt, HeaderSize
  <1>10. Aligned'
    BY <1>1, <1>5, AlignedIs DEF StreamInv, Unconsumed
  <1>11. FullIsTooLarge'
    <2>1. full' => TooLarge'
      <3> SUFFICES ASSUME full' PROVE TooLarge'
        OBVIOUS
      <3>1. MaxMessageSize = 0
        BY <1>f, CapacityIs
      <3>2. Len(m) > MaxMessageSize
        BY <1>1, <1>3, <3>1
      <3> QED BY <1>3, <1>5, <3>2 DEF TooLarge, m
    <2>2. ~full' => Len(buffer') < Capacity'
      <3>1. Len(buffer') = 4
        BY <1>2, <1>5
      <3> QED BY <3>1, <1>f, <1>6, CapacityIs
    <2> QED BY <2>1, <2>2 DEF FullIsTooLarge
  <1>12. InvalidOnlyIfTooLarge'
    BY <1>5 DEF StreamInv, InvalidOnlyIfTooLarge
  <1> QED BY <1>7, <1>8, <1>9, <1>10, <1>11, <1>12 DEF StreamInv

(* What the user gets when a frame is complete is the next message.        *)
LEMMA NextMessage ==
    ASSUME StreamInv, ~Nested, EmptyMessage \/ DataComplete
    PROVE  /\ late = 0 /\ reader # "failed" /\ reader # "idle"
           /\ Len(delivered) < Len(sent)
           /\ delivered' = Append(delivered, sent[Len(delivered) + 1])
           /\ Len(buffer) = 4 + Len(sent[Len(delivered) + 1])
           /\ late' = Len(buffer) /\ result' = "success"
           /\ reader' = "idle" /\ goal' = 0 /\ transferred' = 0 /\ full' = FALSE
           /\ UNCHANGED <<sent, writer, writing, writerOpen, wire, readerOpen,
                          buffer>>
  <1>1. /\ transferred = goal /\ Reading /\ WorkerFree
        /\ reader = "header" => EmptyMessage
        /\ reader = "data" => DataComplete
        /\ EmptyMessage => reader = "header"
        /\ DataComplete => reader = "data"
    BY DEF EmptyMessage, DataComplete, Completed, Reading
  <1>2. /\ late = 0 /\ reader # "failed" /\ reader # "idle"
        /\ Len(buffer) = IF reader = "data" THEN 4 + transferred ELSE transferred
        /\ reader \in {"header", "data"}
        /\ reader = "header" => goal = 4
    BY <1>1, ReadingAt
  <1>3. goal \in Nat /\ transferred \in Nat /\ Len(buffer) \in Nat
        /\ buffer \in Seq(Byte)
    BY TypeFacts DEF StreamInv
  <1>4. Len(buffer) >= 4
    BY <1>1, <1>2, <1>3
  <1> DEFINE m == sent[Len(delivered) + 1]
  <1>5. /\ Len(delivered) < Len(sent) /\ m \in Messages
        /\ FromBigEndian(buffer) = Len(m)
        /\ Len(buffer) = 4 + Len(m) => buffer = FrameOf(m)
    BY <1>2, <1>4, FrontFrame
  <1>6. /\ m \in Seq(Byte) /\ View(FrameOf(m), Len(m), 4) = m /\ Len(m) \in Nat
    BY <1>5, FrameOfMessage
  <1> HIDE DEF m
  <1>7. CASE reader = "header"
    <2>1. /\ FromBigEndian(buffer) = 0
          /\ delivered' = Append(delivered, View(buffer, 0, 0))
          /\ CallHandler("success", HeaderSize)
      BY <1>1, <1>7 DEF EmptyMessage, NumDataBytesFromBuffer
    <2>2. Len(m) = 0 /\ Len(buffer) = 4
      BY <1>1, <1>2, <1>5, <1>7, <2>1
    <2>3. View(buffer, 0, 0) = m
      <3>1. View(buffer, 0, 0) = <<>>
        BY <1>3 DEF View
      <3>2. m = <<>>
        BY <1>6, <2>2
      <3> QED BY <3>1, <3>2
    <2>4. /\ late' = Len(buffer) /\ result' = "success"
          /\ reader' = "idle" /\ goal' = 0 /\ transferred' = 0 /\ full' = FALSE
          /\ UNCHANGED <<sent, writer, writing, writerOpen, wire, readerOpen, buffer>>
      <3>1. 0 + 4 = Len(buffer)
        BY <2>2
      <3> QED BY <1>2, <2>1, <3>1 DEF CallHandler, writerVars, HeaderSize
    <2>5. delivered' = Append(delivered, m) /\ Len(buffer) = 4 + Len(m)
      BY <2>1, <2>2, <2>3
    <2> QED BY <1>2, <1>5, <2>4, <2>5 DEF m
  <1>8. CASE reader = "data"
    <2>1. /\ delivered' = Append(delivered, View(buffer, goal, HeaderSize))
          /\ CallHandler("success", HeaderSize + transferred)
      BY <1>1, <1>8 DEF DataComplete
    <2>2. goal = Len(m) /\ Len(buffer) = 4 + Len(m)
      <3>1. goal = Len(m)
        BY <1>5, <1>8 DEF StreamInv, ReaderAt
      <3> QED BY <1>1, <1>2, <1>8, <3>1
    <2>3. View(buffer, goal, HeaderSize) = m
      BY <1>5, <1>6, <2>2 DEF HeaderSize
    <2>4. /\ late' = Len(buffer) /\ result' = "success"
          /\ reader' = "idle" /\ goal' = 0 /\ transferred' = 0 /\ full' = FALSE
          /\ UNCHANGED <<sent, writer, writing, writerOpen, wire, readerOpen, buffer>>
      <3>1. 0 + (4 + transferred) = Len(buffer)
        BY <1>2, <1>3, <1>8
      <3> QED BY <1>2, <2>1, <3>1 DEF CallHandler, writerVars, HeaderSize
    <2> QED BY <1>2, <1>5, <2>1, <2>2, <2>3, <2>4 DEF m
  <1> QED BY <1>2, <1>7, <1>8

(* The next message is handed to the user, its frame waits to be consumed. *)
LEMMA DeliveryKeeps ==
    ASSUME StreamInv, ~Nested, EmptyMessage \/ DataComplete
    PROVE  StreamInv'
  <1> DEFINE d == Len(delivered)
             m == sent[d + 1]
  <1>1. /\ late = 0 /\ reader # "failed" /\ reader # "idle"
        /\ d < Len(sent)
        /\ delivered' = Append(delivered, m)
        /\ Len(buffer) = 4 + Len(m)
        /\ late' = Len(buffer) /\ result' = "success"
        /\ reader' = "idle" /\ goal' = 0 /\ transferred' = 0 /\ full' = FALSE
        /\ UNCHANGED <<sent, writer, writing, writerOpen, wire, readerOpen,
                       buffer>>
    BY NextMessage
  <1>2. /\ sent \in Seq(Messages) /\ delivered \in Seq(Seq(Byte))
        /\ buffer \in Seq(Byte) /\ wire \in Seq(Byte) /\ writing \in Seq(Byte)
        /\ d \in Nat /\ Len(sent) \in Nat
        /\ Len(buffer) \in Nat /\ Len(buffer) <= Capacity
        /\ Unconsumed = buffer
    BY <1>1, TypeFacts DEF StreamInv, StreamTypeOK
  <1>3. m \in Messages /\ m \in Seq(Byte) /\ Len(m) \in Nat
    <2>1. m \in Messages
      BY <1>1, <1>2
    <2> HIDE DEF m
    <2> QED BY <2>1, FrameOfMessage
  <1>4. /\ wire \o writing = FlattenSeq(Frames(sent, d + 1))
    <2>1. Len(buffer) >= 4
      BY <1>1, <1>3
    <2> QED BY <1>1, <2>1, FrontFrame
  <1> HIDE DEF m
  <1>5. /\ delivered' \in Seq(Seq(Byte)) /\ Len(delivered') = d + 1
        /\ \A i \in 1 .. d : delivered'[i] = delivered[i]
        /\ delivered'[d + 1] = m
        /\ delivered' # <<>>
    <2>1. /\ delivered' = Append(delivered, m) /\ m \in Seq(Byte)
          /\ delivered \in Seq(Seq(Byte))
      BY <1>1, <1>2, <1>3
    <2>2. /\ Append(delivered, m) \in Seq(Seq(Byte))
          /\ Append(delivered, m) # <<>>
          /\ Len(Append(delivered, m)) = Len(delivered) + 1
          /\ \A i \in 1 .. Len(delivered) :
                Append(delivered, m)[i] = delivered[i]
          /\ Append(delivered, m)[Len(delivered) + 1] = m
      BY <2>1, AppendProperties
    <2> QED BY <2>1, <2>2
  <1>6. StreamTypeOK'
    <2>1. /\ goal' \in 0 .. HeaderLimit - 1 /\ transferred' \in 0 .. goal'
          /\ late' \in 0 .. Capacity
      BY <1>1, <1>2, SizesFit
    <2>2. Capacity' = Capacity
      BY DEF Capacity
    <2> QED BY <1>1, <1>5, <2>1, <2>2 DEF StreamInv, StreamTypeOK
  <1>7. WriterAt' /\ ReaderAt'
    BY <1>1, <1>2 DEF StreamInv, WriterAt, ReaderAt
  <1>8. LateIsLast'
    BY <1>1, <1>5 DEF LateIsLast, Last, HeaderSize
  <1>9. DeliveredAsSent'
    <2>1. ASSUME NEW i \in 1 .. d + 1 PROVE delivered'[i] = sent[i]
      <3>1. CASE i = d + 1
        BY <1>5, <3>1 DEF m
      <3>2. CASE i <= d
        <4>1. i \in 1 .. d
          BY <1>2, <3>2
        <4> QED BY <1>5, <4>1 DEF StreamInv, DeliveredAsSent
      <3> QED BY <1>2, <3>1, <3>2
    <2>2. d + 1 <= Len(sent)
      BY <1>1, <1>2
    <2> QED BY <1>1, <1>5, <2>1, <2>2 DEF DeliveredAsSent
  <1>10. Aligned'
    <2>1. Unconsumed' = <<>>
      <3>1. SubSeq(buffer, Len(buffer) + 1, Len(buffer)) = <<>>
        BY <1>2
      <3> QED BY <1>1, <3>1 DEF Unconsumed
    <2>2. <<>> \o wire = wire
      BY <1>2
    <2>3. (Unconsumed' \o wire') \o writing' = wire \o writing
      BY <1>1, <2>1, <2>2
    <2> QED BY <1>1, <1>4, <1>5, <2>3, AlignedIs
  <1>11. FullIsTooLarge' /\ InvalidOnlyIfTooLarge'
    BY <1>1 DEF FullIsTooLarge, Reading, InvalidOnlyIfTooLarge
  <1> QED BY <1>6, <1>7, <1>8, <1>9, <1>10, <1>11 DEF StreamInv

(* The handler returns; exactly the frame of its message is consumed.      *)
LEMMA ConsumeKeeps ==
    ASSUME StreamInv, Consume
    PROVE  StreamInv'
  <1>1. /\ buffer \in Seq(Byte) /\ late \in Nat /\ Len(buffer) \in Nat
        /\ Len(buffer) <= Capacity /\ late <= Len(buffer)
        /\ Unconsumed \in Seq(Byte) /\ transferred \in Nat
    BY TypeFacts DEF StreamInv, StreamTypeOK, ReaderAt
  <1>2. /\ late > 0 /\ buffer' = Unconsumed /\ late' = 0
        /\ UNCHANGED <<sent, writer, writing, writerOpen, wire, readerOpen,
                       reader, goal, transferred, full, result, delivered>>
    BY DEF Consume, Unconsumed, writerVars
  <1>3. Len(buffer') = Len(buffer) - late
    BY <1>1, <1>2 DEF Unconsumed
  <1>4. StreamTypeOK'
    <2>1. /\ late' \in 0 .. Capacity /\ Len(buffer') <= Capacity
      BY <1>1, <1>2, <1>3, CapacityIs
    <2>2. Capacity' = Capacity
      BY DEF Capacity
    <2> QED BY <1>1, <1>2, <2>1, <2>2 DEF StreamInv, StreamTypeOK
  <1>5. WriterAt' /\ LateIsLast' /\ DeliveredAsSent'
    BY <1>2 DEF StreamInv, WriterAt, LateIsLast, DeliveredAsSent
  <1>6. ReaderAt'
    <2>1. reader # "data"
      BY <1>2 DEF StreamInv, ReaderAt
    <2>2. /\ late' <= Len(buffer')
          /\ reader = "idle" => Len(buffer') = 0
          /\ reader = "header" => Len(buffer') = 0 /\ transferred = 0
      BY <1>1, <1>2, <1>3 DEF StreamInv, ReaderAt
    <2> QED BY <1>2, <2>1, <2>2 DEF StreamInv, ReaderAt
  <1>7. Aligned'
    <2>1. Unconsumed' = Unconsumed
      <3>1. SubSeq(buffer', 1, Len(buffer')) = buffer'
        BY <1>1, <1>2
      <3>2. late' + 1 = 1
        BY <1>2
      <3>3. Unconsumed' = SubSeq(buffer', late' + 1, Len(buffer'))
        BY DEF Unconsumed
      <3> QED BY <1>2, <3>1, <3>2, <3>3
    <2> QED BY <1>2, <2>1, AlignedIs DEF StreamInv
  <1>8. FullIsTooLarge'
    <2>1. Len(buffer') < Capacity'
      <3>1. Len(buffer') < Len(buffer)
        BY <1>1, <1>2, <1>3
      <3> QED BY <1>1, <1>3, <3>1, CapacityIs DEF Capacity
    <2> QED BY <1>2, <2>1 DEF StreamInv, FullIsTooLarge, Reading, TooLarge
  <1>9. InvalidOnlyIfTooLarge'
    BY <1>2 DEF StreamInv, InvalidOnlyIfTooLarge
  <1> QED BY <1>4, <1>5, <1>6, <1>7, <1>8, <1>9 DEF StreamInv

(* A step that changes nothing.                                            *)
LEMMA StutterKeeps ==
    ASSUME StreamInv, UNCHANGED streamVars
    PROVE  StreamInv'
  BY DEF StreamInv, StreamTypeOK, WriterAt, ReaderAt, LateIsLast,
         DeliveredAsSent, Aligned, FramesLeft, FullIsTooLarge, TooLarge, Reading,
         InvalidOnlyIfTooLarge, Capacity, streamVars, writerVars, readerVars

(* Every step with one worker keeps the invariant.                         *)
LEMMA NextKeeps ==
    ASSUME StreamInv, ~Nested, [StreamNext]_streamVars
    PROVE  StreamInv'
  <1>1. ASSUME NEW m \in Messages, AsyncWrite(m) PROVE StreamInv'
    BY <1>1, AsyncWriteKeeps
  <1>2. CASE HandOver
    BY <1>2, HandOverKeeps
  <1>3. CASE WriteHandler \/ CloseWriter \/ CloseReader
    BY <1>3, EndsKeep
  <1>4. CASE AsyncRead
    BY <1>4, AsyncReadKeeps
  <1>5. CASE ReadSome
    BY <1>5, ReadSomeKeeps
  <1>6. CASE ReadFails
    <2>1. /\ Reading /\ WorkerFree /\ UNCHANGED delivered
          /\ \/ CallHandler("aborted", FrameBytes)
             \/ CallHandler("failedOperation", FrameBytes)
      BY <1>6 DEF ReadFails
    <2> QED BY <2>1, FailureKeeps
  <1>7. CASE ReadInvalid
    <2>1. /\ Reading /\ WorkerFree /\ UNCHANGED delivered /\ full
          /\ CallHandler("invalidFrame", FrameBytes)
      BY <1>7 DEF ReadInvalid
    <2> QED BY <2>1, FailureKeeps
  <1>8. CASE EmptyMessage \/ DataComplete
    BY <1>8, DeliveryKeeps
  <1>9. CASE HeaderComplete
    BY <1>9, HeaderCompleteKeeps
  <1>10. CASE Consume
    BY <1>10, ConsumeKeeps
  <1>11. CASE UNCHANGED streamVars
    BY <1>11, StutterKeeps
  <1> QED BY <1>1, <1>2, <1>3, <1>4, <1>5, <1>6, <1>7, <1>8, <1>9, <1>10, <1>11
          DEF StreamNext, ReadStep

(* The inductive invariant holds in every behaviour in which a read        *)
(* completes only when the handler of the read before has returned.        *)
THEOREM StreamInvariant ==
    ASSUME ~Nested
    PROVE  StreamSpec => []StreamInv
  <1>1. StreamInit => StreamInv
    BY InitKeeps
  <1>2. StreamInv /\ [StreamNext]_streamVars => StreamInv'
    BY NextKeeps
  <1> QED BY <1>1, <1>2, PTL DEF StreamSpec, StreamSafety

(* The state has its types, and the streambuf never outgrows its maximum,  *)
(* for every base, message set, bound and maximum size.                    *)
THEOREM StreamTypeCorrect ==
    ASSUME ~Nested
    PROVE  StreamSpec => []StreamTypeOK
  <1>1. StreamInv => StreamTypeOK
    BY DEF StreamInv
  <1> QED BY <1>1, StreamInvariant, PTL

(* However the connection cuts the bytes, and whenever the next read is    *)
(* begun, every read starts at the header of the next message.             *)
THEOREM StreamStaysAligned ==
    ASSUME ~Nested
    PROVE  StreamSpec => []Aligned
  <1>1. StreamInv => Aligned
    BY DEF StreamInv
  <1> QED BY <1>1, StreamInvariant, PTL

(* A read reports an invalid frame only if the message is too large or the *)
(* streambuf is still full with a message of exactly the maximum size.     *)
THEOREM StreamInvalidOnlyIfTooLarge ==
    ASSUME ~Nested
    PROVE  StreamSpec => []InvalidOnlyIfTooLarge
  <1>1. StreamInv => InvalidOnlyIfTooLarge
    BY DEF StreamInv
  <1> QED BY <1>1, StreamInvariant, PTL

(* asyncWrite is the channel's Write, the completion of a frame its        *)
(* Receive, and no other step of the stream shows at the channel.          *)
LEMMA StepsOfTheChannel ==
    ASSUME StreamInv, ~Nested, [StreamNext]_streamVars
    PROVE  [TheChannel!ChannelNext]_<<sent, delivered>>
  <1> USE DEF TheChannel!ChannelNext
  <1>1. ASSUME NEW m \in Messages, AsyncWrite(m)
        PROVE  TheChannel!ChannelNext
    BY <1>1 DEF AsyncWrite, readerVars, TheChannel!Write
  <1>2. CASE EmptyMessage \/ DataComplete
    <2>1. /\ Len(delivered) < Len(sent)
          /\ delivered' = Append(delivered, sent[Len(delivered) + 1])
          /\ UNCHANGED sent
      BY <1>2, NextMessage
    <2> QED BY <2>1 DEF TheChannel!Receive
  <1>3. CASE \/ HandOver \/ WriteHandler \/ CloseWriter \/ CloseReader
             \/ AsyncRead \/ ReadSome \/ ReadFails \/ ReadInvalid
             \/ HeaderComplete \/ Consume \/ UNCHANGED streamVars
    <2>1. UNCHANGED <<sent, delivered>>
      BY <1>3 DEF HandOver, WriteHandler, CloseWriter, CloseReader, AsyncRead,
                  ReadSome, ReadFails, ReadInvalid, CallHandler,
                  HeaderComplete, Consume, streamVars, writerVars, readerVars
    <2> QED BY <2>1
  <1> QED BY <1>1, <1>2, <1>3 DEF StreamNext, ReadStep

(* The stream implements the channel: whole messages, in order, each once. *)
THEOREM StreamImplementsChannel ==
    ASSUME ~Nested
    PROVE  StreamSpec => InOrder
  <1>1. StreamInit => TheChannel!ChannelInit
    BY DEF StreamInit, TheChannel!ChannelInit
  <1>2. StreamInv /\ [StreamNext]_streamVars =>
            [TheChannel!ChannelNext]_(TheChannel!channelVars)
    BY StepsOfTheChannel DEF TheChannel!channelVars
  <1> QED BY <1>1, <1>2, StreamInvariant, PTL
          DEF StreamSpec, StreamSafety, InOrder, TheChannel!ChannelSafety
=============================================================================
