---------------------------- MODULE RepliesProofs ----------------------------
(***************************************************************************)
(* Proofs about modules Codec and Replies, for every limit, every mapping  *)
(* of addresses and every stream of replies a broker may send              *)
(* (BrokerAssumption).                                                     *)
(***************************************************************************)
EXTENDS Replies, TLAPS, WellFoundedInduction, SequenceTheorems

------------------------------------------------------------------------------
(* Induction, for sets of numbers.                                          *)

\* A set with 0 and every successor of its numbers contains all numbers.
LEMMA Induction ==
    ASSUME NEW S, 0 \in S, \A n \in Nat : n \in S => n + 1 \in S
    PROVE  \A n \in Nat : n \in S
<1> DEFINE T == Nat \ S
<1> DEFINE R == OpToRel(<, Nat)
<1>1. IsWellFoundedOn(R, Nat)
  BY NatLessThanWellFounded
<1>2. SUFFICES ASSUME T # {} PROVE FALSE
  OBVIOUS
<1>3. T \subseteq Nat
  OBVIOUS
<1> HIDE DEF R, T
<1>4. PICK x \in T : \A y \in T : <<y, x>> \notin R
  BY <1>1, <1>2, <1>3, WFMin, Zenon
<1> USE DEF T
<1>5. x \in Nat /\ x # 0 /\ x - 1 \in Nat /\ x - 1 < x
  OBVIOUS
<1>6. x - 1 \in S
  BY <1>4, <1>5 DEF R, OpToRel
<1>7. QED
  BY <1>5, <1>6

\* Joining has a solution.
LEMMA JoinedExists ==
    ASSUME NEW parts
    PROVE  \A n \in Nat : \E f : f = [k \in 0..n |-> IF k = 0 THEN <<>> ELSE f[k - 1] \o parts[k]]
<1> DEFINE Part(n, f) == f = [k \in 0..n |-> IF k = 0 THEN <<>> ELSE f[k - 1] \o parts[k]]
<1> DEFINE S == {n \in Nat : \E f : Part(n, f)}
<1>1. 0 \in S
  <2>1. Part(0, [k \in 0..0 |-> <<>>])
    OBVIOUS
  <2>2. QED
    BY <2>1
<1>2. ASSUME NEW n \in Nat, n \in S PROVE n + 1 \in S
  <2>1. PICK f : Part(n, f)
    BY <1>2
  <2> DEFINE h == [k \in 0..n + 1 |-> IF k = n + 1 THEN f[n] \o parts[k] ELSE f[k]]
  <2>2. \A k \in 0..n + 1 : h[k] = IF k = 0 THEN <<>> ELSE h[k - 1] \o parts[k]
    <3> SUFFICES ASSUME NEW k \in 0..n + 1 PROVE h[k] = IF k = 0 THEN <<>> ELSE h[k - 1] \o parts[k]
      OBVIOUS
    <3>1. CASE k = n + 1
      <4>1. k # 0 /\ k - 1 = n
        BY <3>1
      <4>2. h[n] = f[n]
        OBVIOUS
      <4>3. h[k] = f[n] \o parts[k]
        BY <3>1, Zenon
      <4> HIDE DEF h
      <4>4. QED
        BY <4>1, <4>2, <4>3, Zenon
    <3>2. CASE k # n + 1
      <4>1. k \in 0..n /\ h[k] = f[k] /\ (k # 0 => h[k - 1] = f[k - 1])
        BY <3>2
      <4>2. f[k] = IF k = 0 THEN <<>> ELSE f[k - 1] \o parts[k]
        BY <2>1, <4>1
      <4>3. QED
        BY <4>1, <4>2
    <3>3. QED
      BY <3>1, <3>2
  <2>3. h = [k \in 0..n + 1 |-> h[k]]
    OBVIOUS
  <2> HIDE DEF h
  <2>4. Part(n + 1, h)
    BY <2>2, <2>3
  <2> HIDE DEF Part
  <2>5. QED
    BY <2>4
<1>3. \A n \in Nat : n \in S
  <2> HIDE DEF S
  <2>1. QED
    BY <1>1, <1>2, Induction
<1>4. QED
  BY <1>3

\* Joining takes one part after the other.
LEMMA JoinedSteps ==
    ASSUME NEW n \in Nat, NEW parts
    PROVE  /\ JoinedUpTo(n, parts)[0] = <<>>
           /\ \A k \in 1..n : JoinedUpTo(n, parts)[k] = JoinedUpTo(n, parts)[k - 1] \o parts[k]
<1> DEFINE J == JoinedUpTo(n, parts)
<1>1. PICK f : f = [k \in 0..n |-> IF k = 0 THEN <<>> ELSE f[k - 1] \o parts[k]]
  BY JoinedExists
<1>2. J = [k \in 0..n |-> IF k = 0 THEN <<>> ELSE J[k - 1] \o parts[k]]
  BY <1>1 DEF JoinedUpTo
<1> HIDE DEF J
<1>3. J[0] = <<>> /\ \A k \in 1..n : J[k] = J[k - 1] \o parts[k]
  BY <1>2
<1>4. QED
  BY <1>3 DEF J

\* Adding has a solution.
LEMMA TotalExists ==
    ASSUME NEW numbers
    PROVE  \A n \in Nat : \E f : f = [k \in 0..n |-> IF k = 0 THEN 0 ELSE f[k - 1] + numbers[k]]
<1> DEFINE Part(n, f) == f = [k \in 0..n |-> IF k = 0 THEN 0 ELSE f[k - 1] + numbers[k]]
<1> DEFINE S == {n \in Nat : \E f : Part(n, f)}
<1>1. 0 \in S
  <2>1. Part(0, [k \in 0..0 |-> 0])
    OBVIOUS
  <2>2. QED
    BY <2>1
<1>2. ASSUME NEW n \in Nat, n \in S PROVE n + 1 \in S
  <2>1. PICK f : Part(n, f)
    BY <1>2
  <2> DEFINE h == [k \in 0..n + 1 |-> IF k = n + 1 THEN f[n] + numbers[k] ELSE f[k]]
  <2>2. \A k \in 0..n + 1 : h[k] = IF k = 0 THEN 0 ELSE h[k - 1] + numbers[k]
    <3> SUFFICES ASSUME NEW k \in 0..n + 1 PROVE h[k] = IF k = 0 THEN 0 ELSE h[k - 1] + numbers[k]
      OBVIOUS
    <3>1. CASE k = n + 1
      <4>1. k # 0 /\ k - 1 = n
        BY <3>1
      <4>2. h[n] = f[n]
        OBVIOUS
      <4>3. h[k] = f[n] + numbers[k]
        BY <3>1, Zenon
      <4> HIDE DEF h
      <4>4. QED
        BY <4>1, <4>2, <4>3, Zenon
    <3>2. CASE k # n + 1
      <4>1. k \in 0..n /\ h[k] = f[k] /\ (k # 0 => h[k - 1] = f[k - 1])
        BY <3>2
      <4>2. f[k] = IF k = 0 THEN 0 ELSE f[k - 1] + numbers[k]
        BY <2>1, <4>1
      <4>3. QED
        BY <4>1, <4>2
    <3>3. QED
      BY <3>1, <3>2
  <2>3. h = [k \in 0..n + 1 |-> h[k]]
    OBVIOUS
  <2> HIDE DEF h
  <2>4. Part(n + 1, h)
    BY <2>2, <2>3
  <2> HIDE DEF Part
  <2>5. QED
    BY <2>4
<1>3. \A n \in Nat : n \in S
  <2> HIDE DEF S
  <2>1. QED
    BY <1>1, <1>2, Induction
<1>4. QED
  BY <1>3

\* Adding takes one number after the other.
LEMMA TotalSteps ==
    ASSUME NEW n \in Nat, NEW numbers
    PROVE  /\ TotalUpTo(n, numbers)[0] = 0
           /\ \A k \in 1..n : TotalUpTo(n, numbers)[k] = TotalUpTo(n, numbers)[k - 1] + numbers[k]
<1> DEFINE A == TotalUpTo(n, numbers)
<1>1. PICK f : f = [k \in 0..n |-> IF k = 0 THEN 0 ELSE f[k - 1] + numbers[k]]
  BY TotalExists
<1>2. A = [k \in 0..n |-> IF k = 0 THEN 0 ELSE A[k - 1] + numbers[k]]
  BY <1>1 DEF TotalUpTo
<1> HIDE DEF A
<1>3. A[0] = 0 /\ \A k \in 1..n : A[k] = A[k - 1] + numbers[k]
  BY <1>2
<1>4. QED
  BY <1>3 DEF A

\* Decoding one value after the other has a solution.
Decoding(types, raw, off, n, f) ==
    f = [k \in 0..n |-> IF k = 0 THEN Ok(<<>>, off) ELSE DecodeNext(f[k - 1], types[k], raw)]

\* Decoding one after the other has a solution.
LEMMA DecodeExists ==
    ASSUME NEW types, NEW raw, NEW off
    PROVE  \A n \in Nat : \E f : Decoding(types, raw, off, n, f)
<1> DEFINE Part(n, f) == f = [k \in 0..n |-> IF k = 0 THEN Ok(<<>>, off) ELSE DecodeNext(f[k - 1], types[k], raw)]
<1> DEFINE S == {n \in Nat : \E f : Part(n, f)}
<1>1. 0 \in S
  <2>1. Part(0, [k \in 0..0 |-> Ok(<<>>, off)])
    OBVIOUS
  <2>2. QED
    BY <2>1
<1>2. ASSUME NEW n \in Nat, n \in S PROVE n + 1 \in S
  <2>1. PICK f : Part(n, f)
    BY <1>2
  <2> DEFINE h == [k \in 0..n + 1 |-> IF k = n + 1 THEN DecodeNext(f[n], types[k], raw) ELSE f[k]]
  <2>2. \A k \in 0..n + 1 : h[k] = IF k = 0 THEN Ok(<<>>, off) ELSE DecodeNext(h[k - 1], types[k], raw)
    <3> SUFFICES ASSUME NEW k \in 0..n + 1
                 PROVE  h[k] = IF k = 0 THEN Ok(<<>>, off) ELSE DecodeNext(h[k - 1], types[k], raw)
      OBVIOUS
    <3>1. CASE k = n + 1
      <4>1. k # 0 /\ k - 1 = n
        BY <3>1
      <4>2. h[n] = f[n]
        OBVIOUS
      <4>3. h[k] = DecodeNext(f[n], types[k], raw)
        BY <3>1, Zenon
      <4> HIDE DEF h
      <4>4. QED
        BY <4>1, <4>2, <4>3, Zenon
    <3>2. CASE k # n + 1
      <4>1. k \in 0..n /\ h[k] = f[k] /\ (k # 0 => h[k - 1] = f[k - 1])
        BY <3>2
      <4>2. f[k] = IF k = 0 THEN Ok(<<>>, off) ELSE DecodeNext(f[k - 1], types[k], raw)
        BY <2>1, <4>1
      <4>3. QED
        BY <4>1, <4>2
    <3>3. QED
      BY <3>1, <3>2
  <2>3. h = [k \in 0..n + 1 |-> h[k]]
    OBVIOUS
  <2> HIDE DEF h
  <2>4. Part(n + 1, h)
    BY <2>2, <2>3
  <2> HIDE DEF Part
  <2>5. QED
    BY <2>4
<1>3. \A n \in Nat : n \in S
  <2> HIDE DEF S
  <2>1. QED
    BY <1>1, <1>2, Induction
<1>4. QED
  BY <1>3 DEF Decoding

\* Decoding takes one value after the other.
LEMMA DecodeSteps ==
    ASSUME NEW types, NEW raw, NEW off, Len(types) \in Nat
    PROVE  LET D == DecodeUpTo(types, raw, off) IN
           /\ D[0] = Ok(<<>>, off)
           /\ \A k \in 1..Len(types) : D[k] = DecodeNext(D[k - 1], types[k], raw)
<1> DEFINE D == DecodeUpTo(types, raw, off)
<1>n. PICK n \in Nat : n = Len(types)
  OBVIOUS
<1>1. PICK f : Decoding(types, raw, off, n, f)
  BY DecodeExists, Zenon
<1>2. D = [k \in 0..Len(types) |->
                       IF k = 0 THEN Ok(<<>>, off) ELSE DecodeNext(D[k - 1], types[k], raw)]
  BY <1>1, <1>n DEF DecodeUpTo, Decoding
<1> HIDE DEF D
<1>3. D[0] = Ok(<<>>, off) /\ \A k \in 1..Len(types) : D[k] = DecodeNext(D[k - 1], types[k], raw)
  BY <1>2
<1>4. QED
  BY <1>3 DEF D

------------------------------------------------------------------------------
(* Cells in a buffer.                                                       *)

\* Behind the first off cells of raw stand the cells c.
Holds(raw, off, c) ==
    /\ off + Len(c) <= Len(raw)
    /\ \A i \in 1..Len(c) : raw[off + i] = c[i]

\* What is in a part of a buffer is in the buffer.
LEMMA HoldsWithin ==
    ASSUME NEW raw \in Seq(Int), NEW off \in Nat, NEW c \in Seq(Int), NEW p \in Nat, NEW d \in Seq(Int),
           Holds(raw, off, c), Holds(c, p, d)
    PROVE  Holds(raw, off + p, d)
<1>1. Len(raw) \in Nat /\ Len(c) \in Nat /\ Len(d) \in Nat
  OBVIOUS
<1>2. off + Len(c) <= Len(raw) /\ p + Len(d) <= Len(c)
  BY DEF Holds
<1>3. ASSUME NEW i \in 1..Len(d) PROVE raw[(off + p) + i] = d[i]
  <2>1. p + i \in 1..Len(c) /\ (off + p) + i = off + (p + i)
    BY <1>1, <1>2
  <2>2. raw[off + (p + i)] = c[p + i] /\ c[p + i] = d[i]
    BY <2>1 DEF Holds
  <2>3. QED
    BY <2>1, <2>2
<1>4. QED
  BY <1>1, <1>2, <1>3 DEF Holds

\* What stands at a place is what is cut out there.
LEMMA HoldsSubSeq ==
    ASSUME NEW raw \in Seq(Int), NEW off \in Nat, NEW c \in Seq(Int), Holds(raw, off, c)
    PROVE  SubSeq(raw, off + 1, off + Len(c)) = c
<1>1. Len(raw) \in Nat /\ Len(c) \in Nat /\ off + Len(c) <= Len(raw)
  BY DEF Holds
<1>2. \A i \in off + 1..off + Len(c) : raw[i] \in Int
  BY <1>1
<1>3. PICK s : s = SubSeq(raw, off + 1, off + Len(c))
  OBVIOUS
<1>4. s \in Seq(Int) /\ Len(s) = Len(c) /\ \A i \in 1..Len(c) : s[i] = raw[off + i]
  BY <1>1, <1>2, <1>3
<1>5. \A i \in 1..Len(s) : s[i] = c[i]
  BY <1>4 DEF Holds
<1>6. s = c
  BY <1>4, <1>5, SeqEqual
<1>7. QED
  BY <1>3, <1>6

\* The two halves of a concatenation.
LEMMA HoldsHalves ==
    ASSUME NEW a \in Seq(Int), NEW b \in Seq(Int)
    PROVE  Holds(a \o b, 0, a) /\ Holds(a \o b, Len(a), b)
<1>1. PICK c : c = a \o b
  OBVIOUS
<1>2. /\ Len(c) = Len(a) + Len(b) /\ Len(a) \in Nat /\ Len(b) \in Nat
      /\ \A i \in 1..Len(a) : c[0 + i] = a[i]
      /\ \A i \in 1..Len(b) : c[Len(a) + i] = b[i]
  BY <1>1
<1>3. Holds(c, 0, a) /\ Holds(c, Len(a), b)
  BY <1>2 DEF Holds
<1>4. QED
  BY <1>1, <1>3

\* Where the parts are when they are joined: none is empty.
LEMMA JoinedPlaces ==
    ASSUME NEW n \in Nat, NEW parts,
           \A k \in 1..n : parts[k] \in Seq(Int) /\ Len(parts[k]) >= 1
    PROVE  LET J == JoinedUpTo(n, parts) IN
           /\ \A k \in 0..n : J[k] \in Seq(Int) /\ Len(J[k]) >= k
           /\ \A k \in 1..n : Len(J[k]) = Len(J[k - 1]) + Len(parts[k])
           /\ \A k \in 1..n : Holds(J[n], Len(J[k - 1]), parts[k])
<1> DEFINE J == JoinedUpTo(n, parts)
<1> HIDE DEF J
<1>1. J[0] = <<>> /\ \A k \in 1..n : J[k] = J[k - 1] \o parts[k]
  BY JoinedSteps DEF J
<1> DEFINE S == {m \in Nat : m <= n =>
                    /\ J[m] \in Seq(Int) /\ Len(J[m]) >= m
                    /\ \A k \in 1..m : J[k - 1] \in Seq(Int) /\ Holds(J[m], Len(J[k - 1]), parts[k])}
<1>2. 0 \in S
  <2>1. J[0] \in Seq(Int) /\ Len(J[0]) = 0
    BY <1>1
  <2>2. QED
    BY <2>1
<1>3. ASSUME NEW m \in Nat, m \in S PROVE m + 1 \in S
  <2>1. SUFFICES ASSUME m + 1 <= n
                 PROVE  /\ J[m + 1] \in Seq(Int) /\ Len(J[m + 1]) >= m + 1
                        /\ \A k \in 1..m + 1 : J[k - 1] \in Seq(Int) /\ Holds(J[m + 1], Len(J[k - 1]), parts[k])
    OBVIOUS
  <2>2. /\ J[m] \in Seq(Int) /\ Len(J[m]) >= m
        /\ \A k \in 1..m : J[k - 1] \in Seq(Int) /\ Holds(J[m], Len(J[k - 1]), parts[k])
    BY <1>3, <2>1
  <2>3. m + 1 \in 1..n /\ (m + 1) - 1 = m
    BY <2>1
  <2>4. J[m + 1] = J[m] \o parts[m + 1] /\ parts[m + 1] \in Seq(Int) /\ Len(parts[m + 1]) >= 1
    BY <1>1, <2>3
  <2>5. J[m + 1] \in Seq(Int) /\ Len(J[m + 1]) = Len(J[m]) + Len(parts[m + 1])
    BY <2>2, <2>4
  <2>6. Holds(J[m + 1], 0, J[m]) /\ Holds(J[m + 1], Len(J[m]), parts[m + 1])
    BY <2>2, <2>4, HoldsHalves
  <2>7. ASSUME NEW k \in 1..m + 1 PROVE J[k - 1] \in Seq(Int) /\ Holds(J[m + 1], Len(J[k - 1]), parts[k])
    <3>1. CASE k = m + 1
      BY <2>2, <2>3, <2>6, <3>1
    <3>2. CASE k # m + 1
      <4>1. k \in 1..m /\ k \in 1..n
        BY <2>1, <3>2
      <4>2. J[k - 1] \in Seq(Int) /\ Holds(J[m], Len(J[k - 1]), parts[k]) /\ parts[k] \in Seq(Int)
        BY <2>2, <4>1
      <4>3. Len(J[k - 1]) \in Nat /\ 0 + Len(J[k - 1]) = Len(J[k - 1])
        BY <4>2
      <4>4. Holds(J[m + 1], 0 + Len(J[k - 1]), parts[k])
        BY <2>2, <2>5, <2>6, <4>2, <4>3, HoldsWithin
      <4>5. QED
        BY <4>2, <4>3, <4>4
    <3>3. QED
      BY <3>1, <3>2
  <2>8. Len(J[m + 1]) >= m + 1
    <3>1. Len(J[m]) \in Nat /\ Len(J[m]) >= m /\ Len(parts[m + 1]) \in Nat /\ Len(parts[m + 1]) >= 1
      BY <2>2, <2>4
    <3>2. Len(J[m + 1]) = Len(J[m]) + Len(parts[m + 1])
      BY <2>5
    <3>3. PICK a \in Nat, b \in Nat : a = Len(J[m]) /\ b = Len(parts[m + 1])
      BY <3>1
    <3>4. a >= m /\ b >= 1 /\ Len(J[m + 1]) = a + b
      BY <3>1, <3>2, <3>3
    <3>5. a + b >= m + 1
      BY <3>4
    <3>6. QED
      BY <3>4, <3>5, Zenon
  <2>9. QED
    BY <2>5, <2>7, <2>8
<1>4. \A m \in Nat : m \in S
  <2> HIDE DEF S
  <2>1. QED
    BY <1>2, <1>3, Induction
<1>5. ASSUME NEW k \in 1..n PROVE Len(J[k]) = Len(J[k - 1]) + Len(parts[k]) /\ Holds(J[n], Len(J[k - 1]), parts[k])
  <2>1. n \in S /\ k \in 1..n
    BY <1>4
  <2>2. J[k - 1] \in Seq(Int) /\ Holds(J[n], Len(J[k - 1]), parts[k])
    BY <2>1
  <2> HIDE DEF S
  <2>3. parts[k] \in Seq(Int) /\ J[k] = J[k - 1] \o parts[k]
    BY <1>1
  <2>4. QED
    BY <2>2, <2>3
<1>6. ASSUME NEW k \in 0..n PROVE J[k] \in Seq(Int) /\ Len(J[k]) >= k
  <2>1. k \in S
    BY <1>4
  <2>2. QED
    BY <2>1
<1> HIDE DEF S
<1>7. QED
  BY <1>5, <1>6 DEF J

\* The measure of the whole is the sum of the measures.
LEMMA TotalLength ==
    ASSUME NEW n \in Nat, NEW parts, NEW numbers,
           \A k \in 1..n : parts[k] \in Seq(Int) /\ Len(parts[k]) >= 1 /\ numbers[k] = Len(parts[k])
    PROVE  Total(n, numbers) = Len(Joined(n, parts))
<1> DEFINE J == JoinedUpTo(n, parts)
<1> DEFINE A == TotalUpTo(n, numbers)
<1> HIDE DEF J, A
<1>1. A[0] = 0 /\ \A k \in 1..n : A[k] = A[k - 1] + numbers[k]
  BY TotalSteps DEF A
<1>2. /\ \A k \in 0..n : J[k] \in Seq(Int) /\ Len(J[k]) >= k
      /\ \A k \in 1..n : Len(J[k]) = Len(J[k - 1]) + Len(parts[k])
  BY JoinedPlaces DEF J
<1>3. J[0] = <<>>
  BY JoinedSteps DEF J
<1> DEFINE S == {m \in Nat : m <= n => A[m] = Len(J[m])}
<1>4. 0 \in S
  BY <1>1, <1>3
<1>5. ASSUME NEW m \in Nat, m \in S PROVE m + 1 \in S
  <2>1. SUFFICES ASSUME m + 1 <= n PROVE A[m + 1] = Len(J[m + 1])
    OBVIOUS
  <2>2. m + 1 \in 1..n /\ (m + 1) - 1 = m /\ A[m] = Len(J[m])
    BY <1>5, <2>1
  <2>3. A[m + 1] = A[m] + numbers[m + 1] /\ Len(J[m + 1]) = Len(J[m]) + Len(parts[m + 1])
    BY <1>1, <1>2, <2>2
  <2>4. QED
    BY <2>2, <2>3
<1>6. \A m \in Nat : m \in S
  <2> HIDE DEF S
  <2>1. QED
    BY <1>4, <1>5, Induction
<1>7. QED
  BY <1>6 DEF Total, Joined, A, J

------------------------------------------------------------------------------
(* Decoding what has been encoded.                                          *)

\* The beginning of a sequence grows by its next element.
LEMMA Beginning ==
    ASSUME NEW U, NEW s \in Seq(U), NEW k \in Nat, k + 1 <= Len(s)
    PROVE  SubSeq(s, 1, k + 1) = Append(SubSeq(s, 1, k), s[k + 1])
<1>1. PICK n \in Nat : n = Len(s)
  OBVIOUS
<1>2. \A i \in 1..k + 1 : s[i] \in U
  BY <1>1
<1>3. PICK a, b : a = SubSeq(s, 1, k + 1) /\ b = SubSeq(s, 1, k)
  OBVIOUS
<1>4. a \in Seq(U) /\ Len(a) = k + 1 /\ \A i \in 1..k + 1 : a[i] = s[i]
  BY <1>2, <1>3
<1>5. b \in Seq(U) /\ Len(b) = k /\ \A i \in 1..k : b[i] = s[i]
  BY <1>2, <1>3
<1>6. PICK c : c = Append(b, s[k + 1])
  OBVIOUS
<1>7. c \in Seq(U) /\ Len(c) = k + 1 /\ \A i \in 1..k + 1 : c[i] = s[i]
  BY <1>2, <1>5, <1>6
<1>8. a = c
  BY <1>4, <1>7, SeqEqual
<1>9. QED
  BY <1>3, <1>6, <1>8

\* Where the cells part stand, a value of a type is read as item, to their end, if the
\* decoder takes the item; otherwise reading fails.
ReadsAs(raw, type, item, part) ==
    /\ part \in Seq(Int) /\ Len(part) >= 1
    /\ \A o \in Nat : Holds(raw, o, part) =>
          type.decode[raw][o] = IF type.readable[item] THEN Ok(item, o + Len(part)) ELSE Failed
AllReadable(n, types, items) == \A k \in 1..n : types[k].readable[items[k]]

\* Values written one after the other are read one after the other.
LEMMA EachDecodes ==
    ASSUME NEW n \in Nat, NEW types, Len(types) = n, NEW U, NEW items \in Seq(U), Len(items) = n,
           NEW parts, NEW raw \in Seq(Int), NEW off \in Nat,
           \A k \in 1..n : ReadsAs(raw, types[k], items[k], parts[k]),
           Holds(raw, off, Joined(n, parts))
    PROVE  DecodeEach(types, raw, off) =
               IF AllReadable(n, types, items) THEN Ok(Tree(items), off + Len(Joined(n, parts))) ELSE Failed
<1> DEFINE D == DecodeUpTo(types, raw, off)
<1> DEFINE J == JoinedUpTo(n, parts)
<1>0. \A k \in 1..n : parts[k] \in Seq(Int) /\ Len(parts[k]) >= 1
  BY DEF ReadsAs
<1>1. D[0] = Ok(<<>>, off) /\ \A k \in 1..n : D[k] = DecodeNext(D[k - 1], types[k], raw)
  <2>1. Len(types) \in Nat
    OBVIOUS
  <2>2. D[0] = Ok(<<>>, off) /\ \A k \in 1..Len(types) : D[k] = DecodeNext(D[k - 1], types[k], raw)
    BY <2>1, DecodeSteps, Zenon
  <2>3. QED
    BY <2>2
<1>2. J[0] = <<>>
  BY JoinedSteps
<1>3. /\ \A k \in 0..n : J[k] \in Seq(Int)
      /\ \A k \in 1..n : Len(J[k]) = Len(J[k - 1]) + Len(parts[k]) /\ Holds(J[n], Len(J[k - 1]), parts[k])
  BY <1>0, JoinedPlaces
<1>4. Holds(raw, off, J[n])
  BY DEF Joined
<1> HIDE DEF D, J
<1> DEFINE Read(k) == Ok(SubSeq(items, 1, k), off + Len(J[k]))
<1> DEFINE S == {k \in Nat : k <= n => D[k] = IF AllReadable(k, types, items) THEN Read(k) ELSE Failed}
<1>5. 0 \in S
  <2>1. SubSeq(items, 1, 0) = <<>> /\ off + Len(J[0]) = off
    BY <1>2
  <2>2. AllReadable(0, types, items)
    BY DEF AllReadable
  <2>3. QED
    BY <1>1, <2>1, <2>2
<1>6. ASSUME NEW k \in Nat, k \in S PROVE k + 1 \in S
  <2>1. SUFFICES ASSUME k + 1 <= n
                 PROVE  D[k + 1] = IF AllReadable(k + 1, types, items) THEN Read(k + 1) ELSE Failed
    OBVIOUS
  <2>2. k + 1 \in 1..n /\ (k + 1) - 1 = k /\ k \in 0..n /\ k <= n
    BY <2>1
  <2>3. D[k] = IF AllReadable(k, types, items) THEN Read(k) ELSE Failed
    BY <1>6, <2>2
  <2>4. D[k + 1] = DecodeNext(D[k], types[k + 1], raw)
    BY <1>1, <2>2
  <2>5. AllReadable(k + 1, types, items) =
            (AllReadable(k, types, items) /\ types[k + 1].readable[items[k + 1]])
    <3>1. 1..k + 1 = (1..k) \cup {k + 1}
      OBVIOUS
    <3>2. QED
      BY <3>1, Zenon DEF AllReadable
  <2>6. CASE ~AllReadable(k, types, items)
    <3>1. D[k] = Failed /\ ~Failed.ok
      BY <2>3, <2>6 DEF Failed
    <3>2. DecodeNext(D[k], types[k + 1], raw) = Failed
      BY <3>1 DEF DecodeNext
    <3>3. QED
      BY <2>4, <2>5, <2>6, <3>2, Zenon
  <2>7. CASE AllReadable(k, types, items)
    <3>1. J[k] \in Seq(Int) /\ J[n] \in Seq(Int) /\ parts[k + 1] \in Seq(Int)
      BY <1>0, <1>3, <2>2
    <3>2. Len(J[k]) \in Nat /\ Holds(J[n], Len(J[k]), parts[k + 1])
      <4>1. Len(J[k]) \in Nat
        BY <3>1
      <4>2. Holds(J[n], Len(J[(k + 1) - 1]), parts[k + 1])
        BY <1>3, <2>2, Zenon
      <4>3. QED
        BY <2>2, <4>1, <4>2, Zenon
    <3>3. Holds(raw, off + Len(J[k]), parts[k + 1])
      BY <1>4, <3>1, <3>2, HoldsWithin
    <3>4. PICK o \in Nat : o = off + Len(J[k])
      BY <3>2
    <3>5. PICK next : next = types[k + 1].decode[raw][o]
      OBVIOUS
    <3>6. next = IF types[k + 1].readable[items[k + 1]] THEN Ok(items[k + 1], o + Len(parts[k + 1])) ELSE Failed
      BY <2>2, <3>3, <3>4, <3>5 DEF ReadsAs
    <3>7. D[k] = Ok(SubSeq(items, 1, k), o)
      BY <2>3, <2>7, <3>4
    <3>8. D[k].ok /\ D[k].value = SubSeq(items, 1, k) /\ D[k].off = o
      BY <3>7 DEF Ok
    <3>9. DecodeNext(D[k], types[k + 1], raw) =
              IF next.ok THEN Ok(Append(SubSeq(items, 1, k), next.value), next.off) ELSE Failed
      BY <3>5, <3>8 DEF DecodeNext
    <3>10. CASE ~types[k + 1].readable[items[k + 1]]
      <4>1. ~next.ok
        BY <3>6, <3>10 DEF Failed
      <4>2. QED
        BY <2>4, <2>5, <3>9, <3>10, <4>1, Zenon
    <3>11. CASE types[k + 1].readable[items[k + 1]]
      <4>1. next = Ok(items[k + 1], o + Len(parts[k + 1]))
        BY <3>6, <3>11
      <4>2. next.ok /\ next.value = items[k + 1] /\ next.off = o + Len(parts[k + 1])
        BY <4>1 DEF Ok
      <4>3. D[k + 1] = Ok(Append(SubSeq(items, 1, k), items[k + 1]), o + Len(parts[k + 1]))
        BY <2>4, <3>9, <4>2, Zenon
      <4>4. o + Len(parts[k + 1]) = off + Len(J[k + 1])
        <5>1. Len(J[k + 1]) = Len(J[(k + 1) - 1]) + Len(parts[k + 1])
          BY <1>3, <2>2, Zenon
        <5>2. Len(J[k + 1]) = Len(J[k]) + Len(parts[k + 1])
          BY <2>2, <5>1, Zenon
        <5>3. Len(parts[k + 1]) \in Nat
          BY <3>1
        <5>4. PICK a \in Nat, b \in Nat : a = Len(J[k]) /\ b = Len(parts[k + 1])
          BY <3>2, <5>3
        <5>5. o = off + a /\ Len(J[k + 1]) = a + b
          BY <3>4, <5>2, <5>4, Zenon
        <5>6. o + b = off + (a + b)
          BY <5>5
        <5>7. QED
          BY <5>4, <5>5, <5>6, Zenon
      <4>5. SubSeq(items, 1, k + 1) = Append(SubSeq(items, 1, k), items[k + 1])
        BY <2>1, Beginning
      <4>6. D[k + 1] = Read(k + 1)
        BY <4>3, <4>4, <4>5, Zenon
      <4>7. QED
        BY <2>5, <2>7, <3>11, <4>6, Zenon
    <3>12. QED
      BY <3>10, <3>11
  <2>8. QED
    BY <2>6, <2>7
<1>7. \A k \in Nat : k \in S
  <2> HIDE DEF S
  <2>1. QED
    BY <1>5, <1>6, Induction
<1>8. D[n] = IF AllReadable(n, types, items) THEN Read(n) ELSE Failed
  BY <1>7
<1>9. SubSeq(items, 1, n) = items
  <2>1. PICK s : s = SubSeq(items, 1, n)
    OBVIOUS
  <2>2. s \in Seq(U) /\ Len(s) = n /\ \A i \in 1..n : s[i] = items[i]
    BY <2>1
  <2>3. QED
    BY <2>1, <2>2, SeqEqual
<1>10. DecodeEach(types, raw, off) = IF D[n].ok THEN Ok(Tree(D[n].value), D[n].off) ELSE Failed
  BY DEF DecodeEach, D
<1>11. CASE AllReadable(n, types, items)
  <2>1. D[n] = Ok(items, off + Len(J[n]))
    BY <1>8, <1>9, <1>11
  <2>2. D[n].ok /\ D[n].value = items /\ D[n].off = off + Len(J[n])
    BY <2>1 DEF Ok
  <2>3. DecodeEach(types, raw, off) = Ok(Tree(items), off + Len(J[n]))
    BY <1>10, <2>2
  <2>4. QED
    BY <1>11, <2>3 DEF Joined, J
<1>12. CASE ~AllReadable(n, types, items)
  <2>1. ~D[n].ok
    BY <1>8, <1>12 DEF Failed
  <2>2. QED
    BY <1>10, <1>12, <2>1
<1>13. QED
  BY <1>11, <1>12

------------------------------------------------------------------------------
(* Types whose values survive the way through the encoders and the decoder. *)

\* Of every value of the type, what is encoded has the measured length, at least one
\* cell, and where it stands it is decoded to the value again, or refused if it is not
\* readable.
Returns(t, v) ==
    /\ t.encode[v] \in Seq(Int) /\ Len(t.encode[v]) >= 1
    /\ t.measure[v] = Len(t.encode[v])
    /\ \A raw \in Seq(Int) : ReadsAs(raw, t, v, t.encode[v])
Sound(t) ==
    /\ t.values \subseteq Values
    /\ \A v \in t.values : Returns(t, v)

\* What a value has.
LEMMA ValueParts ==
    ASSUME NEW v \in Values
    PROVE  /\ v.cells \in Seq(Int) /\ \E U : v.items \in Seq(U)
           /\ v.items = <<>> => v = Leaf(v.cells)
           /\ v.cells = <<>> => v = Tree(v.items)
<1>1. PICK U : v \in [cells : Seq(Int), items : Seq(U)]
  BY DEF Values, Above
<1>2. QED
  BY <1>1 DEF Leaf, Tree

\* A length that is written is read, if what it counts can follow.
LEMMA LengthRead ==
    ASSUME NEW kind, NEW raw \in Seq(Int), NEW off \in Nat, NEW n \in Nat,
           (off + 1) + n <= Len(raw), raw[off + 1] = n + Bias(kind),
           kind = "array" => n <= maxArrayLength
    PROVE  getLength(kind, raw, off) = Ok(n, off + 1)
<1>1. PICK l \in Nat : l = Len(raw)
  OBVIOUS
<1>2. Bias(kind) \in {0, 1}
  BY DEF Bias
<1>3. raw[off + 1] - Bias(kind) = n
  BY <1>2
<1>4. ~(off >= Len(raw)) /\ ~(n > Len(raw) - (off + 1)) /\ ~(n < 0) /\ ~(n < -1)
  BY <1>1
<1>5. maxArrayLength \in Nat
  BY CodecAssumption DEF maxArrayLength
<1>6. ~(kind = "array" /\ n > maxArrayLength)
  BY <1>5
<1>7. QED
  BY <1>3, <1>4, <1>6 DEF getLength

\* Numbers and booleans return.
LEMMA NumberSound ==
    ASSUME NEW numbers, numbers \subseteq Int, NEW get,
           \A raw \in Seq(Int) : \A o \in Nat :
               o < Len(raw) /\ raw[o + 1] \in numbers => get[raw][o] = Ok(Leaf(<<raw[o + 1]>>), o + 1)
    PROVE  Sound(Number(numbers, get))
<1> DEFINE t == Number(numbers, get)
<1>1. t.values = {v \in Values : v.items = <<>> /\ Len(v.cells) = 1 /\ v.cells[1] \in numbers}
  BY DEF Number
<1>2. \A v \in Values : t.measure[v] = 1 /\ t.encode[v] = v.cells /\ t.readable[v]
  BY DEF Number
<1>3. t.decode = get
  BY DEF Number
<1> HIDE DEF t
<1>4. ASSUME NEW v \in t.values PROVE Returns(t, v)
  <2>1. v \in Values /\ v.items = <<>> /\ Len(v.cells) = 1 /\ v.cells[1] \in numbers
    BY <1>1
  <2>2. v.cells \in Seq(Int) /\ v = Leaf(v.cells)
    BY <2>1, ValueParts
  <2>3. PICK c : c = v.cells
    OBVIOUS
  <2>4. c \in Seq(Int) /\ Len(c) = 1 /\ v = Leaf(c) /\ t.encode[v] = c /\ t.measure[v] = 1 /\ c[1] \in numbers
    BY <1>2, <2>1, <2>2, <2>3
  <2>5. c = << c[1] >>
    BY <2>4
  <2>6. ASSUME NEW raw \in Seq(Int), NEW o \in Nat, Holds(raw, o, c) PROVE t.decode[raw][o] = Ok(v, o + Len(c))
    <3>1. o + 1 <= Len(raw) /\ raw[o + 1] = c[1] /\ Len(raw) \in Nat
      BY <2>4, <2>6 DEF Holds
    <3>2. o < Len(raw) /\ raw[o + 1] \in numbers
      BY <2>4, <3>1
    <3>3. get[raw][o] = Ok(Leaf(<< raw[o + 1] >>), o + 1)
      BY <3>2
    <3>4. << raw[o + 1] >> = c
      BY <2>5, <3>1
    <3>5. QED
      BY <1>3, <2>4, <3>3, <3>4
  <2>7. t.readable[v]
    BY <1>2, <2>1
  <2>8. QED
    BY <2>4, <2>6, <2>7 DEF Returns, ReadsAs
<1>5. QED
  BY <1>1, <1>4 DEF Sound, t

\* The two kinds of numbers.
LEMMA NumbersSound == Sound(TypeNumber) /\ Sound(TypeBool)
<1>1. Sound(TypeNumber)
  <2> DEFINE get == [raw \in Seq(Int) |-> [off \in Nat |-> getNumber(raw, off)]]
  <2>1. ASSUME NEW raw \in Seq(Int), NEW o \in Nat, o < Len(raw)
        PROVE  get[raw][o] = Ok(Leaf(<< raw[o + 1] >>), o + 1)
    BY <2>1 DEF getNumber
  <2> HIDE DEF get
  <2>2. Sound(Number(Int, get))
    BY <2>1, NumberSound
  <2>3. QED
    BY <2>2 DEF TypeNumber, get
<1>2. Sound(TypeBool)
  <2> DEFINE get == [raw \in Seq(Int) |-> [off \in Nat |-> getBool(raw, off)]]
  <2>1. ASSUME NEW raw \in Seq(Int), NEW o \in Nat, o < Len(raw), raw[o + 1] \in {0, 1}
        PROVE  get[raw][o] = Ok(Leaf(<< raw[o + 1] >>), o + 1)
    BY <2>1 DEF getNumber, getBool
  <2> HIDE DEF get
  <2>2. Sound(Number({0, 1}, get))
    BY <2>1, NumberSound
  <2>3. QED
    BY <2>2 DEF TypeBool, get
<1>3. QED
  BY <1>1, <1>2

\* Strings return, of every kind the schemas use.
LEMMA StringSound ==
    ASSUME NEW kind, kind \in {"str", "nullableStr", "compactStr", "compactNullableStr", "bytes", "varintBytes"}
    PROVE  Sound(String(kind))
<1> DEFINE t == String(kind)
<1>1. t.values = {v \in Values : /\ v.items = <<>>
                                 /\ v.cells \in Seq(Nat) \/ (kind \in Nullable /\ v.cells = Null)}
  BY DEF String
<1>2. \A v \in Values : t.measure[v] = PrepString(v.cells) /\ t.encode[v] = PutString(kind, v.cells) /\ t.readable[v]
  BY DEF String
<1>3. \A raw \in Seq(Int) : \A o \in Nat : t.decode[raw][o] = getString(kind, raw, o)
  BY DEF String
<1> HIDE DEF t
<1>4. ASSUME NEW v \in t.values PROVE Returns(t, v)
  <2>1. v \in Values /\ v.items = <<>>
    BY <1>1
  <2>2. PICK s : s = v.cells
    OBVIOUS
  <2>3. v = Leaf(s) /\ s \in Seq(Int) /\ (s \in Seq(Nat) \/ (kind \in Nullable /\ s = Null))
    BY <1>1, <2>1, <2>2, ValueParts
  <2>4. t.measure[v] = PrepString(s) /\ t.encode[v] = PutString(kind, s)
    BY <1>2, <2>1, <2>2
  <2>r. t.readable[v]
    BY <1>2, <2>1
  <2>5. Bias(kind) \in {0, 1}
    BY DEF Bias
  <2>6. CASE s = Null
    <3>1. kind \in Nullable
      <4>1. Null \notin Seq(Nat)
        <5>1. Null[1] = -1 /\ Len(Null) = 1
          BY DEF Null
        <5>2. QED
          BY <5>1
      <4>2. QED
        BY <2>3, <2>6, <4>1
    <3>2. PICK c : c = << Bias(kind) - 1 >>
      OBVIOUS
    <3>3. c \in Seq(Int) /\ Len(c) = 1 /\ c[1] = Bias(kind) - 1
      BY <2>5, <3>2
    <3>4. t.measure[v] = 1 /\ t.encode[v] = c
      BY <2>4, <2>6, <3>2 DEF PrepString, PutString
    <3>5. ASSUME NEW raw \in Seq(Int), NEW o \in Nat, Holds(raw, o, c) PROVE t.decode[raw][o] = Ok(v, o + 1)
      <4>1. o + 1 <= Len(raw) /\ raw[o + 1] = Bias(kind) - 1 /\ Len(raw) \in Nat
        BY <3>3, <3>5 DEF Holds
      <4>2. raw[o + 1] - Bias(kind) = -1 /\ ~(o >= Len(raw)) /\ ~(-1 > Len(raw) - (o + 1))
        BY <2>5, <4>1
      <4>3. kind \notin {"compactStr", "compactArray", "taggedFields", "array", "str"}
        BY <3>1 DEF Nullable
      <4>4. getLength(kind, raw, o) = Ok(-1, o + 1)
        BY <4>2, <4>3 DEF getLength
      <4>5. getString(kind, raw, o) = Ok(Leaf(Null), o + 1)
        <5>1. PICK len : len = getLength(kind, raw, o)
          OBVIOUS
        <5>2. len.ok /\ len.value = -1 /\ len.off = o + 1
          BY <4>4, <5>1 DEF Ok
        <5>3. kind # "str"
          BY <4>3
        <5>4. QED
          BY <5>1, <5>2, <5>3 DEF getString
      <4>6. QED
        BY <1>3, <2>3, <2>6, <4>5
    <3>6. \A raw \in Seq(Int) : ReadsAs(raw, t, v, c)
      BY <2>r, <3>3, <3>5 DEF ReadsAs
    <3>7. Len(c) >= 1 /\ t.measure[v] = Len(c)
      BY <3>3, <3>4
    <3>8. QED
      BY <3>3, <3>4, <3>6, <3>7, Zenon DEF Returns
  <2>7. CASE s # Null
    <3>1. s \in Seq(Nat)
      BY <2>3, <2>7
    <3>2. PICK n \in Nat : n = Len(s)
      BY <2>3
    <3>3. PICK c : c = << n + Bias(kind) >> \o s
      OBVIOUS
    <3>4. c \in Seq(Int) /\ Len(c) = 1 + n /\ c[1] = n + Bias(kind)
      BY <2>3, <2>5, <3>2, <3>3
    <3>5. \A i \in 1..n : c[1 + i] = s[i]
      BY <2>3, <2>5, <3>2, <3>3
    <3>6. t.measure[v] = 1 + n /\ t.encode[v] = c
      BY <2>4, <2>7, <3>2, <3>3 DEF PrepString, PutString
    <3>7. ASSUME NEW raw \in Seq(Int), NEW o \in Nat, Holds(raw, o, c) PROVE t.decode[raw][o] = Ok(v, o + Len(c))
      <4>1. PICK l \in Nat : l = Len(raw)
        OBVIOUS
      <4>2. o + (1 + n) <= l /\ \A i \in 1..(1 + n) : raw[o + i] = c[i]
        BY <3>4, <3>7, <4>1 DEF Holds
      <4>3. 1 \in 1..(1 + n) /\ (o + 1) + n <= l
        BY <4>2
      <4>4. raw[o + 1] = n + Bias(kind)
        BY <3>4, <4>2, <4>3
      <4>5. kind # "array"
        OBVIOUS
      <4>6. getLength(kind, raw, o) = Ok(n, o + 1)
        BY <4>1, <4>3, <4>4, <4>5, LengthRead
      <4>7. Holds(raw, o + 1, s)
        <5>1. \A i \in 1..n : raw[(o + 1) + i] = s[i]
          <6>1. SUFFICES ASSUME NEW i \in 1..n PROVE raw[(o + 1) + i] = s[i]
            OBVIOUS
          <6>2. 1 + i \in 1..(1 + n) /\ (o + 1) + i = o + (1 + i)
            OBVIOUS
          <6>3. raw[o + (1 + i)] = c[1 + i] /\ c[1 + i] = s[i]
            BY <3>5, <4>2, <6>2
          <6>4. QED
            BY <6>2, <6>3
        <5>2. QED
          BY <3>2, <4>1, <4>3, <5>1 DEF Holds
      <4>8. SubSeq(raw, (o + 1) + 1, (o + 1) + n) = s
        <5>1. o + 1 \in Nat
          OBVIOUS
        <5>2. SubSeq(raw, (o + 1) + 1, (o + 1) + Len(s)) = s
          BY <2>3, <4>7, <5>1, HoldsSubSeq, Zenon
        <5>3. QED
          BY <3>2, <5>2, Zenon
      <4>9. PICK len : len = getLength(kind, raw, o)
        OBVIOUS
      <4>10. len.ok /\ len.value = n /\ len.off = o + 1
        BY <4>6, <4>9 DEF Ok
      <4>11. getString(kind, raw, o) = Ok(Leaf(s), (o + 1) + n)
        <5>1. len.value # -1
          BY <4>10
        <5>2. getString(kind, raw, o) = Ok(Leaf(SubSeq(raw, len.off + 1, len.off + len.value)), len.off + len.value)
          BY <4>9, <4>10, <5>1 DEF getString
        <5>3. QED
          BY <4>8, <4>10, <5>2, Zenon
      <4>12. (o + 1) + n = o + Len(c)
        BY <3>4
      <4>13. QED
        BY <1>3, <2>3, <4>11, <4>12
    <3>8. \A raw \in Seq(Int) : ReadsAs(raw, t, v, c)
      BY <2>r, <3>4, <3>7 DEF ReadsAs
    <3>9. QED
      BY <3>4, <3>6, <3>8 DEF Returns
  <2>8. QED
    BY <2>6, <2>7
<1>5. QED
  BY <1>1, <1>4 DEF Sound, t

\* n items with their types, with what is encoded of each and how it is measured.
Encoded(n, types, items, parts, numbers) ==
    /\ Len(types) = n /\ Len(items) = n /\ \E U : items \in Seq(U)
    /\ \A k \in 1..n : /\ Returns(types[k], items[k])
                       /\ parts[k] = types[k].encode[items[k]]
                       /\ numbers[k] = types[k].measure[items[k]]

\* Values that return, written one after the other, return together.
LEMMA PartsReturn ==
    ASSUME NEW n \in Nat, NEW types, NEW items, NEW parts, NEW numbers,
           Encoded(n, types, items, parts, numbers)
    PROVE  /\ Joined(n, parts) \in Seq(Int) /\ Len(Joined(n, parts)) >= n
           /\ Total(n, numbers) = Len(Joined(n, parts))
           /\ \A raw \in Seq(Int) : \A o \in Nat : Holds(raw, o, Joined(n, parts)) =>
                 DecodeEach(types, raw, o) =
                     IF AllReadable(n, types, items) THEN Ok(Tree(items), o + Len(Joined(n, parts))) ELSE Failed
<1>0. PICK U : items \in Seq(U)
  BY DEF Encoded
<1>1. \A k \in 1..n : parts[k] \in Seq(Int) /\ Len(parts[k]) >= 1 /\ numbers[k] = Len(parts[k])
  BY Zenon DEF Encoded, Returns
<1>2. Joined(n, parts) \in Seq(Int) /\ Len(Joined(n, parts)) >= n
  <2>1. \A k \in 0..n : JoinedUpTo(n, parts)[k] \in Seq(Int) /\ Len(JoinedUpTo(n, parts)[k]) >= k
    BY <1>1, JoinedPlaces
  <2>2. n \in 0..n
    OBVIOUS
  <2>3. QED
    BY <2>1, <2>2, Zenon DEF Joined
<1>3. Total(n, numbers) = Len(Joined(n, parts))
  BY <1>1, TotalLength
<1>4. ASSUME NEW raw \in Seq(Int), NEW o \in Nat, Holds(raw, o, Joined(n, parts))
      PROVE  DecodeEach(types, raw, o) =
                 IF AllReadable(n, types, items) THEN Ok(Tree(items), o + Len(Joined(n, parts))) ELSE Failed
  <2>1. \A k \in 1..n : ReadsAs(raw, types[k], items[k], parts[k])
    BY Zenon DEF Encoded, Returns
  <2>2. Len(types) = n /\ Len(items) = n
    BY DEF Encoded
  <2>3. QED
    BY <1>0, <1>4, <2>1, <2>2, EachDecodes, SMTT(30)
<1>5. QED
  BY <1>2, <1>3, <1>4, Zenon

\* A cell in front of other cells.
LEMMA HoldsBehind ==
    ASSUME NEW a \in Int, NEW d \in Seq(Int)
    PROVE  LET c == << a >> \o d IN
           /\ c \in Seq(Int) /\ Len(c) = 1 + Len(d)
           /\ \A raw \in Seq(Int) : \A o \in Nat : Holds(raw, o, c) =>
                /\ raw[o + 1] = a /\ Holds(raw, o + 1, d) /\ (o + 1) + Len(d) <= Len(raw)
<1>1. PICK c : c = << a >> \o d
  OBVIOUS
<1>2. PICK n \in Nat : n = Len(d)
  OBVIOUS
<1>3. c \in Seq(Int) /\ Len(c) = 1 + n /\ c[1] = a
  BY <1>1, <1>2
<1>4. \A i \in 1..n : c[1 + i] = d[i]
  BY <1>1, <1>2
<1>5. ASSUME NEW raw \in Seq(Int), NEW o \in Nat, Holds(raw, o, c)
      PROVE  raw[o + 1] = a /\ Holds(raw, o + 1, d) /\ (o + 1) + Len(d) <= Len(raw)
  <2>1. PICK l \in Nat : l = Len(raw)
    OBVIOUS
  <2>2. o + (1 + n) <= l /\ \A i \in 1..(1 + n) : raw[o + i] = c[i]
    BY <1>3, <1>5, <2>1 DEF Holds
  <2>3. 1 \in 1..(1 + n) /\ (o + 1) + n <= l
    BY <2>2
  <2>4. raw[o + 1] = a
    BY <1>3, <2>2, <2>3
  <2>5. \A i \in 1..n : raw[(o + 1) + i] = d[i]
    <3>1. SUFFICES ASSUME NEW i \in 1..n PROVE raw[(o + 1) + i] = d[i]
      OBVIOUS
    <3>2. 1 + i \in 1..(1 + n) /\ (o + 1) + i = o + (1 + i)
      OBVIOUS
    <3>3. raw[o + (1 + i)] = c[1 + i] /\ c[1 + i] = d[i]
      BY <1>4, <2>2, <3>2
    <3>4. QED
      BY <3>2, <3>3
  <2>6. Holds(raw, o + 1, d)
    BY <1>2, <2>1, <2>3, <2>5 DEF Holds
  <2>7. QED
    BY <1>2, <2>1, <2>3, <2>4, <2>6
<1>6. QED
  BY <1>1, <1>2, <1>3, <1>5, Zenon

\* Arrays return if their elements do.
LEMMA ListSound ==
    ASSUME NEW kind, kind \in {"array", "compactArray", "taggedFields"}, NEW type, Sound(type)
    PROVE  Sound(ListOf(kind, type))
<1> DEFINE t == ListOf(kind, type)
<1> DEFINE Parts(v) == [i \in DOMAIN v.items |-> type.encode[v.items[i]]]
<1> DEFINE Lengths(v) == [i \in DOMAIN v.items |-> type.measure[v.items[i]]]
<1> DEFINE Same(n) == [i \in 1..n |-> type]
<1>1. t.values = {v \in Values : v.cells = <<>> /\ \A i \in DOMAIN v.items : v.items[i] \in type.values}
  BY DEF ListOf
<1>2. \A v \in Values : t.measure[v] = 1 + Total(Len(v.items), Lengths(v))
  BY DEF ListOf
<1>3. \A v \in Values : t.encode[v] = << Len(v.items) + Bias(kind) >> \o Joined(Len(v.items), Parts(v))
  BY DEF ListOf
<1>4. \A v \in Values : t.readable[v] = (/\ kind = "array" => Len(v.items) <= maxArrayLength
                                         /\ \A i \in DOMAIN v.items : type.readable[v.items[i]])
  BY DEF ListOf
<1>5. \A raw \in Seq(Int) : \A o \in Nat : t.decode[raw][o] =
         LET n == getLength(kind, raw, o) IN IF n.ok THEN DecodeEach(Same(n.value), raw, n.off) ELSE Failed
  BY DEF ListOf
<1> HIDE DEF t
<1>6. ASSUME NEW v \in t.values PROVE Returns(t, v)
  <2>1. v \in Values /\ v.cells = <<>>
    BY <1>1
  <2>2. PICK U, items : items = v.items /\ items \in Seq(U)
    BY <2>1, ValueParts
  <2>3. PICK n \in Nat : n = Len(items)
    BY <2>2
  <2>4. DOMAIN v.items = 1..n /\ v = Tree(items) /\ \A k \in 1..n : items[k] \in type.values
    BY <1>1, <2>1, <2>2, <2>3, ValueParts
  <2> DEFINE J == Joined(n, Parts(v))
  <2>5. Len(Same(n)) = n /\ \A k \in 1..n : Same(n)[k] = type
    OBVIOUS
  <2>6. \A k \in 1..n : /\ Returns(Same(n)[k], items[k])
                        /\ Parts(v)[k] = Same(n)[k].encode[items[k]]
                        /\ Lengths(v)[k] = Same(n)[k].measure[items[k]]
    BY <2>2, <2>4, <2>5 DEF Sound
  <2>e. Encoded(n, Same(n), items, Parts(v), Lengths(v))
    BY <2>2, <2>3, <2>5, <2>6 DEF Encoded
  <2>7. t.measure[v] = 1 + Total(n, Lengths(v)) /\ t.encode[v] = << n + Bias(kind) >> \o J
    BY <1>2, <1>3, <2>1, <2>2, <2>3
  <2>8. t.readable[v] = ((kind = "array" => n <= maxArrayLength) /\ AllReadable(n, Same(n), items))
    BY <1>4, <2>1, <2>2, <2>3, <2>4, <2>5 DEF AllReadable
  <2> HIDE DEF Parts, Lengths, Same
  <2>9. /\ J \in Seq(Int) /\ Len(J) >= n
        /\ Total(n, Lengths(v)) = Len(J)
        /\ \A raw \in Seq(Int) : \A o \in Nat : Holds(raw, o, J) =>
              DecodeEach(Same(n), raw, o) =
                  IF AllReadable(n, Same(n), items) THEN Ok(Tree(items), o + Len(J)) ELSE Failed
    BY <2>e, PartsReturn
  <2> HIDE DEF J
  <2>10. Bias(kind) \in {0, 1}
    BY DEF Bias
  <2>11. PICK c : c = << n + Bias(kind) >> \o J
    OBVIOUS
  <2>12. /\ c \in Seq(Int) /\ Len(c) = 1 + Len(J)
         /\ \A raw \in Seq(Int) : \A o \in Nat : Holds(raw, o, c) =>
              /\ raw[o + 1] = n + Bias(kind) /\ Holds(raw, o + 1, J) /\ (o + 1) + Len(J) <= Len(raw)
    <3>1. n + Bias(kind) \in Int
      BY <2>10
    <3>2. QED
      BY <2>9, <2>11, <3>1, HoldsBehind, Zenon
  <2>13. PICK m \in Nat : m = Len(J) /\ m >= n
    BY <2>9
  <2>14. ASSUME NEW raw \in Seq(Int), NEW o \in Nat, Holds(raw, o, c)
         PROVE  t.decode[raw][o] = IF t.readable[v] THEN Ok(v, o + Len(c)) ELSE Failed
    <3>1. raw[o + 1] = n + Bias(kind) /\ Holds(raw, o + 1, J) /\ (o + 1) + m <= Len(raw)
      BY <2>12, <2>13, <2>14
    <3>2. (o + 1) + n <= Len(raw)
      BY <2>13, <3>1
    <3>3. CASE kind = "array" /\ ~(n <= maxArrayLength)
      <4>1. raw[o + 1] - Bias(kind) = n
        BY <2>10, <3>1
      <4>2. n > maxArrayLength
        BY <3>3, CodecAssumption DEF maxArrayLength
      <4>3. getLength(kind, raw, o) = Failed
        BY <3>3, <4>1, <4>2 DEF getLength
      <4>4. ~getLength(kind, raw, o).ok
        BY <4>3 DEF Failed
      <4>5. QED
        BY <1>5, <2>8, <3>3, <4>4
    <3>4. CASE kind = "array" => n <= maxArrayLength
      <4>1. getLength(kind, raw, o) = Ok(n, o + 1)
        BY <3>1, <3>2, <3>4, LengthRead
      <4>2. o + 1 \in Nat
        OBVIOUS
      <4>3. DecodeEach(Same(n), raw, o + 1) =
                IF AllReadable(n, Same(n), items) THEN Ok(Tree(items), (o + 1) + Len(J)) ELSE Failed
        BY <2>9, <3>1, <4>2, Zenon
      <4>4. PICK len : len = getLength(kind, raw, o)
        OBVIOUS
      <4>5. len.ok /\ len.value = n /\ len.off = o + 1
        BY <4>1, <4>4 DEF Ok
      <4>6. t.decode[raw][o] = DecodeEach(Same(len.value), raw, len.off)
        BY <1>5, <4>4, <4>5
      <4>7. (o + 1) + Len(J) = o + Len(c)
        BY <2>12, <2>13
      <4>8. t.readable[v] <=> AllReadable(n, Same(n), items)
        BY <2>8, <3>4, Zenon
      <4>9. t.decode[raw][o] = IF AllReadable(n, Same(n), items) THEN Ok(v, o + Len(c)) ELSE Failed
        BY <2>4, <4>3, <4>5, <4>6, <4>7, Zenon
      <4>10. QED
        BY <4>8, <4>9, Zenon
    <3>5. QED
      BY <3>3, <3>4
  <2>15. t.encode[v] = c /\ Len(c) >= 1 /\ t.measure[v] = Len(c)
    BY <2>7, <2>9, <2>11, <2>12, <2>13
  <2>16. \A raw \in Seq(Int) : ReadsAs(raw, t, v, c)
    BY <2>12, <2>14, <2>15, Zenon DEF ReadsAs
  <2>17. QED
    BY <2>12, <2>15, <2>16, Zenon DEF Returns
<1>7. QED
  BY <1>1, <1>6 DEF Sound, t

\* Structs return if their fields do.
LEMMA SchemaSound ==
    ASSUME NEW V, NEW fields \in Seq(V), Len(fields) >= 1,
           \A i \in DOMAIN fields : Sound(fields[i].type)
    PROVE  Sound(NewSchema(fields))
<1> DEFINE t == NewSchema(fields)
<1> DEFINE Parts(v) == [i \in DOMAIN fields |-> fields[i].type.encode[v.items[i]]]
<1> DEFINE Lengths(v) == [i \in DOMAIN fields |-> fields[i].type.measure[v.items[i]]]
<1> DEFINE types == [i \in DOMAIN fields |-> fields[i].type]
<1>1. t.values = {v \in Values : /\ v.cells = <<>> /\ Len(v.items) = Len(fields)
                                 /\ \A i \in DOMAIN fields : v.items[i] \in fields[i].type.values}
  BY DEF NewSchema
<1>2. \A v \in Values : t.measure[v] = Total(Len(fields), Lengths(v))
  BY DEF NewSchema
<1>3. \A v \in Values : t.encode[v] = Joined(Len(fields), Parts(v))
  BY DEF NewSchema
<1>4. \A v \in Values : t.readable[v] = \A i \in DOMAIN fields : fields[i].type.readable[v.items[i]]
  BY DEF NewSchema
<1>5. \A raw \in Seq(Int) : \A o \in Nat : t.decode[raw][o] = DecodeEach(types, raw, o)
  BY DEF NewSchema
<1>n. PICK n \in Nat : n = Len(fields) /\ n >= 1
  OBVIOUS
<1>d. DOMAIN fields = 1..n
  BY <1>n
<1>6. Len(types) = n /\ \A k \in 1..n : types[k] = fields[k].type
  BY <1>n, <1>d
<1> HIDE DEF t
<1>7. ASSUME NEW v \in t.values PROVE Returns(t, v)
  <2>1. v \in Values /\ v.cells = <<>>
    BY <1>1
  <2>2. PICK U, items : items = v.items /\ items \in Seq(U)
    BY <2>1, ValueParts
  <2>3. v = Tree(items) /\ Len(items) = n /\ \A k \in 1..n : items[k] \in fields[k].type.values
    BY <1>1, <1>n, <1>d, <2>1, <2>2, ValueParts
  <2> DEFINE J == Joined(n, Parts(v))
  <2>4. \A k \in 1..n : /\ Returns(types[k], items[k])
                        /\ Parts(v)[k] = types[k].encode[items[k]]
                        /\ Lengths(v)[k] = types[k].measure[items[k]]
    <3>1. \A k \in 1..n : Returns(fields[k].type, items[k])
      BY <1>d, <2>3 DEF Sound
    <3>2. QED
      BY <1>6, <1>d, <2>2, <3>1
  <2>e. Encoded(n, types, items, Parts(v), Lengths(v))
    BY <1>6, <2>2, <2>3, <2>4 DEF Encoded
  <2>5. t.measure[v] = Total(n, Lengths(v)) /\ t.encode[v] = J
    BY <1>2, <1>3, <1>n, <2>1
  <2>6. t.readable[v] = AllReadable(n, types, items)
    BY <1>4, <1>6, <1>d, <2>1, <2>2 DEF AllReadable
  <2> HIDE DEF Parts, Lengths, types
  <2>7. /\ J \in Seq(Int) /\ Len(J) >= n
        /\ Total(n, Lengths(v)) = Len(J)
        /\ \A raw \in Seq(Int) : \A o \in Nat : Holds(raw, o, J) =>
              DecodeEach(types, raw, o) = IF AllReadable(n, types, items) THEN Ok(Tree(items), o + Len(J)) ELSE Failed
    BY <2>e, PartsReturn
  <2> HIDE DEF J
  <2>8. Len(J) >= 1
    BY <1>n, <2>7
  <2>9. \A raw \in Seq(Int) : ReadsAs(raw, t, v, J)
    BY <1>5, <2>3, <2>6, <2>7, <2>8, Zenon DEF ReadsAs
  <2>10. QED
    BY <2>5, <2>7, <2>8, <2>9, Zenon DEF Returns
<1>8. QED
  BY <1>1, <1>7 DEF Sound, t

------------------------------------------------------------------------------
(* The schemas of responses.go.                                             *)

\* Fields whose types are sound and whose names are in S; field x alone has its name.
Good(f, S) == (\E U : f \in Seq(U)) /\ \A i \in DOMAIN f : Sound(f[i].type) /\ f[i].name \in S
At(f, i, x) == i \in DOMAIN f /\ f[i] = x /\ \A j \in DOMAIN f : f[j].name = x.name => j = i

\* A field.
LEMMA GoodOne ==
    ASSUME NEW name, NEW type, Sound(type)
    PROVE  Good(<< Field(name, type) >>, {name}) /\ Len(<< Field(name, type) >>) = 1
<1>1. PICK x : x = Field(name, type)
  OBVIOUS
<1>2. x.type = type /\ x.name = name
  BY <1>1 DEF Field
<1>3. << x >> \in Seq({x}) /\ Len(<< x >>) = 1 /\ DOMAIN << x >> = {1} /\ << x >>[1] = x
  OBVIOUS
<1>4. Good(<< x >>, {name})
  BY <1>2, <1>3 DEF Good
<1>5. QED
  BY <1>1, <1>3, <1>4

\* Fields that are numbers.
LEMMA GoodNumbers ==
    ASSUME NEW U, NEW names \in Seq(U)
    PROVE  Good(Numbers(names), U) /\ Len(Numbers(names)) = Len(names)
<1>1. PICK f : f = Numbers(names)
  OBVIOUS
<1>2. PICK n \in Nat : n = Len(names)
  OBVIOUS
<1>3. f = [i \in 1..n |-> Field(names[i], TypeNumber)]
  BY <1>1, <1>2 DEF Numbers
<1> DEFINE W == {Field(name, TypeNumber) : name \in U}
<1>4. \A i \in 1..n : f[i] = Field(names[i], TypeNumber) /\ names[i] \in U
  BY <1>2, <1>3
<1>5. f \in Seq(W) /\ Len(f) = n /\ DOMAIN f = 1..n
  <2>1. \A i \in 1..n : f[i] \in W
    BY <1>4
  <2> HIDE DEF W
  <2>2. QED
    BY <1>3, <2>1
<1>6. ASSUME NEW i \in 1..n PROVE f[i].type = TypeNumber /\ f[i].name = names[i]
  <2>1. PICK x, type : x = f[i] /\ type = TypeNumber
    OBVIOUS
  <2>2. x = Field(names[i], type)
    BY <1>4, <2>1
  <2>3. x.type = type /\ x.name = names[i]
    BY <2>2 DEF Field
  <2>4. QED
    BY <2>1, <2>3
<1>7. Good(f, U)
  BY <1>4, <1>5, <1>6, NumbersSound DEF Good
<1>8. QED
  BY <1>1, <1>2, <1>5, <1>7

\* No fields, and fields that are there since a version.
LEMMA GoodSince ==
    ASSUME NEW f, NEW S, Good(f, S), NEW v, NEW k
    PROVE  Good(Since(v, k, f), S) /\ Good(<<>>, S)
<1>1. Good(<<>>, S)
  <2>1. <<>> \in Seq(S) /\ DOMAIN <<>> = {}
    OBVIOUS
  <2>2. QED
    BY <2>1 DEF Good
<1>2. QED
  BY <1>1 DEF Since

\* Fields behind fields.
LEMMA GoodJoin ==
    ASSUME NEW a, NEW b, NEW A, NEW B, Good(a, A), Good(b, B)
    PROVE  /\ Good(a \o b, A \cup B)
           /\ Len(a) \in Nat /\ Len(b) \in Nat /\ Len(a \o b) = Len(a) + Len(b)
           /\ \A i \in 1..Len(a) : (a \o b)[i] = a[i]
           /\ \A i \in 1..Len(b) : (a \o b)[Len(a) + i] = b[i]
<1>1. PICK U, V : a \in Seq(U) /\ b \in Seq(V)
  BY DEF Good
<1>2. a \in Seq(U \cup V) /\ b \in Seq(U \cup V)
  BY <1>1
<1>3. PICK c : c = a \o b
  OBVIOUS
<1>4. /\ c \in Seq(U \cup V) /\ Len(a) \in Nat /\ Len(b) \in Nat /\ Len(c) = Len(a) + Len(b)
      /\ \A i \in 1..Len(a) : c[i] = a[i]
      /\ \A i \in 1..Len(b) : c[Len(a) + i] = b[i]
  BY <1>2, <1>3
<1>5. PICK m \in Nat, n \in Nat : m = Len(a) /\ n = Len(b)
  BY <1>4
<1>6. DOMAIN a = 1..m /\ DOMAIN b = 1..n /\ DOMAIN c = 1..(m + n)
  BY <1>1, <1>4, <1>5
<1>7. ASSUME NEW i \in DOMAIN c PROVE Sound(c[i].type) /\ c[i].name \in A \cup B
  <2>1. CASE i <= m
    <3>1. i \in 1..m
      BY <1>6, <2>1
    <3>2. c[i] = a[i] /\ i \in DOMAIN a
      BY <1>4, <1>5, <1>6, <3>1
    <3>3. QED
      BY <3>2 DEF Good
  <2>2. CASE ~(i <= m)
    <3>1. i - m \in 1..n /\ m + (i - m) = i
      BY <1>6, <2>2
    <3>2. c[i] = b[i - m] /\ i - m \in DOMAIN b
      BY <1>4, <1>5, <1>6, <3>1
    <3>3. QED
      BY <3>2 DEF Good
  <2>3. QED
    BY <2>1, <2>2
<1>8. Good(c, A \cup B)
  BY <1>4, <1>7 DEF Good
<1>9. QED
  BY <1>3, <1>4, <1>8

\* The place of a new field, which it keeps.
LEMMA AtNew ==
    ASSUME NEW a, NEW A, Good(a, A), NEW name, NEW type, Sound(type), name \notin A,
           NEW n \in Nat, n = Len(a)
    PROVE  At(a \o << Field(name, type) >>, n + 1, Field(name, type))
<1>1. PICK x, b : x = Field(name, type) /\ b = << x >>
  OBVIOUS
<1>2. x.name = name
  BY <1>1 DEF Field
<1>3. Good(b, {name}) /\ Len(b) = 1 /\ b[1] = x
  BY <1>1, GoodOne
<1>4. PICK c : c = a \o b
  OBVIOUS
<1>5. /\ Good(c, A \cup {name}) /\ Len(c) = n + 1
      /\ \A i \in 1..n : c[i] = a[i]
      /\ c[n + 1] = x
  <2>1. /\ Good(c, A \cup {name}) /\ Len(c) = Len(a) + Len(b)
        /\ \A i \in 1..Len(a) : c[i] = a[i]
        /\ \A i \in 1..Len(b) : c[Len(a) + i] = b[i]
    <3>1. PICK B : B = {name}
      OBVIOUS
    <3>2. Good(b, B)
      BY <1>3, <3>1
    <3>3. QED
      BY <1>4, <3>1, <3>2, GoodJoin
  <2>2. 1 \in 1..Len(b)
    BY <1>3
  <2>3. QED
    BY <1>3, <2>1, <2>2
<1>6. DOMAIN c = 1..(n + 1) /\ DOMAIN a = 1..n
  BY <1>5 DEF Good
<1>7. ASSUME NEW j \in DOMAIN c, c[j].name = x.name PROVE j = n + 1
  <2>1. SUFFICES ASSUME j # n + 1 PROVE FALSE
    OBVIOUS
  <2>2. j \in 1..n
    BY <1>6, <2>1
  <2>3. a[j].name = name
    BY <1>2, <1>5, <1>7, <2>2
  <2>4. QED
    BY <1>6, <2>2, <2>3 DEF Good
<1>8. At(c, n + 1, x)
  BY <1>5, <1>6, <1>7 DEF At
<1>9. QED
  BY <1>1, <1>4, <1>8

\* Other fields behind it leave it alone.
LEMMA AtKept ==
    ASSUME NEW a, NEW A, NEW b, NEW B, Good(a, A), Good(b, B), NEW i, NEW x, At(a, i, x), x.name \notin B
    PROVE  At(a \o b, i, x)
<1>1. PICK c : c = a \o b
  OBVIOUS
<1>2. /\ Good(c, A \cup B)
      /\ Len(a) \in Nat /\ Len(b) \in Nat /\ Len(c) = Len(a) + Len(b)
      /\ \A k \in 1..Len(a) : c[k] = a[k]
      /\ \A k \in 1..Len(b) : c[Len(a) + k] = b[k]
  BY <1>1, GoodJoin
<1>3. PICK m \in Nat, n \in Nat : m = Len(a) /\ n = Len(b)
  BY <1>2
<1>4. DOMAIN a = 1..m /\ DOMAIN b = 1..n /\ DOMAIN c = 1..(m + n)
  BY <1>2, <1>3 DEF Good
<1>5. i \in 1..m /\ i \in 1..(m + n) /\ c[i] = x
  BY <1>2, <1>3, <1>4 DEF At
<1>6. ASSUME NEW j \in DOMAIN c, c[j].name = x.name PROVE j = i
  <2>1. CASE j <= m
    <3>1. j \in 1..m
      BY <1>4, <2>1
    <3>2. a[j].name = x.name
      BY <1>2, <1>3, <1>6, <3>1
    <3>3. QED
      BY <1>4, <3>1, <3>2 DEF At
  <2>2. CASE ~(j <= m)
    <3>1. j - m \in 1..n /\ m + (j - m) = j
      BY <1>4, <2>2
    <3>2. b[j - m].name = x.name
      BY <1>2, <1>3, <1>6, <3>1
    <3>3. QED
      BY <1>4, <3>1, <3>2 DEF Good
  <2>3. QED
    BY <2>1, <2>2
<1>7. QED
  BY <1>1, <1>4, <1>5, <1>6 DEF At

\* What a field's place says about the schema.
LEMMA AtIndex ==
    ASSUME NEW f, NEW i, NEW name, NEW type, At(f, i, Field(name, type))
    PROVE  LET s == NewSchema(f) IN
           /\ s.fields = f /\ HasField(s, name) /\ Index(s, name) = i /\ i \in DOMAIN f
           /\ s.fields[i].type = type
<1>1. PICK x : x = Field(name, type)
  OBVIOUS
<1>2. x.name = name /\ x.type = type
  BY <1>1 DEF Field
<1>3. PICK s : s = NewSchema(f)
  OBVIOUS
<1>4. s.fields = f
  BY <1>3 DEF NewSchema
<1>5. i \in DOMAIN f /\ f[i] = x /\ \A j \in DOMAIN f : f[j].name = name => j = i
  BY <1>1, <1>2 DEF At
<1>6. f[i].name = name
  BY <1>2, <1>5
<1>7. Index(s, name) = i
  BY <1>4, <1>5, <1>6 DEF Index
<1>8. HasField(s, name)
  BY <1>4, <1>5, <1>6 DEF HasField
<1>9. QED
  BY <1>2, <1>3, <1>4, <1>5, <1>7, <1>8

\* Some fields; the place of a field among them.
Fields(f) == \E S : Good(f, S)
Place(f, i, name, type) == At(f, i, Field(name, type)) /\ Fields(f)

\* A name can be added to the names of some fields.
LEMMA GoodMore ==
    ASSUME NEW f, NEW A, NEW B, Good(f, A), A \subseteq B
    PROVE  Good(f, B)
BY DEF Good

\* Fields behind fields are fields.
LEMMA FieldsJoin ==
    ASSUME NEW a, NEW b, Fields(a), Fields(b)
    PROVE  Fields(a \o b) /\ Len(a \o b) = Len(a) + Len(b) /\ Len(a) \in Nat /\ Len(b) \in Nat
<1>1. PICK A : Good(a, A)
  BY DEF Fields
<1>2. PICK B : Good(b, B)
  BY DEF Fields
<1>3. Good(a \o b, A \cup B) /\ Len(a \o b) = Len(a) + Len(b) /\ Len(a) \in Nat /\ Len(b) \in Nat
  BY <1>1, <1>2, GoodJoin
<1>4. QED
  BY <1>3 DEF Fields

\* A new field.
LEMMA PlaceNew ==
    ASSUME NEW a, NEW A, Good(a, A), NEW name, NEW type, Sound(type), name \notin A,
           NEW n \in Nat, n = Len(a)
    PROVE  Place(a \o << Field(name, type) >>, n + 1, name, type)
<1>1. At(a \o << Field(name, type) >>, n + 1, Field(name, type))
  BY AtNew
<1>2. Fields(a \o << Field(name, type) >>)
  BY GoodOne, FieldsJoin DEF Fields
<1>3. QED
  BY <1>1, <1>2 DEF Place

\* Fields behind it.
LEMMA PlaceKept ==
    ASSUME NEW a, NEW b, NEW B, Good(b, B), NEW i, NEW name, NEW type, Place(a, i, name, type), name \notin B
    PROVE  Place(a \o b, i, name, type)
<1>1. PICK A : Good(a, A)
  BY DEF Place, Fields
<1>2. PICK x : x = Field(name, type)
  OBVIOUS
<1>3. x.name = name
  BY <1>2 DEF Field
<1>4. At(a \o b, i, x)
  BY <1>1, <1>2, <1>3, AtKept DEF Place
<1>5. Fields(a \o b)
  BY <1>1, FieldsJoin DEF Fields
<1>6. QED
  BY <1>2, <1>4, <1>5 DEF Place

\* Fields in front of it.
LEMMA PlaceBehind ==
    ASSUME NEW a, NEW A, Good(a, A), NEW n \in Nat, n = Len(a),
           NEW b, NEW i \in Nat, NEW name, NEW type, Place(b, i, name, type), name \notin A
    PROVE  Place(a \o b, n + i, name, type)
<1>1. PICK B : Good(b, B)
  BY DEF Place, Fields
<1>2. PICK x : x = Field(name, type)
  OBVIOUS
<1>3. x.name = name /\ At(b, i, x)
  BY <1>2 DEF Field, Place
<1>4. PICK c : c = a \o b
  OBVIOUS
<1>5. /\ Good(c, A \cup B) /\ Len(b) \in Nat /\ Len(c) = n + Len(b)
      /\ \A k \in 1..n : c[k] = a[k]
      /\ \A k \in 1..Len(b) : c[n + k] = b[k]
  BY <1>1, <1>4, GoodJoin
<1>6. PICK m \in Nat : m = Len(b)
  BY <1>5
<1>7. DOMAIN a = 1..n /\ DOMAIN b = 1..m /\ DOMAIN c = 1..(n + m)
  BY <1>1, <1>5, <1>6 DEF Good
<1>8. i \in 1..m /\ n + i \in 1..(n + m) /\ c[n + i] = x
  BY <1>3, <1>5, <1>6, <1>7 DEF At
<1>9. ASSUME NEW j \in DOMAIN c, c[j].name = x.name PROVE j = n + i
  <2>1. CASE j <= n
    <3>1. j \in 1..n
      BY <1>7, <2>1
    <3>2. a[j].name = x.name
      BY <1>5, <1>9, <3>1
    <3>3. QED
      BY <1>3, <1>7, <3>1, <3>2 DEF Good
  <2>2. CASE ~(j <= n)
    <3>1. j - n \in 1..m /\ n + (j - n) = j
      BY <1>7, <2>2
    <3>2. b[j - n].name = x.name
      BY <1>5, <1>6, <1>9, <3>1
    <3>3. j - n = i
      BY <1>3, <1>7, <3>1, <3>2 DEF At
    <3>4. QED
      BY <3>1, <3>3
  <2>3. QED
    BY <2>1, <2>2
<1>10. At(c, n + i, x)
  BY <1>7, <1>8, <1>9 DEF At
<1>11. QED
  BY <1>2, <1>4, <1>5, <1>10 DEF Place, Fields

\* Structs of such fields return.
LEMMA FieldsSound ==
    ASSUME NEW f, Fields(f), Len(f) >= 1
    PROVE  Sound(NewSchema(f))
<1>1. PICK S : Good(f, S)
  BY DEF Fields
<1>2. PICK U : f \in Seq(U)
  BY <1>1 DEF Good
<1>3. \A i \in DOMAIN f : Sound(f[i].type)
  BY <1>1 DEF Good
<1>4. QED
  BY <1>2, <1>3, SchemaSound

\* A struct with a field at a place.
LEMMA PlaceSchema ==
    ASSUME NEW f, NEW i, NEW name, NEW type, Place(f, i, name, type)
    PROVE  LET s == NewSchema(f) IN
           /\ Sound(s) /\ s.fields = f /\ HasField(s, name) /\ Index(s, name) = i
           /\ i \in DOMAIN f /\ f[i].type = type
<1>1. /\ NewSchema(f).fields = f /\ HasField(NewSchema(f), name) /\ Index(NewSchema(f), name) = i
      /\ i \in DOMAIN f /\ NewSchema(f).fields[i].type = type
  BY AtIndex DEF Place
<1>2. PICK U : f \in Seq(U)
  BY DEF Place, Fields, Good
<1>3. Len(f) >= 1
  BY <1>1, <1>2
<1>4. Sound(NewSchema(f))
  BY <1>3, FieldsSound DEF Place
<1>5. QED
  BY <1>1, <1>4, Zenon

\* The types of the fields.
LEMMA TypesSound ==
    /\ \A flexible : Sound(Str(flexible)) /\ Sound(NullableStr(flexible))
    /\ Sound(TypeStr) /\ Sound(TypeNullableStr) /\ Sound(TypeCompactStr) /\ Sound(TypeCompactNullableStr)
    /\ Sound(TypeBytes)
    /\ Sound(SchemaTaggedFields)
<1>1. /\ Sound(TypeStr) /\ Sound(TypeNullableStr) /\ Sound(TypeCompactStr) /\ Sound(TypeCompactNullableStr)
      /\ Sound(TypeBytes) /\ Sound(String("varintBytes"))
  BY StringSound DEF TypeStr, TypeNullableStr, TypeCompactStr, TypeCompactNullableStr, TypeBytes
<1>2. \A flexible : Sound(Str(flexible)) /\ Sound(NullableStr(flexible))
  BY <1>1 DEF Str, NullableStr
<1>3. Sound(rawTaggedField)
  <2>1. PICK x, y : x = Field("tag", TypeNumber) /\ y = Field("data", String("varintBytes"))
    OBVIOUS
  <2>2. x.type = TypeNumber
    BY <2>1 DEF Field
  <2>3. y.type = String("varintBytes")
    BY <2>1 DEF Field
  <2>4. << x, y >> \in Seq({x, y}) /\ Len(<< x, y >>) = 2 /\ DOMAIN << x, y >> = {1, 2}
    OBVIOUS
  <2>5. \A i \in DOMAIN << x, y >> : Sound(<< x, y >>[i].type)
    BY <1>1, <2>2, <2>3, <2>4, NumbersSound
  <2>6. Sound(NewSchema(<< x, y >>))
    <3>1. PICK f, V : f = << x, y >> /\ V = {x, y}
      OBVIOUS
    <3>2. f \in Seq(V) /\ Len(f) >= 1 /\ \A i \in DOMAIN f : Sound(f[i].type)
      BY <2>4, <2>5, <3>1
    <3>3. Sound(NewSchema(f))
      BY <3>2, SchemaSound
    <3>4. QED
      BY <3>1, <3>3
  <2>7. QED
    BY <2>1, <2>6 DEF rawTaggedField
<1>4. Sound(SchemaTaggedFields)
  BY <1>3, ListSound DEF SchemaTaggedFields
<1>5. QED
  BY <1>1, <1>2, <1>4

\* Tags, arrays and single fields.
LEMMA GoodTags == Good(Tags, {"tagged_fields"})
BY TypesSound, GoodOne DEF Tags

\* An array field, in either of its encodings.
LEMMA GoodArrayOf ==
    ASSUME NEW flexible, NEW name, NEW type, Sound(type)
    PROVE  /\ Good(ArrayOf(flexible, name, type), {name})
           /\ \E kind \in {"array", "compactArray"} :
                 /\ ArrayOf(flexible, name, type) = << Field(name, ListOf(kind, type)) >>
                 /\ Sound(ListOf(kind, type))
<1>1. PICK kind \in {"array", "compactArray"} : ArrayOf(flexible, name, type) = << Field(name, ListOf(kind, type)) >>
  BY DEF ArrayOf, Array, CompactArray
<1>2. Sound(ListOf(kind, type))
  BY ListSound
<1>3. Good(<< Field(name, ListOf(kind, type)) >>, {name})
  BY <1>2, GoodOne
<1>4. QED
  BY <1>1, <1>2, <1>3

\* A single number field.
LEMMA GoodNumber ==
    ASSUME NEW name
    PROVE  /\ Good(Numbers(<< name >>), {name}) /\ Len(Numbers(<< name >>)) = 1
           /\ Numbers(<< name >>) = << Field(name, TypeNumber) >>
<1>1. Good(Numbers(<< name >>), {name}) /\ Len(Numbers(<< name >>)) = 1
  <2>1. << name >> \in Seq({name}) /\ Len(<< name >>) = 1
    OBVIOUS
  <2>2. QED
    BY <2>1, GoodNumbers
<1>2. Numbers(<< name >>) = << Field(name, TypeNumber) >>
  <2>1. PICK s : s = << name >>
    OBVIOUS
  <2>2. Len(s) = 1 /\ s[1] = name
    BY <2>1
  <2>3. Numbers(s) = [i \in 1..1 |-> Field(s[i], TypeNumber)]
    BY <2>2 DEF Numbers
  <2>4. PICK x : x = Field(name, TypeNumber)
    OBVIOUS
  <2>5. Numbers(s) = [i \in 1..1 |-> x]
    BY <2>2, <2>3, <2>4
  <2>6. [i \in 1..1 |-> x] = << x >>
    OBVIOUS
  <2>7. QED
    BY <2>1, <2>4, <2>5, <2>6
<1>3. QED
  BY <1>1, <1>2

\* A struct with an address: a host and a port behind an id.
NodeFields(f) == \E k \in {"str", "compactStr"} : Place(f, 2, "host", String(k)) /\ Place(f, 3, "port", TypeNumber)

\* What begins with an id, a host and a port and has other fields behind them.
LEMMA NodeBegins ==
    ASSUME NEW flexible
    PROVE  NodeFields(Numbers(<< "node_id" >>) \o << Field("host", Str(flexible)) >> \o Numbers(<< "port" >>))
<1>1. PICK k \in {"str", "compactStr"} : Str(flexible) = String(k)
  BY DEF Str, TypeStr, TypeCompactStr
<1>2. PICK a : a = Numbers(<< "node_id" >>)
  OBVIOUS
<1>3. Good(a, {"node_id"}) /\ Len(a) = 1
  BY <1>2, GoodNumber
<1>4. PICK b : b = a \o << Field("host", String(k)) >>
  OBVIOUS
<1>5. Place(b, 1 + 1, "host", String(k))
  <2>1. "host" \notin {"node_id"} /\ Sound(String(k))
    BY StringSound
  <2>2. QED
    BY <1>3, <1>4, <2>1, PlaceNew
<1>6. Good(b, {"node_id", "host"}) /\ Len(b) = 2
  <2>1. Good(<< Field("host", String(k)) >>, {"host"}) /\ Len(<< Field("host", String(k)) >>) = 1
    BY StringSound, GoodOne
  <2>2. Good(b, {"node_id"} \cup {"host"}) /\ Len(b) = 1 + 1
    <3>1. PICK A, B, h : A = {"node_id"} /\ B = {"host"} /\ h = << Field("host", String(k)) >>
      OBVIOUS
    <3>2. Good(a, A) /\ Good(h, B) /\ Len(h) = 1
      BY <1>3, <2>1, <3>1
    <3>3. Good(a \o h, A \cup B) /\ Len(a \o h) = Len(a) + Len(h)
      BY <3>2, GoodJoin
    <3>4. QED
      BY <1>3, <1>4, <3>1, <3>2, <3>3
  <2>3. {"node_id"} \cup {"host"} = {"node_id", "host"}
    OBVIOUS
  <2>4. QED
    BY <2>2, <2>3
<1>7. PICK c : c = b \o Numbers(<< "port" >>)
  OBVIOUS
<1>8. c = b \o << Field("port", TypeNumber) >>
  BY <1>7, GoodNumber
<1>9. Place(c, 2, "host", String(k))
  <2>1. Good(Numbers(<< "port" >>), {"port"}) /\ "host" \notin {"port"}
    BY GoodNumber
  <2>2. QED
    BY <1>5, <1>7, <2>1, PlaceKept
<1>10. Place(c, 2 + 1, "port", TypeNumber)
  <2>1. "port" \notin {"node_id", "host"}
    OBVIOUS
  <2>2. QED
    BY <1>6, <1>8, <2>1, NumbersSound, PlaceNew
<1>11. NodeFields(c)
  BY <1>9, <1>10 DEF NodeFields
<1>12. QED
  BY <1>1, <1>2, <1>4, <1>7, <1>11

\* Other fields may follow.
LEMMA NodeKept ==
    ASSUME NEW a, NodeFields(a), NEW b, NEW B, Good(b, B), "host" \notin B, "port" \notin B
    PROVE  NodeFields(a \o b)
BY PlaceKept, Zenon DEF NodeFields

\* A broker of a Metadata reply.
LEMMA MetadataBroker ==
    ASSUME NEW v
    PROVE  \E f : NodeFields(f) /\ metadataBroker(v) = NewSchema(f)
<1>1. PICK a : a = Numbers(<< "node_id" >>) \o << Field("host", Str(v >= 9)) >> \o Numbers(<< "port" >>)
  OBVIOUS
<1>2. NodeFields(a)
  BY <1>1, NodeBegins
<1>3. PICK b, c : b = Since(v, 1, << Field("rack", NullableStr(v >= 9)) >>) /\ c = Since(v, 9, Tags)
  OBVIOUS
<1>4. Good(b, {"rack"})
  <2>1. Good(<< Field("rack", NullableStr(v >= 9)) >>, {"rack"})
    BY TypesSound, GoodOne
  <2>2. QED
    BY <1>3, <2>1, GoodSince
<1>5. Good(c, {"tagged_fields"})
  BY <1>3, GoodTags, GoodSince
<1>6. NodeFields(a \o b)
  <2>1. "host" \notin {"rack"} /\ "port" \notin {"rack"}
    OBVIOUS
  <2>2. QED
    BY <1>2, <1>4, <2>1, NodeKept
<1>7. NodeFields(a \o b \o c)
  <2>1. "host" \notin {"tagged_fields"} /\ "port" \notin {"tagged_fields"}
    OBVIOUS
  <2>2. QED
    BY <1>5, <1>6, <2>1, NodeKept
<1>8. metadataBroker(v) = NewSchema(a \o b \o c)
  BY <1>1, <1>3 DEF metadataBroker
<1>9. QED
  BY <1>7, <1>8

\* A coordinator.
LEMMA FindCoordinatorBroker ==
    ASSUME NEW v
    PROVE  \E f : NodeFields(f) /\ findCoordinatorBroker(v) = NewSchema(f)
BY NodeBegins DEF findCoordinatorBroker

\* Both are sound.
LEMMA NodesSound ==
    ASSUME NEW f, NodeFields(f)
    PROVE  Sound(NewSchema(f)) /\ NewSchema(f).fields = f
<1>1. PICK k \in {"str", "compactStr"} : Place(f, 2, "host", String(k))
  BY DEF NodeFields
<1>2. QED
  BY <1>1, PlaceSchema

\* Partitions and topics.
LEMMA PartitionSound ==
    ASSUME NEW v
    PROVE  Sound(partitionMetadata(v))
<1>1. PICK a, b, c, d, e, g :
           /\ a = Numbers(<< "error_code", "partition", "leader" >>)
           /\ b = Since(v, 7, Numbers(<< "leader_epoch" >>))
           /\ c = ArrayOf(v >= 9, "replicas", TypeNumber)
           /\ d = ArrayOf(v >= 9, "isr", TypeNumber)
           /\ e = Since(v, 5, ArrayOf(v >= 9, "offline_replicas", TypeNumber))
           /\ g = Since(v, 9, Tags)
  OBVIOUS
<1>2. Fields(a) /\ Len(a) = 3
  <2>1. PICK s, U : s = << "error_code", "partition", "leader" >> /\ U = {"error_code", "partition", "leader"}
    OBVIOUS
  <2>2. s \in Seq(U) /\ Len(s) = 3
    BY <2>1
  <2>3. QED
    BY <1>1, <2>1, <2>2, GoodNumbers DEF Fields
<1>3. Fields(b)
  BY <1>1, GoodNumber, GoodSince DEF Fields
<1>4. Fields(c) /\ Fields(d)
  BY <1>1, NumbersSound, GoodArrayOf DEF Fields
<1>5. Fields(e)
  BY <1>1, NumbersSound, GoodArrayOf, GoodSince DEF Fields
<1>6. Fields(g)
  BY <1>1, GoodTags, GoodSince DEF Fields
<1>7. Fields(a \o b) /\ Len(a \o b) >= 1
  BY <1>2, <1>3, FieldsJoin
<1>8. Fields(a \o b \o c) /\ Len(a \o b \o c) >= 1
  BY <1>4, <1>7, FieldsJoin
<1>9. Fields(a \o b \o c \o d) /\ Len(a \o b \o c \o d) >= 1
  BY <1>4, <1>8, FieldsJoin
<1>10. Fields(a \o b \o c \o d \o e) /\ Len(a \o b \o c \o d \o e) >= 1
  BY <1>5, <1>9, FieldsJoin
<1>11. Fields(a \o b \o c \o d \o e \o g) /\ Len(a \o b \o c \o d \o e \o g) >= 1
  BY <1>6, <1>10, FieldsJoin
<1>12. QED
  BY <1>1, <1>11, FieldsSound DEF partitionMetadata

\* The topics of a Metadata reply are read back, in every version.
LEMMA TopicSound ==
    ASSUME NEW v
    PROVE  Sound(topicMetadata(v))
<1>1. PICK a, b, c, d, e, g, h :
           /\ a = Numbers(<< "error_code" >>)
           /\ b = << Field("name", IF v >= 12 THEN TypeCompactNullableStr ELSE Str(v >= 9)) >>
           /\ c = Since(v, 10, Numbers(<< "topic_id" >>))
           /\ d = Since(v, 1, << Field("is_internal", TypeBool) >>)
           /\ e = ArrayOf(v >= 9, "partition_metadata", partitionMetadata(v))
           /\ g = Since(v, 8, Numbers(<< "topic_authorized_operations" >>))
           /\ h = Since(v, 9, Tags)
  OBVIOUS
<1>2. Fields(a) /\ Len(a) = 1
  BY <1>1, GoodNumber DEF Fields
<1>3. Fields(b)
  <2>1. PICK type : type = IF v >= 12 THEN TypeCompactNullableStr ELSE Str(v >= 9)
    OBVIOUS
  <2>2. Sound(type)
    BY <2>1, TypesSound
  <2>3. QED
    BY <1>1, <2>1, <2>2, GoodOne DEF Fields
<1>4. Fields(c) /\ Fields(g)
  BY <1>1, GoodNumber, GoodSince DEF Fields
<1>5. Fields(d)
  BY <1>1, NumbersSound, GoodOne, GoodSince DEF Fields
<1>6. Fields(e)
  BY <1>1, PartitionSound, GoodArrayOf DEF Fields
<1>7. Fields(h)
  BY <1>1, GoodTags, GoodSince DEF Fields
<1>8. Fields(a \o b) /\ Len(a \o b) >= 1
  BY <1>2, <1>3, FieldsJoin
<1>9. Fields(a \o b \o c) /\ Len(a \o b \o c) >= 1
  BY <1>4, <1>8, FieldsJoin
<1>10. Fields(a \o b \o c \o d) /\ Len(a \o b \o c \o d) >= 1
  BY <1>5, <1>9, FieldsJoin
<1>11. Fields(a \o b \o c \o d \o e) /\ Len(a \o b \o c \o d \o e) >= 1
  BY <1>6, <1>10, FieldsJoin
<1>12. Fields(a \o b \o c \o d \o e \o g) /\ Len(a \o b \o c \o d \o e \o g) >= 1
  BY <1>4, <1>11, FieldsJoin
<1>13. Fields(a \o b \o c \o d \o e \o g \o h) /\ Len(a \o b \o c \o d \o e \o g \o h) >= 1
  BY <1>7, <1>12, FieldsJoin
<1>14. QED
  BY <1>1, <1>13, FieldsSound DEF topicMetadata

\* The brokers of a Metadata reply.
LEMMA MetadataResponse ==
    ASSUME NEW v \in Nat
    PROVE  \E f : \E kind \in {"array", "compactArray"} :
              /\ metadataResponse(v) = NewSchema(f)
              /\ Place(f, IF v >= 3 THEN 2 ELSE 1, "brokers", ListOf(kind, metadataBroker(v)))
<1>1. PICK a, b, c, d, e, g, h, l :
           /\ a = Since(v, 3, Numbers(<< "throttle_time_ms" >>))
           /\ b = ArrayOf(v >= 9, "brokers", metadataBroker(v))
           /\ c = Since(v, 2, << Field("cluster_id", NullableStr(v >= 9)) >>)
           /\ d = Since(v, 1, Numbers(<< "controller_id" >>))
           /\ e = ArrayOf(v >= 9, "topic_metadata", topicMetadata(v))
           /\ g = (IF v \in 8..10 THEN Numbers(<< "cluster_authorized_operations" >>) ELSE <<>>)
           /\ h = Since(v, 13, Numbers(<< "error_code" >>))
           /\ l = Since(v, 9, Tags)
  OBVIOUS
<1>2. PICK n \in Nat : n = (IF v >= 3 THEN 1 ELSE 0)
  OBVIOUS
<1>3. Good(a, {"throttle_time_ms"}) /\ Len(a) = n
  <2>1. Good(a, {"throttle_time_ms"})
    BY <1>1, GoodNumber, GoodSince
  <2>2. Len(a) = n
    BY <1>1, <1>2, GoodNumber DEF Since
  <2>3. QED
    BY <2>1, <2>2
<1>4. Sound(metadataBroker(v))
  BY MetadataBroker, NodesSound
<1>5. PICK kind \in {"array", "compactArray"} :
           /\ b = << Field("brokers", ListOf(kind, metadataBroker(v))) >>
           /\ Sound(ListOf(kind, metadataBroker(v)))
  BY <1>1, <1>4, GoodArrayOf
<1> DEFINE At1(f) == Place(f, n + 1, "brokers", ListOf(kind, metadataBroker(v)))
<1>6. At1(a \o b)
  <2>1. "brokers" \notin {"throttle_time_ms"}
    OBVIOUS
  <2>2. QED
    BY <1>3, <1>5, <2>1, PlaceNew
<1>7. Good(c, {"cluster_id"})
  BY <1>1, TypesSound, GoodOne, GoodSince
<1>8. Good(d, {"controller_id"}) /\ Good(h, {"error_code"})
  BY <1>1, GoodNumber, GoodSince
<1>9. Good(e, {"topic_metadata"})
  BY <1>1, TopicSound, GoodArrayOf
<1>10. Good(g, {"cluster_authorized_operations"})
  BY <1>1, GoodNumber, GoodSince
<1>11. Good(l, {"tagged_fields"})
  BY <1>1, GoodTags, GoodSince
<1>12. /\ "brokers" \notin {"cluster_id"} /\ "brokers" \notin {"controller_id"} /\ "brokers" \notin {"error_code"}
       /\ "brokers" \notin {"topic_metadata"} /\ "brokers" \notin {"cluster_authorized_operations"}
       /\ "brokers" \notin {"tagged_fields"}
  OBVIOUS
<1>13. At1(a \o b \o c)
  BY <1>6, <1>7, <1>12, PlaceKept
<1>14. At1(a \o b \o c \o d)
  BY <1>8, <1>12, <1>13, PlaceKept
<1>15. At1(a \o b \o c \o d \o e)
  BY <1>9, <1>12, <1>14, PlaceKept
<1>16. At1(a \o b \o c \o d \o e \o g)
  BY <1>10, <1>12, <1>15, PlaceKept
<1>17. At1(a \o b \o c \o d \o e \o g \o h)
  BY <1>8, <1>12, <1>16, PlaceKept
<1>18. At1(a \o b \o c \o d \o e \o g \o h \o l)
  BY <1>11, <1>12, <1>17, PlaceKept
<1>19. metadataResponse(v) = NewSchema(a \o b \o c \o d \o e \o g \o h \o l)
  BY <1>1 DEF metadataResponse
<1>20. n + 1 = IF v >= 3 THEN 2 ELSE 1
  BY <1>2
<1>21. QED
  BY <1>18, <1>19, <1>20

\* A coordinator of a FindCoordinator reply with several.
LEMMA FindCoordinatorCoordinators ==
    ASSUME NEW v
    PROVE  \E f : /\ findCoordinatorCoordinators(v) = NewSchema(f)
                  /\ Place(f, 2, "coordinator", findCoordinatorBroker(v))
<1>1. PICK w, x, y, z : /\ w = Field("key", TypeCompactStr)
                        /\ x = Field("coordinator", findCoordinatorBroker(v))
                        /\ y = Field("error_code", TypeNumber)
                        /\ z = Field("error_message", TypeCompactNullableStr)
  OBVIOUS
<1>2. /\ w.type = TypeCompactStr /\ x.type = findCoordinatorBroker(v)
      /\ y.type = TypeNumber /\ z.type = TypeCompactNullableStr
  BY <1>1 DEF Field
<1>3. w.name = "key" /\ x.name = "coordinator" /\ y.name = "error_code" /\ z.name = "error_message"
  BY <1>1 DEF Field
<1>4. Sound(w.type) /\ Sound(x.type) /\ Sound(y.type) /\ Sound(z.type)
  BY <1>2, TypesSound, NumbersSound, FindCoordinatorBroker, NodesSound
<1>5. PICK a : a = << w, x, y, z >>
  OBVIOUS
<1>6. a \in Seq({w, x, y, z}) /\ DOMAIN a = {1, 2, 3, 4} /\ a[1] = w /\ a[2] = x /\ a[3] = y /\ a[4] = z
  BY <1>5
<1>7. Good(a, {"key", "coordinator", "error_code", "error_message"})
  BY <1>3, <1>4, <1>6 DEF Good
<1>8. At(a, 2, x)
  BY <1>3, <1>6 DEF At
<1>9. Place(a, 2, "coordinator", findCoordinatorBroker(v))
  BY <1>1, <1>7, <1>8 DEF Place, Fields
<1>10. Place(a \o Tags, 2, "coordinator", findCoordinatorBroker(v))
  <2>1. "coordinator" \notin {"tagged_fields"}
    OBVIOUS
  <2>2. QED
    BY <1>9, <2>1, GoodTags, PlaceKept
<1>11. findCoordinatorCoordinators(v) = NewSchema(a \o Tags)
  BY <1>1, <1>5 DEF findCoordinatorCoordinators
<1>12. QED
  BY <1>10, <1>11

\* A FindCoordinator reply with several coordinators.
LEMMA FindCoordinatorsResponse ==
    ASSUME NEW v \in Nat, v >= 4
    PROVE  \E f : /\ findCoordinatorResponse(v) = NewSchema(f)
                  /\ Place(f, 2, "coordinators", ListOf("compactArray", findCoordinatorCoordinators(v)))
<1>1. PICK a, b, c :
           /\ a = Since(v, 1, Numbers(<< "throttle_time_ms" >>))
           /\ b = << Field("coordinators", ListOf("compactArray", findCoordinatorCoordinators(v))) >>
           /\ c = Since(v, 3, Tags)
  OBVIOUS
<1>2. Good(a, {"throttle_time_ms"}) /\ Len(a) = 1
  BY <1>1, GoodNumber DEF Since
<1>3. Sound(findCoordinatorCoordinators(v))
  BY FindCoordinatorCoordinators, PlaceSchema
<1>4. Sound(ListOf("compactArray", findCoordinatorCoordinators(v)))
  BY <1>3, ListSound
<1>5. Place(a \o b, 1 + 1, "coordinators", ListOf("compactArray", findCoordinatorCoordinators(v)))
  <2>1. "coordinators" \notin {"throttle_time_ms"}
    OBVIOUS
  <2>2. QED
    BY <1>1, <1>2, <1>4, <2>1, PlaceNew
<1>6. Good(c, {"tagged_fields"}) /\ "coordinators" \notin {"tagged_fields"}
  BY <1>1, GoodTags, GoodSince
<1>7. Place(a \o b \o c, 2, "coordinators", ListOf("compactArray", findCoordinatorCoordinators(v)))
  BY <1>5, <1>6, PlaceKept
<1>8. findCoordinatorResponse(v) = NewSchema(a \o b \o c)
  BY <1>1 DEF findCoordinatorResponse, ArrayOf, CompactArray
<1>9. QED
  BY <1>7, <1>8

\* A FindCoordinator reply with one coordinator.
LEMMA FindCoordinatorResponse ==
    ASSUME NEW v \in Nat, v < 4
    PROVE  \E f : /\ findCoordinatorResponse(v) = NewSchema(f)
                  /\ ~HasField(NewSchema(f), "coordinators")
                  /\ Place(f, IF v = 0 THEN 2 ELSE 4, "coordinator", findCoordinatorBroker(v))
<1>1. PICK a, b, c, d, e :
           /\ a = Since(v, 1, Numbers(<< "throttle_time_ms" >>))
           /\ b = Numbers(<< "error_code" >>)
           /\ c = Since(v, 1, << Field("error_message", NullableStr(v >= 3)) >>)
           /\ d = << Field("coordinator", findCoordinatorBroker(v)) >>
           /\ e = Since(v, 3, Tags)
  OBVIOUS
<1> DEFINE S == {"throttle_time_ms", "error_code", "error_message", "coordinator", "tagged_fields"}
<1>2. PICK n \in Nat : n = (IF v >= 1 THEN 1 ELSE 0)
  OBVIOUS
<1>3. Sound(findCoordinatorBroker(v))
  BY FindCoordinatorBroker, NodesSound
<1>4. Good(a, {"throttle_time_ms"}) /\ Len(a) = n
  <2>1. Good(a, {"throttle_time_ms"})
    BY <1>1, GoodNumber, GoodSince
  <2>2. Len(a) = n
    BY <1>1, <1>2, GoodNumber DEF Since
  <2>3. QED
    BY <2>1, <2>2
<1>5. Good(b, {"error_code"}) /\ Len(b) = 1
  BY <1>1, GoodNumber
<1>6. Good(c, {"error_message"}) /\ Len(c) = n
  <2>1. Good(c, {"error_message"})
    BY <1>1, TypesSound, GoodOne, GoodSince
  <2>2. Len(c) = n
    BY <1>1, <1>2, TypesSound, GoodOne DEF Since
  <2>3. QED
    BY <2>1, <2>2
<1>7. Good(d, {"coordinator"})
  BY <1>1, <1>3, GoodOne
<1>8. Good(e, {"tagged_fields"})
  BY <1>1, GoodTags, GoodSince
<1>9. Good(b \o c, {"error_code", "error_message"}) /\ Len(b \o c) = 1 + n
  <2>1. Good(b \o c, {"error_code"} \cup {"error_message"}) /\ Len(b \o c) = Len(b) + Len(c)
    BY <1>5, <1>6, GoodJoin
  <2>2. {"error_code"} \cup {"error_message"} = {"error_code", "error_message"}
    OBVIOUS
  <2>3. QED
    BY <1>5, <1>6, <2>1, <2>2
<1>10. Place(b \o c \o d, (1 + n) + 1, "coordinator", findCoordinatorBroker(v))
  <2>1. "coordinator" \notin {"error_code", "error_message"} /\ 1 + n \in Nat
    OBVIOUS
  <2>2. QED
    BY <1>1, <1>3, <1>9, <2>1, PlaceNew
<1>11. PICK m \in Nat : m = (1 + n) + 1
  OBVIOUS
<1>12. Place(a \o (b \o c \o d), n + m, "coordinator", findCoordinatorBroker(v))
  <2>1. "coordinator" \notin {"throttle_time_ms"}
    OBVIOUS
  <2>2. QED
    BY <1>4, <1>10, <1>11, <2>1, PlaceBehind
<1>13. Place(a \o (b \o c \o d) \o e, n + m, "coordinator", findCoordinatorBroker(v))
  <2>1. "coordinator" \notin {"tagged_fields"}
    OBVIOUS
  <2>2. QED
    BY <1>8, <1>12, <2>1, PlaceKept
<1>14. n + m = IF v = 0 THEN 2 ELSE 4
  BY <1>2, <1>11
<1>15. PICK f : f = a \o (b \o c \o d) \o e
  OBVIOUS
<1>16. Good(f, S \cup S)
  <2>1. /\ {"throttle_time_ms"} \subseteq S /\ {"error_code"} \subseteq S /\ {"error_message"} \subseteq S
        /\ {"coordinator"} \subseteq S /\ {"tagged_fields"} \subseteq S /\ S \cup S = S
    OBVIOUS
  <2> HIDE DEF S
  <2>2. Good(a, S) /\ Good(b, S) /\ Good(c, S) /\ Good(d, S) /\ Good(e, S)
    BY <1>4, <1>5, <1>6, <1>7, <1>8, <2>1, GoodMore
  <2>3. Good(b \o c, S)
    BY <2>1, <2>2, GoodJoin
  <2>4. Good(b \o c \o d, S)
    BY <2>1, <2>2, <2>3, GoodJoin
  <2>5. Good(a \o (b \o c \o d), S)
    BY <2>1, <2>2, <2>4, GoodJoin
  <2>6. QED
    BY <1>15, <2>2, <2>5, GoodJoin
<1>17. ~HasField(NewSchema(f), "coordinators")
  <2>1. NewSchema(f).fields = f
    BY DEF NewSchema
  <2>2. \A i \in DOMAIN f : f[i].name # "coordinators"
    BY <1>16 DEF Good
  <2>3. QED
    BY <2>1, <2>2 DEF HasField
<1>18. findCoordinatorResponse(v) = NewSchema(f)
  <2>1. ~(v >= 4)
    OBVIOUS
  <2>2. findCoordinatorResponse(v) = NewSchema(a \o (b \o c \o d) \o e)
    BY <1>1, <2>1, Zenon DEF findCoordinatorResponse
  <2>3. QED
    BY <1>15, <2>2, Zenon
<1>19. QED
  BY <1>13, <1>14, <1>15, <1>17, <1>18

\* The replies to the proxy's own requests.
LEMMA SaslResponses ==
    /\ \E f : SaslHandshakeResponseV0orV1 = NewSchema(f) /\ Place(f, 1, "error_code", TypeNumber)
    /\ \E f : /\ SaslAuthenticateResponseV1 = NewSchema(f) /\ Place(f, 1, "error_code", TypeNumber)
              /\ Place(f, 4, "session_lifetime_ms", TypeNumber)
<1>1. PICK a : a = Numbers(<< "error_code" >>)
  OBVIOUS
<1>2. Good(a, {"error_code"}) /\ Len(a) = 1 /\ a = << Field("error_code", TypeNumber) >>
  BY <1>1, GoodNumber
<1>3. Place(a, 1, "error_code", TypeNumber)
  <2>1. PICK x : x = Field("error_code", TypeNumber)
    OBVIOUS
  <2>2. x.name = "error_code" /\ DOMAIN << x >> = {1} /\ << x >>[1] = x
    BY <2>1 DEF Field
  <2>3. At(<< x >>, 1, x)
    BY <2>2 DEF At
  <2>4. QED
    BY <1>2, <2>1, <2>3 DEF Place, Fields
<1>4. ASSUME NEW b, b = ArrayOf(FALSE, "mechanisms", TypeStr) PROVE Place(a \o b, 1, "error_code", TypeNumber)
  <2>1. Good(b, {"mechanisms"}) /\ "error_code" \notin {"mechanisms"}
    BY <1>4, TypesSound, GoodArrayOf
  <2>2. QED
    BY <1>3, <2>1, PlaceKept
<1>5. PICK b, c : /\ b = << Field("error_message", TypeNullableStr), Field("auth_bytes", TypeBytes) >>
                  /\ c = Numbers(<< "session_lifetime_ms" >>)
  OBVIOUS
<1>6. Good(b, {"error_message", "auth_bytes"}) /\ Len(b) = 2
  <2>1. PICK x, y : x = Field("error_message", TypeNullableStr) /\ y = Field("auth_bytes", TypeBytes)
    OBVIOUS
  <2>2. x.type = TypeNullableStr /\ x.name = "error_message" /\ y.type = TypeBytes /\ y.name = "auth_bytes"
    BY <2>1 DEF Field
  <2>3. Sound(x.type) /\ Sound(y.type)
    BY <2>2, TypesSound
  <2>4. b = << x, y >>
    BY <1>5, <2>1
  <2>5. b \in Seq({x, y}) /\ DOMAIN b = {1, 2} /\ b[1] = x /\ b[2] = y /\ Len(b) = 2
    BY <2>4
  <2>6. QED
    BY <2>2, <2>3, <2>5 DEF Good
<1>7. Good(c, {"session_lifetime_ms"}) /\ c = << Field("session_lifetime_ms", TypeNumber) >>
  BY <1>5, GoodNumber
<1>8. Place(a \o b \o c, 1, "error_code", TypeNumber)
  <2>1. "error_code" \notin {"error_message", "auth_bytes"} /\ "error_code" \notin {"session_lifetime_ms"}
    OBVIOUS
  <2>2. Place(a \o b, 1, "error_code", TypeNumber)
    BY <1>3, <1>6, <2>1, PlaceKept
  <2>3. QED
    BY <1>7, <2>1, <2>2, PlaceKept
<1>9. Place(a \o b \o c, 3 + 1, "session_lifetime_ms", TypeNumber)
  <2>1. Good(a \o b, {"error_code"} \cup {"error_message", "auth_bytes"}) /\ Len(a \o b) = Len(a) + Len(b)
    BY <1>2, <1>6, GoodJoin
  <2>2. "session_lifetime_ms" \notin {"error_code"} \cup {"error_message", "auth_bytes"}
    OBVIOUS
  <2>3. Len(a \o b) = 3
    BY <1>2, <1>6, <2>1
  <2>4. QED
    BY <1>7, <2>1, <2>2, <2>3, NumbersSound, PlaceNew
<1>10. SaslHandshakeResponseV0orV1 = NewSchema(a \o ArrayOf(FALSE, "mechanisms", TypeStr))
  BY <1>1 DEF SaslHandshakeResponseV0orV1
<1>11. SaslAuthenticateResponseV1 = NewSchema(a \o b \o c)
  BY <1>1, <1>5 DEF SaslAuthenticateResponseV1
<1>12. QED
  <2>1. Place(a \o ArrayOf(FALSE, "mechanisms", TypeStr), 1, "error_code", TypeNumber)
    BY <1>4
  <2>2. Place(a \o b \o c, 4, "session_lifetime_ms", TypeNumber)
    BY <1>9
  <2>3. QED
    BY <1>8, <1>10, <1>11, <2>1, <2>2, Zenon

------------------------------------------------------------------------------
(* Replies opened, modified and closed again.                               *)

\* A buffer holds itself.
LEMMA HoldsItself ==
    ASSUME NEW c \in Seq(Int)
    PROVE  Holds(c, 0, c)
<1>1. Len(c) \in Nat /\ 0 + Len(c) = Len(c) /\ \A i \in 1..Len(c) : 0 + i = i
  OBVIOUS
<1>2. QED
  BY <1>1 DEF Holds

\* The whole of an encoded value is decoded to the value, or refused.
LEMMA DecodeWhole ==
    ASSUME NEW s, Sound(s), NEW v \in s.values
    PROVE  DecodeSchema(s.encode[v], s) = IF s.readable[v] THEN Ok(v, Len(s.encode[v])) ELSE Failed
<1>1. PICK c : c = s.encode[v]
  OBVIOUS
<1>2. Returns(s, v)
  BY DEF Sound
<1>3. c \in Seq(Int) /\ ReadsAs(c, s, v, c)
  BY <1>1, <1>2 DEF Returns
<1>4. s.decode[c][0] = IF s.readable[v] THEN Ok(v, 0 + Len(c)) ELSE Failed
  BY <1>3, HoldsItself DEF ReadsAs
<1>5. PICK r : r = s.decode[c][0]
  OBVIOUS
<1>6. Len(c) \in Nat /\ 0 + Len(c) = Len(c)
  BY <1>3
<1>7. CASE s.readable[v]
  <2>1. r = Ok(v, Len(c))
    BY <1>4, <1>5, <1>6, <1>7
  <2>2. r.ok /\ r.off = Len(c)
    BY <2>1 DEF Ok
  <2>3. DecodeSchema(c, s) = r
    BY <1>5, <2>2 DEF DecodeSchema
  <2>4. QED
    BY <1>1, <1>7, <2>1, <2>3
<1>8. CASE ~s.readable[v]
  <2>1. ~r.ok
    BY <1>4, <1>5, <1>8 DEF Failed
  <2>2. DecodeSchema(c, s) = Failed
    BY <1>5, <2>1 DEF DecodeSchema
  <2>3. QED
    BY <1>1, <1>8, <2>2
<1>9. QED
  BY <1>7, <1>8

\* A value is encoded whole, or not at all: both passes agree on its length.
LEMMA EncodeWhole ==
    ASSUME NEW s, Sound(s), NEW v \in s.values
    PROVE  EncodeSchema(v, s) = IF s.encodable[v] /\ Len(s.encode[v]) <= MaxMessage
                                THEN Ok(s.encode[v], Len(s.encode[v])) ELSE Failed
<1>1. PICK c : c = s.encode[v]
  OBVIOUS
<1>2. Returns(s, v)
  BY DEF Sound
<1>3. c \in Seq(Int) /\ s.measure[v] = Len(c)
  BY <1>1, <1>2 DEF Returns
<1>4. PICK n \in Nat : n = Len(c)
  BY <1>3
<1>5. [i \in 1..n |-> IF i <= n THEN c[i] ELSE 0] = c
  <2>1. PICK d : d = [i \in 1..n |-> IF i <= n THEN c[i] ELSE 0]
    OBVIOUS
  <2>2. \A i \in 1..n : d[i] = c[i] /\ d[i] \in Int
    BY <1>3, <1>4, <2>1
  <2>3. d \in Seq(Int) /\ Len(d) = n
    BY <2>1, <2>2
  <2>4. QED
    BY <1>3, <1>4, <2>1, <2>2, <2>3, SeqEqual
<1>6. ~(n > n) /\ (~(n > MaxMessage) <=> n <= MaxMessage)
  BY CodecAssumption
<1>7. EncodeSchema(v, s) = IF ~s.encodable[v] \/ n > MaxMessage \/ n > n THEN Failed
                           ELSE Ok([i \in 1..n |-> IF i <= n THEN c[i] ELSE 0], n)
  BY <1>1, <1>3, <1>4 DEF EncodeSchema
<1>8. QED
  BY <1>1, <1>4, <1>5, <1>6, <1>7, Zenon

\* A node, and how a value nests.
Deep == Above(Above(Above(Leaves)))

\* A value has at least four levels.
LEMMA Levels == Values = Above(Above(Above(Above(Deep))))
BY DEF Values, Deep

\* A leaf is a value at every level above the lowest.
LEMMA LeafIn ==
    ASSUME NEW X, NEW c \in Seq(Int)
    PROVE  Leaf(c) \in Above(X)
<1>1. <<>> \in Seq(X)
  OBVIOUS
<1>2. QED
  BY <1>1 DEF Leaf, Above

\* A tree is one level above its items.
LEMMA TreeIn ==
    ASSUME NEW X, NEW s \in Seq(X)
    PROVE  Tree(s) \in Above(X) /\ Tree(s).items = s /\ Tree(s).cells = <<>>
<1>1. <<>> \in Seq(Int)
  OBVIOUS
<1>2. QED
  BY <1>1 DEF Tree, Above

\* Replacing an item of a value.
LEMMA ReplaceIn ==
    ASSUME NEW X, NEW v \in Above(X), NEW i \in 1..Len(v.items), NEW new \in X
    PROVE  /\ Replace(v, i, new) \in Above(X) /\ Replace(v, i, new).cells = <<>>
           /\ Len(Replace(v, i, new).items) = Len(v.items)
           /\ \A j \in 1..Len(v.items) : Replace(v, i, new).items[j] = IF j = i THEN new ELSE v.items[j]
<1>1. PICK s : s = v.items /\ s \in Seq(X)
  BY DEF Above
<1>2. PICK d : d = [s EXCEPT ![i] = new]
  OBVIOUS
<1>3. d \in Seq(X) /\ Len(d) = Len(s) /\ \A j \in 1..Len(s) : d[j] = IF j = i THEN new ELSE s[j]
  BY <1>1, <1>2
<1>4. Replace(v, i, new) = Tree(d)
  BY <1>1, <1>2 DEF Replace
<1>5. QED
  BY <1>1, <1>3, <1>4, TreeIn

\* A struct whose field is replaced by another value of the field's type.
LEMMA ReplaceValue ==
    ASSUME NEW f, Fields(f), NEW v \in NewSchema(f).values, NEW X, Values = Above(X),
           NEW i \in DOMAIN f, NEW new, new \in X, new \in f[i].type.values
    PROVE  Replace(v, i, new) \in NewSchema(f).values
<1>1. PICK U : f \in Seq(U)
  BY DEF Fields, Good
<1>2. NewSchema(f).values = {w \in Values : /\ w.cells = <<>> /\ Len(w.items) = Len(f)
                                             /\ \A j \in DOMAIN f : w.items[j] \in f[j].type.values}
  BY DEF NewSchema
<1>3. v \in Above(X) /\ Len(v.items) = Len(f) /\ \A j \in DOMAIN f : v.items[j] \in f[j].type.values
  BY <1>2
<1>4. DOMAIN f = 1..Len(f)
  BY <1>1
<1>5. PICK w : w = Replace(v, i, new)
  OBVIOUS
<1>6. /\ w \in Above(X) /\ w.cells = <<>> /\ Len(w.items) = Len(v.items)
      /\ \A j \in 1..Len(v.items) : w.items[j] = IF j = i THEN new ELSE v.items[j]
  BY <1>3, <1>4, <1>5, ReplaceIn
<1>7. \A j \in DOMAIN f : w.items[j] \in f[j].type.values
  BY <1>3, <1>4, <1>6
<1>8. w \in NewSchema(f).values
  BY <1>2, <1>3, <1>6, <1>7
<1>9. QED
  BY <1>5, <1>8

\* A node with a listener's address is a value like the node, at any depth.
LEMMA LocalIn ==
    ASSUME NEW X, NEW node \in Above(Above(X)), Len(node.items) >= 3
    PROVE  Local(node) \in Above(Above(X))
<1>1. CASE ~(Named(node) /\ Address(node) \in DOMAIN Mapping)
  BY <1>1, Zenon DEF Local
<1>2. CASE Named(node) /\ Address(node) \in DOMAIN Mapping
  <2>1. PICK new : new = Mapping[Address(node)]
    OBVIOUS
  <2>2. new \in Seq(Nat) \X Int
    BY <1>2, <2>1, BrokerAssumption
  <2>3. new[1] \in Seq(Int) /\ << new[2] >> \in Seq(Int)
    BY <2>2
  <2>4. PICK x, y : x = Leaf(new[1]) /\ y = Leaf(<< new[2] >>)
    OBVIOUS
  <2>5. x \in Above(X) /\ y \in Above(X)
    BY <2>3, <2>4, LeafIn
  <2>6. PICK s : s = node.items /\ s \in Seq(Above(X)) /\ Len(s) >= 3
    <3>1. PICK Y : Y = Above(X)
      OBVIOUS
    <3>2. node \in Above(Y)
      BY <3>1
    <3>3. QED
      BY <3>1, <3>2 DEF Above
  <2>7. [s EXCEPT ![2] = x, ![3] = y] \in Seq(Above(X))
    BY <2>5, <2>6
  <2>8. Local(node) = Tree([s EXCEPT ![2] = x, ![3] = y])
    BY <1>2, <2>1, <2>4, <2>6, Zenon DEF Local
  <2>9. QED
    BY <2>7, <2>8, TreeIn
<1>3. QED
  BY <1>1, <1>2

\* The fields of a node.
LEMMA NodeParts ==
    ASSUME NEW f, NodeFields(f), NEW node \in NewSchema(f).values
    PROVE  /\ node \in Values /\ node.cells = <<>> /\ Len(node.items) = Len(f)
           /\ 2 \in DOMAIN f /\ 3 \in DOMAIN f /\ Len(f) >= 3
           /\ (\E U : node.items \in Seq(U))
           /\ node.items[2].cells \in Seq(Int) /\ node.items[3].cells[1] \in Int
           /\ f[3].type = TypeNumber /\ f[2].type \in {String("str"), String("compactStr")}
<1>1. PICK k \in {"str", "compactStr"} : Place(f, 2, "host", String(k)) /\ Place(f, 3, "port", TypeNumber)
  BY DEF NodeFields
<1>2. 2 \in DOMAIN f /\ f[2].type = String(k)
  BY <1>1, PlaceSchema, Zenon
<1>3. 3 \in DOMAIN f /\ f[3].type = TypeNumber
  <2>1. Place(f, 3, "port", TypeNumber)
    BY <1>1
  <2>2. QED
    BY <2>1, PlaceSchema
<1>4. PICK U : f \in Seq(U)
  BY <1>1 DEF Place, Fields, Good
<1>5. Len(f) >= 3
  BY <1>3, <1>4
<1>6. NewSchema(f).values = {w \in Values : /\ w.cells = <<>> /\ Len(w.items) = Len(f)
                                             /\ \A j \in DOMAIN f : w.items[j] \in f[j].type.values}
  BY DEF NewSchema
<1>7. /\ node \in Values /\ node.cells = <<>> /\ Len(node.items) = Len(f)
      /\ node.items[2] \in String(k).values /\ node.items[3] \in TypeNumber.values
  BY <1>2, <1>3, <1>6
<1>8. node.items[2] \in Values
  BY <1>7, StringSound DEF Sound
<1>9. node.items[3].cells[1] \in Int
  <2>1. TypeNumber.values = {v \in Values : v.items = <<>> /\ Len(v.cells) = 1 /\ v.cells[1] \in Int}
    BY DEF TypeNumber, Number
  <2>2. QED
    BY <1>7, <2>1
<1>10. QED
  BY <1>2, <1>3, <1>5, <1>7, <1>8, <1>9, ValueParts

\* A node gets its listener's address, or the reply fails when it has none.
LEMMA ModifyNode ==
    ASSUME NEW f, NodeFields(f), NEW node \in NewSchema(f).values
    PROVE  modifyNode(NewSchema(f), node) =
               IF Named(node) /\ Address(node) \notin DOMAIN Mapping THEN Failed ELSE Ok(Local(node), 0)
<1>1. PICK s : s = NewSchema(f)
  OBVIOUS
<1>2. Index(s, "host") = 2 /\ Index(s, "port") = 3
  <2>1. PICK k \in {"str", "compactStr"} : Place(f, 2, "host", String(k)) /\ Place(f, 3, "port", TypeNumber)
    BY DEF NodeFields
  <2>2. Index(s, "host") = 2
    BY <1>1, <2>1, PlaceSchema
  <2>3. Index(s, "port") = 3
    BY <1>1, <2>1, PlaceSchema
  <2>4. QED
    BY <2>2, <2>3
<1>3. PICK host, port : host = node.items[2].cells /\ port = node.items[3].cells[1]
  OBVIOUS
<1>4. PICK U : node.items \in Seq(U) /\ port \in Int /\ Len(node.items) >= 3
  BY <1>3, NodeParts
<1>5. Address(node) = << host, port >>
  BY <1>3 DEF Address
<1>6. Named(node) = ~Absent(host, port)
  BY <1>4, <1>5 DEF Named, Absent
<1>7. PICK new : new = Mapping[<< host, port >>]
  OBVIOUS
<1>8. modifyNode(s, node) = IF Absent(host, port) THEN Ok(node, 0)
                            ELSE IF << host, port >> \notin DOMAIN Mapping THEN Failed
                            ELSE Ok(Replace(Replace(node, 2, Leaf(new[1])), 3, Leaf(<< new[2] >>)), 0)
  BY <1>2, <1>3, <1>7, Zenon DEF modifyNode
<1>9. PICK x, y : x = Leaf(new[1]) /\ y = Leaf(<< new[2] >>)
  OBVIOUS
<1>10. PICK t : t = node.items
  OBVIOUS
<1>11. Replace(Replace(node, 2, x), 3, y) = Tree([t EXCEPT ![2] = x, ![3] = y])
  <2>1. Replace(node, 2, x).items = [t EXCEPT ![2] = x]
    BY <1>10 DEF Replace, Tree
  <2>2. QED
    BY <2>1 DEF Replace
<1>12. Local(node) = IF Named(node) /\ Address(node) \in DOMAIN Mapping
                     THEN Tree([t EXCEPT ![2] = x, ![3] = y]) ELSE node
  BY <1>5, <1>7, <1>9, <1>10, Zenon DEF Local
<1>13. QED
  BY <1>1, <1>5, <1>6, <1>8, <1>9, <1>11, <1>12, Zenon

\* A node with its listener's address is a value of the same struct.
LEMMA LocalNode ==
    ASSUME NEW f, NodeFields(f), NEW node \in NewSchema(f).values
    PROVE  Local(node) \in NewSchema(f).values
<1>1. CASE ~(Named(node) /\ Address(node) \in DOMAIN Mapping)
  BY <1>1, Zenon DEF Local
<1>2. CASE Named(node) /\ Address(node) \in DOMAIN Mapping
  <2>1. PICK new : new = Mapping[Address(node)]
    OBVIOUS
  <2>2. new \in Seq(Nat) \X Int
    BY <1>2, <2>1, BrokerAssumption
  <2>3. PICK x, y : x = Leaf(new[1]) /\ y = Leaf(<< new[2] >>)
    OBVIOUS
  <2>4. PICK t : t = node.items
    OBVIOUS
  <2>5. PICK w : w = Local(node)
    OBVIOUS
  <2>6. w = Tree([t EXCEPT ![2] = x, ![3] = y])
    BY <1>2, <2>1, <2>3, <2>4, <2>5, Zenon DEF Local
  <2>7. /\ node \in Values /\ node.cells = <<>> /\ Len(t) = Len(f)
        /\ 2 \in DOMAIN f /\ 3 \in DOMAIN f /\ Len(f) >= 3
        /\ (\E U : t \in Seq(U))
        /\ f[3].type = TypeNumber /\ f[2].type \in {String("str"), String("compactStr")}
    BY <2>4, NodeParts
  <2>8. w.cells = <<>> /\ w.items = [t EXCEPT ![2] = x, ![3] = y]
    BY <2>6 DEF Tree
  <2>9. PICK U : t \in Seq(U)
    BY <2>7
  <2>10. /\ Len(w.items) = Len(f) /\ w.items[2] = x /\ w.items[3] = y
         /\ \A j \in DOMAIN t : j # 2 /\ j # 3 => w.items[j] = t[j]
    BY <2>7, <2>8, <2>9
  <2>11. NewSchema(f).values = {v \in Values : /\ v.cells = <<>> /\ Len(v.items) = Len(f)
                                               /\ \A j \in DOMAIN f : v.items[j] \in f[j].type.values}
    BY DEF NewSchema
  <2>12. PICK V : f \in Seq(V)
    BY DEF NodeFields, Place, Fields, Good
  <2>13. DOMAIN t = DOMAIN f
    BY <2>7, <2>9, <2>12
  <2>14. x \in Values /\ y \in Values
    <3>1. new[1] \in Seq(Int) /\ << new[2] >> \in Seq(Int)
      BY <2>2
    <3>2. QED
      BY <2>3, <3>1, LeafIn, Levels
  <2>15. x.items = <<>> /\ x.cells = new[1] /\ y.items = <<>> /\ y.cells = << new[2] >>
    BY <2>3 DEF Leaf
  <2>16. x \in f[2].type.values
    <3>1. ASSUME NEW k PROVE x \in String(k).values
      <4>1. String(k).values = {v \in Values : /\ v.items = <<>>
                                               /\ v.cells \in Seq(Nat) \/ (k \in Nullable /\ v.cells = Null)}
        BY DEF String
      <4>2. QED
        BY <2>2, <2>14, <2>15, <4>1
    <3>2. QED
      BY <2>7, <3>1
  <2>17. y \in f[3].type.values
    <3>1. TypeNumber.values = {v \in Values : v.items = <<>> /\ Len(v.cells) = 1 /\ v.cells[1] \in Int}
      BY DEF TypeNumber, Number
    <3>2. Len(y.cells) = 1 /\ y.cells[1] \in Int
      BY <2>2, <2>15
    <3>3. QED
      BY <2>7, <2>14, <2>15, <3>1, <3>2
  <2>18. \A j \in DOMAIN f : t[j] \in f[j].type.values
    BY <2>4, <2>11
  <2>19. \A j \in DOMAIN f : w.items[j] \in f[j].type.values
    BY <2>10, <2>13, <2>16, <2>17, <2>18
  <2>20. w \in Values
    <3>1. node \in Above(Above(Above(Above(Deep)))) /\ Len(node.items) >= 3
      BY <2>4, <2>7, Levels
    <3>2. w \in Above(Above(Above(Above(Deep))))
      BY <2>5, <3>1, LocalIn
    <3>3. QED
      BY <3>2, Levels
  <2>21. w \in NewSchema(f).values
    BY <2>8, <2>10, <2>11, <2>19, <2>20
  <2>22. QED
    BY <2>5, <2>21
<1>3. QED
  BY <1>1, <1>2

\* The items of a struct.
LEMMA StructItems ==
    ASSUME NEW f, NEW a, NEW name, NEW type, Place(f, a, name, type), NEW v \in NewSchema(f).values
    PROVE  /\ v \in Values /\ v.cells = <<>> /\ Len(v.items) = Len(f)
           /\ a \in DOMAIN f /\ a \in 1..Len(v.items) /\ f[a].type = type /\ Fields(f)
           /\ v.items[a] \in type.values
<1>1. a \in DOMAIN f /\ f[a].type = type
  BY PlaceSchema
<1>2. NewSchema(f).values = {w \in Values : /\ w.cells = <<>> /\ Len(w.items) = Len(f)
                                             /\ \A j \in DOMAIN f : w.items[j] \in f[j].type.values}
  BY DEF NewSchema
<1>3. v \in Values /\ v.cells = <<>> /\ Len(v.items) = Len(f) /\ v.items[a] \in f[a].type.values
  BY <1>1, <1>2
<1>4. PICK U : f \in Seq(U)
  BY DEF Place, Fields, Good
<1>5. a \in 1..Len(v.items)
  BY <1>1, <1>3, <1>4
<1>6. QED
  BY <1>1, <1>3, <1>5 DEF Place

\* An item is one level below its struct.
LEMMA ItemsBelow ==
    ASSUME NEW X, NEW v \in Above(X)
    PROVE  v.items \in Seq(X) /\ \A i \in 1..Len(v.items) : v.items[i] \in X
<1>1. v.items \in Seq(X)
  BY DEF Above
<1>2. QED
  BY <1>1

\* The elements of an array in a struct.
LEMMA ListItems ==
    ASSUME NEW f, NEW a, NEW name, NEW kind, NEW type, Place(f, a, name, ListOf(kind, type)),
           NEW v \in NewSchema(f).values
    PROVE  /\ v.items[a].items \in Seq(Above(Above(Deep)))
           /\ \A i \in DOMAIN v.items[a].items : v.items[a].items[i] \in type.values
           /\ Element(NewSchema(f), a) = type
<1>1. /\ v \in Values /\ a \in 1..Len(v.items) /\ v.items[a] \in ListOf(kind, type).values
      /\ f[a].type = ListOf(kind, type)
  BY StructItems
<1>2. v \in Above(Above(Above(Above(Deep))))
  BY <1>1, Levels
<1>3. v.items[a] \in Above(Above(Above(Deep)))
  BY <1>1, <1>2, ItemsBelow
<1>4. v.items[a].items \in Seq(Above(Above(Deep)))
  BY <1>3, ItemsBelow
<1>5. ListOf(kind, type).values =
          {w \in Values : w.cells = <<>> /\ \A i \in DOMAIN w.items : w.items[i] \in type.values}
  BY DEF ListOf
<1>6. \A i \in DOMAIN v.items[a].items : v.items[a].items[i] \in type.values
  BY <1>1, <1>5
<1>7. Element(NewSchema(f), a) = type
  <2>1. NewSchema(f).fields = f
    BY PlaceSchema
  <2>2. PICK t, x : t = ListOf(kind, type) /\ x = Field("element", type)
    OBVIOUS
  <2>3. t.fields = << x >>
    BY <2>2 DEF ListOf
  <2>4. t.fields[1] = x
    BY <2>3
  <2>5. x.type = type
    BY <2>2 DEF Field
  <2>6. QED
    BY <1>1, <2>1, <2>2, <2>4, <2>5, Zenon DEF Element
<1>8. QED
  BY <1>4, <1>6, <1>7

\* An array whose elements are modified; those in B fail.
LEMMA ModifiedList ==
    ASSUME NEW f, NEW a, NEW name, NEW kind, NEW type, Place(f, a, name, ListOf(kind, type)),
           NEW v \in NewSchema(f).values, NEW results, NEW new, NEW B,
           new \in Seq(Above(Above(Deep))), DOMAIN results = DOMAIN new,
           \A i \in DOMAIN new : /\ new[i] \in type.values
                                 /\ results[i] = IF i \in B THEN Failed ELSE Ok(new[i], 0)
    PROVE  /\ Modified(v, a, results) =
                  IF \E i \in DOMAIN new : i \in B THEN Failed ELSE Ok(Replace(v, a, Tree(new)), 0)
           /\ Replace(v, a, Tree(new)) \in NewSchema(f).values
<1>1. Replace(v, a, Tree(new)) \in NewSchema(f).values
  <2>1. a \in DOMAIN f /\ f[a].type = ListOf(kind, type) /\ Fields(f)
    BY StructItems
  <2>2. Tree(new) \in Above(Above(Above(Deep))) /\ Tree(new).items = new /\ Tree(new).cells = <<>>
    BY TreeIn
  <2>3. Tree(new) \in Values
    <3>1. new \in Seq(Above(Above(Above(Deep))))
      <4>1. Above(Above(Deep)) \subseteq Above(Above(Above(Deep)))
        <5>1. ASSUME NEW X, NEW Y, X \subseteq Y PROVE Above(X) \subseteq Above(Y)
          <6>1. Seq(X) \subseteq Seq(Y)
            BY <5>1
          <6>2. QED
            BY <6>1 DEF Above
        <5>2. Leaves \subseteq Above(Leaves)
          <6>1. <<>> \in Seq(Leaves)
            OBVIOUS
          <6>2. QED
            BY <6>1 DEF Above, Leaves
        <5>3. Above(Leaves) \subseteq Above(Above(Leaves))
          BY <5>1, <5>2
        <5>4. Above(Above(Leaves)) \subseteq Above(Above(Above(Leaves)))
          BY <5>1, <5>3
        <5>5. Deep \subseteq Above(Deep)
          BY <5>1, <5>4 DEF Deep
        <5>6. Above(Deep) \subseteq Above(Above(Deep))
          BY <5>1, <5>5
        <5>7. QED
          BY <5>1, <5>6
      <4>2. PICK X, Y : X = Above(Above(Deep)) /\ Y = Above(Above(Above(Deep)))
        OBVIOUS
      <4>3. X \subseteq Y /\ new \in Seq(X)
        BY <4>1, <4>2
      <4>4. QED
        BY <4>2, <4>3
    <3>2. QED
      BY <3>1, TreeIn, Levels
  <2>4. ListOf(kind, type).values =
            {w \in Values : w.cells = <<>> /\ \A i \in DOMAIN w.items : w.items[i] \in type.values}
    BY DEF ListOf
  <2>5. Tree(new) \in f[a].type.values
    BY <2>1, <2>2, <2>3, <2>4
  <2>6. QED
    BY <2>1, <2>2, <2>5, Levels, ReplaceValue
<1>2. CASE \E i \in DOMAIN new : i \in B
  <2>1. PICK i \in DOMAIN new : i \in B
    BY <1>2
  <2>2. ~results[i].ok
    BY <2>1 DEF Failed
  <2>3. Modified(v, a, results) = Failed
    BY <2>1, <2>2 DEF Modified
  <2>4. QED
    BY <1>1, <1>2, <2>3
<1>3. CASE ~\E i \in DOMAIN new : i \in B
  <2>1. \A i \in DOMAIN new : results[i] = Ok(new[i], 0)
    BY <1>3
  <2>2. \A i \in DOMAIN new : results[i].ok /\ results[i].value = new[i]
    BY <2>1 DEF Ok
  <2>3. [i \in DOMAIN results |-> results[i].value] = new
    <3>1. new = [i \in DOMAIN new |-> new[i]]
      OBVIOUS
    <3>2. QED
      BY <2>2, <3>1
  <2>4. Modified(v, a, results) = Ok(Replace(v, a, Tree(new)), 0)
    BY <2>2, <2>3 DEF Modified
  <2>5. QED
    BY <1>1, <1>3, <2>4
<1>4. QED
  BY <1>2, <1>3

\* Some node has an address without a listener.
Unmapped(nodes) == \E i \in DOMAIN nodes : Named(nodes[i]) /\ Address(nodes[i]) \notin DOMAIN Mapping

\* A Metadata reply is modified to the one its client should have.
LEMMA MetadataModified ==
    ASSUME NEW r, r.key = apiKeyMetadata, r.version \in Nat, r.value \in metadataResponse(r.version).values
    PROVE  /\ modifyMetadataResponse(metadataResponse(r.version), r.value) =
                  IF Unmapped(Nodes(r)) THEN Failed ELSE Ok(LocalValue(r), 0)
           /\ LocalValue(r) \in metadataResponse(r.version).values
<1>1. PICK ver \in Nat : ver = r.version
  OBVIOUS
<1>2. PICK v, a : v = r.value /\ a = (IF ver >= 3 THEN 2 ELSE 1)
  OBVIOUS
<1>3. PICK f : \E kind \in {"array", "compactArray"} :
          /\ metadataResponse(ver) = NewSchema(f)
          /\ Place(f, a, "brokers", ListOf(kind, metadataBroker(ver)))
  BY <1>2, MetadataResponse, Zenon
<1>4. PICK kind \in {"array", "compactArray"} :
          /\ metadataResponse(ver) = NewSchema(f)
          /\ Place(f, a, "brokers", ListOf(kind, metadataBroker(ver)))
  BY <1>3
<1>5. PICK g : NodeFields(g) /\ metadataBroker(ver) = NewSchema(g)
  BY MetadataBroker
<1>6. v \in NewSchema(f).values
  BY <1>1, <1>2, <1>4
<1>7. PICK old : old = v.items[a].items
  OBVIOUS
<1>8. /\ old \in Seq(Above(Above(Deep))) /\ \A i \in DOMAIN old : old[i] \in NewSchema(g).values
      /\ Element(NewSchema(f), a) = NewSchema(g)
  BY <1>4, <1>5, <1>6, <1>7, ListItems
<1>9. Index(NewSchema(f), "brokers") = a
  BY <1>4, PlaceSchema
<1>10. PICK new, results, B :
           /\ new = [i \in DOMAIN old |-> Local(old[i])]
           /\ results = [i \in DOMAIN old |-> modifyNode(NewSchema(g), old[i])]
           /\ B = {i \in DOMAIN old : Named(old[i]) /\ Address(old[i]) \notin DOMAIN Mapping}
  OBVIOUS
<1>11. ASSUME NEW i \in DOMAIN old
       PROVE  /\ new[i] \in NewSchema(g).values /\ new[i] \in Above(Above(Deep))
              /\ results[i] = IF i \in B THEN Failed ELSE Ok(new[i], 0)
  <2>1. PICK node : node = old[i]
    OBVIOUS
  <2>2. node \in NewSchema(g).values /\ node \in Above(Above(Deep))
    BY <1>8, <2>1
  <2>3. new[i] = Local(node) /\ results[i] = modifyNode(NewSchema(g), node)
    BY <1>10, <2>1
  <2>4. i \in B <=> Named(node) /\ Address(node) \notin DOMAIN Mapping
    BY <1>10, <2>1
  <2>5. Len(node.items) >= 3
    BY <1>5, <2>2, NodeParts
  <2>6. Local(node) \in Above(Above(Deep))
    BY <2>2, <2>5, LocalIn
  <2>7. Local(node) \in NewSchema(g).values
    BY <1>5, <2>2, LocalNode
  <2>8. modifyNode(NewSchema(g), node) =
            IF Named(node) /\ Address(node) \notin DOMAIN Mapping THEN Failed ELSE Ok(Local(node), 0)
    BY <1>5, <2>2, ModifyNode
  <2>9. QED
    BY <2>3, <2>4, <2>6, <2>7, <2>8, Zenon
<1>12. DOMAIN new = DOMAIN old /\ DOMAIN results = DOMAIN new
  BY <1>10
<1>13. new \in Seq(Above(Above(Deep)))
  <2>0. PICK X : X = Above(Above(Deep))
    OBVIOUS
  <2>1. PICK n \in Nat : X = Above(Above(Deep)) /\ DOMAIN old = 1..n
    <3>1. old \in Seq(X)
      BY <1>8, <2>0
    <3>2. QED
      BY <2>0, <3>1
  <2>2. \A i \in 1..n : new[i] \in X
    BY <1>11, <2>1
  <2>3. new = [i \in 1..n |-> new[i]]
    BY <1>10, <2>1
  <2>4. new \in Seq(X)
    BY <2>2, <2>3
  <2>5. QED
    BY <2>1, <2>4
<1>14. /\ Modified(v, a, results) = IF \E i \in DOMAIN new : i \in B THEN Failed ELSE Ok(Replace(v, a, Tree(new)), 0)
       /\ Replace(v, a, Tree(new)) \in NewSchema(f).values
  <2>1. \A i \in DOMAIN new : /\ new[i] \in NewSchema(g).values
                              /\ results[i] = IF i \in B THEN Failed ELSE Ok(new[i], 0)
    BY <1>11, <1>12
  <2>2. Place(f, a, "brokers", ListOf(kind, NewSchema(g)))
    BY <1>4, <1>5
  <2>3. QED
    BY <1>6, <1>12, <1>13, <2>1, <2>2, ModifiedList
<1>15. modifyMetadataResponse(NewSchema(f), v) = Modified(v, a, results)
  BY <1>7, <1>8, <1>9, <1>10 DEF modifyMetadataResponse
<1>16. Nodes(r) = old /\ BrokersAt(r) = a
  BY <1>1, <1>2, <1>7 DEF Nodes, BrokersAt
<1>17. LocalValue(r) = Replace(v, a, Tree(new))
  BY <1>2, <1>10, <1>16 DEF LocalValue
<1>18. Unmapped(Nodes(r)) <=> \E i \in DOMAIN new : i \in B
  BY <1>10, <1>12, <1>16 DEF Unmapped
<1>19. QED
  BY <1>1, <1>2, <1>4, <1>14, <1>15, <1>17, <1>18

\* A struct with one coordinator.
LEMMA CoordinatorModified ==
    ASSUME NEW f, NEW c, NEW g, NodeFields(g), Place(f, c, "coordinator", NewSchema(g)),
           NEW v \in NewSchema(f).values
    PROVE  /\ modifyCoordinator(NewSchema(f), v) =
                  IF Named(v.items[c]) /\ Address(v.items[c]) \notin DOMAIN Mapping THEN Failed
                  ELSE Ok(Replace(v, c, Local(v.items[c])), 0)
           /\ Replace(v, c, Local(v.items[c])) \in NewSchema(f).values
<1>1. PICK node : node = v.items[c]
  OBVIOUS
<1>2. /\ v \in Values /\ c \in DOMAIN f /\ c \in 1..Len(v.items) /\ f[c].type = NewSchema(g) /\ Fields(f)
      /\ node \in NewSchema(g).values
  BY <1>1, StructItems
<1>3. Index(NewSchema(f), "coordinator") = c /\ NewSchema(f).fields = f
  BY PlaceSchema
<1>4. PICK res : res = modifyNode(NewSchema(g), node)
  OBVIOUS
<1>5. res = IF Named(node) /\ Address(node) \notin DOMAIN Mapping THEN Failed ELSE Ok(Local(node), 0)
  BY <1>2, <1>4, ModifyNode
<1>6. modifyCoordinator(NewSchema(f), v) = IF res.ok THEN Ok(Replace(v, c, res.value), 0) ELSE Failed
  BY <1>1, <1>2, <1>3, <1>4 DEF modifyCoordinator
<1>7. Replace(v, c, Local(node)) \in NewSchema(f).values
  <2>1. Local(node) \in NewSchema(g).values
    BY <1>2, LocalNode
  <2>2. Local(node) \in Above(Above(Above(Deep)))
    <3>1. node \in Above(Above(Above(Deep)))
      BY <1>1, <1>2, Levels, ItemsBelow
    <3>2. Len(node.items) >= 3
      BY <1>2, NodeParts
    <3>3. QED
      BY <3>1, <3>2, LocalIn
  <2>3. QED
    BY <1>2, <2>1, <2>2, Levels, ReplaceValue
<1>8. CASE Named(node) /\ Address(node) \notin DOMAIN Mapping
  <2>1. ~res.ok
    BY <1>5, <1>8 DEF Failed
  <2>2. QED
    BY <1>1, <1>6, <1>7, <1>8, <2>1
<1>9. CASE ~(Named(node) /\ Address(node) \notin DOMAIN Mapping)
  <2>1. res.ok /\ res.value = Local(node)
    BY <1>5, <1>9 DEF Ok
  <2>2. QED
    BY <1>1, <1>6, <1>7, <1>9, <2>1
<1>10. QED
  BY <1>8, <1>9

\* A FindCoordinator reply with one coordinator.
LEMMA FindCoordinatorModified ==
    ASSUME NEW r, r.key # apiKeyMetadata, r.version \in Nat, r.version < 4,
           r.value \in findCoordinatorResponse(r.version).values
    PROVE  /\ modifyFindCoordinatorResponse(findCoordinatorResponse(r.version), r.value) =
                  IF Unmapped(Nodes(r)) THEN Failed ELSE Ok(LocalValue(r), 0)
           /\ LocalValue(r) \in findCoordinatorResponse(r.version).values
<1>1. PICK ver \in Nat : ver = r.version /\ ver < 4
  OBVIOUS
<1>2. PICK v, c : v = r.value /\ c = (IF ver = 0 THEN 2 ELSE 4)
  OBVIOUS
<1>3. PICK f : /\ findCoordinatorResponse(ver) = NewSchema(f)
               /\ ~HasField(NewSchema(f), "coordinators")
               /\ Place(f, c, "coordinator", findCoordinatorBroker(ver))
  BY <1>1, <1>2, FindCoordinatorResponse
<1>4. PICK g : NodeFields(g) /\ findCoordinatorBroker(ver) = NewSchema(g)
  BY FindCoordinatorBroker
<1>5. v \in NewSchema(f).values /\ Place(f, c, "coordinator", NewSchema(g))
  BY <1>1, <1>2, <1>3, <1>4
<1>6. PICK node : node = v.items[c]
  OBVIOUS
<1>7. /\ modifyCoordinator(NewSchema(f), v) =
             IF Named(node) /\ Address(node) \notin DOMAIN Mapping THEN Failed
             ELSE Ok(Replace(v, c, Local(node)), 0)
      /\ Replace(v, c, Local(node)) \in NewSchema(f).values
  BY <1>4, <1>5, <1>6, CoordinatorModified
<1>8. modifyFindCoordinatorResponse(NewSchema(f), v) = modifyCoordinator(NewSchema(f), v)
  BY <1>3 DEF modifyFindCoordinatorResponse
<1>9. CoordinatorAt(r) = c
  BY <1>1, <1>2 DEF CoordinatorAt
<1>10. Nodes(r) = << node >>
  BY <1>1, <1>2, <1>6, <1>9 DEF Nodes
<1>11. DOMAIN << node >> = {1} /\ << node >>[1] = node
  OBVIOUS
<1>12. Unmapped(Nodes(r)) <=> Named(node) /\ Address(node) \notin DOMAIN Mapping
  BY <1>10, <1>11 DEF Unmapped
<1>13. LocalValue(r) = Replace(v, c, Local(node))
  BY <1>1, <1>2, <1>9, <1>10, <1>11 DEF LocalValue
<1>14. QED
  BY <1>1, <1>2, <1>3, <1>7, <1>8, <1>12, <1>13

\* A FindCoordinator reply with several.
LEMMA FindCoordinatorsModified ==
    ASSUME NEW r, r.key # apiKeyMetadata, r.version \in Nat, r.version >= 4,
           r.value \in findCoordinatorResponse(r.version).values
    PROVE  /\ modifyFindCoordinatorResponse(findCoordinatorResponse(r.version), r.value) =
                  IF Unmapped(Nodes(r)) THEN Failed ELSE Ok(LocalValue(r), 0)
           /\ LocalValue(r) \in findCoordinatorResponse(r.version).values
<1>1. PICK ver \in Nat : ver = r.version /\ ver >= 4
  OBVIOUS
<1>2. PICK v : v = r.value
  OBVIOUS
<1>3. PICK f : /\ findCoordinatorResponse(ver) = NewSchema(f)
               /\ Place(f, 2, "coordinators", ListOf("compactArray", findCoordinatorCoordinators(ver)))
  BY <1>1, FindCoordinatorsResponse
<1>4. PICK g : /\ findCoordinatorCoordinators(ver) = NewSchema(g)
               /\ Place(g, 2, "coordinator", findCoordinatorBroker(ver))
  BY FindCoordinatorCoordinators
<1>5. PICK h : NodeFields(h) /\ findCoordinatorBroker(ver) = NewSchema(h)
  BY FindCoordinatorBroker
<1>6. /\ v \in NewSchema(f).values /\ Place(f, 2, "coordinators", ListOf("compactArray", NewSchema(g)))
      /\ Place(g, 2, "coordinator", NewSchema(h))
  BY <1>1, <1>2, <1>3, <1>4, <1>5
<1>7. PICK old : old = v.items[2].items
  OBVIOUS
<1>8. /\ old \in Seq(Above(Above(Deep))) /\ \A i \in DOMAIN old : old[i] \in NewSchema(g).values
      /\ Element(NewSchema(f), 2) = NewSchema(g)
  BY <1>6, <1>7, ListItems
<1>9. Index(NewSchema(f), "coordinators") = 2 /\ HasField(NewSchema(f), "coordinators")
  BY <1>6, PlaceSchema
<1>10. PICK new, results, B :
           /\ new = [i \in DOMAIN old |-> Replace(old[i], 2, Local(old[i].items[2]))]
           /\ results = [i \in DOMAIN old |-> modifyCoordinator(NewSchema(g), old[i])]
           /\ B = {i \in DOMAIN old : Named(old[i].items[2]) /\ Address(old[i].items[2]) \notin DOMAIN Mapping}
  OBVIOUS
<1>11. ASSUME NEW i \in DOMAIN old
       PROVE  /\ new[i] \in NewSchema(g).values /\ new[i] \in Above(Above(Deep))
              /\ results[i] = IF i \in B THEN Failed ELSE Ok(new[i], 0)
  <2>1. PICK w, node : w = old[i] /\ node = w.items[2]
    OBVIOUS
  <2>2. w \in NewSchema(g).values /\ w \in Above(Above(Deep))
    BY <1>8, <2>1
  <2>3. new[i] = Replace(w, 2, Local(node)) /\ results[i] = modifyCoordinator(NewSchema(g), w)
    BY <1>10, <2>1
  <2>4. i \in B <=> Named(node) /\ Address(node) \notin DOMAIN Mapping
    BY <1>10, <2>1
  <2>5. /\ modifyCoordinator(NewSchema(g), w) =
               IF Named(node) /\ Address(node) \notin DOMAIN Mapping THEN Failed
               ELSE Ok(Replace(w, 2, Local(node)), 0)
        /\ Replace(w, 2, Local(node)) \in NewSchema(g).values
    BY <1>5, <1>6, <2>1, <2>2, CoordinatorModified
  <2>6. Replace(w, 2, Local(node)) \in Above(Above(Deep))
    <3>1. 2 \in 1..Len(w.items) /\ node \in NewSchema(h).values
      BY <1>6, <2>1, <2>2, StructItems
    <3>2. node \in Above(Deep)
      BY <2>1, <2>2, <3>1, ItemsBelow
    <3>3. node \in Above(Above(Above(Above(Leaves)))) /\ Len(node.items) >= 3
      BY <1>5, <3>1, <3>2, NodeParts DEF Deep
    <3>4. Local(node) \in Above(Deep)
      BY <3>3, LocalIn DEF Deep
    <3>5. QED
      BY <2>2, <3>1, <3>4, ReplaceIn
  <2>7. QED
    BY <2>3, <2>4, <2>5, <2>6, Zenon
<1>12. DOMAIN new = DOMAIN old /\ DOMAIN results = DOMAIN new
  BY <1>10
<1>13. new \in Seq(Above(Above(Deep)))
  <2>0. PICK X : X = Above(Above(Deep))
    OBVIOUS
  <2>1. PICK n \in Nat : X = Above(Above(Deep)) /\ DOMAIN old = 1..n
    <3>1. old \in Seq(X)
      BY <1>8, <2>0
    <3>2. QED
      BY <2>0, <3>1
  <2>2. \A i \in 1..n : new[i] \in X
    BY <1>11, <2>1
  <2>3. new = [i \in 1..n |-> new[i]]
    BY <1>10, <2>1
  <2>4. new \in Seq(X)
    BY <2>2, <2>3
  <2>5. QED
    BY <2>1, <2>4
<1>14. /\ Modified(v, 2, results) = IF \E i \in DOMAIN new : i \in B THEN Failed ELSE Ok(Replace(v, 2, Tree(new)), 0)
       /\ Replace(v, 2, Tree(new)) \in NewSchema(f).values
  <2>1. \A i \in DOMAIN new : /\ new[i] \in NewSchema(g).values
                              /\ results[i] = IF i \in B THEN Failed ELSE Ok(new[i], 0)
    BY <1>11, <1>12
  <2>2. PICK kind, a : kind = "compactArray" /\ a = 2
    OBVIOUS
  <2>3. Place(f, a, "coordinators", ListOf(kind, NewSchema(g)))
    BY <1>6, <2>2
  <2>4. /\ Modified(v, a, results) =
               IF \E i \in DOMAIN new : i \in B THEN Failed ELSE Ok(Replace(v, a, Tree(new)), 0)
        /\ Replace(v, a, Tree(new)) \in NewSchema(f).values
    <3>1. v \in NewSchema(f).values /\ DOMAIN results = DOMAIN new
      BY <1>6, <1>12
    <3>2. PICK type : type = NewSchema(g)
      OBVIOUS
    <3>3. Place(f, a, "coordinators", ListOf(kind, type))
      BY <2>3, <3>2
    <3>4. \A i \in DOMAIN new : /\ new[i] \in type.values
                                /\ results[i] = IF i \in B THEN Failed ELSE Ok(new[i], 0)
      BY <2>1, <3>2
    <3>5. QED
      BY <1>13, <3>1, <3>3, <3>4, ModifiedList, SMTT(60)
  <2>5. QED
    BY <2>2, <2>4
<1>15. modifyFindCoordinatorResponse(NewSchema(f), v) = Modified(v, 2, results)
  BY <1>7, <1>8, <1>9, <1>10 DEF modifyFindCoordinatorResponse
<1>16. PICK nodes : nodes = [i \in DOMAIN old |-> old[i].items[2]]
  OBVIOUS
<1>17. Nodes(r) = nodes /\ ~(r.version < 4)
  BY <1>1, <1>2, <1>7, <1>16 DEF Nodes
<1>18. LocalValue(r) = Replace(v, 2, Tree(new))
  <2>1. DOMAIN nodes = DOMAIN old /\ \A i \in DOMAIN old : nodes[i] = old[i].items[2]
    BY <1>16
  <2>2. [i \in DOMAIN nodes |-> Replace(v.items[2].items[i], 2, Local(nodes[i]))] = new
    BY <1>7, <1>10, <2>1
  <2>3. QED
    BY <1>2, <1>17, <2>2 DEF LocalValue
<1>19. Unmapped(Nodes(r)) <=> \E i \in DOMAIN new : i \in B
  <2>1. DOMAIN nodes = DOMAIN old /\ \A i \in DOMAIN old : nodes[i] = old[i].items[2]
    BY <1>16
  <2>2. QED
    BY <1>10, <1>12, <1>17, <2>1 DEF Unmapped
<1>20. QED
  BY <1>1, <1>2, <1>3, <1>14, <1>15, <1>18, <1>19

\* Every reply the proxy opens has a sound layout, and Apply makes of its body the body
\* its client should have, or refuses it for a reason that Refusable names.
THEOREM ApplyRewrites ==
    ASSUME NEW r, Opened(r), r.version \in Nat, r.value \in Layout(r).values
    PROVE  /\ Sound(Layout(r)) /\ LocalValue(r) \in Layout(r).values
           /\ LET new == Layout(r).encode[LocalValue(r)] IN
              Apply(r.key, Layout(r), Layout(r).encode[r.value]) =
                  IF /\ Layout(r).readable[r.value] /\ ~Unmapped(Nodes(r))
                     /\ Layout(r).encodable[LocalValue(r)] /\ Len(new) <= MaxMessage
                  THEN Ok(new, Len(new)) ELSE Failed
<1>1. PICK s, ver : s = Layout(r) /\ ver = r.version
  OBVIOUS
<1>2. s = ResponseSchema(r.key, ver) /\ ver \in Nat /\ r.key \in {apiKeyMetadata, apiKeyFindCoordinator}
  BY <1>1 DEF Layout, Opened
<1>3. s = IF r.key = apiKeyMetadata THEN metadataResponse(ver) ELSE findCoordinatorResponse(ver)
  <2>1. CASE r.key = apiKeyMetadata
    <3>1. ver \in 0..13
      BY <1>1, <2>1 DEF Opened, Supported
    <3>2. metadataResponseSchemaVersions[ver] = metadataResponse(ver)
      BY <3>1, Zenon DEF metadataResponseSchemaVersions
    <3>3. QED
      BY <1>2, <2>1, <3>2, Zenon DEF ResponseSchema
  <2>2. CASE r.key # apiKeyMetadata
    <3>1. ver \in 0..6
      BY <1>1, <2>2 DEF Opened, Supported
    <3>2. findCoordinatorResponseSchemaVersions[ver] = findCoordinatorResponse(ver)
      BY <3>1, Zenon DEF findCoordinatorResponseSchemaVersions
    <3>3. QED
      BY <1>2, <2>2, <3>2, Zenon DEF ResponseSchema
  <2>3. QED
    BY <2>1, <2>2
<1>4. Sound(s)
  <2>1. Sound(metadataResponse(ver))
    BY <1>2, MetadataResponse, PlaceSchema
  <2>2. Sound(findCoordinatorResponse(ver))
    <3>1. CASE ver >= 4
      BY <1>2, <3>1, FindCoordinatorsResponse, PlaceSchema
    <3>2. CASE ver < 4
      BY <1>2, <3>2, FindCoordinatorResponse, PlaceSchema
    <3>3. QED
      BY <1>2, <3>1, <3>2
  <2>3. QED
    BY <1>3, <2>1, <2>2
<1> DEFINE Modify(v) == IF r.key = apiKeyMetadata THEN modifyMetadataResponse(s, v)
                        ELSE modifyFindCoordinatorResponse(s, v)
<1>5. /\ Modify(r.value) = IF Unmapped(Nodes(r)) THEN Failed ELSE Ok(LocalValue(r), 0)
      /\ LocalValue(r) \in s.values
  <2>1. CASE r.key = apiKeyMetadata
    BY <1>1, <1>3, <2>1, MetadataModified
  <2>2. CASE r.key # apiKeyMetadata
    <3>1. CASE ver >= 4
      BY <1>1, <1>3, <2>2, <3>1, FindCoordinatorsModified
    <3>2. CASE ver < 4
      BY <1>1, <1>3, <2>2, <3>2, FindCoordinatorModified
    <3>3. QED
      BY <1>2, <3>1, <3>2
  <2>3. QED
    BY <2>1, <2>2
<1>6. PICK c, d, m : c = s.encode[r.value] /\ d = DecodeSchema(c, s) /\ m = Modify(d.value)
  OBVIOUS
<1>7. d = IF s.readable[r.value] THEN Ok(r.value, Len(c)) ELSE Failed
  BY <1>1, <1>4, <1>6, DecodeWhole
<1>8. Apply(r.key, s, c) = IF d.ok /\ m.ok THEN EncodeSchema(m.value, s) ELSE Failed
  BY <1>6, Zenon DEF Apply
<1> HIDE DEF Modify
<1>9. PICK new : new = s.encode[LocalValue(r)]
  OBVIOUS
<1>10. Apply(r.key, s, c) = IF /\ s.readable[r.value] /\ ~Unmapped(Nodes(r))
                               /\ s.encodable[LocalValue(r)] /\ Len(new) <= MaxMessage
                            THEN Ok(new, Len(new)) ELSE Failed
  <2>1. CASE ~s.readable[r.value]
    <3>1. ~d.ok
      BY <1>7, <2>1 DEF Failed
    <3>2. QED
      BY <1>8, <2>1, <3>1, Zenon
  <2>2. CASE s.readable[r.value]
    <3>1. d.ok /\ d.value = r.value
      BY <1>7, <2>2 DEF Ok
    <3>2. m = IF Unmapped(Nodes(r)) THEN Failed ELSE Ok(LocalValue(r), 0)
      BY <1>5, <1>6, <3>1
    <3>3. CASE Unmapped(Nodes(r))
      <4>1. ~m.ok
        BY <3>2, <3>3 DEF Failed
      <4>2. QED
        BY <1>8, <3>3, <4>1, Zenon
    <3>4. CASE ~Unmapped(Nodes(r))
      <4>1. m.ok /\ m.value = LocalValue(r)
        BY <3>2, <3>4 DEF Ok
      <4>2. EncodeSchema(LocalValue(r), s) = IF s.encodable[LocalValue(r)] /\ Len(new) <= MaxMessage
                                             THEN Ok(new, Len(new)) ELSE Failed
        BY <1>4, <1>5, <1>9, EncodeWhole
      <4>3. QED
        BY <1>8, <2>2, <3>1, <3>4, <4>1, <4>2, Zenon
    <3>5. QED
      BY <3>3, <3>4
  <2>3. QED
    BY <2>1, <2>2
<1>11. QED
  BY <1>1, <1>4, <1>5, <1>6, <1>9, <1>10

------------------------------------------------------------------------------
(* The streams.                                                             *)

\* Streams are joined in any order, and begin with the first.
LEMMA Assoc ==
    ASSUME NEW a \in Seq(Int), NEW b \in Seq(Int), NEW c \in Seq(Int)
    PROVE  (a \o b) \o c = a \o (b \o c)
BY ConcatAssociative

\* A joined stream begins with its first part.
LEMMA Begins ==
    ASSUME NEW a \in Seq(Int), NEW b \in Seq(Int)
    PROVE  a \o b \in Seq(Int) /\ \A j \in 1..Len(a) : (a \o b)[j] = a[j]
OBVIOUS

\* What is in front can be cut off.
LEMMA CutFront ==
    ASSUME NEW a \in Seq(Int), NEW b \in Seq(Int)
    PROVE  /\ SubSeq(a \o b, 1, Len(a)) = a /\ Drop(a \o b, Len(a)) = b
           /\ a \o b \in Seq(Int) /\ Len(a \o b) = Len(a) + Len(b) /\ Len(a) \in Nat /\ Len(b) \in Nat
<1>1. PICK c : c = a \o b
  OBVIOUS
<1>2. c \in Seq(Int) /\ Len(c) = Len(a) + Len(b) /\ Len(a) \in Nat /\ Len(b) \in Nat
  BY <1>1
<1>3. Holds(c, 0, a) /\ Holds(c, Len(a), b)
  BY <1>1, HoldsHalves
<1>4. SubSeq(c, 1, Len(a)) = a
  <2>1. SubSeq(c, 0 + 1, 0 + Len(a)) = a
    BY <1>2, <1>3, HoldsSubSeq
  <2>2. 0 + 1 = 1 /\ 0 + Len(a) = Len(a)
    BY <1>2
  <2>3. QED
    BY <2>1, <2>2, Zenon
<1>5. Drop(c, Len(a)) = b
  <2>1. SubSeq(c, Len(a) + 1, Len(a) + Len(b)) = b
    BY <1>2, <1>3, HoldsSubSeq
  <2>2. QED
    BY <1>2, <2>1, Zenon DEF Drop
<1>6. QED
  BY <1>1, <1>2, <1>4, <1>5

\* A beginning of a stream is a prefix of it.
LEMMA PrefixOf ==
    ASSUME NEW a \in Seq(Int), NEW b \in Seq(Int)
    PROVE  IsPrefix(a, a \o b)
<1>1. SubSeq(a \o b, 1, Len(a)) = a /\ Len(a \o b) = Len(a) + Len(b) /\ Len(a) \in Nat /\ Len(b) \in Nat
  BY CutFront
<1>2. SubSeq(a, 1, Len(a)) = a
  BY SubSeqFull
<1>3. Len(a) <= Len(a \o b)
  BY <1>1
<1>4. QED
  BY <1>1, <1>2, <1>3 DEF IsPrefix

\* A part of what comes next is a prefix of it.
LEMMA PartOf ==
    ASSUME NEW a \in Seq(Int), NEW n \in 0..Len(a)
    PROVE  SubSeq(a, 1, n) \in Seq(Int) /\ \E b \in Seq(Int) : a = SubSeq(a, 1, n) \o b
<1>1. PICK m \in Nat : m = Len(a)
  OBVIOUS
<1>2. n \in 0..m /\ SubSeq(a, 1, n) \in Seq(Int) /\ SubSeq(a, n + 1, m) \in Seq(Int)
  BY <1>1
<1>3. SubSeq(a, 1, n) \o SubSeq(a, n + 1, m) = SubSeq(a, 1, m)
  <2>1. 1 \in 1..m + 1 /\ n \in 1 - 1..m /\ m \in n..m
    BY <1>2
  <2>2. QED
    BY <1>1, <2>1, ConcatAdjacentSubSeq
<1>4. SubSeq(a, 1, m) = a
  BY <1>1, SubSeqFull
<1>5. QED
  BY <1>2, <1>3, <1>4

\* Parts joined depend on these parts only.
LEMMA JoinedAgree ==
    ASSUME NEW n \in Nat, NEW m \in Nat, n <= m, NEW p, NEW q, \A k \in 1..n : p[k] = q[k]
    PROVE  JoinedUpTo(m, q)[n] = Joined(n, p)
<1> DEFINE P == JoinedUpTo(n, p)
<1> DEFINE Q == JoinedUpTo(m, q)
<1>1. P[0] = <<>> /\ \A k \in 1..n : P[k] = P[k - 1] \o p[k]
  BY JoinedSteps
<1>2. Q[0] = <<>> /\ \A k \in 1..m : Q[k] = Q[k - 1] \o q[k]
  BY JoinedSteps
<1> HIDE DEF P, Q
<1> DEFINE S == {k \in Nat : k <= n => P[k] = Q[k]}
<1>3. 0 \in S
  BY <1>1, <1>2
<1>4. ASSUME NEW k \in Nat, k \in S PROVE k + 1 \in S
  <2>1. SUFFICES ASSUME k + 1 <= n PROVE P[k + 1] = Q[k + 1]
    OBVIOUS
  <2>2. k + 1 \in 1..n /\ k + 1 \in 1..m /\ (k + 1) - 1 = k /\ P[k] = Q[k]
    BY <1>4, <2>1
  <2>3. P[k + 1] = P[(k + 1) - 1] \o p[k + 1] /\ Q[k + 1] = Q[(k + 1) - 1] \o q[k + 1] /\ p[k + 1] = q[k + 1]
    BY <1>1, <1>2, <2>2, Zenon
  <2>4. QED
    BY <2>2, <2>3, Zenon
<1>5. \A k \in Nat : k \in S
  <2> HIDE DEF S
  <2>1. QED
    BY <1>3, <1>4, Induction
<1>6. P[n] = Q[n]
  BY <1>5
<1>7. QED
  BY <1>6 DEF P, Q, Joined

\* One more part.
LEMMA JoinedNext ==
    ASSUME NEW n \in Nat, NEW p, NEW q, \A k \in 1..n : p[k] = q[k]
    PROVE  Joined(n + 1, q) = Joined(n, p) \o q[n + 1] /\ Joined(0, p) = <<>>
<1>1. n + 1 \in Nat /\ n <= n + 1 /\ n + 1 \in 1..n + 1 /\ (n + 1) - 1 = n
  OBVIOUS
<1>2. JoinedUpTo(n + 1, q)[n + 1] = JoinedUpTo(n + 1, q)[(n + 1) - 1] \o q[n + 1]
  BY <1>1, JoinedSteps
<1>3. JoinedUpTo(n + 1, q)[n] = Joined(n, p)
  BY <1>1, JoinedAgree
<1>4. JoinedUpTo(0, p)[0] = <<>>
  BY JoinedSteps
<1>5. QED
  BY <1>1, <1>2, <1>3, <1>4, Zenon DEF Joined

\* The cells of the first n replies as the broker sends them, and as the client should
\* have them.
FramesOf(s, n) == Joined(n, [i \in 1..n |-> Frame(s[i])])
ClientFramesOf(s, n) == Joined(n, [i \in 1..n |-> ClientFrame(s[i])])

\* One more reply.
LEMMA FramesNext ==
    ASSUME NEW s, NEW n \in Nat
    PROVE  /\ FramesOf(s, n + 1) = FramesOf(s, n) \o Frame(s[n + 1]) /\ FramesOf(s, 0) = <<>>
           /\ ClientFramesOf(s, n + 1) = ClientFramesOf(s, n) \o ClientFrame(s[n + 1])
           /\ ClientFramesOf(s, 0) = <<>>
<1>0. n + 1 \in 1..n + 1 /\ \A k \in 1..n : k \in 1..n + 1
  OBVIOUS
<1>1. ASSUME NEW p, NEW q, NEW z, p = [i \in 1..n |-> Frame(s[i])], q = [i \in 1..n + 1 |-> Frame(s[i])],
             z = [i \in 1..0 |-> Frame(s[i])]
      PROVE  Joined(n + 1, q) = Joined(n, p) \o Frame(s[n + 1]) /\ Joined(0, z) = <<>>
  <2>1. q[n + 1] = Frame(s[n + 1]) /\ \A k \in 1..n : p[k] = q[k]
    BY <1>0, <1>1
  <2>2. \A k \in 1..0 : z[k] = z[k]
    OBVIOUS
  <2>3. Joined(0, z) = <<>>
    BY <2>2, JoinedNext
  <2>4. QED
    BY <2>1, <2>3, JoinedNext
<1>2. ASSUME NEW p, NEW q, NEW z, p = [i \in 1..n |-> ClientFrame(s[i])], q = [i \in 1..n + 1 |-> ClientFrame(s[i])],
             z = [i \in 1..0 |-> ClientFrame(s[i])]
      PROVE  Joined(n + 1, q) = Joined(n, p) \o ClientFrame(s[n + 1]) /\ Joined(0, z) = <<>>
  <2>1. q[n + 1] = ClientFrame(s[n + 1]) /\ \A k \in 1..n : p[k] = q[k]
    BY <1>0, <1>2
  <2>2. \A k \in 1..0 : z[k] = z[k]
    OBVIOUS
  <2>3. Joined(0, z) = <<>>
    BY <2>2, JoinedNext
  <2>4. QED
    BY <2>1, <2>3, JoinedNext
<1>3. QED
  BY <1>1, <1>2, Zenon DEF FramesOf, ClientFramesOf

------------------------------------------------------------------------------
(* The replies.                                                             *)

\* BrokerAssumption, of one reply.
Allowed(r) ==
    /\ r \in Replied
    /\ Opened(r) \/ ForProxy(r) => r.value \in Layout(r).values /\ ~r.raw
    /\ r.raw => r.cells = <<>>
    /\ ~r.raw => r.flexible = (ResponseHeaderVersion(r) = 1)
    /\ ForProxy(r) => ~r.flexible /\ isProxyReauthResponse(r, [CorrelationID |-> r.id])

\* Every reply of a stream is allowed.
LEMMA StreamsAllowed ==
    ASSUME NEW s \in Streams
    PROVE  s \in Seq(Replied) /\ \A i \in 1..Len(s) : Allowed(s[i])
<1>1. s \in Seq(Replied)
  BY BrokerAssumption
<1>2. DOMAIN s = 1..Len(s)
  BY <1>1
<1>3. ASSUME NEW i \in 1..Len(s) PROVE Allowed(s[i])
  <2>1. s[i] \in Replied
    BY <1>1
  <2>2. PICK r : r = s[i]
    OBVIOUS
  <2>3. /\ Opened(r) \/ ForProxy(r) => r.value \in Layout(r).values /\ ~r.raw
        /\ r.raw => r.cells = <<>>
        /\ ~r.raw => r.flexible = (ResponseHeaderVersion(r) = 1)
        /\ ForProxy(r) => ~r.flexible /\ isProxyReauthResponse(r, [CorrelationID |-> r.id])
    BY <1>2, <2>2, BrokerAssumption, Zenon
  <2>4. QED
    BY <2>1, <2>2, <2>3 DEF Allowed
<1>4. QED
  BY <1>1, <1>3

\* The fields of a reply.
LEMMA ReplyFields ==
    ASSUME NEW r \in Replied
    PROVE  /\ r.key \in Nat /\ r.version \in Nat /\ r.id \in Int /\ r.flexible \in BOOLEAN /\ r.raw \in BOOLEAN
           /\ r.tags \in SchemaTaggedFields.values /\ r.cells \in Seq(Int)
BY DEF Replied

\* A reply for the proxy is none that is opened.
LEMMA ForProxyKeys ==
    ASSUME NEW r, Allowed(r), ForProxy(r)
    PROVE  ~Opened(r) /\ ~r.raw /\ ~r.flexible
<1>1. r.key \in {17, 36}
  BY DEF Allowed, isProxyReauthResponse, apiKeySaslHandshake, apiKeySaslAuthenticate
<1>2. QED
  BY <1>1 DEF Allowed, Opened, apiKeyMetadata, apiKeyFindCoordinator

\* The layouts are sound.
LEMMA LayoutSound ==
    ASSUME NEW r, Allowed(r), Opened(r) \/ ForProxy(r)
    PROVE  Sound(Layout(r)) /\ Body(r) = Layout(r).encode[r.value] /\ r.value \in Layout(r).values
<1>1. r.value \in Layout(r).values
  BY DEF Allowed
<1>2. Body(r) = Layout(r).encode[r.value]
  BY DEF Body
<1>3. CASE Opened(r)
  <2>1. r.version \in Nat
    BY ReplyFields DEF Allowed
  <2>2. Sound(Layout(r))
    BY <1>1, <1>3, <2>1, ApplyRewrites
  <2>3. QED
    BY <1>1, <1>2, <2>2
<1>4. CASE ~Opened(r)
  <2>1. Layout(r) = SaslLayout(r.id)
    BY <1>4 DEF Layout
  <2>2. Sound(SaslHandshakeResponseV0orV1)
    BY SaslResponses, PlaceSchema
  <2>3. Sound(SaslAuthenticateResponseV1)
    BY SaslResponses, PlaceSchema
  <2>4. Sound(Layout(r))
    BY <2>1, <2>2, <2>3 DEF SaslLayout
  <2>5. QED
    BY <1>1, <1>2, <2>4
<1>5. QED
  BY <1>3, <1>4

\* What the proxy makes of its own replies.
LEMMA SaslRead ==
    ASSUME NEW r, Allowed(r), ForProxy(r)
    PROVE  /\ Layout(r) = SaslLayout(r.id)
           /\ DecodeSchema(Body(r), SaslLayout(r.id)) =
                  IF Layout(r).readable[r.value] THEN Ok(r.value, Len(Body(r))) ELSE Failed
           /\ r.id = reauthCorrelationID => Lifetime(r) \in Int
<1>1. Layout(r) = SaslLayout(r.id)
  BY ForProxyKeys DEF Layout
<1>2. Sound(Layout(r)) /\ Body(r) = Layout(r).encode[r.value] /\ r.value \in Layout(r).values
  BY LayoutSound
<1>3. DecodeSchema(Body(r), Layout(r)) =
          IF Layout(r).readable[r.value] THEN Ok(r.value, Len(Body(r))) ELSE Failed
  <2>1. PICK s, v : s = Layout(r) /\ v = r.value
    OBVIOUS
  <2>2. Sound(s) /\ v \in s.values /\ Body(r) = s.encode[v]
    BY <1>2, <2>1
  <2>3. DecodeSchema(s.encode[v], s) = IF s.readable[v] THEN Ok(v, Len(s.encode[v])) ELSE Failed
    BY <2>2, DecodeWhole
  <2>4. QED
    BY <2>1, <2>2, <2>3
<1>4. ASSUME r.id = reauthCorrelationID PROVE Lifetime(r) \in Int
  <2>1. Layout(r) = SaslAuthenticateResponseV1
    BY <1>1, <1>4 DEF SaslLayout, reauthCorrelationID, reauthHandshakeCorrelationID
  <2>2. PICK f : SaslAuthenticateResponseV1 = NewSchema(f) /\ Place(f, 4, "session_lifetime_ms", TypeNumber)
    BY SaslResponses
  <2>3. PICK v : v = r.value
    OBVIOUS
  <2>4. v.items[4] \in TypeNumber.values
    <3>1. v \in NewSchema(f).values
      BY <1>2, <2>1, <2>2, <2>3
    <3>2. QED
      BY <2>2, <3>1, StructItems
  <2>5. TypeNumber.values = {w \in Values : w.items = <<>> /\ Len(w.cells) = 1 /\ w.cells[1] \in Int}
    BY DEF TypeNumber, Number
  <2>6. v.items[4].cells[1] \in Int
    BY <2>4, <2>5
  <2>7. QED
    BY <2>3, <2>6 DEF Lifetime
<1>5. QED
  BY <1>1, <1>3, <1>4

\* The tagged fields of a header are always read, to their end.
LEMMA TagsRead ==
    ASSUME NEW r, Allowed(r)
    PROVE  /\ TagCells(r) \in Seq(Int)
           /\ r.flexible => /\ Len(TagCells(r)) >= 1
                            /\ \A rest \in Seq(Int) :
                                  SchemaTaggedFields.decode[TagCells(r) \o rest][0] = Ok(r.tags, Len(TagCells(r)))
<1>1. PICK s, v : s = SchemaTaggedFields /\ v = r.tags
  OBVIOUS
<1>2. Sound(s) /\ v \in s.values /\ v \in Values
  BY <1>1, TypesSound, ReplyFields DEF Allowed, Sound
<1>3. Returns(s, v)
  BY <1>2 DEF Sound
<1>4. PICK c : c = s.encode[v]
  OBVIOUS
<1>5. c \in Seq(Int) /\ Len(c) >= 1 /\ \A raw \in Seq(Int) : ReadsAs(raw, s, v, c)
  BY <1>3, <1>4 DEF Returns
<1>6. s.readable[v]
  <2>1. ASSUME NEW w \in rawTaggedField.values PROVE rawTaggedField.readable[w]
    <3>1. PICK x, y : x = Field("tag", TypeNumber) /\ y = Field("data", String("varintBytes"))
      OBVIOUS
    <3>2. x.type = TypeNumber /\ y.type = String("varintBytes")
      BY <3>1 DEF Field
    <3>3. PICK f : f = << x, y >>
      OBVIOUS
    <3>4. DOMAIN f = {1, 2} /\ f[1] = x /\ f[2] = y
      BY <3>3
    <3>5. \A u \in Values : TypeNumber.readable[u] /\ String("varintBytes").readable[u]
      BY DEF TypeNumber, Number, String
    <3>6. rawTaggedField = NewSchema(f)
      BY <3>1, <3>3 DEF rawTaggedField
    <3>7. NewSchema(f).values = {u \in Values : /\ u.cells = <<>> /\ Len(u.items) = Len(f)
                                                /\ \A j \in DOMAIN f : u.items[j] \in f[j].type.values}
      BY DEF NewSchema
    <3>8. w \in Values /\ \A j \in DOMAIN f : w.items[j] \in f[j].type.values
      BY <3>6, <3>7
    <3>9. w.items[1] \in Values /\ w.items[2] \in Values
      BY <3>2, <3>4, <3>8, NumbersSound, StringSound DEF Sound
    <3>10. NewSchema(f).readable[w] = \A i \in DOMAIN f : f[i].type.readable[w.items[i]]
      BY <3>8 DEF NewSchema
    <3>11. QED
      BY <3>2, <3>4, <3>5, <3>6, <3>9, <3>10
  <2>2. PICK type : type = rawTaggedField
    OBVIOUS
  <2>3. s = ListOf("taggedFields", type)
    BY <1>1, <2>2 DEF SchemaTaggedFields
  <2>4. s.values = {w \in Values : w.cells = <<>> /\ \A i \in DOMAIN w.items : w.items[i] \in type.values}
    BY <2>3 DEF ListOf
  <2>5. s.readable[v] = (/\ "taggedFields" = "array" => Len(v.items) <= maxArrayLength
                         /\ \A i \in DOMAIN v.items : type.readable[v.items[i]])
    BY <1>2, <2>3 DEF ListOf
  <2>6. \A i \in DOMAIN v.items : type.readable[v.items[i]]
    BY <1>2, <2>1, <2>2, <2>4
  <2>7. "taggedFields" # "array"
    OBVIOUS
  <2>8. QED
    BY <2>5, <2>6, <2>7, Zenon
<1>7. CASE ~r.flexible
  <2>1. TagCells(r) = <<>>
    BY <1>7 DEF TagCells
  <2>2. <<>> \in Seq(Int)
    OBVIOUS
  <2>3. QED
    BY <1>7, <2>1, <2>2
<1>8. CASE r.flexible
  <2>1. TagCells(r) = c
    BY <1>1, <1>4, <1>8 DEF TagCells
  <2>2. ASSUME NEW rest \in Seq(Int) PROVE s.decode[c \o rest][0] = Ok(v, Len(c))
    <3>1. PICK raw : raw = c \o rest
      OBVIOUS
    <3>2. raw \in Seq(Int) /\ Holds(raw, 0, c)
      BY <1>5, <3>1, HoldsHalves
    <3>3. s.decode[raw][0] = Ok(v, 0 + Len(c))
      BY <1>5, <1>6, <3>2 DEF ReadsAs
    <3>4. 0 + Len(c) = Len(c)
      BY <1>5
    <3>5. QED
      BY <3>1, <3>3, <3>4, Zenon
  <2>3. QED
    BY <1>1, <1>5, <2>1, <2>2
<1>9. QED
  BY <1>7, <1>8

\* What a reply is made of: its length and id, the tagged fields, the body.
Heading(r, b) == << 1 + Len(TagCells(r)) + Len(b), r.id >>

\* A frame is its heading, its tagged fields and its body, grouped either way.
LEMMA FrameParts ==
    ASSUME NEW r, r.id \in Int, TagCells(r) \in Seq(Int), Body(r) \in Seq(Int), ~r.raw
    PROVE  /\ Frame(r) = Heading(r, Body(r)) \o (TagCells(r) \o Body(r))
           /\ Frame(r) = (Heading(r, Body(r)) \o TagCells(r)) \o Body(r)
           /\ Frame(r) \in Seq(Int) /\ Frame(r)[1] = 1 + Len(TagCells(r)) + Len(Body(r))
           /\ Heading(r, Body(r)) \in Seq(Int)
<1>1. PICK t, b, h : t = TagCells(r) /\ b = Body(r) /\ h = Heading(r, b)
  OBVIOUS
<1>2. t \in Seq(Int) /\ b \in Seq(Int) /\ Len(t) \in Nat /\ Len(b) \in Nat
  BY <1>1
<1>3. PICK m \in Nat, n \in Nat : m = Len(t) /\ n = Len(b)
  BY <1>2
<1>4. h = << 1 + m + n, r.id >>
  BY <1>1, <1>3 DEF Heading
<1>5. h \in Seq(Int) /\ << 1 + m + n >> \in Seq(Int) /\ << r.id >> \in Seq(Int) /\ h[1] = 1 + m + n /\ Len(h) = 2
  BY <1>4
<1>6. h = << 1 + m + n >> \o << r.id >>
  BY <1>4
<1>7. PICK i, c : i = << r.id >> /\ c = t \o b
  OBVIOUS
<1>8. c \in Seq(Int) /\ Len(c) = m + n
  BY <1>2, <1>3, <1>7
<1>9. i \o t \o b = i \o c
  BY <1>2, <1>5, <1>7, ConcatAssociative
<1>10. Len(i \o c) = 1 + m + n
  BY <1>5, <1>7, <1>8
<1>11. Frame(r) = << Len(i \o c) >> \o (i \o c)
  BY <1>1, <1>7, <1>9, Zenon DEF Frame, Framed
<1>12. Frame(r) = << 1 + m + n >> \o (i \o c)
  BY <1>10, <1>11, Zenon
<1>13. << 1 + m + n >> \o (i \o c) = h \o c
  BY <1>5, <1>6, <1>7, <1>8, ConcatAssociative
<1>14. h \o c = (h \o t) \o b
  <2>1. h \in Seq(Int)
    BY <1>5
  <2>2. (h \o t) \o b = h \o (t \o b)
    <3>1. t \in Seq(Int) /\ b \in Seq(Int)
      BY <1>2
    <3>2. QED
      BY <2>1, <3>1, Assoc, Zenon
  <2>3. QED
    BY <1>7, <2>2, Zenon
<1>15. h \o c \in Seq(Int) /\ (h \o c)[1] = 1 + m + n
  <2>1. PICK g : g = h \o c
    OBVIOUS
  <2>2. h \in Seq(Int) /\ c \in Seq(Int) /\ Len(h) = 2
    BY <1>5, <1>8
  <2>3. g \in Seq(Int) /\ \A j \in 1..Len(h) : g[j] = h[j]
    BY <2>1, <2>2, Begins, Zenon
  <2>4. 1 \in 1..Len(h)
    BY <2>2
  <2>5. QED
    BY <1>5, <2>1, <2>3, <2>4
<1>16. QED
  BY <1>1, <1>3, <1>5, <1>7, <1>12, <1>13, <1>14, <1>15

\* The reply its client should have differs in its value only.
LEMMA ForClientFields ==
    ASSUME NEW r \in Replied
    PROVE  LET c == ForClient(r) IN
           /\ c.key = r.key /\ c.version = r.version /\ c.id = r.id /\ c.flexible = r.flexible
           /\ c.raw = r.raw /\ c.tags = r.tags /\ c.cells = r.cells
           /\ Opened(c) = Opened(r) /\ ForProxy(c) = ForProxy(r) /\ Layout(c) = Layout(r) /\ TagCells(c) = TagCells(r)
           /\ ~Opened(r) => c = r
           /\ Opened(r) => c.value = LocalValue(r)
<1>1. PICK c : c = ForClient(r)
  OBVIOUS
<1>2. /\ c.key = r.key /\ c.version = r.version /\ c.id = r.id /\ c.flexible = r.flexible
      /\ c.raw = r.raw /\ c.tags = r.tags /\ c.cells = r.cells
  BY <1>1 DEF ForClient, Replied
<1>3. ~Opened(r) => c = r
  BY <1>1 DEF ForClient
<1>4. Opened(r) => c.value = LocalValue(r)
  BY <1>1 DEF ForClient, Replied
<1>5. Opened(c) = Opened(r) /\ ForProxy(c) = ForProxy(r)
  BY <1>2 DEF Opened, ForProxy
<1>6. Layout(c) = Layout(r) /\ TagCells(c) = TagCells(r)
  BY <1>2, <1>5 DEF Layout, TagCells
<1>7. QED
  BY <1>1, <1>2, <1>3, <1>4, <1>5, <1>6

\* The cells of a reply.
LEMMA ReplyCells ==
    ASSUME NEW r, Allowed(r)
    PROVE  /\ r.id \in Int /\ TagCells(r) \in Seq(Int) /\ Body(r) \in Seq(Int) /\ Body(ForClient(r)) \in Seq(Int)
           /\ ~Opened(r) => Body(ForClient(r)) = Body(r)
           /\ Opened(r) => Body(ForClient(r)) = Layout(r).encode[LocalValue(r)]
<1>1. r \in Replied
  BY DEF Allowed
<1>2. r.id \in Int /\ r.cells \in Seq(Int) /\ r.version \in Nat
  BY <1>1, ReplyFields
<1>3. TagCells(r) \in Seq(Int)
  BY TagsRead
<1>4. Body(r) \in Seq(Int)
  <2>1. CASE Opened(r) \/ ForProxy(r)
    <3>1. Sound(Layout(r)) /\ Body(r) = Layout(r).encode[r.value] /\ r.value \in Layout(r).values
      BY <2>1, LayoutSound
    <3>2. QED
      BY <3>1 DEF Sound, Returns
  <2>2. CASE ~(Opened(r) \/ ForProxy(r))
    BY <1>2, <2>2 DEF Body
  <2>3. QED
    BY <2>1, <2>2
<1>5. CASE ~Opened(r)
  <2>1. ForClient(r) = r
    BY <1>5 DEF ForClient
  <2>2. QED
    BY <1>2, <1>3, <1>4, <1>5, <2>1
<1>6. CASE Opened(r)
  <2>1. PICK c : c = ForClient(r)
    OBVIOUS
  <2>2. Opened(c) /\ Layout(c) = Layout(r) /\ c.value = LocalValue(r)
    BY <1>1, <1>6, <2>1, ForClientFields
  <2>3. Body(c) = Layout(r).encode[LocalValue(r)]
    BY <2>2 DEF Body
  <2>4. Sound(Layout(r)) /\ LocalValue(r) \in Layout(r).values
    <3>1. r.value \in Layout(r).values
      BY <1>6 DEF Allowed
    <3>2. QED
      BY <1>2, <1>6, <3>1, ApplyRewrites
  <2>5. Body(c) \in Seq(Int)
    BY <2>3, <2>4 DEF Sound, Returns
  <2>6. QED
    BY <1>2, <1>3, <1>4, <1>6, <2>1, <2>3, <2>5
<1>7. QED
  BY <1>5, <1>6

\* A reply on the wire, and what the client should have of it.
LEMMA FrameCells ==
    ASSUME NEW r, Allowed(r)
    PROVE  /\ Frame(r) \in Seq(Int) /\ Len(Frame(r)) >= 1 /\ ClientFrame(r) \in Seq(Int)
           /\ r.raw => Frame(r) = << 0 >> /\ ClientFrame(r) = << 0 >> /\ ~ForProxy(r)
           /\ ~r.raw => Frame(r) = Heading(r, Body(r)) \o (TagCells(r) \o Body(r))
           /\ ~r.raw => Frame(r)[1] = 1 + Len(TagCells(r)) + Len(Body(r))
           /\ ForProxy(r) => ClientFrame(r) = <<>>
           /\ ~r.raw /\ ~ForProxy(r) =>
                 ClientFrame(r) = (Heading(r, Body(ForClient(r))) \o TagCells(r)) \o Body(ForClient(r))
<1>1. /\ r.id \in Int /\ TagCells(r) \in Seq(Int) /\ Body(r) \in Seq(Int) /\ Body(ForClient(r)) \in Seq(Int)
      /\ r \in Replied
  BY ReplyCells DEF Allowed
<1>2. PICK c : c = ForClient(r)
  OBVIOUS
<1>3. c.id = r.id /\ c.raw = r.raw /\ TagCells(c) = TagCells(r) /\ (~Opened(r) => c = r)
  BY <1>1, <1>2, ForClientFields
<1>4. ClientFrame(r) = IF ForProxy(r) THEN <<>> ELSE Frame(c)
  BY <1>2 DEF ClientFrame
<1>5. CASE r.raw
  <2>1. r.cells = <<>> /\ ~Opened(r) /\ ~ForProxy(r)
    BY <1>5 DEF Allowed
  <2>2. Frame(r) = << Len(<<>>) >> \o <<>>
    BY <1>5, <2>1 DEF Frame, Framed
  <2>3. << Len(<<>>) >> \o <<>> = << 0 >> /\ << 0 >> \in Seq(Int) /\ Len(<< 0 >>) = 1
    OBVIOUS
  <2>4. Frame(r) = << 0 >> /\ ClientFrame(r) = << 0 >>
    BY <1>3, <1>4, <2>1, <2>2, <2>3
  <2>5. QED
    BY <1>5, <2>1, <2>3, <2>4
<1>6. CASE ~r.raw
  <2>1. /\ Frame(r) = Heading(r, Body(r)) \o (TagCells(r) \o Body(r))
        /\ Frame(r) \in Seq(Int) /\ Frame(r)[1] = 1 + Len(TagCells(r)) + Len(Body(r))
        /\ Heading(r, Body(r)) \in Seq(Int)
    BY <1>1, <1>6, FrameParts
  <2>2. Len(Frame(r)) >= 1
    <3>1. PICK h, b : h = Heading(r, Body(r)) /\ b = TagCells(r) \o Body(r)
      OBVIOUS
    <3>2. h \in Seq(Int) /\ Len(h) = 2
      BY <2>1, <3>1 DEF Heading
    <3>3. b \in Seq(Int)
      BY <1>1, <3>1
    <3>4. Len(h \o b) = Len(h) + Len(b) /\ Len(b) \in Nat
      BY <3>2, <3>3, CutFront, Zenon
    <3>5. Len(h \o b) >= 1
      BY <3>2, <3>4
    <3>6. QED
      BY <2>1, <3>1, <3>5, Zenon
  <2>3. Frame(c) = (Heading(c, Body(c)) \o TagCells(c)) \o Body(c) /\ Frame(c) \in Seq(Int)
    BY <1>1, <1>2, <1>3, <1>6, FrameParts
  <2>4. Heading(c, Body(c)) = Heading(r, Body(c))
    BY <1>3 DEF Heading
  <2>5. <<>> \in Seq(Int)
    OBVIOUS
  <2>6. ClientFrame(r) \in Seq(Int)
    BY <1>4, <2>3, <2>5
  <2>7. ~ForProxy(r) => ClientFrame(r) = (Heading(r, Body(c)) \o TagCells(r)) \o Body(c)
    BY <1>3, <1>4, <2>3, <2>4
  <2>8. QED
    BY <1>2, <1>4, <1>6, <2>1, <2>2, <2>6, <2>7
<1>7. QED
  BY <1>5, <1>6

\* The streams of the first replies are sequences, and the longer begin with the shorter.
LEMMA FramesTyped ==
    ASSUME NEW s \in Streams
    PROVE  \A n \in Nat : n <= Len(s) => FramesOf(s, n) \in Seq(Int) /\ ClientFramesOf(s, n) \in Seq(Int)
<1>1. s \in Seq(Replied) /\ \A i \in 1..Len(s) : Allowed(s[i])
  BY StreamsAllowed
<1> DEFINE S == {n \in Nat : n <= Len(s) => FramesOf(s, n) \in Seq(Int) /\ ClientFramesOf(s, n) \in Seq(Int)}
<1>2. 0 \in S
  <2>1. FramesOf(s, 0) = <<>> /\ ClientFramesOf(s, 0) = <<>>
    BY FramesNext
  <2>2. <<>> \in Seq(Int)
    OBVIOUS
  <2>3. QED
    BY <2>1, <2>2
<1>3. ASSUME NEW n \in Nat, n \in S PROVE n + 1 \in S
  <2>1. SUFFICES ASSUME n + 1 <= Len(s)
                 PROVE  FramesOf(s, n + 1) \in Seq(Int) /\ ClientFramesOf(s, n + 1) \in Seq(Int)
    OBVIOUS
  <2>2. Len(s) \in Nat
    BY <1>1
  <2>3. n <= Len(s) /\ n + 1 \in 1..Len(s)
    BY <2>1, <2>2
  <2>4. PICK a, b, x, y : /\ a = FramesOf(s, n) /\ b = ClientFramesOf(s, n)
                          /\ x = Frame(s[n + 1]) /\ y = ClientFrame(s[n + 1])
    OBVIOUS
  <2>5. a \in Seq(Int) /\ b \in Seq(Int)
    BY <1>3, <2>3, <2>4
  <2>6. x \in Seq(Int) /\ y \in Seq(Int)
    BY <1>1, <2>3, <2>4, FrameCells
  <2>7. a \o x \in Seq(Int) /\ b \o y \in Seq(Int)
    BY <2>5, <2>6
  <2>8. QED
    BY <2>4, <2>7, FramesNext
<1>4. \A n \in Nat : n \in S
  <2> HIDE DEF S
  <2>1. QED
    BY <1>2, <1>3, Induction
<1>5. QED
  BY <1>4

\* A longer stream begins with every shorter one.
LEMMA FramesGrow ==
    ASSUME NEW s \in Streams, NEW k \in Nat
    PROVE  \A n \in Nat : k <= n /\ n <= Len(s) =>
               \E rest \in Seq(Int) : FramesOf(s, n) = FramesOf(s, k) \o rest
<1>1. s \in Seq(Replied) /\ Len(s) \in Nat /\ \A i \in 1..Len(s) : Allowed(s[i])
  BY StreamsAllowed
<1>2. \A n \in Nat : n <= Len(s) => FramesOf(s, n) \in Seq(Int)
  BY FramesTyped
<1> DEFINE P(n) == \E rest \in Seq(Int) : FramesOf(s, n) = FramesOf(s, k) \o rest
<1> DEFINE S == {n \in Nat : k <= n /\ n <= Len(s) => P(n)}
<1>3. ASSUME NEW n \in Nat, n = k, n <= Len(s) PROVE P(n)
  <2>1. PICK a : a = FramesOf(s, k)
    OBVIOUS
  <2>2. a \in Seq(Int)
    BY <1>2, <1>3, <2>1
  <2>3. a = a \o <<>> /\ <<>> \in Seq(Int)
    BY <2>2
  <2>4. QED
    BY <1>3, <2>1, <2>3
<1>4. 0 \in S
  <2>1. ASSUME k <= 0, 0 <= Len(s) PROVE P(0)
    <3>1. k = 0
      BY <2>1
    <3> HIDE DEF P
    <3>2. QED
      BY <1>3, <2>1, <3>1
  <2>2. QED
    BY <2>1
<1>5. ASSUME NEW n \in Nat, n \in S PROVE n + 1 \in S
  <2>1. SUFFICES ASSUME k <= n + 1, n + 1 <= Len(s) PROVE P(n + 1)
    OBVIOUS
  <2>2. CASE k = n + 1
    <3> HIDE DEF P
    <3>1. QED
      BY <1>3, <2>1, <2>2
  <2>3. CASE k # n + 1
    <3>1. k <= n /\ n <= Len(s) /\ n + 1 \in 1..Len(s)
      BY <1>1, <2>1, <2>3
    <3>2. PICK rest \in Seq(Int) : FramesOf(s, n) = FramesOf(s, k) \o rest
      BY <1>5, <3>1
    <3>3. PICK a, x : a = FramesOf(s, k) /\ x = Frame(s[n + 1])
      OBVIOUS
    <3>4. a \in Seq(Int) /\ x \in Seq(Int)
      <4>1. k <= Len(s)
        BY <1>1, <3>1
      <4>2. QED
        BY <1>1, <1>2, <3>1, <3>3, <4>1, FrameCells
    <3>5. FramesOf(s, n + 1) = (a \o rest) \o x
      BY <3>2, <3>3, FramesNext
    <3>6. (a \o rest) \o x = a \o (rest \o x) /\ rest \o x \in Seq(Int)
      BY <3>4, Assoc, Begins
    <3>7. QED
      BY <3>3, <3>5, <3>6
  <2>4. QED
    BY <2>2, <2>3
<1>6. \A n \in Nat : n \in S
  <2> HIDE DEF S
  <2>1. QED
    BY <1>4, <1>5, Induction
<1>7. QED
  BY <1>6

------------------------------------------------------------------------------
(* The inductive invariant.                                                 *)

\* The streams at reply k + 1 of s, when n replies have been sent and the cells c are
\* still to be read: none of the reply has been read, or all but the cells in left.
Waiting(s, k, n, c) == FramesOf(s, k) \o c = FramesOf(s, n)
Reading(s, k, n, c, left) ==
    \E rest \in Seq(Int) : c = left \o rest /\ FramesOf(s, k + 1) \o rest = FramesOf(s, n)

\* What the client has while reply k + 1, which is r, is handled, and what the proxy
\* has kept of it.
Untouched(k) == dst = ClientFramesOf(replies, k)
Holding(k, r) == k < sent /\ r = replies[k + 1] /\ ~r.raw
Headed(r, b) == << header.Length, header.CorrelationID >> = Heading(r, b)

AtHeader(k) == Waiting(replies, k, sent, src) /\ Untouched(k)
AtTagged(k, r) ==
    /\ Holding(k, r) /\ Headed(r, Body(r)) /\ Untouched(k)
    /\ Reading(replies, k, sent, src, TagCells(r) \o Body(r))
AtModify(k, r) ==
    /\ Holding(k, r) /\ Headed(r, Body(r)) /\ Untouched(k)
    /\ tagged = TagCells(r) /\ ~ForProxy(r)
    /\ Reading(replies, k, sent, src, Body(r))

\* From the first write on, the reply is one that can be delivered.
Kept(k, r) ==
    IF body = None
    THEN Body(ForClient(r)) = Body(r) /\ Reading(replies, k, sent, src, Body(r))
    ELSE body = << Body(ForClient(r)) >> /\ Reading(replies, k, sent, src, <<>>)
Writing(k, r) ==
    /\ Holding(k, r) /\ Headed(r, Body(ForClient(r))) /\ Kept(k, r)
    /\ tagged = TagCells(r) /\ ~ForProxy(r) /\ ~Refusable(r)
Written(k, part) == dst = ClientFramesOf(replies, k) \o part

AtRefused(k, r) == k < sent /\ r = replies[k + 1] /\ Refusable(r) /\ Untouched(k)
AtClosed(k, r) ==
    \/ Untouched(k)
    \/ /\ k < Len(replies) /\ r = replies[k + 1] /\ ~Refusable(r) /\ ~ForProxy(r)
       /\ \E part \in Seq(Int) : Written(k, part) /\ \E rest \in Seq(Int) : ClientFrame(r) = part \o rest

Agrees(k, r) ==
    /\ pc = "header" => AtHeader(k)
    /\ pc = "tagged" => AtTagged(k, r)
    /\ pc = "modify" => AtModify(k, r)
    /\ pc = "writeHeader" => Writing(k, r) /\ Untouched(k)
    /\ pc = "writeTagged" => Writing(k, r) /\ Written(k, Heading(r, Body(ForClient(r))))
    /\ pc = "writeBody" => Writing(k, r) /\ Written(k, Heading(r, Body(ForClient(r))) \o TagCells(r))
    /\ pc = "refused" => AtRefused(k, r)
    /\ pc = "closed" => AtClosed(k, r)

IInv == TypeOK /\ replies \in Streams /\ SessionCurrent /\ Agrees(handled, replies[handled + 1])
------------------------------------------------------------------------------
(* One step: the queue and the streams.                                     *)

\* The queue begins with the reply being handled.
LEMMA QueueFacts ==
    ASSUME NEW s \in Seq(Replied), NEW k \in 0..Len(s)
    PROVE  /\ Len(Drop(s, k)) = Len(s) - k /\ Len(s) \in Nat
           /\ k < Len(s) => Head(Drop(s, k)) = s[k + 1] /\ Tail(Drop(s, k)) = Drop(s, k + 1)
           /\ Drop(s, 0) = s
<1>1. PICK n \in Nat : n = Len(s)
  OBVIOUS
<1>2. PICK q : q = SubSeq(s, k + 1, n)
  OBVIOUS
<1>3. q \in Seq(Replied) /\ Len(q) = n - k /\ \A i \in 1..n - k : q[i] = s[k + i]
  BY <1>1, <1>2
<1>4. q = Drop(s, k)
  BY <1>1, <1>2 DEF Drop
<1>5. ASSUME k < n PROVE Head(q) = s[k + 1] /\ Tail(q) = Drop(s, k + 1)
  <2>1. k + 1 \in 1..Len(s) /\ n \in k + 1..Len(s)
    BY <1>1, <1>5
  <2>2. Head(SubSeq(s, k + 1, n)) = s[k + 1] /\ Tail(SubSeq(s, k + 1, n)) = SubSeq(s, k + 1 + 1, n)
    BY <2>1, HeadTailOfSubSeq
  <2>3. QED
    BY <1>1, <1>2, <2>2, Zenon DEF Drop
<1>6. Drop(s, 0) = s
  BY <1>1, SubSeqFull DEF Drop
<1>7. QED
  BY <1>1, <1>3, <1>4, <1>5, <1>6

\* Where something can be read, it is the next reply.
LEMMA NextFrame ==
    ASSUME NEW s \in Streams, NEW n \in 0..Len(s), NEW k \in 0..n, NEW c \in Seq(Int), c # <<>>,
           Waiting(s, k, n, c)
    PROVE  k < n /\ Reading(s, k, n, c, Frame(s[k + 1]))
<1>1. s \in Seq(Replied) /\ Len(s) \in Nat /\ \A i \in 1..Len(s) : Allowed(s[i])
  BY StreamsAllowed
<1>2. n \in Nat /\ k \in Nat /\ n <= Len(s) /\ k <= Len(s)
  BY <1>1
<1>3. PICK a, b : a = FramesOf(s, k) /\ b = FramesOf(s, n)
  OBVIOUS
<1>4. a \in Seq(Int) /\ b \in Seq(Int)
  BY <1>2, <1>3, FramesTyped
<1>5. a \o c = b
  BY <1>3 DEF Waiting
<1>6. k < n
  <2>1. SUFFICES ASSUME k = n PROVE FALSE
    BY <1>2
  <2>2. a \o c = a
    BY <1>3, <1>5, <2>1
  <2>3. Len(a \o c) = Len(a) + Len(c) /\ Len(a) \in Nat /\ Len(c) \in Nat
    BY <1>4, CutFront
  <2>4. Len(c) = 0
    BY <2>2, <2>3
  <2>5. QED
    BY <2>4
<1>7. k + 1 \in Nat /\ k + 1 <= n /\ k + 1 \in 1..Len(s)
  BY <1>1, <1>2, <1>6
<1>8. PICK rest \in Seq(Int) : FramesOf(s, n) = FramesOf(s, k + 1) \o rest
  BY <1>2, <1>7, FramesGrow
<1>9. PICK x : x = Frame(s[k + 1])
  OBVIOUS
<1>10. x \in Seq(Int)
  BY <1>1, <1>7, <1>9, FrameCells
<1>11. FramesOf(s, k + 1) = a \o x
  BY <1>2, <1>3, <1>9, FramesNext
<1>12. a \o c = a \o (x \o rest) /\ x \o rest \in Seq(Int)
  <2>1. (a \o x) \o rest = a \o (x \o rest)
    BY <1>4, <1>8, <1>10, Assoc, Zenon
  <2>2. x \o rest \in Seq(Int)
    BY <1>8, <1>10, Begins, Zenon
  <2>3. QED
    BY <1>3, <1>5, <1>8, <1>11, <2>1, <2>2, Zenon
<1>13. c = x \o rest
  <2>1. PICK y : y = x \o rest
    OBVIOUS
  <2>2. y \in Seq(Int) /\ a \o c = a \o y
    BY <1>12, <2>1
  <2>3. Drop(a \o c, Len(a)) = c /\ Drop(a \o y, Len(a)) = y
    BY <1>4, <2>2, CutFront
  <2>4. QED
    BY <2>1, <2>2, <2>3, Zenon
<1>14. QED
  BY <1>6, <1>8, <1>9, <1>13 DEF Reading

\* What is left is read from the front.
LEMMA ReadFront ==
    ASSUME NEW s, NEW k, NEW n, NEW c, NEW a \in Seq(Int), NEW b \in Seq(Int), NEW left, left = a \o b,
           Reading(s, k, n, c, left)
    PROVE  \E rest \in Seq(Int) :
               /\ c = a \o rest /\ SubSeq(c, 1, Len(a)) = a /\ Drop(c, Len(a)) = rest
               /\ Reading(s, k, n, rest, b)
<1>1. PICK rest \in Seq(Int) : c = (a \o b) \o rest /\ FramesOf(s, k + 1) \o rest = FramesOf(s, n)
  BY DEF Reading
<1>2. PICK d : d = b \o rest
  OBVIOUS
<1>3. d \in Seq(Int) /\ c = a \o d
  <2>1. (a \o b) \o rest = a \o (b \o rest)
    BY <1>1, Assoc, Zenon
  <2>2. b \o rest \in Seq(Int)
    BY <1>1, Begins, Zenon
  <2>3. QED
    BY <1>1, <1>2, <2>1, <2>2, Zenon
<1>4. Reading(s, k, n, d, b)
  BY <1>1, <1>2 DEF Reading
<1>5. SubSeq(a \o d, 1, Len(a)) = a /\ Drop(a \o d, Len(a)) = d
  BY <1>3, CutFront, Zenon
<1>6. QED
  BY <1>3, <1>4, <1>5, Zenon

\* When everything is read, the next reply is waited for.
LEMMA ReadAll ==
    ASSUME NEW s, NEW k, NEW n, NEW c, NEW a \in Seq(Int), Reading(s, k, n, c, a)
    PROVE  \E rest \in Seq(Int) :
               /\ c = a \o rest /\ SubSeq(c, 1, Len(a)) = a /\ Drop(c, Len(a)) = rest
               /\ Reading(s, k, n, rest, <<>>) /\ Waiting(s, k + 1, n, rest)
<1>1. PICK rest \in Seq(Int) : c = a \o rest /\ FramesOf(s, k + 1) \o rest = FramesOf(s, n)
  BY DEF Reading
<1>2. SubSeq(a \o rest, 1, Len(a)) = a /\ Drop(a \o rest, Len(a)) = rest
  BY <1>1, CutFront, Zenon
<1>3. rest = <<>> \o rest
  OBVIOUS
<1>4. Reading(s, k, n, rest, <<>>) /\ Waiting(s, k + 1, n, rest)
  BY <1>1, <1>3 DEF Reading, Waiting
<1>5. QED
  BY <1>1, <1>2, <1>4, Zenon

\* Nothing left to read of a reply.
LEMMA ReadNothing ==
    ASSUME NEW s, NEW k, NEW n, NEW c, Reading(s, k, n, c, <<>>)
    PROVE  Waiting(s, k + 1, n, c)
<1>1. PICK rest \in Seq(Int) : c = <<>> \o rest /\ FramesOf(s, k + 1) \o rest = FramesOf(s, n)
  BY DEF Reading
<1>2. <<>> \o rest = rest
  OBVIOUS
<1>3. QED
  BY <1>1, <1>2 DEF Waiting

\* Another reply goes behind what is being read.
LEMMA SendBehind ==
    ASSUME NEW s \in Streams, NEW n \in Nat, n < Len(s), NEW k \in 0..n, NEW c \in Seq(Int)
    PROVE  /\ Frame(s[n + 1]) \in Seq(Int) /\ c \o Frame(s[n + 1]) \in Seq(Int)
           /\ Waiting(s, k, n, c) => Waiting(s, k, n + 1, c \o Frame(s[n + 1]))
           /\ \A left \in Seq(Int) : k < n /\ Reading(s, k, n, c, left) =>
                  Reading(s, k, n + 1, c \o Frame(s[n + 1]), left)
<1>1. s \in Seq(Replied) /\ Len(s) \in Nat /\ \A i \in 1..Len(s) : Allowed(s[i])
  BY StreamsAllowed
<1>2. PICK x : x = Frame(s[n + 1])
  OBVIOUS
<1>3. x \in Seq(Int) /\ c \o x \in Seq(Int)
  <2>1. n + 1 \in 1..Len(s)
    BY <1>1
  <2>2. x \in Seq(Int)
    BY <1>1, <1>2, <2>1, FrameCells
  <2>3. QED
    BY <2>2, Begins
<1>4. FramesOf(s, n + 1) = FramesOf(s, n) \o x
  BY <1>2, FramesNext
<1>5. ASSUME Waiting(s, k, n, c) PROVE Waiting(s, k, n + 1, c \o x)
  <2>1. PICK a : a = FramesOf(s, k)
    OBVIOUS
  <2>2. a \in Seq(Int)
    <3>1. k \in Nat /\ k <= Len(s)
      BY <1>1
    <3>2. QED
      BY <2>1, <3>1, FramesTyped
  <2>3. a \o c = FramesOf(s, n)
    BY <1>5, <2>1 DEF Waiting
  <2>4. (a \o c) \o x = a \o (c \o x)
    BY <1>3, <2>2, Assoc, Zenon
  <2>5. QED
    BY <1>4, <2>1, <2>3, <2>4, Zenon DEF Waiting
<1>6. ASSUME NEW left \in Seq(Int), k < n, Reading(s, k, n, c, left) PROVE Reading(s, k, n + 1, c \o x, left)
  <2>1. PICK rest \in Seq(Int) : c = left \o rest /\ FramesOf(s, k + 1) \o rest = FramesOf(s, n)
    BY <1>6 DEF Reading
  <2>2. PICK a : a = FramesOf(s, k + 1)
    OBVIOUS
  <2>3. a \in Seq(Int)
    <3>1. k + 1 \in Nat /\ k + 1 <= Len(s)
      BY <1>1, <1>6
    <3>2. QED
      BY <2>2, <3>1, FramesTyped
  <2>4. PICK y : y = rest \o x
    OBVIOUS
  <2>5. y \in Seq(Int)
    BY <1>3, <2>4, Begins
  <2>6. (a \o rest) \o x = a \o y /\ (left \o rest) \o x = left \o y
    BY <1>3, <2>3, <2>4, Assoc, Zenon
  <2>7. a \o y = FramesOf(s, n + 1) /\ c \o x = left \o y
    BY <1>4, <2>1, <2>2, <2>6, Zenon
  <2>8. QED
    BY <2>2, <2>5, <2>7, Zenon DEF Reading
<1>7. QED
  BY <1>2, <1>3, <1>5, <1>6

------------------------------------------------------------------------------
(* The session, and where the invariant stands.                             *)

\* The lifetime x is the one granted last among the first k replies of s.
GrantedOf(s, k) == {i \in 1..k : s[i].id = reauthCorrelationID /\ Lifetime(s[i]) > 0}
SessionOf(s, k, x) ==
    IF GrantedOf(s, k) = {} THEN x = InitialSessionLifetime
    ELSE \E i \in GrantedOf(s, k) : x = Lifetime(s[i]) /\ \A j \in GrantedOf(s, k) : j <= i

\* SessionCurrent, of the replies handled so far.
LEMMA SessionIs == SessionCurrent <=> SessionOf(replies, handled, session)
BY Zenon DEF SessionCurrent, SessionOf, Granted, GrantedOf

\* A reply that grants nothing leaves it, one that grants a lifetime replaces it.
LEMMA SessionNext ==
    ASSUME NEW s, NEW k \in Nat, NEW x, NEW y, SessionOf(s, k, x),
           LET grants == s[k + 1].id = reauthCorrelationID /\ Lifetime(s[k + 1]) > 0
           IN  y = IF grants THEN Lifetime(s[k + 1]) ELSE x
    PROVE  SessionOf(s, k + 1, y)
<1>1. PICK G, H : G = GrantedOf(s, k) /\ H = GrantedOf(s, k + 1)
  OBVIOUS
<1>2. k + 1 \in 1..k + 1 /\ \A i \in 1..k + 1 : i # k + 1 => i \in 1..k
  OBVIOUS
<1>3. \A i \in 1..k : i \in 1..k + 1 /\ i <= k + 1 /\ i # k + 1
  OBVIOUS
<1>4. CASE s[k + 1].id = reauthCorrelationID /\ Lifetime(s[k + 1]) > 0
  <2>1. k + 1 \in H /\ y = Lifetime(s[k + 1])
    BY <1>1, <1>2, <1>4 DEF GrantedOf
  <2>2. \A j \in H : j \in 1..k + 1
    BY <1>1 DEF GrantedOf
  <2>3. \A j \in H : j <= k + 1
    BY <2>2
  <2>4. QED
    BY <1>1, <2>1, <2>3 DEF SessionOf
<1>5. CASE ~(s[k + 1].id = reauthCorrelationID /\ Lifetime(s[k + 1]) > 0)
  <2>1. H = G
    BY <1>1, <1>2, <1>3, <1>5, Zenon DEF GrantedOf
  <2>2. y = x
    BY <1>5
  <2>3. QED
    BY <1>1, <2>1, <2>2, Zenon DEF SessionOf
<1>6. QED
  BY <1>4, <1>5

\* Where the proxy is: k replies have been handled, and r is the one the queue begins
\* with.
Position(k, r) ==
    /\ k \in Nat /\ k = handled /\ k \in 0..sent /\ sent \in 0..Len(replies) /\ Len(replies) \in Nat
    /\ replies \in Streams /\ r = replies[k + 1] /\ queue = Drop(replies, k)
    /\ k < Len(replies) => r = request /\ Allowed(r) /\ Tail(queue) = Drop(replies, k + 1)
    /\ TypeOK /\ SessionOf(replies, k, session) /\ Agrees(k, r)

\* The invariant puts the proxy somewhere.
LEMMA Positioned ==
    ASSUME IInv
    PROVE  \E k, r : Position(k, r)
<1>1. PICK k, r : k = handled /\ r = replies[k + 1]
  OBVIOUS
<1>2. TypeOK /\ replies \in Streams /\ SessionCurrent /\ Agrees(k, r)
  BY <1>1 DEF IInv
<1>3. replies \in Seq(Replied) /\ \A i \in 1..Len(replies) : Allowed(replies[i])
  BY <1>2, StreamsAllowed
<1>4. Len(replies) \in Nat
  BY <1>3
<1>5. sent \in 0..Len(replies) /\ k \in 0..sent /\ queue = Drop(replies, k)
  BY <1>1, <1>2 DEF TypeOK
<1>6. k \in Nat /\ k \in 0..Len(replies) /\ (k < Len(replies) => k + 1 \in 1..Len(replies))
  BY <1>4, <1>5
<1>7. k < Len(replies) => Head(queue) = r /\ Tail(queue) = Drop(replies, k + 1)
  BY <1>1, <1>3, <1>5, <1>6, QueueFacts
<1>8. k < Len(replies) => Allowed(r)
  BY <1>1, <1>3, <1>6
<1>9. SessionOf(replies, k, session)
  BY <1>1, <1>2, SessionIs
<1>10. QED
  BY <1>1, <1>2, <1>4, <1>5, <1>6, <1>7, <1>8, <1>9 DEF Position, request

\* A step within a reply, also one by which the broker sends another.
LEMMA Within ==
    ASSUME NEW k, NEW r, Position(k, r), UNCHANGED <<replies, queue, session>>, sent' \in sent..Len(replies),
           Agrees(k, r)', pc' \in {"header", "tagged", "modify", "writeHeader", "writeTagged", "writeBody",
                                   "refused", "closed"},
           src' \in Seq(Int), dst' \in Seq(Int), tagged' \in Seq(Int), body' \in Seq(Seq(Int)),
           header' \in [Length : Nat \ {0, 1}, CorrelationID : Int]
    PROVE  IInv'
<1>1. /\ k \in Nat /\ k = handled /\ k \in 0..sent /\ sent \in 0..Len(replies) /\ Len(replies) \in Nat
      /\ replies \in Streams /\ r = replies[k + 1] /\ queue = Drop(replies, k) /\ TypeOK
      /\ SessionOf(replies, k, session)
  BY DEF Position
<1>2. handled' = k
  BY <1>1 DEF handled
<1>3. k \in 0..sent' /\ sent' \in 0..Len(replies)
  BY <1>1
<1>4. TypeOK'
  <2>1. replies' \in Seq(Replied) /\ session' \in Nat
    BY <1>1 DEF TypeOK
  <2>2. handled' \in 0..sent' /\ sent' \in 0..Len(replies') /\ queue' = Drop(replies', handled')
    BY <1>1, <1>2, <1>3
  <2>3. QED
    BY <2>1, <2>2 DEF TypeOK
<1>5. SessionCurrent'
  <2>1. SessionOf(replies', handled', session')
    BY <1>1, <1>2
  <2>2. SessionCurrent' <=> SessionOf(replies', handled', session')
    BY Zenon DEF SessionCurrent, SessionOf, Granted, GrantedOf
  <2>3. QED
    BY <2>1, <2>2
<1>6. Agrees(handled, replies[handled + 1])'
  BY <1>1, <1>2
<1>7. QED
  BY <1>1, <1>4, <1>5, <1>6 DEF IInv

\* A step that ends a reply.
LEMMA Finishes ==
    ASSUME NEW k, NEW r, Position(k, r), UNCHANGED <<replies, sent>>, k < sent, queue' = Tail(queue),
           pc' = "header", Waiting(replies, k + 1, sent, src'), dst' = ClientFramesOf(replies, k) \o ClientFrame(r),
           src' \in Seq(Int), UNCHANGED <<header, tagged, body>>,
           LET grants == r.id = reauthCorrelationID /\ Lifetime(r) > 0
           IN  session' = IF grants THEN Lifetime(r) ELSE session
    PROVE  IInv'
<1>1. /\ k \in Nat /\ k = handled /\ k \in 0..sent /\ sent \in 0..Len(replies) /\ Len(replies) \in Nat
      /\ replies \in Streams /\ r = replies[k + 1] /\ queue = Drop(replies, k)
      /\ k < Len(replies) => Allowed(r) /\ Tail(queue) = Drop(replies, k + 1)
      /\ TypeOK /\ SessionOf(replies, k, session)
  BY DEF Position
<1>2. k < Len(replies) /\ k + 1 \in 0..sent /\ k + 1 \in 0..Len(replies)
  BY <1>1
<1>3. replies \in Seq(Replied)
  BY <1>1, StreamsAllowed
<1>4. handled' = k + 1 /\ queue' = Drop(replies, k + 1)
  <2>1. queue' = Drop(replies, k + 1)
    BY <1>1, <1>2
  <2>2. Len(Drop(replies, k + 1)) = Len(replies) - (k + 1)
    BY <1>2, <1>3, QueueFacts
  <2>3. handled' = Len(replies) - (Len(replies) - (k + 1))
    BY <2>1, <2>2 DEF handled
  <2>4. QED
    BY <1>1, <2>1, <2>3
<1>5. SessionCurrent'
  <2>1. SessionOf(replies, k + 1, session')
    BY <1>1, SessionNext
  <2>2. SessionCurrent' <=> SessionOf(replies', handled', session')
    BY Zenon DEF SessionCurrent, SessionOf, Granted, GrantedOf
  <2>3. QED
    BY <1>4, <2>1, <2>2
<1>6. session' \in Nat
  <2>1. CASE r.id = reauthCorrelationID /\ Lifetime(r) > 0
    <3>1. ForProxy(r)
      BY <2>1 DEF ForProxy
    <3>2. Lifetime(r) \in Int
      BY <1>1, <1>2, <2>1, <3>1, SaslRead
    <3>3. QED
      BY <2>1, <3>2
  <2>2. CASE ~(r.id = reauthCorrelationID /\ Lifetime(r) > 0)
    BY <1>1, <2>2 DEF TypeOK
  <2>3. QED
    BY <2>1, <2>2
<1>7. dst' = ClientFramesOf(replies, k + 1) /\ dst' \in Seq(Int)
  <2>1. ClientFramesOf(replies, k + 1) = ClientFramesOf(replies, k) \o ClientFrame(r)
    BY <1>1, FramesNext
  <2>2. dst' = ClientFramesOf(replies, k + 1)
    BY <2>1
  <2>3. k + 1 \in Nat /\ k + 1 <= Len(replies)
    BY <1>1, <1>2
  <2>4. QED
    BY <1>1, <2>2, <2>3, FramesTyped
<1>8. TypeOK'
  BY <1>1, <1>2, <1>4, <1>6, <1>7 DEF TypeOK
<1>9. Agrees(k + 1, replies[k + 2])'
  BY <1>7 DEF Agrees, AtHeader, Untouched
<1>10. QED
  <2>1. (k + 1) + 1 = k + 2
    BY <1>1
  <2>2. Agrees(handled, replies[handled + 1])'
    BY <1>4, <1>9, <2>1
  <2>3. QED
    BY <1>1, <1>5, <1>8, <2>2 DEF IInv

------------------------------------------------------------------------------
(* What follows from the invariant.                                         *)

\* The client's stream is as far as the step the proxy is at.
LEMMA Progress ==
    ASSUME NEW k, NEW r, Position(k, r)
    PROVE  /\ ClientFramesOf(replies, k) \in Seq(Int)
           /\ pc \in {"header", "tagged", "modify", "writeHeader", "refused"} => Untouched(k)
           /\ \/ Untouched(k)
              \/ /\ k < Len(replies) /\ ~Refusable(r) /\ ~ForProxy(r)
                 /\ \E part \in Seq(Int) : Written(k, part) /\ \E rest \in Seq(Int) : ClientFrame(r) = part \o rest
<1>1. /\ k \in Nat /\ k \in 0..sent /\ sent \in 0..Len(replies) /\ Len(replies) \in Nat /\ replies \in Streams
      /\ k < Len(replies) => Allowed(r)
      /\ TypeOK /\ Agrees(k, r)
  BY DEF Position
<1>2. ClientFramesOf(replies, k) \in Seq(Int)
  <2>1. k <= Len(replies)
    BY <1>1
  <2>2. QED
    BY <1>1, <2>1, FramesTyped
<1>3. pc \in {"header", "tagged", "modify", "writeHeader", "writeTagged", "writeBody", "refused", "closed"}
  BY <1>1 DEF TypeOK
<1>4. ASSUME pc \in {"header", "tagged", "modify", "writeHeader", "refused"} PROVE Untouched(k)
  BY <1>1, <1>4 DEF Agrees, AtHeader, AtTagged, AtModify, AtRefused
<1>5. ASSUME pc \in {"writeTagged", "writeBody"}
      PROVE  /\ k < Len(replies) /\ ~Refusable(r) /\ ~ForProxy(r)
             /\ \E part \in Seq(Int) : Written(k, part) /\ \E rest \in Seq(Int) : ClientFrame(r) = part \o rest
  <2>1. PICK h, t, b : h = Heading(r, Body(ForClient(r))) /\ t = TagCells(r) /\ b = Body(ForClient(r))
    OBVIOUS
  <2>2. Writing(k, r) /\ (Written(k, h) \/ Written(k, h \o t))
    BY <1>1, <1>5, <2>1 DEF Agrees
  <2>3. k < Len(replies) /\ ~r.raw /\ ~Refusable(r) /\ ~ForProxy(r)
    BY <1>1, <2>2 DEF Writing, Holding
  <2>4. Allowed(r)
    BY <1>1, <2>3
  <2>5. t \in Seq(Int) /\ b \in Seq(Int) /\ r.id \in Int
    BY <2>1, <2>4, ReplyCells
  <2>6. h \in Seq(Int)
    <3>1. Len(t) \in Nat /\ Len(b) \in Nat
      BY <2>5
    <3>2. QED
      BY <2>1, <2>5, <3>1 DEF Heading
  <2>7. ClientFrame(r) = (h \o t) \o b
    BY <2>1, <2>3, <2>4, FrameCells
  <2>8. (h \o t) \o b = h \o (t \o b) /\ h \o t \in Seq(Int) /\ t \o b \in Seq(Int)
    BY <2>5, <2>6, Assoc, Begins, Zenon
  <2>9. CASE Written(k, h)
    BY <2>3, <2>6, <2>7, <2>8, <2>9
  <2>10. CASE Written(k, h \o t)
    BY <2>3, <2>5, <2>7, <2>8, <2>10
  <2>11. QED
    BY <2>2, <2>9, <2>10
<1>6. CASE pc = "closed"
  <2>1. AtClosed(k, r)
    BY <1>1, <1>6 DEF Agrees
  <2>2. QED
    BY <1>2, <1>4, <2>1 DEF AtClosed
<1>7. QED
  BY <1>2, <1>3, <1>4, <1>5, <1>6

\* The client can follow its stream.
LEMMA ClientFollows == IInv => ClientStream
<1>1. SUFFICES ASSUME IInv PROVE ClientStream
  OBVIOUS
<1>2. PICK k, r : Position(k, r)
  BY <1>1, Positioned
<1>3. k = handled /\ (k < Len(replies) => r = request /\ Allowed(r))
  BY <1>2 DEF Position
<1>4. PICK d : d = ClientFramesOf(replies, k)
  OBVIOUS
<1>5. ClientFrames(handled) = d
  BY <1>3, <1>4 DEF ClientFrames, ClientFramesOf
<1>6. d \in Seq(Int) /\ (pc = "header" => dst = d)
  BY <1>2, <1>4, Progress DEF Untouched
<1>7. \/ dst = d
      \/ /\ k < Len(replies) /\ ~Refusable(r) /\ ~ForProxy(r)
         /\ \E part \in Seq(Int) : dst = d \o part /\ \E rest \in Seq(Int) : ClientFrame(r) = part \o rest
  BY <1>2, <1>4, Progress DEF Untouched, Written
<1>8. CASE dst = d
  <2>1. d = d \o <<>> /\ <<>> \in Seq(Int)
    BY <1>6
  <2>2. IsPrefix(d, d \o <<>>)
    BY <1>6, <2>1, PrefixOf
  <2>3. IsPrefix(d, dst)
    BY <1>8, <2>1, <2>2, Zenon
  <2>4. QED
    BY <1>5, <1>8, <2>3 DEF ClientStream, Follows
<1>9. CASE dst # d
  <2>1. /\ ~Refusable(request) /\ ~ForProxy(request) /\ r = request
        /\ \E part \in Seq(Int) : dst = d \o part /\ \E rest \in Seq(Int) : ClientFrame(r) = part \o rest
    BY <1>3, <1>7, <1>9
  <2>2. PICK part \in Seq(Int), rest \in Seq(Int) : dst = d \o part /\ ClientFrame(r) = part \o rest
    BY <2>1
  <2>3. IsPrefix(d, dst)
    BY <1>6, <2>2, PrefixOf
  <2>4. d \o (part \o rest) = (d \o part) \o rest /\ d \o part \in Seq(Int)
    BY <1>6, <2>2, Assoc, Begins, Zenon
  <2>5. IsPrefix(d \o part, (d \o part) \o rest)
    BY <2>2, <2>4, PrefixOf
  <2>6. IsPrefix(dst, d \o ClientFrame(request))
    BY <2>1, <2>2, <2>4, <2>5, Zenon
  <2>7. pc # "header"
    BY <1>6, <1>9
  <2>8. QED
    BY <1>5, <2>1, <2>3, <2>6, <2>7 DEF ClientStream, Follows
<1>10. QED
  BY <1>8, <1>9

\* A refused reply cannot be delivered, and none of it has been written.
LEMMA RefusedFollows == IInv => RefusedWhole
<1>1. SUFFICES ASSUME IInv, pc = "refused" PROVE Refusable(request) /\ dst = ClientFrames(handled)
  BY DEF RefusedWhole
<1>2. PICK k, r : Position(k, r)
  BY <1>1, Positioned
<1>3. /\ k = handled /\ (k < Len(replies) => r = request) /\ Agrees(k, r)
      /\ k \in 0..sent /\ sent \in 0..Len(replies) /\ Len(replies) \in Nat
  BY <1>2 DEF Position
<1>4. k < sent /\ Refusable(r) /\ Untouched(k)
  BY <1>1, <1>3 DEF Agrees, AtRefused
<1>5. k < Len(replies)
  BY <1>3, <1>4
<1>6. ClientFrames(handled) = ClientFramesOf(replies, k)
  BY <1>3 DEF ClientFrames, ClientFramesOf
<1>7. QED
  BY <1>3, <1>4, <1>5, <1>6 DEF Untouched

------------------------------------------------------------------------------
(* The invariant is inductive.                                              *)

\* The invariant holds at the beginning.
LEMMA InitHolds == Init => IInv
<1>1. SUFFICES ASSUME Init PROVE IInv
  OBVIOUS
<1>2. /\ pc = "header" /\ replies \in Streams /\ sent = 0 /\ queue = replies /\ src = <<>> /\ dst = <<>>
      /\ header = [Length |-> 2, CorrelationID |-> 0] /\ tagged = <<>> /\ body = <<>>
      /\ session = InitialSessionLifetime /\ session \in Nat
  BY <1>1, SessionAssumption DEF Init, None
<1>3. replies \in Seq(Replied) /\ Len(replies) \in Nat
  BY <1>2, StreamsAllowed
<1>4. handled = 0
  BY <1>2, <1>3 DEF handled
<1>5. queue = Drop(replies, 0)
  <2>1. 0 \in 0..Len(replies)
    BY <1>3
  <2>2. QED
    BY <1>2, <1>3, <2>1, QueueFacts
<1>6. TypeOK
  BY <1>2, <1>3, <1>4, <1>5 DEF TypeOK
<1>7. SessionCurrent
  <2>1. Granted = {}
    BY <1>4 DEF Granted
  <2>2. QED
    BY <1>2, <2>1 DEF SessionCurrent
<1>8. FramesOf(replies, 0) = <<>> /\ ClientFramesOf(replies, 0) = <<>>
  BY FramesNext
<1>9. AtHeader(0)
  BY <1>2, <1>8 DEF AtHeader, Waiting, Untouched
<1>10. Agrees(0, replies[0 + 1])
  BY <1>2, <1>9 DEF Agrees
<1>11. QED
  BY <1>2, <1>4, <1>6, <1>7, <1>10 DEF IInv

\* A step that changes nothing keeps it.
LEMMA StutterKeeps == ASSUME IInv, UNCHANGED vars PROVE IInv'
<1>1. PICK k, r : Position(k, r)
  BY Positioned
<1>2. UNCHANGED <<pc, replies, sent, queue, src, dst, header, tagged, body, session>>
  BY DEF vars
<1>3. Agrees(k, r) /\ TypeOK /\ sent \in 0..Len(replies) /\ Len(replies) \in Nat
  BY <1>1 DEF Position
<1>4. Agrees(k, r)'
  BY <1>2, <1>3 DEF Agrees, AtHeader, AtTagged, AtModify, AtRefused, AtClosed, Writing, Holding, Headed, Kept,
                    Untouched, Written, None
<1>5. sent' \in sent..Len(replies)
  BY <1>2, <1>3
<1>6. QED
  <2>1. /\ pc' \in {"header", "tagged", "modify", "writeHeader", "writeTagged", "writeBody", "refused", "closed"}
        /\ src' \in Seq(Int) /\ dst' \in Seq(Int) /\ tagged' \in Seq(Int) /\ body' \in Seq(Seq(Int))
        /\ header' \in [Length : Nat \ {0, 1}, CorrelationID : Int]
    BY <1>2, <1>3 DEF TypeOK
  <2>2. QED
    BY <1>1, <1>2, <1>4, <1>5, <2>1, Within

\* Another reply arrives behind what is being read.
LEMMA SendKeeps == ASSUME IInv, BrokerSends PROVE IInv'
<1>1. PICK k, r : Position(k, r)
  BY Positioned
<1>2. /\ sent < Len(replies) /\ sent' = sent + 1 /\ src' = src \o Frame(replies[sent + 1])
      /\ UNCHANGED <<pc, replies, queue, dst, header, tagged, body, session>>
  BY DEF BrokerSends
<1>3. /\ k \in Nat /\ k \in 0..sent /\ sent \in 0..Len(replies) /\ Len(replies) \in Nat /\ replies \in Streams
      /\ k < Len(replies) => Allowed(r)
      /\ TypeOK /\ Agrees(k, r)
  BY <1>1 DEF Position
<1>4. /\ pc \in {"header", "tagged", "modify", "writeHeader", "writeTagged", "writeBody", "refused", "closed"}
      /\ src \in Seq(Int) /\ dst \in Seq(Int) /\ tagged \in Seq(Int) /\ body \in Seq(Seq(Int))
      /\ header \in [Length : Nat \ {0, 1}, CorrelationID : Int]
  BY <1>3 DEF TypeOK
<1>5. sent \in Nat /\ sent' \in sent..Len(replies) /\ k < Len(replies)
  BY <1>2, <1>3
<1>6. /\ src' \in Seq(Int)
      /\ Waiting(replies, k, sent, src) => Waiting(replies, k, sent', src')
      /\ \A left \in Seq(Int) : k < sent /\ Reading(replies, k, sent, src, left) =>
            Reading(replies, k, sent', src', left)
  BY <1>2, <1>3, <1>4, <1>5, SendBehind
<1>7. TagCells(r) \in Seq(Int) /\ Body(r) \in Seq(Int) /\ <<>> \in Seq(Int)
  BY <1>3, <1>5, ReplyCells
<1>8. TagCells(r) \o Body(r) \in Seq(Int)
  BY <1>7, Begins
<1>9. Untouched(k)' = Untouched(k) /\ \A part : Written(k, part)' = Written(k, part)
  BY <1>2 DEF Untouched, Written
<1>10. Holding(k, r) => Holding(k, r)'
  BY <1>2, <1>3 DEF Holding
<1>11. /\ Headed(r, Body(r))' = Headed(r, Body(r))
       /\ Headed(r, Body(ForClient(r)))' = Headed(r, Body(ForClient(r)))
  BY <1>2 DEF Headed
<1>12. Writing(k, r) => Writing(k, r)'
  <2>1. SUFFICES ASSUME Writing(k, r) PROVE Writing(k, r)'
    OBVIOUS
  <2>2. k < sent /\ Kept(k, r)
    BY <2>1 DEF Writing, Holding
  <2>3. Kept(k, r)'
    BY <1>2, <1>6, <1>7, <2>2 DEF Kept, None
  <2>4. QED
    BY <1>2, <1>10, <1>11, <2>1, <2>3 DEF Writing
<1>13. AtHeader(k) => AtHeader(k)'
  BY <1>2, <1>6, <1>9 DEF AtHeader
<1>14. AtTagged(k, r) => AtTagged(k, r)'
  BY <1>2, <1>6, <1>8, <1>9, <1>10, <1>11 DEF AtTagged, Holding
<1>15. AtModify(k, r) => AtModify(k, r)'
  BY <1>2, <1>6, <1>7, <1>9, <1>10, <1>11 DEF AtModify, Holding
<1>16. AtRefused(k, r) => AtRefused(k, r)'
  BY <1>2, <1>3, <1>9 DEF AtRefused
<1>17. AtClosed(k, r) => AtClosed(k, r)'
  BY <1>2, <1>9 DEF AtClosed
<1>18. Agrees(k, r)'
  BY <1>2, <1>3, <1>9, <1>12, <1>13, <1>14, <1>15, <1>16, <1>17, Zenon DEF Agrees
<1>19. QED
  BY <1>1, <1>2, <1>4, <1>5, <1>6, <1>18, Within

\* The next reply, where there is something to read.
LEMMA NextReply ==
    ASSUME NEW k, NEW r, Position(k, r), pc = "header", src # <<>>
    PROVE  /\ k < sent /\ r = request /\ Allowed(r) /\ Untouched(k)
           /\ Reading(replies, k, sent, src, Frame(r))
<1>1. /\ k \in Nat /\ k \in 0..sent /\ sent \in 0..Len(replies) /\ Len(replies) \in Nat /\ replies \in Streams
      /\ k < Len(replies) => r = request /\ Allowed(r)
      /\ TypeOK /\ Agrees(k, r) /\ r = replies[k + 1]
  BY DEF Position
<1>2. src \in Seq(Int) /\ Waiting(replies, k, sent, src) /\ Untouched(k)
  BY <1>1 DEF TypeOK, Agrees, AtHeader
<1>3. k < sent /\ Reading(replies, k, sent, src, Frame(r))
  BY <1>1, <1>2, NextFrame
<1>4. k < Len(replies)
  BY <1>1, <1>3
<1>5. QED
  BY <1>1, <1>2, <1>3, <1>4

\* The header is the reply's, and a reply without a body is refused.
LEMMA HeaderKeeps == ASSUME IInv, ReadHeader PROVE IInv'
<1>1. PICK k, r : Position(k, r)
  BY Positioned
<1>2. /\ pc = "header" /\ Len(src) >= 2 /\ ~request.raw /\ src' = Drop(src, 2)
      /\ UNCHANGED <<replies, sent, queue, dst, tagged, body, session>>
      /\ \/ src[1] <= 1 /\ pc' = "refused" /\ UNCHANGED header
         \/ ~(src[1] <= 1) /\ pc' = "tagged" /\ header' = [Length |-> src[1], CorrelationID |-> src[2]]
  BY DEF ReadHeader, Refuse, Goto
<1>3. TypeOK /\ sent \in 0..Len(replies) /\ Len(replies) \in Nat /\ r = replies[k + 1]
  BY <1>1 DEF Position
<1>4. /\ src \in Seq(Int) /\ dst \in Seq(Int) /\ tagged \in Seq(Int) /\ body \in Seq(Seq(Int))
      /\ header \in [Length : Nat \ {0, 1}, CorrelationID : Int]
  BY <1>3 DEF TypeOK
<1>5. src # <<>>
  BY <1>2, <1>4
<1>6. /\ k < sent /\ r = request /\ Allowed(r) /\ Untouched(k) /\ Reading(replies, k, sent, src, Frame(r))
  BY <1>1, <1>2, <1>5, NextReply
<1>7. PICK h, c : h = Heading(r, Body(r)) /\ c = TagCells(r) \o Body(r)
  OBVIOUS
<1>8. /\ Frame(r) = h \o c /\ TagCells(r) \in Seq(Int) /\ Body(r) \in Seq(Int) /\ r.id \in Int
  BY <1>2, <1>6, <1>7, FrameCells, ReplyCells
<1>9. PICK m \in Nat, n \in Nat : m = Len(TagCells(r)) /\ n = Len(Body(r))
  BY <1>8
<1>10. h = << 1 + m + n, r.id >> /\ c \in Seq(Int)
  BY <1>7, <1>8, <1>9, Begins DEF Heading
<1>11. h \in Seq(Int) /\ Len(h) = 2 /\ h[1] = 1 + m + n /\ h[2] = r.id
  BY <1>8, <1>10
<1>12. /\ Reading(replies, k, sent, Drop(src, 2), c) /\ Drop(src, 2) \in Seq(Int)
       /\ \E rest \in Seq(Int) : src = h \o rest
  <2>1. Reading(replies, k, sent, src, h \o c)
    BY <1>6, <1>8
  <2>2. PICK left : left = h \o c
    OBVIOUS
  <2>3. Reading(replies, k, sent, src, left)
    BY <2>1, <2>2, Zenon
  <2>4. 2 = Len(h) /\ h \in Seq(Int) /\ c \in Seq(Int)
    BY <1>10, <1>11
  <2>5. PICK rest \in Seq(Int) :
            src = h \o rest /\ Drop(src, Len(h)) = rest /\ Reading(replies, k, sent, rest, c)
    BY <2>2, <2>3, <2>4, ReadFront, Zenon
  <2>6. QED
    BY <2>4, <2>5, Zenon
<1>13. src[1] = 1 + m + n /\ src[2] = r.id
  <2>1. PICK rest \in Seq(Int) : src = h \o rest
    BY <1>12
  <2>2. \A j \in 1..Len(h) : src[j] = h[j]
    BY <1>11, <2>1, Begins, Zenon
  <2>3. QED
    BY <1>11, <2>2
<1>14. sent' \in sent..Len(replies)
  BY <1>2, <1>3
<1>15. CASE src[1] <= 1 /\ pc' = "refused" /\ UNCHANGED header
  <2>1. m = 0 /\ n = 0
    BY <1>13, <1>15
  <2>2. ~r.flexible
    <3>1. r.flexible => Len(TagCells(r)) >= 1
      BY <1>6, TagsRead, Zenon
    <3>2. QED
      BY <1>9, <2>1, <3>1
  <2>3. Body(r) = <<>>
    <3>1. Len(Body(r)) = 0
      BY <1>9, <2>1
    <3>2. QED
      BY <1>8, <3>1, EmptySeq
  <2>4. Refusable(r)
    BY <1>2, <1>6, <2>2, <2>3 DEF Refusable
  <2>5. Agrees(k, r)'
    BY <1>2, <1>3, <1>6, <1>15, <2>4 DEF Agrees, AtRefused, Untouched
  <2>6. QED
    BY <1>1, <1>2, <1>4, <1>12, <1>14, <1>15, <2>5, Within
<1>16. CASE ~(src[1] <= 1) /\ pc' = "tagged" /\ header' = [Length |-> src[1], CorrelationID |-> src[2]]
  <2>1. header' \in [Length : Nat \ {0, 1}, CorrelationID : Int]
    BY <1>8, <1>13, <1>16
  <2>2. << header'.Length, header'.CorrelationID >> = h
    BY <1>10, <1>13, <1>16
  <2>3. Holding(k, r)'
    BY <1>2, <1>3, <1>6 DEF Holding
  <2>4. AtTagged(k, r)'
    BY <1>2, <1>6, <1>7, <1>12, <2>2, <2>3 DEF AtTagged, Headed, Untouched
  <2>5. Agrees(k, r)'
    BY <1>16, <2>4 DEF Agrees
  <2>6. QED
    BY <1>1, <1>2, <1>4, <1>12, <1>14, <1>16, <2>1, <2>5, Within
<1>17. QED
  BY <1>2, <1>15, <1>16

\* The raw SASL reply passes as it is.
LEMMA CopyKeeps == ASSUME IInv, CopySaslAuthResponse PROVE IInv'
<1>1. PICK k, r : Position(k, r)
  BY Positioned
<1>2. /\ pc = "header" /\ src # <<>> /\ request.raw /\ dst' = Append(dst, src[1]) /\ src' = Drop(src, 1)
      /\ queue' = Tail(queue) /\ pc' = "header"
      /\ UNCHANGED <<replies, sent, header, tagged, body, session>>
  BY DEF CopySaslAuthResponse
<1>3. /\ k < sent /\ r = request /\ Allowed(r) /\ Untouched(k) /\ Reading(replies, k, sent, src, Frame(r))
  BY <1>1, <1>2, NextReply
<1>4. Frame(r) = << 0 >> /\ ClientFrame(r) = << 0 >> /\ ~ForProxy(r)
  BY <1>2, <1>3, FrameCells
<1>5. << 0 >> \in Seq(Int) /\ Len(<< 0 >>) = 1 /\ << 0 >>[1] = 0
  OBVIOUS
<1>6. Waiting(replies, k + 1, sent, src') /\ src' \in Seq(Int)
  <2>1. Reading(replies, k, sent, src, << 0 >>)
    BY <1>3, <1>4, Zenon
  <2>2. PICK a : a = << 0 >>
    OBVIOUS
  <2>3. Reading(replies, k, sent, src, a) /\ a \in Seq(Int) /\ 1 = Len(a)
    BY <1>5, <2>1, <2>2
  <2>4. PICK rest \in Seq(Int) : Drop(src, Len(a)) = rest /\ Waiting(replies, k + 1, sent, rest)
    BY <2>3, ReadAll, Zenon
  <2>5. QED
    BY <1>2, <2>3, <2>4, Zenon
<1>7. src[1] = 0
  <2>1. PICK rest \in Seq(Int) : src = << 0 >> \o rest
    BY <1>3, <1>4 DEF Reading
  <2>2. \A j \in 1..Len(<< 0 >>) : (<< 0 >> \o rest)[j] = << 0 >>[j]
    BY <1>5, <2>1, Begins, Zenon
  <2>3. 1 \in 1..Len(<< 0 >>)
    BY <1>5
  <2>4. QED
    BY <1>5, <2>1, <2>2, <2>3, Zenon
<1>8. dst' = ClientFramesOf(replies, k) \o ClientFrame(r)
  <2>1. dst \in Seq(Int)
    BY <1>1 DEF Position, TypeOK
  <2>2. Append(dst, 0) = dst \o << 0 >>
    BY <2>1
  <2>3. QED
    BY <1>2, <1>3, <1>4, <1>7, <2>2, Zenon DEF Untouched
<1>9. r.id # reauthCorrelationID
  BY <1>4 DEF ForProxy
<1>10. QED
  BY <1>1, <1>2, <1>3, <1>6, <1>8, <1>9, Finishes

\* While a reply is handled it is the one the queue begins with.
LEMMA Handling ==
    ASSUME NEW k, NEW r, Position(k, r),
           \/ pc = "tagged" /\ AtTagged(k, r)
           \/ pc = "modify" /\ AtModify(k, r)
           \/ Writing(k, r)
    PROVE  /\ k < sent /\ k < Len(replies) /\ r = request /\ Allowed(r) /\ ~r.raw /\ r = replies[k + 1]
           /\ TagCells(r) \in Seq(Int) /\ Body(r) \in Seq(Int) /\ Body(ForClient(r)) \in Seq(Int) /\ r.id \in Int
           /\ src \in Seq(Int) /\ dst \in Seq(Int) /\ tagged \in Seq(Int) /\ body \in Seq(Seq(Int))
           /\ header \in [Length : Nat \ {0, 1}, CorrelationID : Int] /\ sent \in sent..Len(replies)
<1>1. /\ k \in Nat /\ k \in 0..sent /\ sent \in 0..Len(replies) /\ Len(replies) \in Nat
      /\ k < Len(replies) => r = request /\ Allowed(r)
      /\ TypeOK
  BY DEF Position
<1>2. Holding(k, r)
  BY DEF AtTagged, AtModify, Writing
<1>3. k < sent /\ ~r.raw /\ r = replies[k + 1]
  BY <1>2 DEF Holding
<1>4. k < Len(replies) /\ sent \in sent..Len(replies)
  BY <1>1, <1>3
<1>5. QED
  BY <1>1, <1>3, <1>4, ReplyCells DEF TypeOK

\* What the header says.
LEMMA HeadedIs ==
    ASSUME NEW r, NEW b, Headed(r, b)
    PROVE  header.Length = 1 + Len(TagCells(r)) + Len(b) /\ header.CorrelationID = r.id
BY DEF Headed, Heading

\* The proxy takes the replies to its own requests for itself, and these only.
LEMMA OwnReplies ==
    ASSUME NEW r, Allowed(r), header.CorrelationID = r.id
    PROVE  isProxyReauthResponse(r, header) <=> ForProxy(r)
<1>1. isProxyReauthResponse(r, header) <=> isProxyReauthResponse(r, [CorrelationID |-> r.id])
  BY DEF isProxyReauthResponse
<1>2. isProxyReauthResponse(r, [CorrelationID |-> r.id]) => ForProxy(r)
  BY DEF isProxyReauthResponse, ForProxy
<1>3. ForProxy(r) => isProxyReauthResponse(r, [CorrelationID |-> r.id])
  BY DEF Allowed
<1>4. QED
  BY <1>1, <1>2, <1>3

\* The reply to a re-auth request ends at the proxy.
LEMMA ConsumeKeeps == ASSUME IInv, ConsumeReauthResponse PROVE IInv'
<1>1. PICK k, r : Position(k, r)
  BY Positioned
<1>2. PICK res : res = DecodeSchema(SubSeq(src, 1, header.Length - 1), SaslLayout(header.CorrelationID))
  OBVIOUS
<1>3. /\ pc = "tagged" /\ isProxyReauthResponse(request, header) /\ src' = Drop(src, header.Length - 1)
      /\ UNCHANGED <<replies, sent, dst, header, tagged, body>>
      /\ \/ /\ ~res.ok \/ res.value.items[1].cells[1] # 0
            /\ pc' = "refused" /\ UNCHANGED <<queue, session>>
         \/ /\ res.ok /\ res.value.items[1].cells[1] = 0 /\ pc' = "header" /\ queue' = Tail(queue)
            /\ session' = IF header.CorrelationID = reauthHandshakeCorrelationID THEN session
                          ELSE IF res.value.items[4].cells[1] > 0 THEN res.value.items[4].cells[1] ELSE session
  BY <1>2 DEF ConsumeReauthResponse, CompleteReauth, Goto
<1>4. AtTagged(k, r)
  BY <1>1, <1>3 DEF Position, Agrees
<1>5. /\ k < sent /\ k < Len(replies) /\ r = request /\ Allowed(r) /\ ~r.raw /\ r = replies[k + 1]
      /\ TagCells(r) \in Seq(Int) /\ Body(r) \in Seq(Int)
      /\ src \in Seq(Int) /\ dst \in Seq(Int) /\ tagged \in Seq(Int) /\ body \in Seq(Seq(Int))
      /\ header \in [Length : Nat \ {0, 1}, CorrelationID : Int] /\ sent \in sent..Len(replies)
  BY <1>1, <1>3, <1>4, Handling
<1>6. Headed(r, Body(r)) /\ Untouched(k) /\ Reading(replies, k, sent, src, TagCells(r) \o Body(r))
  BY <1>4 DEF AtTagged
<1>7. header.Length = 1 + Len(TagCells(r)) + Len(Body(r)) /\ header.CorrelationID = r.id
  BY <1>6, HeadedIs
<1>8. ForProxy(r)
  BY <1>3, <1>5, <1>7, OwnReplies
<1>9. TagCells(r) = <<>>
  BY <1>5, <1>8, ForProxyKeys DEF TagCells
<1>10. PICK b : b = Body(r)
  OBVIOUS
<1>11. header.Length - 1 = Len(b) /\ b \in Seq(Int) /\ Reading(replies, k, sent, src, b)
  <2>1. b \in Seq(Int) /\ Len(b) \in Nat
    BY <1>5, <1>10
  <2>2. header.Length = 1 + 0 + Len(b)
    BY <1>7, <1>9, <1>10
  <2>3. <<>> \o b = b
    BY <2>1
  <2>4. QED
    BY <1>6, <1>9, <1>10, <2>1, <2>2, <2>3
<1>12. PICK rest \in Seq(Int) : /\ SubSeq(src, 1, Len(b)) = b /\ Drop(src, Len(b)) = rest
                                /\ Waiting(replies, k + 1, sent, rest)
  BY <1>11, ReadAll, Zenon
<1>13. src' = rest /\ res = DecodeSchema(b, SaslLayout(r.id))
  BY <1>2, <1>3, <1>7, <1>11, <1>12, Zenon
<1>14. res = IF Layout(r).readable[r.value] THEN Ok(r.value, Len(b)) ELSE Failed
  BY <1>5, <1>8, <1>10, <1>13, SaslRead
<1>15. CASE /\ ~res.ok \/ res.value.items[1].cells[1] # 0
            /\ pc' = "refused" /\ UNCHANGED <<queue, session>>
  <2>1. ~Layout(r).readable[r.value] \/ Err(r) # 0
    <3>1. SUFFICES ASSUME Layout(r).readable[r.value] PROVE Err(r) # 0
      OBVIOUS
    <3>2. res.ok /\ res.value = r.value
      BY <1>14, <3>1 DEF Ok
    <3>3. QED
      BY <1>15, <3>2 DEF Err
  <2>2. Refusable(r)
    BY <1>8, <2>1 DEF Refusable
  <2>3. Agrees(k, r)'
    BY <1>3, <1>5, <1>6, <1>15, <2>2 DEF Agrees, AtRefused, Untouched
  <2>4. QED
    BY <1>1, <1>3, <1>5, <1>13, <1>15, <2>3, Within
<1>16. CASE /\ res.ok /\ res.value.items[1].cells[1] = 0 /\ pc' = "header" /\ queue' = Tail(queue)
            /\ session' = IF header.CorrelationID = reauthHandshakeCorrelationID THEN session
                          ELSE IF res.value.items[4].cells[1] > 0 THEN res.value.items[4].cells[1] ELSE session
  <2>1. res.value = r.value
    BY <1>14, <1>16 DEF Ok, Failed
  <2>2. res.value.items[4].cells[1] = Lifetime(r)
    BY <2>1 DEF Lifetime
  <2>3. r.id = reauthCorrelationID <=> r.id # reauthHandshakeCorrelationID
    BY <1>8 DEF ForProxy, reauthCorrelationID, reauthHandshakeCorrelationID
  <2>4. session' = IF r.id = reauthCorrelationID /\ Lifetime(r) > 0 THEN Lifetime(r) ELSE session
    BY <1>7, <1>16, <2>2, <2>3
  <2>5. dst' = ClientFramesOf(replies, k) \o ClientFrame(r)
    <3>1. ClientFrame(r) = <<>> /\ dst \o <<>> = dst
      BY <1>5, <1>8, FrameCells
    <3>2. QED
      BY <1>3, <1>6, <3>1, Zenon DEF Untouched
  <2>6. Waiting(replies, k + 1, sent, src') /\ src' \in Seq(Int)
    BY <1>12, <1>13
  <2>7. QED
    BY <1>1, <1>3, <1>5, <1>6, <1>16, <2>4, <2>5, <2>6, Finishes
<1>17. QED
  BY <1>3, <1>15, <1>16

\* The tagged fields are read as a whole and kept.
LEMMA MaybeReadKeeps == ASSUME IInv, MaybeRead PROVE IInv'
<1>1. PICK k, r : Position(k, r)
  BY Positioned
<1>2. PICK res : res = SchemaTaggedFields.decode[src][0]
  OBVIOUS
<1>3. /\ pc = "tagged" /\ ~isProxyReauthResponse(request, header)
      /\ UNCHANGED <<replies, sent, queue, dst, header, body, session>>
      /\ \/ ResponseHeaderVersion(request) = 0 /\ tagged' = <<>> /\ pc' = "modify" /\ src' = src
         \/ /\ ResponseHeaderVersion(request) # 0 /\ res.ok /\ pc' = "modify"
            /\ tagged' = SubSeq(src, 1, res.off) /\ src' = Drop(src, res.off)
         \/ ResponseHeaderVersion(request) # 0 /\ ~res.ok
  BY <1>2 DEF MaybeRead, Goto
<1>4. AtTagged(k, r)
  BY <1>1, <1>3 DEF Position, Agrees
<1>5. /\ k < sent /\ k < Len(replies) /\ r = request /\ Allowed(r) /\ ~r.raw /\ r = replies[k + 1]
      /\ TagCells(r) \in Seq(Int) /\ Body(r) \in Seq(Int)
      /\ src \in Seq(Int) /\ dst \in Seq(Int) /\ tagged \in Seq(Int) /\ body \in Seq(Seq(Int))
      /\ header \in [Length : Nat \ {0, 1}, CorrelationID : Int] /\ sent \in sent..Len(replies)
  BY <1>1, <1>3, <1>4, Handling
<1>6. /\ Headed(r, Body(r)) /\ Untouched(k) /\ Reading(replies, k, sent, src, TagCells(r) \o Body(r))
      /\ Holding(k, r)
  BY <1>4 DEF AtTagged
<1>7. ~ForProxy(r)
  BY <1>3, <1>5, <1>6, HeadedIs, OwnReplies
<1>8. r.flexible = (ResponseHeaderVersion(r) = 1) /\ ResponseHeaderVersion(r) \in {0, 1}
  BY <1>5 DEF Allowed, ResponseHeaderVersion
<1>9. PICK t, b : t = TagCells(r) /\ b = Body(r)
  OBVIOUS
<1>10. t \in Seq(Int) /\ b \in Seq(Int)
  BY <1>5, <1>9
<1>11. tagged' = t /\ pc' = "modify" /\ src' \in Seq(Int) /\ Reading(replies, k, sent, src', b)
  <2>1. CASE ResponseHeaderVersion(r) = 0
    <3>0. ResponseHeaderVersion(r) # 1
      BY <2>1
    <3>1. ~r.flexible
      BY <1>8, <3>0, Zenon
    <3>2. t = <<>> /\ <<>> \o b = b
      BY <1>9, <1>10, <3>1 DEF TagCells
    <3>3. tagged' = <<>> /\ pc' = "modify" /\ src' = src
      BY <1>3, <1>5, <2>1
    <3>4. QED
      BY <1>5, <1>6, <1>9, <3>2, <3>3, Zenon
  <2>2. CASE ResponseHeaderVersion(r) # 0
    <3>1. r.flexible
      BY <1>8, <2>2
    <3>2. PICK left : left = t \o b
      OBVIOUS
    <3>3. Reading(replies, k, sent, src, left)
      BY <1>6, <1>9, <3>2, Zenon
    <3>4. PICK rest \in Seq(Int) : /\ src = t \o rest /\ SubSeq(src, 1, Len(t)) = t /\ Drop(src, Len(t)) = rest
                                   /\ Reading(replies, k, sent, rest, b)
      BY <1>10, <3>2, <3>3, ReadFront, Zenon
    <3>5. res = Ok(r.tags, Len(t))
      BY <1>2, <1>5, <1>9, <3>1, <3>4, TagsRead, Zenon
    <3>6. res.ok /\ res.off = Len(t)
      BY <3>5 DEF Ok
    <3>7. tagged' = SubSeq(src, 1, res.off) /\ src' = Drop(src, res.off) /\ pc' = "modify"
      BY <1>3, <1>5, <2>2, <3>6
    <3>8. QED
      BY <3>4, <3>6, <3>7, Zenon
  <2>3. QED
    BY <2>1, <2>2
<1>12. Holding(k, r)' /\ Headed(r, Body(r))' /\ Untouched(k)'
  BY <1>3, <1>6 DEF Holding, Headed, Untouched
<1>13. AtModify(k, r)'
  BY <1>3, <1>7, <1>9, <1>11, <1>12 DEF AtModify
<1>14. Agrees(k, r)'
  BY <1>11, <1>13 DEF Agrees
<1>15. QED
  BY <1>1, <1>3, <1>5, <1>10, <1>11, <1>14, Within

\* A reply that is not opened goes on as it is; it has a body or tagged fields.
LEMMA PassOnKeeps == ASSUME IInv, PassOn PROVE IInv'
<1>1. PICK k, r : Position(k, r)
  BY Positioned
<1>2. /\ pc = "modify" /\ request.key \notin {apiKeyMetadata, apiKeyFindCoordinator} /\ body' = <<>>
      /\ pc' = "writeHeader" /\ UNCHANGED <<replies, sent, queue, src, dst, header, tagged, session>>
  BY DEF PassOn, Goto, None
<1>3. AtModify(k, r)
  BY <1>1, <1>2 DEF Position, Agrees
<1>4. /\ k < sent /\ k < Len(replies) /\ r = request /\ Allowed(r) /\ ~r.raw /\ r = replies[k + 1]
      /\ TagCells(r) \in Seq(Int) /\ Body(r) \in Seq(Int)
      /\ src \in Seq(Int) /\ dst \in Seq(Int) /\ tagged \in Seq(Int) /\ body \in Seq(Seq(Int))
      /\ header \in [Length : Nat \ {0, 1}, CorrelationID : Int] /\ sent \in sent..Len(replies)
  BY <1>1, <1>2, <1>3, Handling
<1>5. /\ Headed(r, Body(r)) /\ Untouched(k) /\ Reading(replies, k, sent, src, Body(r)) /\ Holding(k, r)
      /\ tagged = TagCells(r) /\ ~ForProxy(r)
  BY <1>3 DEF AtModify
<1>6. ~Opened(r)
  BY <1>2, <1>4 DEF Opened
<1>7. Body(ForClient(r)) = Body(r)
  BY <1>4, <1>6, ReplyCells
<1>8. ~(~r.flexible /\ Body(r) = <<>>)
  <2>1. SUFFICES ASSUME ~r.flexible, Body(r) = <<>> PROVE FALSE
    OBVIOUS
  <2>2. TagCells(r) = <<>>
    BY <2>1 DEF TagCells
  <2>3. header.Length = 1 + Len(TagCells(r)) + Len(Body(r))
    BY <1>5, HeadedIs
  <2>4. header.Length = 1 + 0 + 0
    BY <2>1, <2>2, <2>3
  <2>5. header.Length \in Nat \ {0, 1}
    BY <1>4
  <2>6. QED
    BY <2>4, <2>5
<1>9. ~Refusable(r)
  BY <1>2, <1>4, <1>5, <1>6, <1>8, Zenon DEF Refusable
<1>10. Holding(k, r)' /\ Headed(r, Body(ForClient(r)))' /\ Untouched(k)'
  BY <1>2, <1>5, <1>7 DEF Holding, Headed, Untouched
<1>11. Kept(k, r)'
  BY <1>2, <1>5, <1>7 DEF Kept, None
<1>12. Writing(k, r)'
  BY <1>2, <1>5, <1>9, <1>10, <1>11 DEF Writing
<1>13. Agrees(k, r)'
  BY <1>2, <1>10, <1>12 DEF Agrees
<1>14. body' \in Seq(Seq(Int))
  BY <1>2
<1>15. QED
  BY <1>1, <1>2, <1>4, <1>13, <1>14, Within

\* A reply is refused before anything of it has been written, or rewritten to the one
\* its client should have, under the length that goes with it.
LEMMA RewriteKeeps == ASSUME IInv, Rewrite PROVE IInv'
<1>1. PICK k, r : Position(k, r)
  BY Positioned
<1>2. PICK n : n = header.Length - (1 + Len(tagged))
  OBVIOUS
<1>3. PICK new : new = Apply(request.key, ResponseSchema(request.key, request.version), SubSeq(src, 1, n))
  OBVIOUS
<1>4. /\ pc = "modify" /\ request.key \in {apiKeyMetadata, apiKeyFindCoordinator}
      /\ UNCHANGED <<replies, sent, queue, dst, tagged, session>>
      /\ \/ /\ ~Supported(request.key, request.version) \/ header.Length > MaxMessage
            /\ pc' = "refused" /\ UNCHANGED <<src, header, body>>
         \/ /\ Supported(request.key, request.version) /\ ~(header.Length > MaxMessage)
            /\ src' = Drop(src, n)
            /\ \/ /\ new.ok /\ body' = << new.value >> /\ pc' = "writeHeader"
                  /\ header' = [header EXCEPT !.Length = Len(new.value) + (1 + Len(tagged))]
               \/ ~new.ok /\ pc' = "refused" /\ UNCHANGED <<header, body>>
  BY <1>2, <1>3 DEF Rewrite, Rewritten, Refuse, Goto, readResponsesHeaderLength, NewLength
<1>5. AtModify(k, r)
  BY <1>1, <1>4 DEF Position, Agrees
<1>6. /\ k < sent /\ k < Len(replies) /\ r = request /\ Allowed(r) /\ ~r.raw /\ r = replies[k + 1]
      /\ TagCells(r) \in Seq(Int) /\ Body(r) \in Seq(Int) /\ Body(ForClient(r)) \in Seq(Int) /\ r.id \in Int
      /\ src \in Seq(Int) /\ dst \in Seq(Int) /\ tagged \in Seq(Int) /\ body \in Seq(Seq(Int))
      /\ header \in [Length : Nat \ {0, 1}, CorrelationID : Int] /\ sent \in sent..Len(replies)
  BY <1>1, <1>4, <1>5, Handling
<1>7. /\ Headed(r, Body(r)) /\ Untouched(k) /\ Reading(replies, k, sent, src, Body(r)) /\ Holding(k, r)
      /\ tagged = TagCells(r) /\ ~ForProxy(r)
  BY <1>5 DEF AtModify
<1>8. header.Length = 1 + Len(TagCells(r)) + Len(Body(r)) /\ header.CorrelationID = r.id
  BY <1>7, HeadedIs
<1>9. ASSUME pc' = "refused", Refusable(r), src' \in Seq(Int), UNCHANGED <<header, body>> PROVE IInv'
  <2>1. Agrees(k, r)'
    BY <1>4, <1>6, <1>7, <1>9 DEF Agrees, AtRefused, Untouched
  <2>2. QED
    BY <1>1, <1>4, <1>6, <1>9, <2>1, Within
<1>10. CASE /\ ~Supported(request.key, request.version) \/ header.Length > MaxMessage
            /\ pc' = "refused" /\ UNCHANGED <<src, header, body>>
  <2>1. CASE ~Supported(request.key, request.version)
    <3>1. Refusable(r)
      BY <1>4, <1>6, <2>1, Zenon DEF Refusable
    <3>2. QED
      BY <1>6, <1>9, <1>10, <3>1
  <2>2. CASE Supported(request.key, request.version) /\ header.Length > MaxMessage
    <3>1. Opened(r)
      BY <1>4, <1>6, <2>2 DEF Opened
    <3>2. Frame(r)[1] = header.Length
      BY <1>6, <1>8, FrameCells
    <3>3. Frame(r)[1] > MaxMessage
      BY <2>2, <3>2, Zenon
    <3>4. Refusable(r)
      BY <3>1, <3>3, Zenon DEF Refusable
    <3>5. QED
      BY <1>6, <1>9, <1>10, <3>4
  <2>3. QED
    BY <1>10, <2>1, <2>2
<1>11. CASE /\ Supported(request.key, request.version) /\ ~(header.Length > MaxMessage)
            /\ src' = Drop(src, n)
            /\ \/ /\ new.ok /\ body' = << new.value >> /\ pc' = "writeHeader"
                  /\ header' = [header EXCEPT !.Length = Len(new.value) + (1 + Len(tagged))]
               \/ ~new.ok /\ pc' = "refused" /\ UNCHANGED <<header, body>>
  <2>1. Opened(r)
    BY <1>4, <1>6, <1>11 DEF Opened
  <2>2. r.version \in Nat /\ r.value \in Layout(r).values
    BY <1>6, <2>1, ReplyFields DEF Allowed
  <2>3. PICK old, c : old = Body(r) /\ c = Body(ForClient(r))
    OBVIOUS
  <2>4. old = Layout(r).encode[r.value] /\ c = Layout(r).encode[LocalValue(r)]
    BY <1>6, <2>1, <2>3, LayoutSound, ReplyCells
  <2>5. Sound(Layout(r)) /\ LocalValue(r) \in Layout(r).values
    BY <2>1, <2>2, ApplyRewrites
  <2>6. Len(old) >= 1 /\ Len(c) >= 1
    BY <2>2, <2>4, <2>5 DEF Sound, Returns
  <2>7. PICK t : t = TagCells(r)
    OBVIOUS
  <2>8. PICK x \in Nat, y \in Nat, z \in Nat : x = Len(t) /\ y = Len(old) /\ z = Len(c)
    BY <1>6, <2>3, <2>7
  <2>9. n = Len(old)
    <3>1. header.Length = 1 + x + y /\ n = header.Length - (1 + x)
      BY <1>2, <1>7, <1>8, <2>3, <2>7, <2>8
    <3>2. QED
      BY <2>8, <3>1
  <2>10. PICK rest \in Seq(Int) : /\ SubSeq(src, 1, Len(old)) = old /\ Drop(src, Len(old)) = rest
                                  /\ Reading(replies, k, sent, rest, <<>>)
    <3>1. old \in Seq(Int) /\ Reading(replies, k, sent, src, old)
      BY <1>6, <1>7, <2>3
    <3>2. QED
      BY <3>1, ReadAll, Zenon
  <2>11. src' = rest /\ src' \in Seq(Int)
    BY <1>11, <2>9, <2>10, Zenon
  <2>12. new = Apply(r.key, Layout(r), old)
    BY <1>3, <1>6, <2>1, <2>9, <2>10, Zenon DEF Layout
  <2>13. new = IF /\ Layout(r).readable[r.value] /\ ~Unmapped(Nodes(r))
                  /\ Layout(r).encodable[LocalValue(r)] /\ Len(c) <= MaxMessage
               THEN Ok(c, Len(c)) ELSE Failed
    BY <2>1, <2>2, <2>4, <2>12, ApplyRewrites
  <2>14. CASE ~new.ok /\ pc' = "refused" /\ UNCHANGED <<header, body>>
    <3>1. ~(/\ Layout(r).readable[r.value] /\ ~Unmapped(Nodes(r))
            /\ Layout(r).encodable[LocalValue(r)] /\ Len(c) <= MaxMessage)
      BY <2>13, <2>14 DEF Ok
    <3>2. Len(c) <= MaxMessage \/ Len(Body(ForClient(r))) > MaxMessage
      BY <2>3, <2>8, CodecAssumption
    <3>3. Refusable(r)
      BY <2>1, <3>1, <3>2, Zenon DEF Refusable, Beyond, Unmapped
    <3>4. QED
      BY <1>9, <2>11, <2>14, <3>3
  <2>15. CASE /\ new.ok /\ body' = << new.value >> /\ pc' = "writeHeader"
              /\ header' = [header EXCEPT !.Length = Len(new.value) + (1 + Len(tagged))]
    <3>1. /\ Layout(r).readable[r.value] /\ ~Unmapped(Nodes(r))
          /\ Layout(r).encodable[LocalValue(r)] /\ Len(c) <= MaxMessage /\ new = Ok(c, Len(c))
      BY <2>13, <2>15 DEF Failed
    <3>2. new.value = c
      BY <3>1 DEF Ok
    <3>3. ~(Len(Body(ForClient(r))) > MaxMessage) /\ ~(Frame(r)[1] > MaxMessage)
      <4>1. Frame(r)[1] = header.Length
        BY <1>6, <1>8, FrameCells
      <4>2. ~(Len(c) > MaxMessage)
        BY <2>8, <3>1, CodecAssumption
      <4>3. QED
        BY <1>11, <2>3, <4>1, <4>2, Zenon
    <3>4. Body(r) # <<>>
      <4>1. Len(<<>>) = 0
        OBVIOUS
      <4>2. QED
        BY <2>3, <2>6, <2>8, <4>1
    <3>5. Supported(r.key, r.version)
      BY <2>1 DEF Opened
    <3>6. ~Refusable(r)
      BY <1>7, <3>1, <3>3, <3>4, <3>5, Zenon DEF Refusable, Beyond, Unmapped
    <3>7. PICK l : l = Len(c) + (1 + Len(t))
      OBVIOUS
    <3>8. l = 1 + x + z /\ l \in Nat \ {0, 1}
      BY <2>6, <2>8, <3>7
    <3>9. header' = [header EXCEPT !.Length = l]
      BY <1>7, <2>7, <2>15, <3>2, <3>7, Zenon
    <3>10. /\ header'.Length = l /\ header'.CorrelationID = r.id
           /\ header' \in [Length : Nat \ {0, 1}, CorrelationID : Int]
      BY <1>6, <1>8, <3>8, <3>9
    <3>11. Headed(r, Body(ForClient(r)))'
      <4>1. Heading(r, c) = << 1 + x + z, r.id >>
        BY <2>7, <2>8 DEF Heading
      <4>2. << header'.Length, header'.CorrelationID >> = Heading(r, c)
        BY <3>8, <3>10, <4>1
      <4>3. QED
        BY <2>3, <4>2 DEF Headed
    <3>12. body' = << c >> /\ body' \in Seq(Seq(Int)) /\ body' # <<>>
      BY <1>6, <2>3, <2>15, <3>2
    <3>13. Kept(k, r)'
      <4>1. Reading(replies', k, sent', src', <<>>)
        BY <1>4, <2>10, <2>11
      <4>2. QED
        BY <2>3, <3>12, <4>1 DEF Kept, None
    <3>14. Holding(k, r)' /\ Untouched(k)'
      BY <1>4, <1>7 DEF Holding, Untouched
    <3>15. Writing(k, r)'
      BY <1>4, <1>7, <3>6, <3>11, <3>13, <3>14 DEF Writing
    <3>16. Agrees(k, r)'
      BY <2>15, <3>14, <3>15 DEF Agrees
    <3>17. QED
      BY <1>1, <1>4, <1>6, <2>11, <2>15, <3>10, <3>12, <3>16, Within
  <2>16. QED
    BY <1>11, <2>14, <2>15
<1>12. QED
  BY <1>4, <1>10, <1>11

\* What each of the three writes sends, and that nothing is written anywhere else.
LEMMA OutgoingIs ==
    /\ pc = "writeHeader" => Outgoing = << header.Length, header.CorrelationID >>
    /\ pc = "writeTagged" => Outgoing = tagged
    /\ pc = "writeBody" => Outgoing = IF body # None THEN body[1]
                                      ELSE SubSeq(src, 1, header.Length - readResponsesHeaderLength)
    /\ pc \notin {"writeHeader", "writeTagged", "writeBody"} => Outgoing = <<>>
BY DEF Outgoing

\* The three parts of a reply that is written, in the order of the writes.
LEMMA Parts ==
    ASSUME NEW k, NEW r, Position(k, r), Writing(k, r)
    PROVE  /\ Heading(r, Body(ForClient(r))) \in Seq(Int)
           /\ pc = "writeHeader" => Outgoing = Heading(r, Body(ForClient(r)))
           /\ pc = "writeTagged" => Outgoing = TagCells(r)
           /\ pc = "writeBody" => /\ Outgoing = Body(ForClient(r))
                                  /\ body = None => /\ Waiting(replies, k + 1, sent, Drop(src, Len(Outgoing)))
                                                    /\ Drop(src, Len(Outgoing)) \in Seq(Int)
                                  /\ body # None => Waiting(replies, k + 1, sent, src)
<1>1. /\ TagCells(r) \in Seq(Int) /\ Body(r) \in Seq(Int) /\ Body(ForClient(r)) \in Seq(Int) /\ r.id \in Int
  BY Handling
<1>2. Headed(r, Body(ForClient(r))) /\ Kept(k, r) /\ tagged = TagCells(r)
  BY DEF Writing
<1>3. PICK c, t : c = Body(ForClient(r)) /\ t = TagCells(r)
  OBVIOUS
<1>4. PICK x \in Nat, z \in Nat : x = Len(t) /\ z = Len(c)
  BY <1>1, <1>3
<1>5. Heading(r, c) = << 1 + x + z, r.id >>
  BY <1>3, <1>4 DEF Heading
<1>6. Heading(r, c) \in Seq(Int)
  BY <1>1, <1>4, <1>5
<1>7. header.Length = 1 + x + z
  BY <1>2, <1>3, <1>4, HeadedIs
<1>8. ASSUME pc = "writeBody", body = None
      PROVE  /\ Outgoing = c /\ Waiting(replies, k + 1, sent, Drop(src, Len(Outgoing)))
             /\ Drop(src, Len(Outgoing)) \in Seq(Int)
  <2>1. Reading(replies, k, sent, src, c) /\ c \in Seq(Int)
    BY <1>1, <1>2, <1>3, <1>8 DEF Kept
  <2>2. PICK rest \in Seq(Int) : /\ SubSeq(src, 1, Len(c)) = c /\ Drop(src, Len(c)) = rest
                                 /\ Waiting(replies, k + 1, sent, rest)
    BY <2>1, ReadAll, Zenon
  <2>3. header.Length - readResponsesHeaderLength = Len(c)
    <3>1. readResponsesHeaderLength = 1 + x
      BY <1>2, <1>3, <1>4 DEF readResponsesHeaderLength
    <3>2. QED
      BY <1>4, <1>7, <3>1
  <2>4. Outgoing = SubSeq(src, 1, header.Length - readResponsesHeaderLength)
    BY <1>8, OutgoingIs
  <2>5. Outgoing = c
    BY <2>2, <2>3, <2>4, Zenon
  <2>6. QED
    BY <2>2, <2>5, Zenon
<1>9. ASSUME pc = "writeBody", body # None PROVE Outgoing = c /\ Waiting(replies, k + 1, sent, src)
  <2>1. body = << c >> /\ Reading(replies, k, sent, src, <<>>)
    BY <1>2, <1>3, <1>9 DEF Kept
  <2>2. body[1] = c
    BY <2>1
  <2>3. QED
    BY <1>9, <2>1, <2>2, OutgoingIs, ReadNothing
<1>10. pc = "writeHeader" => Outgoing = Heading(r, c)
  BY <1>2, <1>3, OutgoingIs DEF Headed
<1>11. pc = "writeTagged" => Outgoing = t
  BY <1>2, <1>3, OutgoingIs
<1>12. QED
  BY <1>3, <1>6, <1>8, <1>9, <1>10, <1>11

\* The first of the three writes, the header.
LEMMA WriteHeaderKeeps == ASSUME IInv, WriteHeader PROVE IInv'
<1>1. PICK k, r : Position(k, r)
  BY Positioned
<1>2. /\ pc = "writeHeader" /\ dst' = dst \o Outgoing /\ pc' = "writeTagged"
      /\ UNCHANGED <<replies, sent, queue, src, header, tagged, body, session>>
  BY DEF WriteHeader, Goto
<1>3. Writing(k, r) /\ Untouched(k)
  BY <1>1, <1>2 DEF Position, Agrees
<1>4. /\ k < sent /\ src \in Seq(Int) /\ dst \in Seq(Int) /\ tagged \in Seq(Int) /\ body \in Seq(Seq(Int))
      /\ header \in [Length : Nat \ {0, 1}, CorrelationID : Int] /\ sent \in sent..Len(replies)
  BY <1>1, <1>3, Handling
<1>5. PICK h : h = Heading(r, Body(ForClient(r)))
  OBVIOUS
<1>6. h \in Seq(Int) /\ Outgoing = h
  BY <1>1, <1>2, <1>3, <1>5, Parts
<1>7. dst' \in Seq(Int) /\ Written(k, h)'
  BY <1>2, <1>3, <1>4, <1>6, Begins DEF Untouched, Written
<1>8. Writing(k, r)'
  BY <1>2, <1>3 DEF Writing, Holding, Headed, Kept, None
<1>9. Agrees(k, r)'
  BY <1>2, <1>5, <1>7, <1>8 DEF Agrees
<1>10. QED
  BY <1>1, <1>2, <1>4, <1>7, <1>9, Within

\* The second of the three writes, the tagged fields.
LEMMA WriteTaggedKeeps == ASSUME IInv, WriteTagged PROVE IInv'
<1>1. PICK k, r : Position(k, r)
  BY Positioned
<1>2. /\ pc = "writeTagged" /\ dst' = dst \o Outgoing /\ pc' = "writeBody"
      /\ UNCHANGED <<replies, sent, queue, src, header, tagged, body, session>>
  BY DEF WriteTagged, Goto
<1>3. PICK h, t : h = Heading(r, Body(ForClient(r))) /\ t = TagCells(r)
  OBVIOUS
<1>4. Writing(k, r) /\ Written(k, h)
  BY <1>1, <1>2, <1>3 DEF Position, Agrees
<1>5. /\ k < sent /\ src \in Seq(Int) /\ dst \in Seq(Int) /\ tagged \in Seq(Int) /\ body \in Seq(Seq(Int))
      /\ header \in [Length : Nat \ {0, 1}, CorrelationID : Int] /\ sent \in sent..Len(replies) /\ t \in Seq(Int)
  BY <1>1, <1>3, <1>4, Handling
<1>6. h \in Seq(Int) /\ Outgoing = t
  BY <1>1, <1>2, <1>3, <1>4, Parts
<1>7. dst' \in Seq(Int)
  BY <1>2, <1>5, <1>6, Begins
<1>8. Written(k, h \o t)'
  <2>1. PICK d : d = ClientFramesOf(replies, k)
    OBVIOUS
  <2>2. d \in Seq(Int)
    BY <1>1, <2>1, Progress
  <2>3. (d \o h) \o t = d \o (h \o t)
    BY <1>5, <1>6, <2>2, Assoc, Zenon
  <2>4. dst = d \o h
    BY <1>4, <2>1 DEF Written
  <2>5. dst' = d \o (h \o t)
    BY <1>2, <1>6, <2>3, <2>4, Zenon
  <2>6. QED
    BY <1>2, <2>1, <2>5 DEF Written
<1>9. Writing(k, r)'
  BY <1>2, <1>4 DEF Writing, Holding, Headed, Kept, None
<1>10. Agrees(k, r)'
  BY <1>2, <1>3, <1>8, <1>9 DEF Agrees
<1>11. QED
  BY <1>1, <1>2, <1>5, <1>7, <1>10, Within

\* With the last write the client has the whole reply, and the next one stands in front.
LEMMA WriteBodyKeeps == ASSUME IInv, WriteBody PROVE IInv'
<1>1. PICK k, r : Position(k, r)
  BY Positioned
<1>2. /\ pc = "writeBody" /\ dst' = dst \o Outgoing /\ queue' = Tail(queue) /\ pc' = "header"
      /\ src' = IF body = None THEN Drop(src, Len(Outgoing)) ELSE src
      /\ UNCHANGED <<replies, sent, header, tagged, body, session>>
  BY DEF WriteBody, Goto
<1>3. PICK h, t, c : h = Heading(r, Body(ForClient(r))) /\ t = TagCells(r) /\ c = Body(ForClient(r))
  OBVIOUS
<1>4. Writing(k, r) /\ Written(k, h \o t)
  BY <1>1, <1>2, <1>3 DEF Position, Agrees
<1>5. k < sent /\ Allowed(r) /\ ~r.raw /\ src \in Seq(Int) /\ t \in Seq(Int) /\ c \in Seq(Int) /\ ~ForProxy(r)
  BY <1>1, <1>3, <1>4, Handling DEF Writing
<1>6. h \in Seq(Int) /\ Outgoing = c
  BY <1>1, <1>2, <1>3, <1>4, Parts
<1>7. Waiting(replies, k + 1, sent, src') /\ src' \in Seq(Int)
  <2>1. CASE body = None
    BY <1>1, <1>2, <1>4, <2>1, Parts
  <2>2. CASE body # None
    BY <1>1, <1>2, <1>4, <1>5, <2>2, Parts
  <2>3. QED
    BY <2>1, <2>2
<1>8. PICK d, f : d = ClientFramesOf(replies, k) /\ f = ClientFrame(r)
  OBVIOUS
<1>9. dst' = d \o f
  <2>1. d \in Seq(Int)
    BY <1>1, <1>8, Progress
  <2>2. PICK g : g = h \o t
    OBVIOUS
  <2>3. g \in Seq(Int)
    BY <1>5, <1>6, <2>2, Begins, Zenon
  <2>4. (d \o g) \o c = d \o (g \o c)
    BY <1>5, <2>1, <2>3, Assoc, Zenon
  <2>5. f = g \o c
    BY <1>3, <1>5, <1>8, <2>2, FrameCells, Zenon
  <2>6. dst = d \o g
    BY <1>4, <1>8, <2>2 DEF Written
  <2>7. QED
    BY <1>2, <1>6, <2>4, <2>5, <2>6, Zenon
<1>10. r.id # reauthCorrelationID
  BY <1>5 DEF ForProxy
<1>11. QED
  BY <1>1, <1>2, <1>5, <1>7, <1>8, <1>9, <1>10, Finishes

\* A write in two parts, between what has been written and what is still to come.
Pieces(d, a, p, q, b) ==
    d \in Seq(Int) /\ a \in Seq(Int) /\ p \in Seq(Int) /\ q \in Seq(Int) /\ b \in Seq(Int)

\* The parts can be regrouped around the end of what was written.
LEMMA Splice ==
    ASSUME NEW d, NEW a, NEW p, NEW q, NEW b, Pieces(d, a, p, q, b)
    PROVE  /\ (d \o a) \o p = d \o (a \o p) /\ a \o p \in Seq(Int)
           /\ a \o ((p \o q) \o b) = (a \o p) \o (q \o b) /\ q \o b \in Seq(Int)
<1>0. d \in Seq(Int) /\ a \in Seq(Int) /\ p \in Seq(Int) /\ q \in Seq(Int) /\ b \in Seq(Int)
  BY DEF Pieces
<1>1. PICK rest : rest = q \o b
  OBVIOUS
<1>2. rest \in Seq(Int) /\ a \o p \in Seq(Int)
  BY <1>0, <1>1, Begins
<1>3. (d \o a) \o p = d \o (a \o p)
  BY <1>0, Assoc
<1>4. (p \o q) \o b = p \o rest
  BY <1>0, <1>1, Assoc
<1>5. (a \o p) \o rest = a \o (p \o rest)
  <2>1. a \in Seq(Int) /\ p \in Seq(Int) /\ rest \in Seq(Int)
    BY <1>0, <1>2
  <2>2. QED
    BY <2>1, Assoc
<1>6. QED
  BY <1>1, <1>2, <1>3, <1>4, <1>5, Zenon

\* A connection may fail after any part of a write.
LEMMA FailsKeeps == ASSUME IInv, ConnectionFails PROVE IInv'
<1>1. PICK k, r : Position(k, r)
  BY Positioned
<1>2. PICK n \in 0..Len(Outgoing) : dst' = dst \o SubSeq(Outgoing, 1, n)
  BY DEF ConnectionFails
<1>3. /\ pc \notin {"refused", "closed"} /\ pc' = "closed"
      /\ UNCHANGED <<replies, sent, queue, src, header, tagged, body, session>>
  BY DEF ConnectionFails, Goto
<1>4. TypeOK /\ Agrees(k, r) /\ sent \in 0..Len(replies) /\ Len(replies) \in Nat /\ r = replies[k + 1]
  BY <1>1 DEF Position
<1>5. /\ pc \in {"header", "tagged", "modify", "writeHeader", "writeTagged", "writeBody"}
      /\ src \in Seq(Int) /\ dst \in Seq(Int) /\ tagged \in Seq(Int) /\ body \in Seq(Seq(Int))
      /\ header \in [Length : Nat \ {0, 1}, CorrelationID : Int] /\ sent' \in sent..Len(replies)
  BY <1>3, <1>4 DEF TypeOK
<1>6. ASSUME AtClosed(k, r)', dst' \in Seq(Int) PROVE IInv'
  <2>1. Agrees(k, r)'
    BY <1>3, <1>6 DEF Agrees
  <2>2. QED
    BY <1>1, <1>3, <1>5, <1>6, <2>1, Within
<1>7. CASE pc \in {"header", "tagged", "modify"}
  <2>1. Outgoing = <<>>
    BY <1>7, OutgoingIs
  <2>2. SubSeq(<<>>, 1, n) = <<>>
    BY <1>2, <2>1
  <2>3. dst \o <<>> = dst
    BY <1>5
  <2>4. dst' = dst
    BY <1>2, <2>1, <2>2, <2>3, Zenon
  <2>5. Untouched(k)
    BY <1>1, <1>7, Progress
  <2>6. AtClosed(k, r)'
    BY <1>3, <2>4, <2>5 DEF AtClosed, Untouched
  <2>7. QED
    BY <1>5, <1>6, <2>4, <2>6
<1>8. CASE pc \in {"writeHeader", "writeTagged", "writeBody"}
  <2>1. Writing(k, r)
    BY <1>4, <1>8 DEF Agrees
  <2>2. PICK h, t, c : h = Heading(r, Body(ForClient(r))) /\ t = TagCells(r) /\ c = Body(ForClient(r))
    OBVIOUS
  <2>3. /\ k < Len(replies) /\ Allowed(r) /\ ~r.raw /\ t \in Seq(Int) /\ c \in Seq(Int)
        /\ ~ForProxy(r) /\ ~Refusable(r)
    BY <1>1, <2>1, <2>2, Handling DEF Writing
  <2>4. h \in Seq(Int)
    BY <1>1, <2>1, <2>2, Parts
  <2>5. PICK d : d = ClientFramesOf(replies, k)
    OBVIOUS
  <2>6. d \in Seq(Int) /\ <<>> \in Seq(Int)
    BY <1>1, <2>5, Progress
  <2>7. ClientFrame(r) = (h \o t) \o c
    BY <2>2, <2>3, FrameCells
  <2>8. PICK g, e : g = h \o t /\ e = t \o c
    OBVIOUS
  <2>9. g \in Seq(Int) /\ e \in Seq(Int) /\ g \o c = h \o e
    BY <2>3, <2>4, <2>8, Assoc, Begins, Zenon
  <2>10. \E before \in Seq(Int), o \in Seq(Int), after \in Seq(Int) :
             /\ dst = d \o before /\ Outgoing = o /\ ClientFrame(r) = before \o (o \o after)
    <3>1. CASE pc = "writeHeader"
      <4>1. Outgoing = h
        BY <1>1, <2>1, <2>2, <3>1, Parts
      <4>2. dst = d /\ d = d \o <<>>
        BY <1>4, <2>5, <2>6, <3>1 DEF Agrees, Untouched
      <4>3. ClientFrame(r) = h \o e /\ h \o e \in Seq(Int)
        BY <2>4, <2>7, <2>8, <2>9, Begins, Zenon
      <4>4. ClientFrame(r) = <<>> \o (h \o e)
        BY <4>3
      <4>5. dst = d \o <<>>
        BY <4>2, Zenon
      <4>6. QED
        BY <2>4, <2>6, <2>9, <4>1, <4>4, <4>5, Zenon
    <3>2. CASE pc = "writeTagged"
      <4>1. Outgoing = t
        BY <1>1, <2>1, <2>2, <3>2, Parts
      <4>2. dst = d \o h
        BY <1>4, <2>2, <2>5, <3>2 DEF Agrees, Written
      <4>3. ClientFrame(r) = h \o (t \o c)
        BY <2>7, <2>8, <2>9, Zenon
      <4>4. QED
        BY <2>3, <2>4, <4>1, <4>2, <4>3, Zenon
    <3>3. CASE pc = "writeBody"
      <4>1. Outgoing = c
        BY <1>1, <2>1, <2>2, <3>3, Parts
      <4>2. dst = d \o g
        BY <1>4, <2>2, <2>5, <2>8, <3>3 DEF Agrees, Written
      <4>3. c = c \o <<>>
        BY <2>3
      <4>4. ClientFrame(r) = g \o (c \o <<>>)
        BY <2>7, <2>8, <4>3, Zenon
      <4>5. QED
        BY <2>3, <2>6, <2>9, <4>1, <4>2, <4>4, Zenon
    <3>4. QED
      BY <1>8, <3>1, <3>2, <3>3
  <2>11. PICK before \in Seq(Int), o \in Seq(Int), after \in Seq(Int) :
             /\ dst = d \o before /\ Outgoing = o /\ ClientFrame(r) = before \o (o \o after)
    BY <2>10
  <2>12. PICK part \in Seq(Int), rest \in Seq(Int) :
             (d \o before) \o SubSeq(o, 1, n) = d \o part /\ before \o (o \o after) = part \o rest
    <3>1. n \in 0..Len(o) /\ d \in Seq(Int)
      BY <1>2, <2>6, <2>11
    <3>2. PICK p : p = SubSeq(o, 1, n)
      OBVIOUS
    <3>3. PICK q \in Seq(Int) : p \in Seq(Int) /\ o = p \o q
      BY <2>11, <3>1, <3>2, PartOf
    <3>4. Pieces(d, before, p, q, after)
      BY <2>11, <3>1, <3>3 DEF Pieces
    <3>5. /\ (d \o before) \o p = d \o (before \o p) /\ before \o p \in Seq(Int)
          /\ before \o ((p \o q) \o after) = (before \o p) \o (q \o after) /\ q \o after \in Seq(Int)
      BY <3>4, Splice, Zenon
    <3>6. PICK part, rest : part = before \o p /\ rest = q \o after
      OBVIOUS
    <3>7. /\ part \in Seq(Int) /\ rest \in Seq(Int) /\ (d \o before) \o SubSeq(o, 1, n) = d \o part
          /\ before \o (o \o after) = part \o rest
      BY <3>2, <3>3, <3>5, <3>6, Zenon
    <3>8. QED
      BY <3>7
  <2>13. part \in Seq(Int) /\ rest \in Seq(Int)
    BY <2>12
  <2>14. dst' = d \o part
    BY <1>2, <2>11, <2>12, Zenon
  <2>15. ClientFrame(r) = part \o rest
    BY <2>11, <2>12, Zenon
  <2>16. dst' \in Seq(Int)
    BY <2>6, <2>13, <2>14, Begins
  <2>17. AtClosed(k, r)'
    <3>1. Written(k, part)'
      BY <1>3, <2>5, <2>14 DEF Written
    <3>2. QED
      BY <1>3, <1>4, <2>3, <2>13, <2>15, <3>1 DEF AtClosed
  <2>18. QED
    BY <1>6, <2>16, <2>17
<1>9. QED
  BY <1>5, <1>7, <1>8

\* Every step keeps the invariant.
LEMMA Inductive == IInv /\ [Next]_vars => IInv'
<1>1. SUFFICES ASSUME IInv, [Next]_vars PROVE IInv'
  OBVIOUS
<1>2. CASE BrokerSends
  BY <1>1, <1>2, SendKeeps
<1>3. CASE ReadHeader
  BY <1>1, <1>3, HeaderKeeps
<1>4. CASE CopySaslAuthResponse
  BY <1>1, <1>4, CopyKeeps
<1>5. CASE ConsumeReauthResponse
  BY <1>1, <1>5, ConsumeKeeps
<1>6. CASE MaybeRead
  BY <1>1, <1>6, MaybeReadKeeps
<1>7. CASE PassOn
  BY <1>1, <1>7, PassOnKeeps
<1>8. CASE Rewrite
  BY <1>1, <1>8, RewriteKeeps
<1>9. CASE WriteHeader
  BY <1>1, <1>9, WriteHeaderKeeps
<1>10. CASE WriteTagged
  BY <1>1, <1>10, WriteTaggedKeeps
<1>11. CASE WriteBody
  BY <1>1, <1>11, WriteBodyKeeps
<1>12. CASE ConnectionFails
  BY <1>1, <1>12, FailsKeeps
<1>13. CASE UNCHANGED vars
  BY <1>1, <1>13, StutterKeeps
<1>14. CASE Idle
  BY <1>1, <1>14, StutterKeeps DEF Idle
<1>15. QED
  BY <1>1, <1>2, <1>3, <1>4, <1>5, <1>6, <1>7, <1>8, <1>9, <1>10, <1>11, <1>12, <1>13, <1>14, Zenon DEF Next

------------------------------------------------------------------------------
(* The theorems.                                                            *)

\* handleResponse stays in step with both streams: at every step it has read of the
\* broker's and written of the client's exactly what belongs to that step.
THEOREM InStep == Spec => []IInv
<1>1. QED
  BY InitHolds, Inductive, PTL DEF Spec

\* Every variable keeps its type, replies are handled in the order they were sent, and
\* none that has not arrived.
THEOREM TypeCorrect == Spec => []TypeOK
<1>1. IInv => TypeOK
  BY DEF IInv
<1>2. QED
  BY <1>1, InStep, PTL

\* The client has exactly the frames of the replies so far with the listeners' addresses
\* in them, and in between only a beginning of the next one (handleResponse, Apply and
\* copySaslAuthResponse), for every stream of replies, every mapping and every limit.
THEOREM ClientFollowsStream == Spec => []ClientStream
<1>1. QED
  BY ClientFollows, InStep, PTL

\* A connection is ended over a reply only when the reply cannot be delivered, and then
\* before any of it has been written.
THEOREM RefusedAsAWhole == Spec => []RefusedWhole
<1>1. QED
  BY RefusedFollows, InStep, PTL

\* The session of the connection is the one the broker granted last (consumeReauthResponse,
\* CompleteReauth), behind messages and bytes of any length.
THEOREM SessionIsCurrent == Spec => []SessionCurrent
<1>1. IInv => SessionCurrent
  BY DEF IInv
<1>2. QED
  BY <1>1, InStep, PTL

=============================================================================
