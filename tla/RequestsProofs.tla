--------------------------- MODULE RequestsProofs ---------------------------
(***************************************************************************)
(* Proofs about module Requests, for every radix, every limit and every    *)
(* set of requests that a client may send (ClientAssumption): the types,   *)
(* what the broker finds in its stream (BrokerStream) and that a marker    *)
(* waits for each of its answers (MarkersRight).                           *)
(*                                                                         *)
(* What a stream contains is defined by recursion over it.  The proofs     *)
(* carry along how the broker got to where it is (Reaches) and need        *)
(* induction only once, to show that this is what Reading computes.        *)
(***************************************************************************)
EXTENDS Requests, TLAPS, WellFoundedInduction, SequenceTheorems

\* The broker gets to reading p of its stream, one whole request after the other.
\* Which of them are answered does not depend on what the client has yet to send.
Reaches(p) ==
    \E n \in Nat : \E g :
        /\ g[0] = Unread /\ g[n] = p
        /\ \A k \in 0..n : g[k].end \in Nat /\ k <= g[k].end
        /\ \A k \in 0..n - 1 :
            /\ WholeAt(g[k].end)
            /\ g[k + 1] = ReadOn(g[k])
            /\ FromProxy(FrameAt(g[k].end)) \/ Len(g[k].client) \in 0..Len(sent) - 1

------------------------------------------------------------------------------
(* Induction, for sets of numbers.                                          *)

\* A set with 0 and every successor of its numbers contains all numbers.
LEMMA Induction ==
    ASSUME NEW S, 0 \in S, \A n \in Nat : n \in S => n + 1 \in S
    PROVE  \A n \in Nat : n \in S
<1> DEFINE T == Nat \ S
<1> DEFINE R == OpToRel(<, Nat)
<1>1. IsWellFoundedOn(R, Nat)
  BY NatLessThanWellFounded
<1>2. SUFFICES ASSUME T # {} PROVE FALSE
  OBVIOUS
<1>3. T \subseteq Nat
  OBVIOUS
<1> HIDE DEF R, T
<1>4. PICK x \in T : \A y \in T : <<y, x>> \notin R
  BY <1>1, <1>2, <1>3, WFMin, Zenon
<1> USE DEF T
<1>5. x \in Nat /\ x # 0 /\ x - 1 \in Nat /\ x - 1 < x
  OBVIOUS
<1>6. x - 1 \in S
  BY <1>4, <1>5 DEF R, OpToRel
<1>7. QED
  BY <1>5, <1>6

\* The recursion that defines Reading has a solution.
LEMMA ReadingExists == \E f : f = [k \in Nat |-> IF k = 0 THEN Unread ELSE ReadOn(f[k - 1])]
<1> DEFINE Part(n, f) == f = [k \in 0..n |-> IF k = 0 THEN Unread ELSE ReadOn(f[k - 1])]
<1>1. \A n \in Nat : \E f : Part(n, f)
  <2> DEFINE S == {n \in Nat : \E f : Part(n, f)}
  <2>1. 0 \in S
    <3>1. Part(0, [k \in 0..0 |-> Unread])
      OBVIOUS
    <3>2. QED
      BY <3>1
  <2>2. ASSUME NEW n \in Nat, n \in S PROVE n + 1 \in S
    <3>1. PICK f : Part(n, f)
      BY <2>2
    <3> DEFINE h == [k \in 0..n + 1 |-> IF k = n + 1 THEN ReadOn(f[n]) ELSE f[k]]
    <3>2. \A k \in 0..n + 1 : h[k] = IF k = 0 THEN Unread ELSE ReadOn(h[k - 1])
      <4> SUFFICES ASSUME NEW k \in 0..n + 1 PROVE h[k] = IF k = 0 THEN Unread ELSE ReadOn(h[k - 1])
        OBVIOUS
      <4>1. CASE k = n + 1
        <5>1. h[k] = ReadOn(f[n]) /\ h[k - 1] = f[n]
          BY <4>1
        <5>2. QED
          BY <4>1, <5>1
      <4>2. CASE k # n + 1
        <5>1. k \in 0..n /\ h[k] = f[k] /\ (k # 0 => h[k - 1] = f[k - 1])
          BY <4>2
        <5>2. f[k] = IF k = 0 THEN Unread ELSE ReadOn(f[k - 1])
          BY <3>1, <5>1
        <5>3. QED
          BY <5>1, <5>2
      <4>3. QED
        BY <4>1, <4>2
    <3>3. h = [k \in 0..n + 1 |-> h[k]]
      OBVIOUS
    <3> HIDE DEF h
    <3>4. Part(n + 1, h)
      BY <3>2, <3>3
    <3> HIDE DEF Part
    <3>5. QED
      BY <3>4
  <2>3. \A n \in Nat : n \in S
    <3> HIDE DEF S
    <3>1. QED
      BY <2>1, <2>2, Induction
  <2>4. QED
    BY <2>3
<1>2. ASSUME NEW n \in Nat, NEW m \in Nat, NEW f, NEW g, Part(n, f), Part(m, g),
             NEW k \in Nat, k <= n, k <= m
      PROVE  f[k] = g[k]
  <2> DEFINE S == {i \in Nat : i <= n /\ i <= m => f[i] = g[i]}
  <2>1. 0 \in S
    <3>1. f[0] = Unread
      BY <1>2
    <3>2. g[0] = Unread
      BY <1>2
    <3>3. QED
      BY <3>1, <3>2
  <2>2. ASSUME NEW i \in Nat, i \in S PROVE i + 1 \in S
    <3>1. SUFFICES ASSUME i + 1 <= n, i + 1 <= m PROVE f[i + 1] = g[i + 1]
      OBVIOUS
    <3>2. f[i] = g[i]
      BY <2>2, <3>1
    <3>3. f[i + 1] = ReadOn(f[i]) /\ g[i + 1] = ReadOn(g[i])
      <4>1. i + 1 \in 0..n /\ i + 1 \in 0..m /\ i + 1 # 0 /\ (i + 1) - 1 = i
        BY <3>1
      <4>2. \A j \in 0..n : f[j] = IF j = 0 THEN Unread ELSE ReadOn(f[j - 1])
        BY <1>2
      <4>3. \A j \in 0..m : g[j] = IF j = 0 THEN Unread ELSE ReadOn(g[j - 1])
        BY <1>2
      <4> HIDE DEF Part
      <4>4. QED
        BY <4>1, <4>2, <4>3
    <3>4. QED
      BY <3>2, <3>3
  <2>3. \A i \in Nat : i \in S
    <3> HIDE DEF S
    <3>1. QED
      BY <2>1, <2>2, Induction
  <2>4. QED
    BY <1>2, <2>3
<1> DEFINE At(n) == CHOOSE f : Part(n, f)
<1>3. \A n \in Nat : Part(n, At(n))
  <2> HIDE DEF Part
  <2>1. QED
    BY <1>1
<1> DEFINE F == [k \in Nat |-> At(k)[k]]
<1>4. \A k \in Nat : F[k] = IF k = 0 THEN Unread ELSE ReadOn(F[k - 1])
  <2> SUFFICES ASSUME NEW k \in Nat PROVE F[k] = IF k = 0 THEN Unread ELSE ReadOn(F[k - 1])
    OBVIOUS
  <2>1. At(k)[k] = IF k = 0 THEN Unread ELSE ReadOn(At(k)[k - 1])
    <3>1. Part(k, At(k))
      BY <1>3
    <3> HIDE DEF At
    <3>2. QED
      BY <3>1
  <2>2. CASE k # 0
    <3>1. k - 1 \in Nat /\ k - 1 <= k
      BY <2>2
    <3>2. Part(k, At(k)) /\ Part(k - 1, At(k - 1))
      BY <1>3, <3>1
    <3> HIDE DEF At, Part
    <3>3. At(k)[k - 1] = At(k - 1)[k - 1]
      BY <1>2, <3>1, <3>2
    <3>4. F[k] = At(k)[k] /\ F[k - 1] = At(k - 1)[k - 1]
      BY <3>1
    <3> HIDE DEF F
    <3>5. QED
      BY <2>1, <2>2, <3>3, <3>4
  <2>3. CASE k = 0
    BY <2>1, <2>3
  <2>4. QED
    BY <2>2, <2>3
<1>5. F = [k \in Nat |-> F[k]]
  OBVIOUS
<1> HIDE DEF F
<1>6. QED
  BY <1>4, <1>5

\* Reading is what its definition says.
LEMMA ReadingSteps == Reading[0] = Unread /\ \A k \in Nat : Reading[k + 1] = ReadOn(Reading[k])
<1>1. PICK f : f = [k \in Nat |-> IF k = 0 THEN Unread ELSE ReadOn(f[k - 1])]
  BY ReadingExists
<1>2. Reading = [k \in Nat |-> IF k = 0 THEN Unread ELSE ReadOn(Reading[k - 1])]
  BY <1>1 DEF Reading
<1>3. QED
  BY <1>2

------------------------------------------------------------------------------
(* How the broker's reading grows.                                          *)

\* Nothing is read of an empty stream.
LEMMA ReachesUnread == Reaches(Unread)
<1> DEFINE g == [k \in {0} |-> Unread]
<1>1. g[0] = Unread /\ Unread.end = 0
  BY DEF Unread
<1>2. \A k \in 0..0 : g[k].end \in Nat /\ k <= g[k].end
  BY <1>1
<1> HIDE DEF g
<1>3. QED
  BY <1>1, <1>2 DEF Reaches

\* Where the broker gets when no whole request is left is what has arrived.
LEMMA ReachesArrived ==
    ASSUME NEW p, Reaches(p), ~WholeAt(p.end), dst \in Seq(Int), p.end <= Len(dst)
    PROVE  Arrived = p
<1>1a. PICK n \in Nat : \E g :
        /\ g[0] = Unread /\ g[n] = p
        /\ \A k \in 0..n : g[k].end \in Nat /\ k <= g[k].end
        /\ \A k \in 0..n - 1 : g[k + 1] = ReadOn(g[k])
  BY DEF Reaches
<1>1. PICK g :
        /\ g[0] = Unread /\ g[n] = p
        /\ \A k \in 0..n : g[k].end \in Nat /\ k <= g[k].end
        /\ \A k \in 0..n - 1 : g[k + 1] = ReadOn(g[k])
  BY <1>1a
<1>2. Reading[n] = p
  <2> DEFINE S == {k \in Nat : k <= n => Reading[k] = g[k]}
  <2>1. 0 \in S
    BY <1>1, ReadingSteps
  <2>2. ASSUME NEW k \in Nat, k \in S PROVE k + 1 \in S
    BY <2>2, <1>1, ReadingSteps
  <2>3. \A k \in Nat : k \in S
    <3> HIDE DEF S
    <3>1. QED
      BY <2>1, <2>2, Induction
  <2>4. QED
    BY <1>1, <2>3
<1>3. ReadOn(p) = p
  BY DEF ReadOn
<1>4. \A k \in Nat : Reading[n + k] = p
  <2> DEFINE S == {k \in Nat : Reading[n + k] = p}
  <2>1. 0 \in S
    BY <1>2
  <2>2. ASSUME NEW k \in Nat, k \in S PROVE k + 1 \in S
    <3>1. Reading[n + k] = p /\ n + k \in Nat
      BY <2>2
    <3>2. Reading[(n + k) + 1] = ReadOn(p)
      BY <3>1, ReadingSteps
    <3>3. (n + k) + 1 = n + (k + 1)
      OBVIOUS
    <3>4. QED
      BY <3>2, <3>3, <1>3
  <2>3. \A k \in Nat : k \in S
    <3> HIDE DEF S
    <3>1. QED
      BY <2>1, <2>2, Induction
  <2>4. QED
    BY <2>3
<1>5. n <= p.end /\ p.end \in Nat /\ Len(dst) \in Nat
  BY <1>1
<1>6. Len(dst) - n \in Nat /\ n + (Len(dst) - n) = Len(dst)
  BY <1>5
<1>7. QED
  BY <1>4, <1>6 DEF Arrived

\* A whole request stays where it is when more is written.
LEMMA WholeStays ==
    ASSUME dst \in Seq(Int), NEW x \in Seq(Int), dst' = dst \o x, NEW n \in Nat, WholeAt(n)
    PROVE  WholeAt(n)' /\ FrameAt(n)' = FrameAt(n)
<1>1. n < Len(dst) /\ dst[n + 1] \in 0..Len(dst) - n - 1
  BY DEF WholeAt
<1>2. dst' \in Seq(Int) /\ Len(dst') = Len(dst) + Len(x) /\ \A i \in 1..Len(dst) : dst'[i] = dst[i]
  OBVIOUS
<1>3. dst'[n + 1] = dst[n + 1]
  BY <1>1, <1>2
<1>4. WholeAt(n)'
  BY <1>1, <1>2, <1>3 DEF WholeAt
<1> DEFINE e == n + 1 + dst[n + 1]
<1>5. e \in n + 1..Len(dst)
  BY <1>1
<1>6. SubSeq(dst', n + 1, e) = SubSeq(dst, n + 1, e)
  <2> HIDE DEF e
  <2>1. n + 1 \in 1..Len(dst) /\ Len(dst) <= Len(dst')
    BY <1>1, <1>2
  <2>2. \A i \in 1..e - (n + 1) + 1 : dst'[(n + 1) + i - 1] = dst[(n + 1) + i - 1]
    BY <1>2, <1>5, <2>1
  <2>3. QED
    BY <1>2, <1>5, <2>1, <2>2
<1>7. QED
  BY <1>3, <1>4, <1>6 DEF FrameAt

\* What the broker has read stays read when more is written or sent.
LEMMA ReachesStays ==
    ASSUME NEW p, Reaches(p), dst \in Seq(Int), NEW x \in Seq(Int), dst' = dst \o x,
           sent \in Seq(Sends), sent' = sent \/ \E r \in Sends : sent' = Append(sent, r)
    PROVE  Reaches(p)'
<1>1a. PICK n \in Nat : \E g :
        /\ g[0] = Unread /\ g[n] = p
        /\ \A k \in 0..n : g[k].end \in Nat /\ k <= g[k].end
        /\ \A k \in 0..n - 1 :
            /\ WholeAt(g[k].end)
            /\ g[k + 1] = ReadOn(g[k])
            /\ FromProxy(FrameAt(g[k].end)) \/ Len(g[k].client) \in 0..Len(sent) - 1
  BY DEF Reaches
<1>1. PICK g :
        /\ g[0] = Unread /\ g[n] = p
        /\ \A k \in 0..n : g[k].end \in Nat /\ k <= g[k].end
        /\ \A k \in 0..n - 1 :
            /\ WholeAt(g[k].end)
            /\ g[k + 1] = ReadOn(g[k])
            /\ FromProxy(FrameAt(g[k].end)) \/ Len(g[k].client) \in 0..Len(sent) - 1
  BY <1>1a
<1>2. ASSUME NEW k \in 0..n - 1
      PROVE  /\ WholeAt(g[k].end)'
             /\ g[k + 1] = ReadOn(g[k])'
             /\ FromProxy(FrameAt(g[k].end)') \/ Len(g[k].client) \in 0..Len(sent') - 1
  <2>1. g[k].end \in Nat /\ WholeAt(g[k].end) /\ k \in 0..n
    BY <1>1
  <2>2. WholeAt(g[k].end)' /\ FrameAt(g[k].end)' = FrameAt(g[k].end)
    BY <2>1, WholeStays
  <2>3. FromProxy(FrameAt(g[k].end)) \/ Len(g[k].client) \in 0..Len(sent) - 1
    BY <1>1
  <2>4. Len(g[k].client) \in 0..Len(sent) - 1 =>
            /\ Len(g[k].client) \in 0..Len(sent') - 1
            /\ Answered(Len(g[k].client) + 1)' = Answered(Len(g[k].client) + 1)
    <3>1. Len(sent) <= Len(sent') /\ \A i \in 1..Len(sent) : sent'[i] = sent[i]
      OBVIOUS
    <3>2. SUFFICES ASSUME Len(g[k].client) \in 0..Len(sent) - 1
                   PROVE  /\ Len(g[k].client) \in 0..Len(sent') - 1
                          /\ Answered(Len(g[k].client) + 1)' = Answered(Len(g[k].client) + 1)
      OBVIOUS
    <3> DEFINE i == Len(g[k].client) + 1
    <3>3. i \in 1..Len(sent) /\ i <= Len(sent')
      BY <3>1, <3>2
    <3> HIDE DEF i
    <3>4. Answered(i)' = Answered(i)
      BY <3>1, <3>3 DEF Answered
    <3>5. QED
      BY <3>1, <3>2, <3>4 DEF i
  <2>5. ReadOn(g[k])' = ReadOn(g[k])
    BY <2>1, <2>2, <2>3, <2>4 DEF ReadOn
  <2>6. QED
    BY <1>1, <2>2, <2>3, <2>4, <2>5
<1>3. QED
  BY <1>1, <1>2 DEF Reaches

\* What the reading becomes when the request f is complete.
Grown(p, f, n) ==
    [end    |-> n,
     client |-> IF FromProxy(f) THEN p.client ELSE Append(p.client, f),
     due    |-> IF FromProxy(f) \/ Answered(Len(p.client) + 1)
                THEN Append(p.due, Marker(f[2], f[3])) ELSE p.due]

\* A request that ends a stream is found by its size.
LEMMA FrameFound ==
    ASSUME NEW s \in Seq(Int), NEW f \in Seq(Int), f # <<>>, f[1] = Len(f) - 1, NEW e \in Nat,
           Len(s) = e + Len(f), \A j \in 1..Len(f) : s[e + j] = f[j]
    PROVE  /\ e < Len(s) /\ s[e + 1] \in 0..Len(s) - e - 1
           /\ SubSeq(s, e + 1, e + 1 + s[e + 1]) = f
<1>1. Len(f) \in Nat /\ Len(f) >= 1 /\ 1 \in 1..Len(f)
  OBVIOUS
<1>2. s[e + 1] = Len(f) - 1
  BY <1>1
<1> DEFINE t == SubSeq(s, e + 1, e + Len(f))
<1>3. e + 1 \in 1..Len(s) + 1 /\ e + Len(f) \in 0..Len(s)
  BY <1>1
<1>4. t \in Seq(Int) /\ Len(t) = Len(f)
  BY <1>1, <1>3
<1>5. \A j \in 1..Len(f) : t[j] = s[e + j]
  BY <1>1, <1>3
<1> HIDE DEF t
<1>6. t = f
  BY <1>4, <1>5, SeqEqual
<1>7. e + 1 + (Len(f) - 1) = e + Len(f)
  BY <1>1
<1>8. QED
  BY <1>1, <1>2, <1>3, <1>6, <1>7 DEF t

\* A write that completes a request takes the broker one request further.
LEMMA Completes ==
    ASSUME NEW p, Reaches(p), p.end \in Nat, dst \in Seq(Int), NEW x \in Seq(Int), dst' = dst \o x,
           sent \in Seq(Sends), sent' = sent,
           NEW f \in Seq(Int), f # <<>>, f[1] = Len(f) - 1,
           Len(dst') = p.end + Len(f), \A j \in 1..Len(f) : dst'[p.end + j] = f[j],
           FromProxy(f) \/ Len(p.client) \in 0..Len(sent) - 1
    PROVE  \E r : r = Grown(p, f, Len(dst')) /\ Reaches(r)'
<1>1. Reaches(p)'
  BY ReachesStays
<1>2a. PICK n \in Nat : \E g :
        /\ g[0] = Unread /\ g[n] = p
        /\ \A k \in 0..n : g[k].end \in Nat /\ k <= g[k].end
        /\ \A k \in 0..n - 1 :
            /\ WholeAt(g[k].end)'
            /\ g[k + 1] = ReadOn(g[k])'
            /\ FromProxy(FrameAt(g[k].end)') \/ Len(g[k].client) \in 0..Len(sent') - 1
  BY <1>1 DEF Reaches
<1>2. PICK g :
        /\ g[0] = Unread /\ g[n] = p
        /\ \A k \in 0..n : g[k].end \in Nat /\ k <= g[k].end
        /\ \A k \in 0..n - 1 :
            /\ WholeAt(g[k].end)'
            /\ g[k + 1] = ReadOn(g[k])'
            /\ FromProxy(FrameAt(g[k].end)') \/ Len(g[k].client) \in 0..Len(sent') - 1
  BY <1>2a
<1>3. dst' \in Seq(Int) /\ Len(f) \in Nat /\ Len(f) >= 1
  OBVIOUS
<1>4. WholeAt(p.end)' /\ FrameAt(p.end)' = f
  <2> DEFINE s == dst'
  <2>1. s \in Seq(Int) /\ Len(s) = p.end + Len(f) /\ \A j \in 1..Len(f) : s[p.end + j] = f[j]
    BY <1>3
  <2> HIDE DEF s
  <2>2. /\ p.end < Len(s) /\ s[p.end + 1] \in 0..Len(s) - p.end - 1
        /\ SubSeq(s, p.end + 1, p.end + 1 + s[p.end + 1]) = f
    BY <2>1, FrameFound
  <2>3. QED
    BY <2>2 DEF s, WholeAt, FrameAt
<1>r. PICK r : r = Grown(p, f, Len(dst'))
  OBVIOUS
<1>h. PICK h : h = [k \in 0..n + 1 |-> IF k = n + 1 THEN r ELSE g[k]]
  OBVIOUS
<1>5. ReadOn(p)' = r /\ r.end \in Nat /\ r.end >= p.end + 1
  <2>1. Answered(Len(p.client) + 1)' = Answered(Len(p.client) + 1)
    BY DEF Answered
  <2>2. ReadOn(p)' = r
    BY <1>4, <1>r, <2>1 DEF ReadOn, Grown
  <2>3. r.end = Len(dst')
    BY <1>r DEF Grown
  <2>4. QED
    BY <1>3, <2>2, <2>3
<1>6. h[n + 1] = r /\ \A k \in 0..n : h[k] = g[k]
  BY <1>h
<1>7. h[0] = Unread /\ n + 1 \in Nat /\ h[n] = p
  <2>1. g[0] = Unread /\ g[n] = p
    BY <1>2
  <2>2. QED
    BY <1>6, <2>1
<1>8. \A k \in 0..n + 1 : h[k].end \in Nat /\ k <= h[k].end
  <2> SUFFICES ASSUME NEW k \in 0..n + 1 PROVE h[k].end \in Nat /\ k <= h[k].end
    OBVIOUS
  <2>1. p.end >= n
    BY <1>2
  <2>2. CASE k = n + 1
    BY <2>1, <2>2, <1>5, <1>6
  <2>3. CASE k # n + 1
    <3>1. \A i \in 0..n : g[i].end \in Nat /\ i <= g[i].end
      BY <1>2
    <3>2. k \in 0..n
      BY <2>3
    <3>3. QED
      BY <3>1, <3>2, <1>6
  <2>4. QED
    BY <2>2, <2>3
<1>9. \A k \in 0..(n + 1) - 1 :
        /\ WholeAt(h[k].end)'
        /\ h[k + 1] = ReadOn(h[k])'
        /\ FromProxy(FrameAt(h[k].end)') \/ Len(h[k].client) \in 0..Len(sent') - 1
  <2> SUFFICES ASSUME NEW k \in 0..(n + 1) - 1
               PROVE  /\ WholeAt(h[k].end)'
                      /\ h[k + 1] = ReadOn(h[k])'
                      /\ FromProxy(FrameAt(h[k].end)') \/ Len(h[k].client) \in 0..Len(sent') - 1
    OBVIOUS
  <2>1. CASE k = n
    BY <2>1, <1>4, <1>5, <1>6, <1>7
  <2>2. CASE k # n
    <3>1. k \in 0..n - 1 /\ k \in 0..n /\ k + 1 \in 0..n
      BY <2>2
    <3>2. h[k] = g[k] /\ h[k + 1] = g[k + 1]
      BY <3>1, <1>6
    <3>3. QED
      BY <3>1, <3>2, <1>2
  <2>3. QED
    BY <2>1, <2>2
<1>10. Reaches(r)'
  <2>m. PICK m \in Nat : m = n + 1
    BY <1>7
  <2>1. /\ h[0] = Unread /\ h[m] = r
        /\ \A k \in 0..m : h[k].end \in Nat /\ k <= h[k].end
        /\ \A k \in 0..m - 1 :
            /\ WholeAt(h[k].end)'
            /\ h[k + 1] = ReadOn(h[k])'
            /\ FromProxy(FrameAt(h[k].end)') \/ Len(h[k].client) \in 0..Len(sent') - 1
    BY <1>6, <1>7, <1>8, <1>9, <2>m
  <2>2. QED
    BY <2>1 DEF Reaches
<1>11. QED
  BY <1>10, <1>r

------------------------------------------------------------------------------
(* The acks reader on a Produce request.                                    *)

\* Division with a remainder,
LEMMA DivMod ==
    ASSUME NEW a \in Nat, NEW b \in Nat, b > 0
    PROVE  a \div b \in Nat /\ a % b \in 0..b - 1 /\ a = b * (a \div b) + (a % b)
<1>1. a \div b \in Nat /\ a % b \in 0..b - 1
  OBVIOUS
<1>2. a = b * (a \div b) + (a % b)
  OBVIOUS
<1>3. QED
  BY <1>1, <1>2

\* of which there is one.
LEMMA DivUnique ==
    ASSUME NEW a \in Nat, NEW b \in Nat, b > 0, NEW k \in Nat, NEW m \in 0..b - 1, a = b * k + m
    PROVE  a \div b = k /\ a % b = m
<1>1. a \div b = k
  OBVIOUS
<1>2. a % b = m
  OBVIOUS
<1>3. QED
  BY <1>1, <1>2

\* The two digits of -1.
LEMMA MinusOneCells == Int16(-1) = <<Radix - 1, Radix - 1>>
<1> DEFINE R2 == Radix * Radix
<1>1. R2 \in Nat /\ R2 >= 3 * Radix /\ Radix \in Nat /\ Radix >= 3
  BY RequestsAssumption
<1>2. (-1) % R2 = R2 - 1
  <2> HIDE DEF R2
  <2>1. QED
    BY <1>1
<1>3. R2 - 1 = Radix * (Radix - 1) + (Radix - 1) /\ R2 - 1 \in Nat
  BY <1>1
<1>4. (R2 - 1) \div Radix = Radix - 1 /\ (R2 - 1) % Radix = Radix - 1
  <2>1. Radix - 1 \in Nat /\ Radix - 1 \in 0..Radix - 1 /\ Radix > 0
    BY <1>1
  <2> HIDE DEF R2
  <2>2. QED
    BY <1>1, <1>3, <2>1, DivUnique
<1>5. QED
  BY <1>2, <1>4 DEF Int16

\* An int16 is read as it was written.
LEMMA Int16Read ==
    ASSUME NEW n \in Int, n >= -1, 2 * n < Radix * Radix
    PROVE  /\ Int16(n) \in Seq(Int) /\ Len(Int16(n)) = 2
           /\ ToInt16(Int16(n)[1], Int16(n)[2]) = n
<1> DEFINE R2 == Radix * Radix
<1>1. R2 \in Nat /\ R2 >= 3 * Radix /\ Radix \in Nat /\ Radix >= 3
  BY RequestsAssumption
<1>2. CASE n = -1
  <2>4. Int16(n) = <<Radix - 1, Radix - 1>>
    BY <1>2, MinusOneCells
  <2>5. ToInt16(Radix - 1, Radix - 1) = -1
    <3>1. 2 * (Radix - 1) >= Radix
      BY <1>1
    <3>2. (Radix - 1) * Radix + (Radix - 1) - R2 = -1
      BY <1>1
    <3>3. QED
      BY <1>1, <3>1, <3>2 DEF ToInt16
  <2>6. QED
    <3>1. Int16(n)[1] = Radix - 1 /\ Int16(n)[2] = Radix - 1 /\ Len(Int16(n)) = 2 /\ Int16(n) \in Seq(Int)
      BY <1>1, <2>4
    <3>2. QED
      BY <1>2, <2>5, <3>1
<1>3. CASE n >= 0
  <2>1. n % R2 = n
    <3>1. n \in Nat /\ n \in 0..R2 - 1
      BY <1>1, <1>3
    <3>2. n = R2 * 0 + n /\ R2 > 0
      BY <1>1
    <3> HIDE DEF R2
    <3>3. QED
      BY <1>1, <3>1, <3>2, DivUnique
  <2>2. /\ n \div Radix \in Nat /\ n % Radix \in 0..Radix - 1
        /\ n = Radix * (n \div Radix) + (n % Radix)
    BY <1>1, <1>3, DivMod
  <2> PICK hi \in Nat : hi = n \div Radix
    BY <2>2
  <2> PICK lo \in 0..Radix - 1 : lo = n % Radix
    BY <2>2
  <2>3. Int16(n) = <<hi, lo>>
    BY <2>1 DEF Int16
  <2>4. n = hi * Radix + lo
    BY <1>1, <2>2
  <2>5. 2 * hi < Radix
    <3>1. SUFFICES ASSUME 2 * hi >= Radix PROVE FALSE
      BY <1>1
    <3>2. (2 * hi) * Radix >= Radix * Radix
      BY <3>1, <1>1
    <3>3. 2 * (hi * Radix) = (2 * hi) * Radix /\ hi * Radix \in Nat
      BY <1>1
    <3>4. 2 * n >= R2
      BY <1>1, <2>4, <3>2, <3>3
    <3>5. QED
      BY <3>4, <1>1
  <2>6. QED
    BY <1>1, <2>3, <2>4, <2>5 DEF ToInt16
<1>4. QED
  BY <1>2, <1>3

\* Where the reader is in request q behind a string, behind the header part, and when
\* it looks for acks.
StringEnd(q, at) == LET n == ToInt16(q[at + 1], q[at + 2]) IN at + 2 + (IF n = -1 THEN 0 ELSE n)
HeaderEnd(q) == StringEnd(q, 4)
AcksAt(q) == IF TxnLayout(q[3]) THEN StringEnd(q, HeaderEnd(q)) ELSE HeaderEnd(q)

\* It finds strings, stays inside the request, and learns whether there is an answer.
ReaderRight(q, answered) ==
    /\ Len(q) >= 6 /\ ToInt16(q[5], q[6]) \in Nat \cup {-1}
    /\ HeaderEnd(q) + 2 <= Len(q)
    /\ TxnLayout(q[3]) => ToInt16(q[HeaderEnd(q) + 1], q[HeaderEnd(q) + 2]) \in Nat \cup {-1}
    /\ AcksAt(q) \in Nat /\ AcksAt(q) + 2 < Len(q)
    /\ (ToInt16(q[AcksAt(q) + 1], q[AcksAt(q) + 2]) # 0) <=> answered

\* The cells of w stand in u behind the first n cells.
Holds(u, n, w) ==
    /\ u \in Seq(Int) /\ w \in Seq(Int) /\ n \in Nat /\ n + Len(w) <= Len(u)
    /\ \A j \in 1..Len(w) : u[n + j] = w[j]

\* A concatenation holds both parts,
LEMMA ConcatHolds ==
    ASSUME NEW s \in Seq(Int), NEW t \in Seq(Int), NEW u, u = s \o t
    PROVE  /\ u \in Seq(Int) /\ Len(s) \in Nat /\ Len(t) \in Nat /\ Len(u) = Len(s) + Len(t)
           /\ Holds(u, 0, s) /\ Holds(u, Len(s), t)
<1>1. Len(s) \in Nat /\ Len(t) \in Nat /\ u \in Seq(Int) /\ Len(u) = Len(s) + Len(t)
  OBVIOUS
<1>2. \A i \in 1..Len(s) + Len(t) : u[i] = IF i <= Len(s) THEN s[i] ELSE t[i - Len(s)]
  BY ConcatProperties
<1>3. ASSUME NEW j \in 1..Len(t) PROVE u[Len(s) + j] = t[j]
  <2>1. Len(s) + j \in 1..Len(s) + Len(t) /\ ~(Len(s) + j <= Len(s)) /\ (Len(s) + j) - Len(s) = j
    BY <1>1
  <2>2. QED
    BY <1>2, <2>1
<1>4. ASSUME NEW i \in 1..Len(s) PROVE u[0 + i] = s[i]
  <2>1. i \in 1..Len(s) + Len(t) /\ i <= Len(s) /\ 0 + i = i
    BY <1>1
  <2>2. QED
    BY <1>2, <2>1
<1>5. QED
  BY <1>1, <1>3, <1>4 DEF Holds

\* and what the parts hold.
LEMMA HoldsInside ==
    ASSUME NEW u, NEW v, NEW w, NEW m, NEW n, Holds(u, m, v), Holds(v, n, w)
    PROVE  Holds(u, m + n, w)
<1>1. /\ u \in Seq(Int) /\ v \in Seq(Int) /\ w \in Seq(Int) /\ m \in Nat /\ n \in Nat
      /\ Len(u) \in Nat /\ Len(v) \in Nat /\ Len(w) \in Nat
      /\ m + Len(v) <= Len(u) /\ n + Len(w) <= Len(v)
  BY DEF Holds
<1>2. m + n \in Nat /\ (m + n) + Len(w) <= Len(u)
  BY <1>1
<1>3. ASSUME NEW j \in 1..Len(w) PROVE u[(m + n) + j] = w[j]
  <2>1. n + j \in 1..Len(v) /\ m + (n + j) = (m + n) + j
    BY <1>1
  <2>2. u[m + (n + j)] = v[n + j] /\ v[n + j] = w[j]
    BY <2>1 DEF Holds
  <2>3. QED
    BY <2>1, <2>2
<1>4. QED
  BY <1>1, <1>2, <1>3 DEF Holds

\* The characters of an id.
CharCount(n) == IF n = Null THEN 0 ELSE n

\* A nullable string is its length and its characters.
LEMMA StringCells ==
    ASSUME NEW n \in Int, n >= -1, 2 * n < Radix * Radix
    PROVE  /\ NullableString(n) \in Seq(Int) /\ Len(NullableString(n)) = 2 + CharCount(n)
           /\ ToInt16(NullableString(n)[1], NullableString(n)[2]) = n
           /\ CharCount(n) \in Nat
<1> DEFINE c == Chars(CharCount(n))
<1>1. CharCount(n) \in Nat
  BY DEF CharCount, Null
<1>2. c \in Seq(Int) /\ Len(c) = CharCount(n)
  BY <1>1 DEF Chars, Char
<1>3. Int16(n) \in Seq(Int) /\ Len(Int16(n)) = 2 /\ ToInt16(Int16(n)[1], Int16(n)[2]) = n
  BY Int16Read
<1>4. NullableString(n) = Int16(n) \o c
  BY DEF NullableString, CharCount
<1> HIDE DEF c
<1>5. PICK u : u = Int16(n) \o c
  OBVIOUS
<1>6. u \in Seq(Int) /\ Len(u) = 2 + CharCount(n) /\ Holds(u, 0, Int16(n))
  <2>1. u \in Seq(Int) /\ Len(u) = Len(Int16(n)) + Len(c) /\ Holds(u, 0, Int16(n))
    BY <1>2, <1>3, <1>5, ConcatHolds, Zenon
  <2>2. QED
    BY <1>2, <1>3, <2>1
<1>7. u[1] = Int16(n)[1] /\ u[2] = Int16(n)[2]
  BY <1>3, <1>6 DEF Holds
<1>8. QED
  BY <1>1, <1>3, <1>4, <1>5, <1>6, <1>7

\* The cells of a Produce request, part by part: the header up to the correlation id,
\* the client id, what stands before acks, acks, and the rest.
LEMMA PartCells ==
    ASSUME NEW a \in Seq(Int), NEW b \in Seq(Int), NEW x \in Seq(Int), NEW i \in Seq(Int), NEW z \in Seq(Int),
           Len(a) = 3, Len(i) = 2, Len(z) = 4,
           NEW q, q = Framed(a \o b \o x \o i \o z)
    PROVE  /\ q \in Seq(Int) /\ Len(q) = 10 + Len(b) + Len(x)
           /\ Holds(q, 1, a) /\ Holds(q, 4, b) /\ Holds(q, 4 + Len(b), x)
           /\ Holds(q, 4 + Len(b) + Len(x), i) /\ Holds(q, 6 + Len(b) + Len(x), z)
<1>b. PICK s1 : s1 = a \o b
  OBVIOUS
<1>x. PICK s2 : s2 = s1 \o x
  OBVIOUS
<1>i. PICK s3 : s3 = s2 \o i
  OBVIOUS
<1>z. PICK s4 : s4 = s3 \o z
  OBVIOUS
<1>1. s1 \in Seq(Int) /\ Len(s1) = Len(a) + Len(b) /\ Holds(s1, 0, a) /\ Holds(s1, Len(a), b)
  BY <1>b, ConcatHolds, Zenon
<1>2. s2 \in Seq(Int) /\ Len(s2) = Len(s1) + Len(x) /\ Holds(s2, 0, s1) /\ Holds(s2, Len(s1), x)
  BY <1>x, <1>1, ConcatHolds, Zenon
<1>3. s3 \in Seq(Int) /\ Len(s3) = Len(s2) + Len(i) /\ Holds(s3, 0, s2) /\ Holds(s3, Len(s2), i)
  BY <1>i, <1>2, ConcatHolds, Zenon
<1>4. s4 \in Seq(Int) /\ Len(s4) = Len(s3) + Len(z) /\ Holds(s4, 0, s3) /\ Holds(s4, Len(s3), z)
  BY <1>z, <1>3, ConcatHolds, Zenon
<1>5. q = <<Len(s4)>> \o s4
  BY <1>b, <1>x, <1>i, <1>z DEF Framed
<1>6. q \in Seq(Int) /\ Len(q) = 1 + Len(s4) /\ Holds(q, 1, s4)
  <2>1. PICK l : l = <<Len(s4)>>
    OBVIOUS
  <2>2. l \in Seq(Int) /\ Len(l) = 1
    BY <1>4, <2>1
  <2>3. q \in Seq(Int) /\ Len(q) = Len(l) + Len(s4) /\ Holds(q, Len(l), s4)
    BY <1>4, <1>5, <2>1, <2>2, ConcatHolds, Zenon
  <2>4. QED
    BY <2>2, <2>3
<1>7. Holds(q, 1 + 0, s3) /\ Holds(q, 1 + Len(s3), z)
  BY <1>4, <1>6, HoldsInside, Zenon
<1>8. Holds(q, (1 + 0) + 0, s2) /\ Holds(q, (1 + 0) + Len(s2), i)
  BY <1>3, <1>7, HoldsInside, Zenon
<1>9. Holds(q, ((1 + 0) + 0) + 0, s1) /\ Holds(q, ((1 + 0) + 0) + Len(s1), x)
  BY <1>2, <1>8, HoldsInside, Zenon
<1>10. Holds(q, (((1 + 0) + 0) + 0) + 0, a) /\ Holds(q, (((1 + 0) + 0) + 0) + Len(a), b)
  BY <1>1, <1>9, HoldsInside, Zenon
<1>11. /\ Len(b) \in Nat /\ Len(x) \in Nat
       /\ Len(s1) = 3 + Len(b) /\ Len(s2) = 3 + Len(b) + Len(x)
       /\ Len(s3) = 5 + Len(b) + Len(x) /\ Len(s4) = 9 + Len(b) + Len(x)
  <2>1. Len(b) \in Nat /\ Len(x) \in Nat
    OBVIOUS
  <2>2. Len(s1) = 3 + Len(b)
    BY <1>1
  <2>3. Len(s2) = Len(s1) + Len(x) /\ Len(s3) = Len(s2) + 2 /\ Len(s4) = Len(s3) + 4
    BY <1>2, <1>3, <1>4, Zenon
  <2>4. QED
    BY <2>1, <2>2, <2>3
<1>12. /\ 1 + Len(s3) = 6 + Len(b) + Len(x)
       /\ (1 + 0) + Len(s2) = 4 + Len(b) + Len(x)
       /\ ((1 + 0) + 0) + Len(s1) = 4 + Len(b)
       /\ (((1 + 0) + 0) + 0) + Len(a) = 4 /\ (((1 + 0) + 0) + 0) + 0 = 1
       /\ 1 + Len(s4) = 10 + Len(b) + Len(x)
  BY <1>11
<1>13. QED
  BY <1>6, <1>7, <1>8, <1>9, <1>10, <1>12, Zenon

\* How an id of length t looks in versions 9 and later to a reader of version 3: a
\* string that ends one cell late, right before acks, or among the characters.
LooksLike(x, t) ==
    /\ x \in Seq(Int) /\ Len(x) >= 2 /\ x[1] = 0 /\ x[2] \in Nat
    /\ \/ t = -1 /\ x[2] = 0 /\ Len(x) = 2
       \/ t >= 0 /\ x[2] = t + 1 /\ Len(x) = t + 2
       \/ t >= 0 /\ x[2] = t + 1 /\ Len(x) = t + 3
       \/ /\ t >= 0 /\ x[2] >= 1 /\ x[2] <= t - 1 /\ Len(x) = t + 3
          /\ x[3 + x[2]] = Char /\ x[4 + x[2]] = Char

\* It does so for every length, on whatever side of a varint's second digit.
LEMMA VarintLooks ==
    ASSUME NEW t \in Int, t >= -1, NEW x, x = << 0 >> \o CompactNullableString(t)
    PROVE  LooksLike(x, t)
<1>1. PICK h \in Nat : h = Radix \div 2
  BY RequestsAssumption
<1>2. Radix = 2 * h /\ h >= 2 /\ Radix \in Nat
  BY <1>1, RequestsAssumption
<1>3. PICK c : c = Chars(CharCount(t))
  OBVIOUS
<1>4. CharCount(t) \in Nat
  BY DEF CharCount, Null
<1>5. c \in Seq(Int) /\ Len(c) = CharCount(t) /\ \A j \in 1..CharCount(t) : c[j] = Char
  BY <1>3, <1>4 DEF Chars, Char
<1>6. PICK y : y = Varint(t + 1)
  OBVIOUS
<1>7. PICK w : w = y \o c
  OBVIOUS
<1>8. x = << 0 >> \o w
  BY <1>3, <1>6, <1>7 DEF CompactNullableString, CharCount
<1>9. PICK o : o = << 0 >>
  OBVIOUS
<1>10. o \in Seq(Int) /\ Len(o) = 1 /\ o[1] = 0
  BY <1>9
<1>11. CASE t + 1 < h
  <2>1. y = <<t + 1>>
    BY <1>1, <1>6, <1>11 DEF Varint
  <2>2. y \in Seq(Int) /\ Len(y) = 1 /\ y[1] = t + 1
    BY <2>1
  <2>3. w \in Seq(Int) /\ Len(w) = Len(y) + Len(c) /\ Holds(w, 0, y)
    BY <1>5, <1>7, <2>2, ConcatHolds, Zenon
  <2>4. /\ x \in Seq(Int) /\ Len(x) = Len(o) + Len(w) /\ Holds(x, 0, o)
        /\ Holds(x, Len(o), w)
    BY <1>8, <1>9, <1>10, <2>3, ConcatHolds, Zenon
  <2>5. x[1] = 0 /\ x[2] = t + 1 /\ Len(x) = 2 + CharCount(t)
    <3>1. x[0 + 1] = 0
      BY <1>10, <2>4 DEF Holds
    <3>2. w[0 + 1] = t + 1 /\ Len(w) = 1 + CharCount(t)
      BY <1>4, <1>5, <2>2, <2>3 DEF Holds
    <3>3. x[1 + 1] = w[1]
      BY <1>4, <1>10, <2>4, <3>2 DEF Holds
    <3>4. QED
      BY <1>4, <1>10, <2>4, <3>1, <3>2, <3>3
  <2>6. QED
    BY <2>4, <2>5 DEF LooksLike, CharCount, Null
<1>12. CASE t + 1 >= h
  <2>1. t >= 1 /\ CharCount(t) = t /\ t + 1 \in Nat
    BY <1>2, <1>12 DEF CharCount, Null
  <2>2. /\ (t + 1) \div h \in Nat /\ (t + 1) % h \in 0..h - 1
        /\ t + 1 = h * ((t + 1) \div h) + ((t + 1) % h)
    BY <1>2, <2>1, DivMod
  <2>3. PICK k \in Nat : k = (t + 1) \div h
    BY <2>2
  <2>4. PICK m \in 0..h - 1 : m = (t + 1) % h
    BY <2>2
  <2>5. y = <<h + m, k>>
    BY <1>1, <1>6, <1>12, <2>1, <2>3, <2>4 DEF Varint
  <2>6. y \in Seq(Int) /\ Len(y) = 2 /\ y[1] = h + m
    BY <2>5
  <2>7. w \in Seq(Int) /\ Len(w) = Len(y) + Len(c) /\ Holds(w, 0, y) /\ Holds(w, Len(y), c)
    BY <1>5, <1>7, <2>6, ConcatHolds, Zenon
  <2>8. /\ x \in Seq(Int) /\ Len(x) = Len(o) + Len(w) /\ Holds(x, 0, o)
        /\ Holds(x, Len(o), w)
    BY <1>8, <1>9, <1>10, <2>7, ConcatHolds, Zenon
  <2>9. Len(w) = 2 + t /\ Len(x) = 3 + t
    BY <1>5, <1>10, <2>1, <2>6, <2>7, <2>8
  <2>10. x[1] = 0 /\ x[2] = h + m
    <3>1. x[0 + 1] = 0
      BY <1>10, <2>8 DEF Holds
    <3>2. w[0 + 1] = h + m
      BY <2>6, <2>7 DEF Holds
    <3>3. x[1 + 1] = w[1]
      BY <1>10, <2>1, <2>8, <2>9 DEF Holds
    <3>4. 0 + 1 = 1 /\ 1 + 1 = 2
      OBVIOUS
    <3>5. QED
      BY <3>1, <3>2, <3>3, <3>4, Zenon
  <2>11. \A j \in 1..t : x[3 + j] = Char
    <3>1. Holds(x, Len(o) + Len(y), c)
      BY <2>7, <2>8, HoldsInside, Zenon
    <3>2. Len(o) + Len(y) = 3
      BY <1>10, <2>6
    <3>3. QED
      BY <1>5, <2>1, <3>1, <3>2 DEF Holds
  <2>12. t + 1 = h * k + m
    BY <2>2, <2>3, <2>4
  <2>13. CASE k = 1
    <3>1. h + m = t + 1
      BY <2>12, <2>13
    <3>2. QED
      BY <2>1, <2>8, <2>9, <2>10, <3>1 DEF LooksLike
  <2>14. CASE k >= 2
    <3>1. h * k >= 2 * h
      BY <2>14
    <3>2. PICK hk \in Nat : hk = h * k
      OBVIOUS
    <3>3. h + m >= 1 /\ h + m <= t - 1 /\ h + m \in Nat
      <4>1. hk >= 2 * h /\ t + 1 = hk + m
        BY <2>12, <3>1, <3>2
      <4>2. QED
        BY <1>2, <2>1, <4>1
    <3>4. x[3 + (h + m)] = Char /\ x[3 + ((h + m) + 1)] = Char
      <4>1. h + m \in 1..t /\ (h + m) + 1 \in 1..t
        BY <2>1, <3>3
      <4>2. QED
        BY <2>11, <4>1
    <3>5. 3 + ((h + m) + 1) = 4 + (h + m)
      OBVIOUS
    <3>6. x[3 + x[2]] = Char /\ x[4 + x[2]] = Char
      BY <2>10, <3>4, <3>5, Zenon
    <3>7. PICK d \in Nat : d = h + m
      BY <3>3
    <3>8. x[2] = d /\ d >= 1 /\ d <= t - 1
      BY <2>10, <3>3, <3>7
    <3>9. x \in Seq(Int) /\ x[1] = 0 /\ x[2] \in Nat /\ x[2] >= 1 /\ x[2] <= t - 1
      BY <2>8, <2>10, <3>8, Zenon
    <3>10. Len(x) >= 2 /\ Len(x) = t + 3 /\ t >= 0
      BY <2>1, <2>9
    <3>11. QED
      BY <3>6, <3>9, <3>10, Zenon DEF LooksLike
  <2>15. k # 0
    <3>1. SUFFICES ASSUME k = 0 PROVE FALSE
      OBVIOUS
    <3>2. t + 1 = m
      BY <2>12, <3>1
    <3>3. QED
      BY <1>12, <3>2
  <2>16. QED
    BY <2>13, <2>14, <2>15
<1>13. QED
  BY <1>11, <1>12

\* The parts of a Produce request q are where they belong: the client id ends behind H
\* cells, the L cells of x stand before acks.
Placed(v, a, c, t, q, x, H, L) ==
    /\ H >= 6 /\ L = Len(x) /\ Len(q) = H + 6 + L
    /\ q[3] = v /\ ToInt16(q[5], q[6]) = c /\ HeaderEnd(q) = H
    /\ \A j \in 1..Len(x) : q[H + j] = x[j]
    /\ ToInt16(q[H + L + 1], q[H + L + 2]) = a /\ q[H + L + 3] = 0
    /\ a = -1 => q[H + L + 2] = Radix - 1
    /\ v < 3 => Len(x) = 0
    /\ v \in 3..8 => Len(x) = 2 + CharCount(t) /\ ToInt16(x[1], x[2]) = t
    /\ v >= 9 => LooksLike(x, t)

\* Then the reader is right.
LEMMA PlacesRight ==
    ASSUME NEW v \in Nat, NEW a \in {-1, 0, 1}, NEW c \in Int, c >= -1,
           NEW t \in Int, t >= -1, t # Null => a = -1,
           NEW q, NEW x, NEW H \in Nat, NEW L \in Nat, Placed(v, a, c, t, q, x, H, L)
    PROVE  ReaderRight(q, a # 0)
<1> USE DEF Placed
<1> DEFINE s == ToInt16(q[H + 1], q[H + 2])
<1> DEFINE A == AcksAt(q)
<1>1. Radix \in Nat /\ Radix >= 3
  BY RequestsAssumption
<1>2. SUFFICES /\ v >= 3 => s \in Nat \cup {-1}
               /\ A \in Nat /\ A + 2 < H + 6 + L
               /\ (ToInt16(q[A + 1], q[A + 2]) # 0) <=> (a # 0)
  <2>1. TxnLayout(q[3]) => v >= 3
    BY DEF TxnLayout
  <2>2. Len(q) >= 6 /\ ToInt16(q[5], q[6]) \in Nat \cup {-1} /\ HeaderEnd(q) + 2 <= Len(q)
    <3> HIDE DEF A, s
    <3> QED OBVIOUS
  <2>3. TxnLayout(q[3]) => ToInt16(q[HeaderEnd(q) + 1], q[HeaderEnd(q) + 2]) \in Nat \cup {-1}
    BY <1>2, <2>1, Zenon
  <2>4. A + 2 < Len(q)
    BY <1>2
  <2>5. QED
    BY <1>2, <2>2, <2>3, <2>4, Zenon DEF ReaderRight
<1>3. CASE v < 3
  <2>1. A = H /\ L = 0
    BY <1>3 DEF AcksAt, TxnLayout
  <2>2. H + L + 1 = H + 1 /\ H + L + 2 = H + 2
    BY <2>1
  <2>3. ToInt16(q[H + 1], q[H + 2]) = a
    BY <2>2, Zenon
  <2> HIDE DEF A, s
  <2>4. QED
    BY <1>3, <2>1, <2>3 DEF s
<1>4. CASE v >= 3
  <2>1. A = H + 2 + (IF s = -1 THEN 0 ELSE s)
    <3>1. TxnLayout(q[3])
      BY <1>4 DEF TxnLayout
    <3>2. AcksAt(q) = StringEnd(q, H)
      BY <3>1 DEF AcksAt
    <3>3. QED
      BY <3>2 DEF StringEnd
  <2>2. L >= 2 /\ s = ToInt16(x[1], x[2])
    <3>1. L >= 2
      BY <1>4 DEF LooksLike, CharCount, Null
    <3>2. 1 \in 1..Len(x) /\ 2 \in 1..Len(x)
      BY <3>1
    <3>3. q[H + 1] = x[1] /\ q[H + 2] = x[2]
      BY <3>2, Zenon
    <3>4. QED
      BY <3>1, <3>3
  <2>w. PICK w : w = A
    OBVIOUS
  <2>u. PICK u : u = s
    OBVIOUS
  <2>3. w = H + 2 + (IF u = -1 THEN 0 ELSE u)
    BY <2>1, <2>w, <2>u, Zenon
  <2> HIDE DEF A, s
  <2>4. CASE w = H + L /\ u \in Nat \cup {-1}
    <3>1. ToInt16(q[A + 1], q[A + 2]) = a
      BY <2>4, <2>w, Zenon
    <3>2. w \in Nat /\ w + 2 < H + 6 + L
      BY <2>4
    <3>3. QED
      BY <2>4, <2>w, <2>u, <3>1, <3>2, Zenon
  <2>5. CASE v \in 3..8
    <3>1. u = t /\ L = 2 + CharCount(t)
      BY <2>5, <2>2, <2>u, Zenon
    <3>2. w = H + L /\ u \in Nat \cup {-1}
      BY <2>3, <3>1 DEF CharCount, Null
    <3>3. QED
      BY <2>4, <3>2, Zenon
  <2>6. CASE v >= 9
    <3>1. LooksLike(x, t)
      BY <2>6
    <3>2. PICK d \in Nat : d = x[2]
      BY <3>1 DEF LooksLike
    <3>3. u = d
      <4>1. ToInt16(0, d) = d
        BY <1>1 DEF ToInt16
      <4>2. x[1] = 0
        BY <3>1 DEF LooksLike
      <4>3. QED
        BY <2>2, <2>u, <3>2, <4>1, <4>2, Zenon
    <3>4. w = H + 2 + d /\ u \in Nat \cup {-1}
      BY <2>3, <3>3
    <3>5. \/ d = 0 /\ L = 2
          \/ t >= 0 /\ d = t + 1 /\ L = t + 2
          \/ d = t + 1 /\ L = t + 3
          \/ t >= 0 /\ d >= 1 /\ d <= t - 1 /\ L = t + 3 /\ x[3 + d] = Char /\ x[4 + d] = Char
      BY <3>1, <3>2, Zenon DEF LooksLike
    <3>6. CASE w = H + L
      BY <2>4, <3>4, <3>6, Zenon
    <3>7. CASE t >= 0 /\ d = t + 1 /\ L = t + 2
      <4>1. w = H + L + 1 /\ w \in Nat /\ w + 2 < H + 6 + L
        BY <3>4, <3>7
      <4>2. w + 1 = H + L + 2 /\ w + 2 = H + L + 3
        BY <4>1
      <4>3. a = -1
        BY <3>7 DEF Null
      <4>4. q[w + 1] = Radix - 1 /\ q[w + 2] = 0
        BY <4>2, <4>3, Zenon
      <4>5. ToInt16(Radix - 1, 0) # 0
        <5>1. (Radix - 1) * Radix + 0 - Radix * Radix = -Radix
          BY <1>1
        <5>2. 2 * (Radix - 1) >= Radix
          BY <1>1
        <5>3. QED
          BY <1>1, <5>1, <5>2 DEF ToInt16
      <4>6. (ToInt16(q[w + 1], q[w + 2]) # 0) <=> (a # 0)
        <5>1. a # 0
          BY <4>3
        <5>2. QED
          BY <4>4, <4>5, <5>1, Zenon
      <4>7. QED
        BY <2>w, <2>u, <3>4, <4>1, <4>6, Zenon
    <3>8. CASE t >= 0 /\ d >= 1 /\ d <= t - 1 /\ L = t + 3 /\ x[3 + d] = Char /\ x[4 + d] = Char
      <4>1. w \in Nat /\ w + 2 < H + 6 + L
        BY <3>4, <3>8
      <4>2. w + 1 = H + (3 + d) /\ w + 2 = H + (4 + d)
        BY <3>4
      <4>3. 3 + d \in 1..Len(x) /\ 4 + d \in 1..Len(x)
        BY <3>8
      <4>4. q[H + (3 + d)] = Char /\ q[H + (4 + d)] = Char
        BY <3>8, <4>3, Zenon
      <4>5. ToInt16(Char, Char) # 0
        BY <1>1 DEF ToInt16, Char
      <4>6. (ToInt16(q[w + 1], q[w + 2]) # 0) <=> (a # 0)
        <5>1. a # 0
          BY <3>8 DEF Null
        <5>2. QED
          BY <4>2, <4>4, <4>5, <5>1, Zenon
      <4>7. QED
        BY <2>w, <2>u, <3>4, <4>1, <4>6, Zenon
    <3>9. QED
      <4>1. ASSUME d = 0, L = 2 PROVE w = H + L
        BY <3>4, <4>1
      <4>2. ASSUME d = t + 1, L = t + 3 PROVE w = H + L
        <5>1. H + 2 + (t + 1) = H + (t + 3)
          OBVIOUS
        <5>2. QED
          BY <3>4, <4>2, <5>1, Zenon
      <4>3. QED
        BY <3>5, <3>6, <3>7, <3>8, <4>1, <4>2, Zenon
  <2>7. QED
    BY <1>4, <2>5, <2>6
<1>5. QED
  BY <1>3, <1>4

\* The acks reader is right about every version of Produce, ids of any length, and
\* also about versions 9 and later, whose transactional id it misreads.
LEMMA ProduceReads ==
    ASSUME NEW v \in Nat, NEW a \in {-1, 0, 1},
           NEW c \in Int, c >= -1, 2 * c < Radix * Radix,
           NEW t \in Int, t >= -1, 2 * t < Radix * Radix, t # Null => a = -1,
           NEW q, q = ProduceCells(v, c, t, a)
    PROVE  ReaderRight(q, a # 0)
<1>hd. PICK hd : hd = <<apiKeyProduce, v, 1>>
  OBVIOUS
<1>b. PICK b : b = NullableString(c)
  OBVIOUS
<1>x. PICK x : x = CASE v < 3 -> <<>>
                     [] v \in 3..8 -> NullableString(t)
                     [] OTHER -> << 0 >> \o CompactNullableString(t)
  OBVIOUS
<1>i. PICK i : i = Int16(a)
  OBVIOUS
<1>z. PICK z : z = <<0, 0, 1, 1>>
  OBVIOUS
<1>1. q = Framed(hd \o b \o x \o i \o z)
  BY <1>hd, <1>b, <1>x, <1>i, <1>z DEF ProduceCells
<1>2. Radix \in Nat /\ Radix >= 3 /\ Radix * Radix >= 9
  BY RequestsAssumption
<1>3. i \in Seq(Int) /\ Len(i) = 2 /\ ToInt16(i[1], i[2]) = a
  <2>1. a \in Int /\ a >= -1 /\ 2 * a < Radix * Radix
    BY <1>2
  <2>2. QED
    BY <1>i, <2>1, Int16Read
<1>4. hd \in Seq(Int) /\ Len(hd) = 3 /\ hd[2] = v /\ z \in Seq(Int) /\ Len(z) = 4 /\ z[1] = 0
  BY <1>hd, <1>z DEF apiKeyProduce
<1>5. b \in Seq(Int) /\ Len(b) = 2 + CharCount(c) /\ ToInt16(b[1], b[2]) = c /\ CharCount(c) \in Nat
  BY <1>b, StringCells
<1>6. /\ v < 3 => x = <<>>
      /\ v \in 3..8 => x = NullableString(t)
      /\ v >= 9 => x = << 0 >> \o CompactNullableString(t)
  BY <1>x
<1>7. x \in Seq(Int) /\ Len(x) \in Nat
  <2>1. CASE v < 3
    BY <1>6, <2>1
  <2>2. CASE v \in 3..8
    BY <1>6, <2>2, StringCells
  <2>3. CASE v >= 9
    <3>1. LooksLike(x, t)
      BY <1>6, <2>3, VarintLooks, Zenon
    <3>2. QED
      BY <3>1 DEF LooksLike
  <2>4. QED
    BY <2>1, <2>2, <2>3
<1>8. /\ q \in Seq(Int) /\ Len(q) = 10 + Len(b) + Len(x)
      /\ Holds(q, 1, hd) /\ Holds(q, 4, b) /\ Holds(q, 4 + Len(b), x)
      /\ Holds(q, 4 + Len(b) + Len(x), i) /\ Holds(q, 6 + Len(b) + Len(x), z)
  BY <1>1, <1>3, <1>4, <1>5, <1>7, PartCells, ZenonT(60)
<1>9. PICK H \in Nat : H = 4 + Len(b)
  BY <1>5
<1>10. /\ Len(q) = H + 6 + Len(x) /\ H >= 6
       /\ Holds(q, H, x) /\ Holds(q, H + Len(x), i) /\ Holds(q, H + 2 + Len(x), z)
  <2>1. ASSUME NEW l \in Nat, NEW m \in Nat, m >= 2, H = 4 + m
        PROVE  /\ 10 + m + l = H + 6 + l /\ 4 + m + l = H + l
               /\ 6 + m + l = H + 2 + l /\ H >= 6
    BY <2>1
  <2>2. Len(b) \in Nat /\ Len(b) >= 2
    BY <1>5
  <2>3. /\ 10 + Len(b) + Len(x) = H + 6 + Len(x) /\ 4 + Len(b) + Len(x) = H + Len(x)
        /\ 6 + Len(b) + Len(x) = H + 2 + Len(x) /\ H >= 6
    BY <1>7, <1>9, <2>1, <2>2, Zenon
  <2>4. QED
    BY <1>8, <1>9, <2>3, Zenon
<1>11. q[3] = v /\ ToInt16(q[5], q[6]) = c
  <2>1. q[1 + 2] = hd[2]
    BY <1>4, <1>8 DEF Holds
  <2>2. q[4 + 1] = b[1] /\ q[4 + 2] = b[2]
    <3>1. 1 \in 1..Len(b) /\ 2 \in 1..Len(b)
      BY <1>5
    <3>2. \A j \in 1..Len(b) : q[4 + j] = b[j]
      BY <1>8 DEF Holds
    <3>3. QED
      BY <3>1, <3>2, Zenon
  <2>3. 1 + 2 = 3 /\ 4 + 1 = 5 /\ 4 + 2 = 6
    OBVIOUS
  <2>4. QED
    BY <1>4, <1>5, <2>1, <2>2, <2>3, Zenon
<1>12. HeaderEnd(q) = H
  <2>1. 4 + 1 = 5 /\ 4 + 2 = 6
    OBVIOUS
  <2>2. StringEnd(q, 4) = 4 + 2 + (IF c = -1 THEN 0 ELSE c)
    BY <1>11, <2>1 DEF StringEnd
  <2>3. QED
    BY <1>5, <1>9, <2>2 DEF HeaderEnd, CharCount, Null
<1>13. \A j \in 1..Len(x) : q[H + j] = x[j]
  BY <1>10 DEF Holds
<1>14. q[H + Len(x) + 1] = i[1] /\ q[H + Len(x) + 2] = i[2] /\ q[H + Len(x) + 3] = 0
  <2>1. q[(H + Len(x)) + 1] = i[1] /\ q[(H + Len(x)) + 2] = i[2]
    BY <1>3, <1>10 DEF Holds
  <2>2. q[(H + 2 + Len(x)) + 1] = 0
    BY <1>4, <1>10 DEF Holds
  <2>3. (H + 2 + Len(x)) + 1 = H + Len(x) + 3
    BY <1>7
  <2>4. QED
    BY <2>1, <2>2, <2>3
<1>15. /\ v < 3 => Len(x) = 0
       /\ v \in 3..8 => Len(x) = 2 + CharCount(t) /\ ToInt16(x[1], x[2]) = t
       /\ v >= 9 => LooksLike(x, t)
  <2>1. v < 3 => Len(x) = 0
    BY <1>6
  <2>2. v \in 3..8 => Len(x) = 2 + CharCount(t) /\ ToInt16(x[1], x[2]) = t
    BY <1>6, StringCells
  <2>3. v >= 9 => LooksLike(x, t)
    BY <1>6, VarintLooks, Zenon
  <2>4. QED
    BY <2>1, <2>2, <2>3
<1>16. q[H + Len(x) + 1] \in Int /\ (a = -1 => q[H + Len(x) + 2] = Radix - 1)
  <2>1. i[1] \in Int
    BY <1>3
  <2>2. a = -1 => i[2] = Radix - 1
    BY <1>i, MinusOneCells
  <2>3. QED
    BY <1>14, <2>1, <2>2
<1>17. PICK L \in Nat : L = Len(x)
  BY <1>7
<1>18. /\ Len(q) = H + 6 + L /\ q[H + L + 1] = i[1] /\ q[H + L + 2] = i[2] /\ q[H + L + 3] = 0
       /\ a = -1 => q[H + L + 2] = Radix - 1
  BY <1>10, <1>14, <1>16, <1>17, Zenon
<1>19. ToInt16(q[H + L + 1], q[H + L + 2]) = a
  BY <1>3, <1>18, Zenon
<1>20. Placed(v, a, c, t, q, x, H, L)
  BY <1>10, <1>11, <1>12, <1>13, <1>15, <1>17, <1>18, <1>19, Zenon DEF Placed
<1>21. QED
  BY <1>20, PlacesRight

------------------------------------------------------------------------------
(* The inductive invariant.                                                 *)

\* The types while no header has been cut: what is left to copy is bounded by what is
\* there, and versions are the client's.
Types ==
    /\ acks0Disabled \in BOOLEAN /\ mustReply \in BOOLEAN
    /\ sent \in Seq(Sends) /\ Len(sent) <= MaxRequests
    /\ src \in Seq(Int) /\ dst \in Seq(Int) /\ read \in Seq(Int)
    /\ markers \in Seq([key : 0..maxRequestApiKey, version : Nat])
    /\ pc \in {"header", "clientID", "txnID", "acks", "marker", "write", "writeRead", "copy", "raw",
               "reauth", "reauthToken", "reauthSent", "reauthMarker", "closed"}
    /\ request.size \in Int /\ request.key \in Int /\ request.version \in Int
    /\ left \in 0..Len(src) + Len(dst) /\ timeouts \in 0..MaxTimeouts

\* The client has taken turns: a token follows a SaslHandshake v0 and nothing else, and
\* with acks=0 disabled every request is answered.
SentOK ==
    \A i \in 1..Len(sent) :
        /\ sent[i].raw <=> i > 1 /\ sent[i - 1].handshakeV0
        /\ acks0Disabled => sent[i].answered \/ sent[i].raw

\* What is left of a stream s is what was sent after the first c requests without the
\* first n cells of the next: at tells where the requests start in it.
Placement(S, s, at) ==
    /\ \A i \in 1..Len(S) + 1 : at[i] \in Int
    /\ \A i \in 1..Len(S) : at[i + 1] = at[i] + Len(S[i].cells)
    /\ \A i \in 1..Len(S), j \in Nat :
        j >= 1 /\ j <= Len(S[i].cells) /\ at[i] + j >= 1
            => at[i] + j <= Len(s) /\ s[at[i] + j] = S[i].cells[j]
    /\ at[Len(S) + 1] = Len(s)

Ahead(S, s, c, n) == \E at : Placement(S, s, at) /\ at[c + 1] = 0 - n

\* The request the loop is at when the broker has read p, and whether that is a token.
Turn(p) == Len(p.client) + 1
Cells(p) == sent[Turn(p)].cells
TokenTurn(p) == Len(p.client) >= 1 /\ sent[Len(p.client)].handshakeV0

\* The broker has n cells of it.
Begun(p, n) ==
    /\ n \in Nat /\ Len(dst) = p.end + n
    /\ n > 0 => Turn(p) <= Len(sent) /\ n < Len(Cells(p))
    /\ \A j \in 1..n : dst[p.end + j] = Cells(p)[j]

\* What is true of a reading wherever the loop is.
Sound(p) ==
    /\ p.end \in Nat /\ p.client \in Seq(Seq(Int))
    /\ p.due \in Seq([key : 0..maxRequestApiKey, version : Nat])
    /\ Len(p.client) <= Len(sent)
    /\ \A i \in 1..Len(p.client) : p.client[i] = sent[i].cells /\ (Allowed(p.client[i]) \/ sent[i].raw)
    /\ \E n \in Nat : Begun(p, n)

\* The markers of the request that the loop is at.
WithOwn(p) ==
    IF sent[Turn(p)].answered THEN Append(p.due, Marker(Cells(p)[2], Cells(p)[3])) ELSE p.due

\* Between two requests.
Between(p) ==
    /\ Begun(p, 0) /\ Ahead(sent, src, Len(p.client), 0)
    /\ read = <<>> /\ left = 0 /\ request = NoRequest
    /\ pc = "raw" <=> TokenTurn(p)
    /\ pc \in {"header", "raw", "reauth"} => markers = p.due
    /\ pc = "reauthToken" => p.due = Append(markers, handshakeMarker)
    /\ pc = "reauthSent" => p.due = Append(Append(markers, handshakeMarker), authenticateMarker)
    /\ pc = "reauthMarker" => p.due = Append(markers, authenticateMarker)

\* The loop has read the start of a request: 3 cells and what is in `read'.
Holding(p) ==
    /\ Turn(p) <= Len(sent) /\ ~sent[Turn(p)].raw
    /\ request = RequestKeyVersion(Cells(p)[1], Cells(p)[2], Cells(p)[3]) /\ ~Refused(request)
    /\ 3 + Len(read) < Len(Cells(p))
    /\ \A j \in 1..Len(read) : read[j] = Cells(p)[3 + j]
    /\ Ahead(sent, src, Len(p.client), 3 + Len(read))

ReadingAcks(p) ==
    /\ Holding(p) /\ Begun(p, 0) /\ left = 0 /\ markers = p.due /\ Cells(p)[2] = apiKeyProduce
    /\ pc = "clientID" => read = <<>>
    /\ pc = "txnID" => 3 + Len(read) = HeaderEnd(Cells(p)) /\ TxnLayout(Cells(p)[3])
    /\ pc = "acks" => 3 + Len(read) = AcksAt(Cells(p))

Writing(p) ==
    /\ Holding(p) /\ Begun(p, IF pc = "writeRead" THEN 3 ELSE 0) /\ left = 0
    /\ IF pc = "marker" THEN markers = p.due /\ mustReply = sent[Turn(p)].answered
       ELSE markers = WithOwn(p)

\* The request that myCopyN copies, or has copied.
Copied(r) == IF r.raw THEN NoRequest ELSE RequestKeyVersion(r.cells[1], r.cells[2], r.cells[3])

Copying(p) ==
    /\ Turn(p) <= Len(sent) /\ request = Copied(sent[Turn(p)]) /\ read = <<>>
    /\ Allowed(Cells(p)) \/ sent[Turn(p)].raw
    /\ left < Len(Cells(p)) /\ Begun(p, Len(Cells(p)) - left)
    /\ Ahead(sent, src, Len(p.client), Len(Cells(p)) - left)
    /\ markers = WithOwn(p)

CopyDone(p) ==
    /\ Len(p.client) >= 1 /\ request = Copied(sent[Len(p.client)]) /\ read = <<>>
    /\ Begun(p, 0) /\ Ahead(sent, src, Len(p.client), 0)
    /\ markers = p.due

\* Where the loop is agrees with what the broker has read.
Agrees(p) ==
    /\ pc \in {"header", "raw", "reauth", "reauthToken", "reauthSent", "reauthMarker"} => Between(p)
    /\ pc \in {"clientID", "txnID", "acks"} => ReadingAcks(p)
    /\ pc \in {"marker", "write", "writeRead"} => Writing(p)
    /\ pc = "copy" => IF left = 0 THEN CopyDone(p) ELSE Copying(p)

\* The loop is in step with the client.
Steady == Types /\ SentOK /\ \E p : Reaches(p) /\ Sound(p) /\ Agrees(p)

\* A request that the loop goes on with has an api key in range, cut headers or not.
InRange == pc \in {"clientID", "txnID", "acks", "marker"} => request.key \in 0..maxRequestApiKey

\* The loop is in step as long as no deadline has cut a header.
IInv == TypeOK /\ InRange /\ (intact => Steady)

------------------------------------------------------------------------------
(* What the client has sent, and what is left of it.                        *)

\* The requests of a client.
LEMMA SendFacts ==
    ASSUME NEW r \in Sends
    PROVE  /\ r.cells \in Seq(Int) /\ r.cells # <<>> /\ Len(r.cells) \in Nat /\ Len(r.cells) >= 1
           /\ r.cells[1] = Len(r.cells) - 1 /\ 2 * r.cells[1] < SizeSpace /\ ~FromProxy(r.cells)
           /\ r.answered \in BOOLEAN /\ r.raw \in BOOLEAN /\ (r.raw => ~r.answered)
           /\ ~r.raw => Len(r.cells) >= 3 /\ r.cells[3] \in Nat
           /\ ~r.raw /\ r.cells[2] # apiKeyProduce => r.answered
           /\ r.handshakeV0 <=> ~r.raw /\ r.cells[2] = apiKeySaslHandshake /\ r.cells[3] = 0
<1>1. /\ r.cells \in Seq(Int) /\ r.cells # <<>> /\ r.cells[1] = Len(r.cells) - 1 /\ 2 * r.cells[1] < SizeSpace
      /\ r.answered \in BOOLEAN /\ r.raw \in BOOLEAN /\ (r.raw => ~r.answered)
      /\ ~r.raw => Len(r.cells) >= 3 /\ r.cells[3] \in Nat
      /\ r.handshakeV0 <=> ~r.raw /\ r.cells[2] = apiKeySaslHandshake /\ r.cells[3] = 0
  BY ClientAssumption, Zenon
<1>2. ~FromProxy(r.cells)
  BY ClientAssumption, Zenon DEF FromProxy
<1>3. ~r.raw /\ r.cells[2] # apiKeyProduce => r.answered
  BY ClientAssumption, Zenon
<1>4. Len(r.cells) \in Nat /\ Len(r.cells) >= 1
  BY <1>1
<1>5. QED
  BY <1>1, <1>2, <1>3, <1>4, Zenon

\* The acks reader is right about what a client sends.
LEMMA SendReads ==
    ASSUME NEW r \in Sends, ~r.raw, r.cells[2] = apiKeyProduce
    PROVE  ReaderRight(r.cells, r.answered)
<1>1. ProduceLayout(r) /\ r.cells[3] \in Nat /\ r.answered \in BOOLEAN
  BY ClientAssumption, Zenon
<1>2. PICK q : q = r.cells
  OBVIOUS
<1>3. PICK c \in Null..Len(q), t \in Null..Len(q), a \in {-1, 0, 1} :
        /\ 2 * c < Radix * Radix /\ 2 * t < Radix * Radix
        /\ t # Null => a = -1
        /\ q = ProduceCells(q[3], c, t, a)
        /\ r.answered <=> a # 0
  BY <1>1, <1>2, Zenon DEF ProduceLayout
<1>4. c \in Int /\ c >= -1 /\ t \in Int /\ t >= -1
  <2>1. Len(q) \in Nat
    BY <1>2, SendFacts, Zenon
  <2>2. QED
    BY <1>3, <2>1 DEF Null
<1>5. PICK v \in Nat : v = q[3]
  BY <1>1, <1>2
<1>6. ReaderRight(q, a # 0)
  <2>1. q = ProduceCells(v, c, t, a)
    BY <1>3, <1>5, Zenon
  <2>2. QED
    BY <1>3, <1>4, <2>1, ProduceReads, Zenon
<1>7. QED
  BY <1>1, <1>2, <1>3, <1>6, Zenon DEF ReaderRight

\* The two halves of a stream.
LEMMA DropCells ==
    ASSUME NEW s \in Seq(Int), NEW k \in Nat, k <= Len(s), NEW u, u = SubSeq(s, k + 1, Len(s))
    PROVE  u \in Seq(Int) /\ Len(u) = Len(s) - k /\ \A j \in 1..Len(s) - k : u[j] = s[k + j]
<1>1. Len(s) \in Nat
  OBVIOUS
<1>2. u \in Seq(Int) /\ Len(u) = Len(s) - k
  BY <1>1
<1>3. \A j \in 1..Len(s) - k : u[j] = s[k + j]
  <2>1. ASSUME NEW j \in 1..Len(s) - k PROVE u[j] = s[k + j]
    <3>1. u[j] = s[k + 1 + j - 1]
      BY <1>1
    <3>2. k + 1 + j - 1 = k + j
      OBVIOUS
    <3>3. QED
      BY <3>1, <3>2, Zenon
  <2>2. QED
    BY <2>1
<1>4. QED
  BY <1>2, <1>3

LEMMA TakeCells ==
    ASSUME NEW s \in Seq(Int), NEW k \in Nat, k <= Len(s), NEW u, u = SubSeq(s, 1, k)
    PROVE  u \in Seq(Int) /\ Len(u) = k /\ \A j \in 1..k : u[j] = s[j]
<1>1. Len(s) \in Nat
  OBVIOUS
<1>2. QED
  BY <1>1

\* Taking cells from the stream moves the loop ahead, and to the next request where
\* this one ends.
LEMMA AheadTake ==
    ASSUME NEW S \in Seq(Sends), NEW s \in Seq(Int), NEW c \in Nat, c < Len(S), NEW n \in Nat,
           Ahead(S, s, c, n), NEW k \in Nat, k <= Len(s), NEW u, u = SubSeq(s, k + 1, Len(s))
    PROVE  /\ Ahead(S, u, c, n + k)
           /\ n + k = Len(S[c + 1].cells) => Ahead(S, u, c + 1, 0)
<1>1. PICK at : Placement(S, s, at) /\ at[c + 1] = 0 - n
  BY DEF Ahead
<1>2. PICK L \in Nat : L = Len(S)
  OBVIOUS
<1>3. /\ \A i \in 1..L + 1 : at[i] \in Int
      /\ \A i \in 1..L : at[i + 1] = at[i] + Len(S[i].cells)
      /\ at[L + 1] = Len(s)
  BY <1>1, <1>2, Zenon DEF Placement
<1>4. \A i \in 1..L, j \in Nat :
        j >= 1 /\ j <= Len(S[i].cells) /\ at[i] + j >= 1
            => at[i] + j <= Len(s) /\ s[at[i] + j] = S[i].cells[j]
  BY <1>1, <1>2, Zenon DEF Placement
<1>5. u \in Seq(Int) /\ Len(u) = Len(s) - k /\ \A j \in 1..Len(s) - k : u[j] = s[k + j]
  BY DropCells, Zenon
<1>6. PICK bt : bt = [i \in 1..L + 1 |-> at[i] - k]
  OBVIOUS
<1>7. \A i \in 1..L + 1 : bt[i] = at[i] - k /\ bt[i] \in Int
  BY <1>3, <1>6
<1>8. \A i \in 1..L : Len(S[i].cells) \in Nat
  BY <1>2, SendFacts
<1>9. \A i \in 1..L : bt[i + 1] = bt[i] + Len(S[i].cells)
  <2>1. SUFFICES ASSUME NEW i \in 1..L PROVE bt[i + 1] = bt[i] + Len(S[i].cells)
    OBVIOUS
  <2>2. i \in 1..L + 1 /\ i + 1 \in 1..L + 1
    OBVIOUS
  <2>3. bt[i] = at[i] - k /\ bt[i + 1] = at[i + 1] - k /\ at[i + 1] = at[i] + Len(S[i].cells)
    BY <1>3, <1>7, <2>2, Zenon
  <2>4. at[i] \in Int /\ Len(S[i].cells) \in Nat
    BY <1>3, <1>8, <2>2, Zenon
  <2>5. QED
    BY <2>3, <2>4
<1>10. ASSUME NEW i \in 1..L, NEW j \in Nat, j >= 1, j <= Len(S[i].cells), bt[i] + j >= 1
       PROVE  bt[i] + j <= Len(u) /\ u[bt[i] + j] = S[i].cells[j]
  <2>1. bt[i] = at[i] - k /\ at[i] \in Int
    <3>1. i \in 1..L + 1
      OBVIOUS
    <3>2. QED
      BY <1>3, <1>7, <3>1, Zenon
  <2>2. PICK m \in Int : m = at[i] + j
    BY <2>1
  <2>3. bt[i] + j = m - k /\ m >= k + 1
    BY <1>10, <2>1, <2>2
  <2>4. m <= Len(s) /\ s[m] = S[i].cells[j]
    <3>1. at[i] + j >= 1
      BY <2>2, <2>3
    <3>2. QED
      BY <1>4, <1>10, <2>2, <3>1, Zenon
  <2>5. m - k \in 1..Len(s) - k /\ k + (m - k) = m
    BY <2>3, <2>4
  <2>6. u[m - k] = s[m]
    BY <1>5, <2>5, Zenon
  <2>7. m - k <= Len(u)
    BY <1>5, <2>5
  <2>8. QED
    BY <2>3, <2>4, <2>6, <2>7, Zenon
<1>11. bt[L + 1] = Len(u)
  <2>1. L + 1 \in 1..L + 1
    OBVIOUS
  <2>2. QED
    BY <1>3, <1>5, <1>7, <2>1
<1>12. Placement(S, u, bt)
  BY <1>2, <1>7, <1>9, <1>10, <1>11, Zenon DEF Placement
<1>13. c + 1 \in 1..L + 1 /\ c + 1 \in 1..L /\ c + 1 + 1 \in 1..L + 1
  BY <1>2
<1>14. bt[c + 1] = 0 - (n + k)
  <2>1. bt[c + 1] = at[c + 1] - k
    BY <1>7, <1>13, Zenon
  <2>2. QED
    BY <1>1, <2>1
<1>15. n + k = Len(S[c + 1].cells) => bt[c + 1 + 1] = 0 - 0
  <2>1. bt[c + 1 + 1] = bt[c + 1] + Len(S[c + 1].cells)
    BY <1>9, <1>13, Zenon
  <2>2. PICK m \in Nat : m = n + k
    OBVIOUS
  <2>3. (0 - m) + m = 0 - 0
    OBVIOUS
  <2>4. QED
    BY <1>14, <2>1, <2>2, <2>3, Zenon
<1>16. QED
  BY <1>12, <1>14, <1>15, Zenon DEF Ahead

\* What the client sends goes to the end of the stream.
LEMMA AheadSend ==
    ASSUME NEW S \in Seq(Sends), NEW s \in Seq(Int), NEW c \in Nat, c <= Len(S), NEW n \in Nat,
           Ahead(S, s, c, n), NEW r \in Sends
    PROVE  Ahead(Append(S, r), s \o r.cells, c, n)
<1>1. PICK at : Placement(S, s, at) /\ at[c + 1] = 0 - n
  BY DEF Ahead
<1>2. PICK L \in Nat : L = Len(S)
  OBVIOUS
<1>3. /\ \A i \in 1..L + 1 : at[i] \in Int
      /\ \A i \in 1..L : at[i + 1] = at[i] + Len(S[i].cells)
      /\ at[L + 1] = Len(s)
  BY <1>1, <1>2, Zenon DEF Placement
<1>4. \A i \in 1..L, j \in Nat :
        j >= 1 /\ j <= Len(S[i].cells) /\ at[i] + j >= 1
            => at[i] + j <= Len(s) /\ s[at[i] + j] = S[i].cells[j]
  BY <1>1, <1>2, Zenon DEF Placement
<1>5. PICK q : q = r.cells
  OBVIOUS
<1>6. q \in Seq(Int) /\ Len(q) \in Nat
  BY <1>5, SendFacts, Zenon
<1>7. PICK u : u = s \o q
  OBVIOUS
<1>8. u \in Seq(Int) /\ Len(u) = Len(s) + Len(q) /\ Len(s) \in Nat /\ Holds(u, 0, s) /\ Holds(u, Len(s), q)
  BY <1>6, <1>7, ConcatHolds, Zenon
<1>9. PICK T : T = Append(S, r)
  OBVIOUS
<1>10. Len(T) = L + 1 /\ T[L + 1] = r /\ \A i \in 1..L : T[i] = S[i]
  BY <1>2, <1>9
<1>11. PICK bt : bt = [i \in 1..L + 2 |-> IF i = L + 2 THEN Len(u) ELSE at[i]]
  OBVIOUS
<1>12. bt[L + 2] = Len(u) /\ \A i \in 1..L + 1 : bt[i] = at[i]
  BY <1>11
<1>13. \A i \in 1..(L + 1) + 1 : bt[i] \in Int
  <2>1. SUFFICES ASSUME NEW i \in 1..(L + 1) + 1 PROVE bt[i] \in Int
    OBVIOUS
  <2>2. i \in 1..L + 1 \/ i = L + 2
    OBVIOUS
  <2>3. Len(u) \in Int
    BY <1>8
  <2>4. QED
    BY <1>3, <1>12, <2>2, <2>3, Zenon
<1>14. \A i \in 1..L + 1 : bt[i + 1] = bt[i] + Len(T[i].cells)
  <2>1. SUFFICES ASSUME NEW i \in 1..L + 1 PROVE bt[i + 1] = bt[i] + Len(T[i].cells)
    OBVIOUS
  <2>2. CASE i \in 1..L
    <3>1. i + 1 \in 1..L + 1
      BY <2>2
    <3>2. QED
      BY <1>3, <1>10, <1>12, <2>2, <3>1, Zenon
  <2>3. CASE i = L + 1
    <3>1. i + 1 = L + 2
      BY <2>3
    <3>2. QED
      BY <1>3, <1>5, <1>8, <1>10, <1>12, <2>3, <3>1, Zenon
  <2>4. QED
    BY <2>2, <2>3
<1>15. ASSUME NEW i \in 1..L + 1, NEW j \in Nat, j >= 1, j <= Len(T[i].cells), bt[i] + j >= 1
       PROVE  bt[i] + j <= Len(u) /\ u[bt[i] + j] = T[i].cells[j]
  <2>1. CASE i \in 1..L
    <3>1. bt[i] = at[i] /\ T[i] = S[i] /\ at[i] \in Int
      BY <1>3, <1>10, <1>12, <2>1, Zenon
    <3>2. PICK m \in Int : m = at[i] + j
      BY <3>1
    <3>3. m >= 1 /\ m <= Len(s) /\ s[m] = S[i].cells[j]
      BY <1>4, <1>15, <2>1, <3>1, <3>2, Zenon
    <3>4. m \in 1..Len(s) /\ 0 + m = m /\ m <= Len(u)
      <4>1. m >= 1 /\ m <= Len(s)
        BY <3>3
      <4>2. Len(u) = Len(s) + Len(q) /\ Len(s) \in Nat
        BY <1>8
      <4>3. QED
        BY <1>6, <4>1, <4>2
    <3>5. u[0 + m] = s[m]
      BY <1>8, <3>4, Zenon DEF Holds
    <3>6. QED
      BY <3>1, <3>2, <3>3, <3>4, <3>5, Zenon
  <2>2. CASE i = L + 1
    <3>1. bt[i] = Len(s) /\ T[i].cells = q
      BY <1>3, <1>5, <1>10, <1>12, <2>2, Zenon
    <3>2. j \in 1..Len(q)
      BY <1>6, <1>15, <3>1
    <3>3. Len(s) + j <= Len(u)
      BY <1>6, <1>8, <3>2
    <3>4. u[Len(s) + j] = q[j]
      BY <1>8, <3>2, Zenon DEF Holds
    <3>5. QED
      BY <3>1, <3>3, <3>4, Zenon
  <2>3. QED
    BY <2>1, <2>2
<1>16. (L + 1) + 1 = L + 2
  OBVIOUS
<1>17. Placement(T, u, bt)
  BY <1>10, <1>12, <1>13, <1>14, <1>15, <1>16, Zenon DEF Placement
<1>18. bt[c + 1] = 0 - n
  <2>1. c + 1 \in 1..L + 1
    BY <1>2
  <2>2. QED
    BY <1>1, <1>12, <2>1, Zenon
<1>19. QED
  BY <1>5, <1>7, <1>9, <1>17, <1>18, Zenon DEF Ahead

\* What comes next in the stream is the rest of the request,
LEMMA AheadCells ==
    ASSUME NEW S \in Seq(Sends), NEW s \in Seq(Int), NEW c \in Nat, c < Len(S), NEW n \in Nat,
           Ahead(S, s, c, n), n < Len(S[c + 1].cells)
    PROVE  /\ Len(s) >= Len(S[c + 1].cells) - n
           /\ \A k \in 1..Len(S[c + 1].cells) - n : s[k] = S[c + 1].cells[n + k]
<1> DEFINE q == S[c + 1].cells
<1>1. PICK at : Placement(S, s, at) /\ at[c + 1] = 0 - n
  BY DEF Ahead
<1>2. c + 1 \in 1..Len(S) /\ Len(q) \in Nat
  <2>1. c + 1 \in 1..Len(S)
    OBVIOUS
  <2>2. S[c + 1] \in Sends
    BY <2>1
  <2>3. QED
    BY <2>1, <2>2, SendFacts
<1> HIDE DEF q
<1>3. \A j \in Nat : j >= 1 /\ j <= Len(q) /\ (0 - n) + j >= 1 => (0 - n) + j <= Len(s) /\ s[(0 - n) + j] = q[j]
  BY <1>1, <1>2, Zenon DEF Placement, q
<1>4. ASSUME NEW k \in 1..Len(q) - n PROVE k <= Len(s) /\ s[k] = q[n + k]
  <2>1. n + k \in Nat /\ n + k >= 1 /\ n + k <= Len(q) /\ (0 - n) + (n + k) = k /\ k >= 1
    BY <1>2
  <2>2. QED
    BY <1>3, <2>1, Zenon
<1>5. Len(q) - n \in 1..Len(q) - n
  <2>1. n < Len(q)
    BY DEF q
  <2>2. QED
    BY <1>2, <2>1
<1>6. Len(q) - n <= Len(s)
  BY <1>4, <1>5, Zenon
<1>7. Len(s) >= Len(q) - n /\ \A k \in 1..Len(q) - n : s[k] = q[n + k]
  BY <1>2, <1>4, <1>6
<1>8. QED
  BY <1>7, Zenon DEF q

\* and there is nothing behind the last.
LEMMA AheadNone ==
    ASSUME NEW S \in Seq(Sends), NEW s \in Seq(Int), Ahead(S, s, Len(S), 0)
    PROVE  s = <<>>
<1>1. PICK at : Placement(S, s, at) /\ at[Len(S) + 1] = 0 - 0
  BY DEF Ahead
<1>2. Len(s) = 0 - 0
  BY <1>1, Zenon DEF Placement
<1>3. QED
  BY <1>2

------------------------------------------------------------------------------
(* What the invariant says about the broker.                                *)

\* A sequence that agrees with the start of another is a prefix of it.
LEMMA PrefixOf ==
    ASSUME NEW T, NEW s \in Seq(T), NEW t \in Seq(T), Len(s) <= Len(t), \A i \in 1..Len(s) : s[i] = t[i]
    PROVE  IsPrefix(s, t)
<1>1. Len(s) \in Nat /\ Len(t) \in Nat
  OBVIOUS
<1>2. PICK u : u = SubSeq(s, 1, Len(s))
  OBVIOUS
<1>3. PICK w : w = SubSeq(t, 1, Len(s))
  OBVIOUS
<1>4. u \in Seq(T) /\ Len(u) = Len(s) /\ \A i \in 1..Len(s) : u[i] = s[i]
  BY <1>1, <1>2
<1>5. w \in Seq(T) /\ Len(w) = Len(s) /\ \A i \in 1..Len(s) : w[i] = t[i]
  BY <1>1, <1>3
<1>6. u = w
  BY <1>4, <1>5, SeqEqual, Zenon
<1>7. QED
  BY <1>2, <1>3, <1>6 DEF IsPrefix

\* The request that the loop is at.
LEMMA TurnFacts ==
    ASSUME Types, NEW p, Sound(p), Turn(p) <= Len(sent)
    PROVE  /\ Turn(p) \in 1..Len(sent) /\ sent[Turn(p)] \in Sends /\ Len(p.client) \in Nat
           /\ Len(p.client) < Len(sent) /\ Cells(p) \in Seq(Int) /\ Len(Cells(p)) \in Nat
           /\ Len(Cells(p)) >= 1 /\ Cells(p)[1] = Len(Cells(p)) - 1
<1>1. Len(p.client) \in Nat /\ sent \in Seq(Sends) /\ Len(sent) \in Nat
  BY DEF Sound, Types
<1>2. Turn(p) \in 1..Len(sent) /\ Len(p.client) < Len(sent)
  BY <1>1 DEF Turn
<1>3. sent[Turn(p)] \in Sends
  BY <1>1, <1>2
<1>4. QED
  BY <1>1, <1>2, <1>3, SendFacts, Zenon DEF Cells

\* What comes next from the client is the rest of it.
LEMMA NextCells ==
    ASSUME Types, NEW p, Sound(p), Turn(p) <= Len(sent), NEW n \in Nat,
           Ahead(sent, src, Len(p.client), n), n < Len(Cells(p))
    PROVE  Len(src) >= Len(Cells(p)) - n /\ \A k \in 1..Len(Cells(p)) - n : src[k] = Cells(p)[n + k]
<1>1. Len(p.client) \in Nat /\ Len(p.client) < Len(sent) /\ sent \in Seq(Sends) /\ src \in Seq(Int)
  BY TurnFacts DEF Types
<1>2. Cells(p) = sent[Len(p.client) + 1].cells
  BY DEF Cells, Turn
<1>3. n < Len(sent[Len(p.client) + 1].cells)
  BY <1>2, Zenon
<1>4. /\ Len(src) >= Len(sent[Len(p.client) + 1].cells) - n
      /\ \A k \in 1..Len(sent[Len(p.client) + 1].cells) - n : src[k] = sent[Len(p.client) + 1].cells[n + k]
  BY <1>1, <1>3, AheadCells, Zenon
<1>5. QED
  BY <1>2, <1>4, Zenon

\* No whole request is left where the broker is.
LEMMA NothingWhole ==
    ASSUME Types, NEW p, Sound(p)
    PROVE  ~WholeAt(p.end) /\ p.end <= Len(dst) /\ p.end \in Nat
<1>1. PICK n \in Nat : Begun(p, n)
  BY DEF Sound
<1>2. Len(dst) = p.end + n /\ p.end \in Nat
  BY <1>1 DEF Begun, Sound
<1>3. CASE n = 0
  BY <1>2, <1>3 DEF WholeAt
<1>4. CASE n > 0
  <2>1. Turn(p) <= Len(sent) /\ n < Len(Cells(p)) /\ \A j \in 1..n : dst[p.end + j] = Cells(p)[j]
    BY <1>1, <1>4 DEF Begun
  <2>2. Len(Cells(p)) \in Nat /\ Cells(p)[1] = Len(Cells(p)) - 1
    BY <2>1, TurnFacts, Zenon
  <2>3. 1 \in 1..n
    BY <1>4
  <2>4. dst[p.end + 1] = Len(Cells(p)) - 1
    BY <2>1, <2>2, <2>3, Zenon
  <2>5. ~(dst[p.end + 1] \in 0..Len(dst) - p.end - 1)
    BY <1>2, <2>1, <2>2, <2>4
  <2>6. QED
    BY <1>2, <2>5 DEF WholeAt
<1>5. QED
  BY <1>3, <1>4

\* The broker finds what the client sent.
LEMMA BrokerFollows == Steady => BrokerStream
<1>1. SUFFICES ASSUME Steady PROVE BrokerStream
  OBVIOUS
<1>2. PICK p : Reaches(p) /\ Sound(p)
  BY <1>1, Zenon DEF Steady
<1>3. Types /\ sent \in Seq(Sends) /\ dst \in Seq(Int) /\ Len(sent) \in Nat /\ Len(dst) \in Nat
  BY <1>1 DEF Steady, Types
<1>4. ~WholeAt(p.end) /\ p.end <= Len(dst) /\ p.end \in Nat
  BY <1>2, <1>3, NothingWhole
<1>5. Arrived = p
  BY <1>2, <1>3, <1>4, ReachesArrived
<1>6. /\ p.client \in Seq(Seq(Int)) /\ Len(p.client) <= Len(sent) /\ Len(p.client) \in Nat
      /\ \A i \in 1..Len(p.client) : p.client[i] = sent[i].cells /\ (Allowed(p.client[i]) \/ sent[i].raw)
  BY <1>2 DEF Sound
<1>7. IsPrefix(FromClient, [i \in 1..Len(sent) |-> sent[i].cells])
  <2>1. PICK w : w = [i \in 1..Len(sent) |-> sent[i].cells]
    OBVIOUS
  <2>2. \A i \in 1..Len(sent) : sent[i].cells \in Seq(Int)
    BY <1>3, SendFacts
  <2>3. w \in Seq(Seq(Int)) /\ Len(w) = Len(sent) /\ \A i \in 1..Len(sent) : w[i] = sent[i].cells
    BY <1>3, <2>1, <2>2
  <2>4. \A i \in 1..Len(p.client) : p.client[i] = w[i]
    <3>1. ASSUME NEW i \in 1..Len(p.client) PROVE i \in 1..Len(sent)
      BY <1>3, <1>6
    <3>2. QED
      BY <1>6, <2>3, <3>1, Zenon
  <2>5. IsPrefix(p.client, w)
    BY <1>6, <2>3, <2>4, PrefixOf, Zenon
  <2>6. QED
    BY <1>5, <2>1, <2>5, Zenon DEF FromClient
<1>8. Rest # <<>> => Len(p.client) < Len(sent) /\ IsPrefix(Rest, sent[Len(p.client) + 1].cells)
  <2>1. PICK n \in Nat : Begun(p, n)
    BY <1>2 DEF Sound
  <2>2. PICK w : w = Rest
    OBVIOUS
  <2>3. w = SubSeq(dst, p.end + 1, Len(dst))
    BY <1>5, <2>2, Zenon DEF Rest
  <2>4. w \in Seq(Int) /\ Len(w) = Len(dst) - p.end /\ \A j \in 1..Len(dst) - p.end : w[j] = dst[p.end + j]
    BY <1>3, <1>4, <2>3, DropCells, Zenon
  <2>5. Len(dst) - p.end = n
    BY <1>4, <2>1 DEF Begun
  <2>6. SUFFICES ASSUME w # <<>> PROVE Len(p.client) < Len(sent) /\ IsPrefix(w, sent[Len(p.client) + 1].cells)
    BY <2>2, Zenon
  <2>7. n > 0
    BY <2>4, <2>5, <2>6
  <2>8. Turn(p) <= Len(sent) /\ n < Len(Cells(p)) /\ \A j \in 1..n : dst[p.end + j] = Cells(p)[j]
    BY <2>1, <2>7 DEF Begun
  <2>9. Len(p.client) < Len(sent) /\ Cells(p) \in Seq(Int) /\ Len(Cells(p)) \in Nat
    BY <1>2, <1>3, <2>8, TurnFacts, Zenon
  <2>10. Len(w) <= Len(Cells(p)) /\ \A j \in 1..Len(w) : w[j] = Cells(p)[j]
    <3>1. Len(w) = n
      BY <2>4, <2>5, Zenon
    <3>2. \A j \in 1..n : w[j] = Cells(p)[j]
      BY <2>4, <2>5, <2>8, Zenon
    <3>3. n <= Len(Cells(p))
      BY <2>8, <2>9
    <3>4. QED
      BY <3>1, <3>2, <3>3, Zenon
  <2>11. IsPrefix(w, Cells(p))
    BY <2>4, <2>9, <2>10, PrefixOf, Zenon
  <2>12. QED
    BY <2>9, <2>11, Zenon DEF Cells, Turn
<1>9. QED
  BY <1>5, <1>6, <1>7, <1>8, Zenon DEF BrokerStream, FromClient

\* One marker appended,
LEMMA AppendOne == ASSUME NEW T, NEW s \in Seq(T), NEW a \in T PROVE Append(s, a) \in Seq(T)
OBVIOUS

\* and two.
LEMMA AppendTwice ==
    ASSUME NEW T, NEW s \in Seq(T), NEW a \in T, NEW b \in T
    PROVE  Append(Append(s, a), b) = s \o <<a, b>>
<1>1. PICK u : u = Append(Append(s, a), b)
  OBVIOUS
<1>2. PICK w : w = s \o <<a, b>>
  OBVIOUS
<1>3. /\ u \in Seq(T) /\ Len(u) = Len(s) + 2
      /\ \A i \in 1..Len(s) + 2 : u[i] = IF i <= Len(s) THEN s[i] ELSE IF i = Len(s) + 1 THEN a ELSE b
  BY <1>1
<1>4. /\ w \in Seq(T) /\ Len(w) = Len(s) + 2
      /\ \A i \in 1..Len(s) + 2 : w[i] = IF i <= Len(s) THEN s[i] ELSE IF i = Len(s) + 1 THEN a ELSE b
  BY <1>2
<1>5. \A i \in 1..Len(u) : u[i] = w[i]
  BY <1>3, <1>4, Zenon
<1>6. u = w
  BY <1>3, <1>4, <1>5, SeqEqual, Zenon
<1>7. QED
  BY <1>1, <1>2, <1>6, Zenon

\* A marker waits for each answer.
LEMMA MarkersFollow == Steady => MarkersRight
<1>1. SUFFICES ASSUME Steady PROVE MarkersRight
  OBVIOUS
<1>2. PICK p : Reaches(p) /\ Sound(p) /\ Agrees(p)
  BY <1>1, Zenon DEF Steady
<1>3. Types /\ dst \in Seq(Int)
  BY <1>1 DEF Steady, Types
<1>4. ~WholeAt(p.end) /\ p.end <= Len(dst)
  BY <1>2, <1>3, NothingWhole
<1>5. DueMarkers = p.due
  BY <1>2, <1>3, <1>4, ReachesArrived DEF DueMarkers
<1>6. /\ p.due \in Seq([key : 0..maxRequestApiKey, version : Nat])
      /\ markers \in Seq([key : 0..maxRequestApiKey, version : Nat])
  BY <1>2, <1>3 DEF Sound, Types
<1>7. markers = p.due => IsPrefix(p.due, markers)
  BY <1>6 DEF IsPrefix
<1>8. markers = WithOwn(p) => IsPrefix(p.due, markers)
  <2>1. SUFFICES ASSUME NEW m, markers = Append(p.due, m) PROVE IsPrefix(p.due, markers)
    BY <1>7, Zenon DEF WithOwn
  <2>2. Len(p.due) <= Len(markers) /\ \A i \in 1..Len(p.due) : p.due[i] = markers[i]
    BY <1>6, <2>1
  <2>3. QED
    BY <1>6, <2>2, PrefixOf, Zenon
<1>9. SUFFICES ASSUME pc # "closed"
      PROVE  /\ IsPrefix(p.due, markers \o Owed)
             /\ pc \in {"header", "raw", "reauth", "reauthToken", "reauthSent", "reauthMarker"} => markers \o Owed = p.due
  BY <1>5, Zenon DEF MarkersRight
<1> DEFINE M == [key : 0..maxRequestApiKey, version : Nat]
<1>10. handshakeMarker \in M /\ authenticateMarker \in M
  BY DEF handshakeMarker, authenticateMarker, Marker, apiKeySaslHandshake, apiKeySaslAuthenticate, maxRequestApiKey
<1>11. IsPrefix(p.due, p.due)
  BY <1>6 DEF IsPrefix
<1> HIDE DEF M
<1>12. markers \in Seq(M) /\ p.due \in Seq(M)
  BY <1>6 DEF M
<1>13. CASE pc \in {"header", "raw", "reauth"}
  <2>1. markers = p.due /\ Owed = <<>>
    BY <1>2, <1>13 DEF Agrees, Between, Owed
  <2>2. markers \o Owed = p.due
    BY <1>12, <2>1, ConcatEmptySeq, Zenon
  <2>3. QED
    BY <1>11, <2>2, Zenon
<1>14. CASE pc \in {"clientID", "txnID", "acks", "marker", "write", "writeRead", "copy"}
  <2>1. pc \in {"clientID", "txnID", "acks"} => markers = p.due
    BY <1>2, Zenon DEF Agrees, ReadingAcks
  <2>2. pc \in {"marker", "write", "writeRead"} => markers = p.due \/ markers = WithOwn(p)
    BY <1>2, Zenon DEF Agrees, Writing
  <2>3. pc = "copy" => markers = p.due \/ markers = WithOwn(p)
    BY <1>2, Zenon DEF Agrees, Copying, CopyDone
  <2>4. Owed = <<>>
    BY <1>14 DEF Owed
  <2>5. markers \o Owed = markers
    BY <1>12, <2>4, ConcatEmptySeq, Zenon
  <2>6. IsPrefix(p.due, markers)
    BY <1>7, <1>8, <1>14, <2>1, <2>2, <2>3
  <2>7. QED
    BY <1>14, <2>5, <2>6
<1>15. CASE pc \in {"reauthToken", "reauthSent", "reauthMarker"}
  <2>1. ASSUME NEW a \in M PROVE Append(markers, a) = markers \o <<a>>
    BY <1>12, <2>1, AppendIsConcat, Zenon
  <2>2. pc = "reauthToken" => markers \o Owed = p.due
    <3>1. SUFFICES ASSUME pc = "reauthToken" PROVE markers \o Owed = p.due
      OBVIOUS
    <3>2. Owed = <<handshakeMarker>> /\ p.due = Append(markers, handshakeMarker)
      BY <1>2, <3>1 DEF Agrees, Between, Owed
    <3>3. QED
      BY <1>10, <2>1, <3>2, Zenon
  <2>3. pc = "reauthMarker" => markers \o Owed = p.due
    <3>1. SUFFICES ASSUME pc = "reauthMarker" PROVE markers \o Owed = p.due
      OBVIOUS
    <3>2. Owed = <<authenticateMarker>> /\ p.due = Append(markers, authenticateMarker)
      BY <1>2, <3>1 DEF Agrees, Between, Owed
    <3>3. QED
      BY <1>10, <2>1, <3>2, Zenon
  <2>4. pc = "reauthSent" => markers \o Owed = p.due
    <3>1. SUFFICES ASSUME pc = "reauthSent" PROVE markers \o Owed = p.due
      OBVIOUS
    <3>2. /\ Owed = <<handshakeMarker, authenticateMarker>>
          /\ p.due = Append(Append(markers, handshakeMarker), authenticateMarker)
      BY <1>2, <3>1 DEF Agrees, Between, Owed
    <3>3. QED
      BY <1>10, <1>12, <3>2, AppendTwice, Zenon
  <2>5. QED
    BY <1>11, <1>15, <2>2, <2>3, <2>4, Zenon
<1>16. QED
  BY <1>3, <1>9, <1>13, <1>14, <1>15 DEF Types

------------------------------------------------------------------------------
(* Steps that write nothing, part of a request, its end, or a re-auth.      *)

\* What the broker has read stays sound as long as nothing is written or sent.
LEMMA Quiet ==
    ASSUME Types, SentOK, NEW p, Reaches(p), Sound(p), UNCHANGED <<acks0Disabled, sent, dst>>
    PROVE  SentOK' /\ Reaches(p)' /\ Sound(p)'
<1>1. dst \in Seq(Int) /\ sent \in Seq(Sends)
  BY DEF Types
<1>2. PICK x : x = <<>>
  OBVIOUS
<1>3. x \in Seq(Int) /\ dst' = dst \o x
  BY <1>1, <1>2, ConcatEmptySeq
<1>4. Reaches(p)'
  BY <1>1, <1>3, ReachesStays
<1>5. SentOK'
  BY DEF SentOK
<1>6. Sound(p)'
  BY DEF Sound, Begun, Cells, Turn
<1>7. QED
  BY <1>4, <1>5, <1>6

\* Stream s ends with the first n cells of q, from place e on.
Stands(s, e, n, q) ==
    s \in Seq(Int) /\ e \in Nat /\ n \in Nat /\ Len(s) = e + n /\ \A j \in 1..n : s[e + j] = q[j]

\* The next cells of q come to stand behind them.
LEMMA WrittenCells ==
    ASSUME NEW s, NEW e, NEW n, NEW q, Stands(s, e, n, q),
           NEW x \in Seq(Int), \A j \in 1..Len(x) : x[j] = q[n + j]
    PROVE  Stands(s \o x, e, n + Len(x), q)
<1> USE DEF Stands
<1>u. PICK u : u = s \o x
  OBVIOUS
<1>1. u \in Seq(Int) /\ Len(u) = Len(s) + Len(x) /\ Holds(u, 0, s) /\ Holds(u, Len(s), x)
  BY <1>u, ConcatHolds, Zenon
<1>2. PICK m \in Nat : m = Len(x)
  OBVIOUS
<1>3. Len(u) = e + (n + m) /\ n + m \in Nat
  <2>1. Len(u) = (e + n) + m
    BY <1>1, <1>2, Zenon
  <2>2. QED
    BY <2>1
<1>4. ASSUME NEW j \in 1..n + m PROVE u[e + j] = q[j]
  <2>1. CASE j \in 1..n
    <3>1. e + j \in 1..e + n /\ 0 + (e + j) = e + j
      BY <2>1
    <3>2. u[0 + (e + j)] = s[e + j]
      BY <1>1, <3>1, Zenon DEF Holds
    <3>3. QED
      BY <2>1, <3>1, <3>2, Zenon
  <2>2. CASE j \notin 1..n
    <3>1. PICK k \in 1..m : j = n + k
      <4>1. j - n \in 1..m /\ j = n + (j - n)
        BY <2>2
      <4>2. QED
        BY <4>1
    <3>2. e + j = (e + n) + k
      BY <3>1
    <3>3. u[(e + n) + k] = x[k]
      BY <1>1, <1>2, Zenon DEF Holds
    <3>4. QED
      BY <1>2, <3>1, <3>2, <3>3, Zenon
  <2>3. QED
    BY <2>1, <2>2
<1>5. QED
  BY <1>u, <1>1, <1>2, <1>3, <1>4, Zenon

\* Part of a request is written.
LEMMA PartWritten ==
    ASSUME Types, SentOK, NEW p, Reaches(p), Sound(p), UNCHANGED <<acks0Disabled, sent>>,
           NEW x \in Seq(Int), dst' = dst \o x, NEW n \in Nat, Begun(p, n), Turn(p) <= Len(sent),
           n + Len(x) < Len(Cells(p)), \A j \in 1..Len(x) : x[j] = Cells(p)[n + j]
    PROVE  SentOK' /\ Reaches(p)' /\ Sound(p)' /\ Begun(p, n + Len(x))'
<1>1. dst \in Seq(Int) /\ sent \in Seq(Sends) /\ p.end \in Nat /\ Len(x) \in Nat
  BY DEF Types, Sound
<1>2. Reaches(p)'
  BY <1>1, ReachesStays
<1>3. SentOK'
  BY DEF SentOK
<1>4. Len(dst) = p.end + n /\ \A j \in 1..n : dst[p.end + j] = Cells(p)[j]
  BY DEF Begun
<1>5. /\ Len(dst') = p.end + (n + Len(x)) /\ n + Len(x) \in Nat
      /\ \A j \in 1..n + Len(x) : dst'[p.end + j] = Cells(p)[j]
  <2>1. Stands(dst, p.end, n, Cells(p))
    BY <1>1, <1>4, Zenon DEF Stands
  <2>2. Stands(dst', p.end, n + Len(x), Cells(p))
    BY <2>1, WrittenCells, Zenon
  <2>3. QED
    BY <2>2, Zenon DEF Stands
<1>7. Begun(p, n + Len(x))'
  <2>1. Cells(p)' = Cells(p) /\ Turn(p)' = Turn(p)
    BY DEF Cells, Turn
  <2>2. QED
    BY <1>5, <2>1, Zenon DEF Begun
<1>8. Sound(p)'
  <2>1. QED
    BY <1>5, <1>7, Zenon DEF Sound
<1>9. QED
  BY <1>2, <1>3, <1>7, <1>8

\* The last part of a request is written.
LEMMA RestWritten ==
    ASSUME Types, SentOK, NEW p, Reaches(p), Sound(p), UNCHANGED <<acks0Disabled, sent>>,
           NEW x \in Seq(Int), dst' = dst \o x, NEW n \in Nat, Begun(p, n), Turn(p) <= Len(sent),
           n + Len(x) = Len(Cells(p)), \A j \in 1..Len(x) : x[j] = Cells(p)[n + j],
           Allowed(Cells(p)) \/ sent[Turn(p)].raw
    PROVE  /\ SentOK'
           /\ \E r : /\ Reaches(r)' /\ Sound(r)' /\ Begun(r, 0)'
                     /\ r.client = Append(p.client, Cells(p)) /\ r.due = WithOwn(p)
<1>1. /\ dst \in Seq(Int) /\ sent \in Seq(Sends) /\ p.end \in Nat /\ Len(x) \in Nat
      /\ p.client \in Seq(Seq(Int)) /\ Len(p.client) \in Nat
  <2>1. dst \in Seq(Int) /\ sent \in Seq(Sends)
    BY DEF Types
  <2>2. p.end \in Nat /\ p.client \in Seq(Seq(Int))
    BY DEF Sound
  <2>3. QED
    BY <2>1, <2>2
<1>2. PICK q : q = Cells(p)
  OBVIOUS
<1>3. /\ Turn(p) \in 1..Len(sent) /\ sent[Turn(p)] \in Sends /\ Len(p.client) < Len(sent)
      /\ q \in Seq(Int) /\ Len(q) \in Nat /\ Len(q) >= 1 /\ q[1] = Len(q) - 1
  BY <1>2, TurnFacts, Zenon
<1>4. Len(dst) = p.end + n /\ \A j \in 1..n : dst[p.end + j] = q[j]
  BY <1>2 DEF Begun
<1>5. /\ dst' \in Seq(Int) /\ Len(dst') = p.end + Len(q)
      /\ \A j \in 1..Len(q) : dst'[p.end + j] = q[j]
  <2>1. \A j \in 1..Len(x) : x[j] = q[n + j]
    BY <1>2, Zenon
  <2>2. Stands(dst, p.end, n, q)
    BY <1>1, <1>4, Zenon DEF Stands
  <2>3. Stands(dst', p.end, n + Len(x), q)
    BY <2>1, <2>2, WrittenCells, Zenon
  <2>4. QED
    BY <1>2, <2>3, Zenon DEF Stands
<1>7. q # <<>> /\ Len(dst') = p.end + Len(q) /\ Len(p.client) \in 0..Len(sent) - 1
  <2>1. q # <<>>
    BY <1>3
  <2>2. Len(dst') = p.end + Len(q)
    BY <1>5, Zenon
  <2>3. Len(p.client) \in 0..Len(sent) - 1
    BY <1>1, <1>3
  <2>4. QED
    BY <2>1, <2>2, <2>3
<1>8. PICK r : r = Grown(p, q, Len(dst')) /\ Reaches(r)'
  BY <1>1, <1>3, <1>5, <1>7, Completes, Zenon
<1>9. ~FromProxy(q)
  BY <1>2, <1>3, SendFacts, Zenon DEF Cells
<1>10. r.end = Len(dst') /\ r.client = Append(p.client, q)
  BY <1>8, <1>9 DEF Grown
<1>11. r.due = WithOwn(p)
  <2>1. Answered(Len(p.client) + 1) <=> sent[Turn(p)].answered
    BY <1>3 DEF Answered, Turn
  <2>2. r.due = IF Answered(Len(p.client) + 1) THEN Append(p.due, Marker(q[2], q[3])) ELSE p.due
    BY <1>8, <1>9 DEF Grown
  <2>3. QED
    BY <1>2, <2>1, <2>2, Zenon DEF WithOwn
<1>12. Begun(r, 0)' /\ r.end \in Nat
  <2>1. Len(dst') \in Nat
    BY <1>5
  <2>2. QED
    BY <1>10, <2>1 DEF Begun
<1>13. r.due \in Seq([key : 0..maxRequestApiKey, version : Nat])
  <2>1. p.due \in Seq([key : 0..maxRequestApiKey, version : Nat])
    BY DEF Sound
  <2>2. ASSUME sent[Turn(p)].answered
        PROVE  Marker(q[2], q[3]) \in [key : 0..maxRequestApiKey, version : Nat]
    <3>1. ~sent[Turn(p)].raw /\ q[3] \in Nat
      BY <1>2, <1>3, <2>2, SendFacts, Zenon DEF Cells
    <3>2. q[2] \in 0..maxRequestApiKey
      BY <1>2, <3>1 DEF Allowed, minRequestApiKey
    <3>3. QED
      BY <3>1, <3>2 DEF Marker
  <2>3. CASE sent[Turn(p)].answered
    <3>1. r.due = Append(p.due, Marker(q[2], q[3]))
      BY <1>2, <1>11, <2>3, Zenon DEF WithOwn
    <3>2. QED
      BY <2>1, <2>2, <2>3, <3>1
  <2>4. CASE ~sent[Turn(p)].answered
    BY <1>11, <2>1, <2>4, Zenon DEF WithOwn
  <2>5. QED
    BY <2>3, <2>4
<1>14. Sound(r)'
  <2>1. r.client \in Seq(Seq(Int)) /\ Len(r.client) = Len(p.client) + 1 /\ Len(r.client) <= Len(sent')
    BY <1>1, <1>3, <1>10
  <2>2. ASSUME NEW i \in 1..Len(r.client)
        PROVE  r.client[i] = sent'[i].cells /\ (Allowed(r.client[i]) \/ sent'[i].raw)
    <3>1. CASE i \in 1..Len(p.client)
      <4>1. r.client[i] = p.client[i]
        BY <1>1, <1>3, <1>10, <3>1
      <4>2. p.client[i] = sent[i].cells /\ (Allowed(p.client[i]) \/ sent[i].raw)
        BY <3>1 DEF Sound
      <4>3. QED
        BY <4>1, <4>2, Zenon
    <3>2. CASE i = Turn(p)
      <4>1. r.client[i] = q
        BY <1>1, <1>3, <1>10, <3>2 DEF Turn
      <4>2. QED
        BY <1>2, <3>2, <4>1, Zenon DEF Cells
    <3>3. QED
      BY <1>1, <2>1, <3>1, <3>2 DEF Turn
  <2>3. \E m \in Nat : Begun(r, m)'
    <3>1. 0 \in Nat
      OBVIOUS
    <3>2. QED
      BY <1>12, <3>1
  <2>4. QED
    BY <1>12, <1>13, <2>1, <2>2, <2>3, Zenon DEF Sound
<1>15. SentOK'
  BY DEF SentOK
<1>16. QED
  BY <1>2, <1>8, <1>10, <1>11, <1>12, <1>14, <1>15, Zenon

\* What stands at the start of a framed sequence.
LEMMA FramedCells ==
    ASSUME NEW u \in Seq(Int), Len(u) >= 2, NEW f, f = Framed(u)
    PROVE  f \in Seq(Int) /\ f # <<>> /\ f[1] = Len(f) - 1 /\ f[2] = u[1] /\ f[3] = u[2]
<1>1. PICK l : l = <<Len(u)>>
  OBVIOUS
<1>2. l \in Seq(Int) /\ Len(l) = 1 /\ l[1] = Len(u) /\ Len(u) \in Nat
  BY <1>1
<1>3. f \in Seq(Int) /\ Len(f) = Len(l) + Len(u) /\ Holds(f, 0, l) /\ Holds(f, Len(l), u)
  BY <1>1, <1>2, ConcatHolds, Zenon DEF Framed
<1>4. 1 \in 1..Len(l) /\ 1 \in 1..Len(u) /\ 2 \in 1..Len(u) /\ 0 + 1 = 1 /\ 1 + 1 = 2 /\ 1 + 2 = 3
  BY <1>2
<1>5. f[0 + 1] = l[1] /\ f[1 + 1] = u[1] /\ f[1 + 2] = u[2]
  BY <1>2, <1>3, <1>4, Zenon DEF Holds
<1>6. f[1] = Len(u) /\ f[2] = u[1] /\ f[3] = u[2]
  BY <1>2, <1>4, <1>5, Zenon
<1>7. Len(f) = 1 + Len(u)
  BY <1>2, <1>3, Zenon
<1>8. f # <<>> /\ Len(u) = Len(f) - 1
  BY <1>2, <1>3, <1>7
<1>9. QED
  BY <1>3, <1>6, <1>8, Zenon

\* A whole request of the proxy with that key.
ProxyRequest(f, key) ==
    f \in Seq(Int) /\ f # <<>> /\ f[1] = Len(f) - 1 /\ f[2] = key /\ f[3] = 1 /\ FromProxy(f)

\* The cells behind the size.
Starts(u, key) == u \in Seq(Int) /\ Len(u) >= 2 /\ u[1] = key /\ u[2] = 1

\* The re-auth requests are such requests.
LEMMA ReauthCells ==
    /\ ProxyRequest(buildReauthHandshakeRequest, apiKeySaslHandshake)
    /\ ProxyRequest(buildReauthRequest, apiKeySaslAuthenticate)
<1>1. ASSUME NEW k \in Int, NEW d \in Int, NEW b \in Seq(Int), NEW x \in Seq(Int), NEW z \in Seq(Int)
      PROVE  Starts(<<k, 1, d>> \o b \o x, k) /\ Starts(<<k, 1, d>> \o b \o x \o z, k)
  <2>1. PICK a : a = <<k, 1, d>>
    OBVIOUS
  <2>2. a \in Seq(Int) /\ Len(a) = 3 /\ a[1] = k /\ a[2] = 1
    BY <2>1
  <2>3. ASSUME NEW v \in Seq(Int), NEW y \in Seq(Int), Len(v) >= 3, v[1] = k, v[2] = 1
        PROVE  v \o y \in Seq(Int) /\ Len(v \o y) >= 3 /\ (v \o y)[1] = k /\ (v \o y)[2] = 1
    BY <2>3
  <2>4. Len(a) >= 3
    BY <2>2
  <2>5. a \o b \in Seq(Int) /\ Len(a \o b) >= 3 /\ (a \o b)[1] = k /\ (a \o b)[2] = 1
    BY <2>2, <2>3, <2>4, Zenon
  <2>6. /\ a \o b \o x \in Seq(Int) /\ Len(a \o b \o x) >= 3
        /\ (a \o b \o x)[1] = k /\ (a \o b \o x)[2] = 1
    BY <2>3, <2>5, Zenon
  <2>7. /\ a \o b \o x \o z \in Seq(Int) /\ Len(a \o b \o x \o z) >= 3
        /\ (a \o b \o x \o z)[1] = k /\ (a \o b \o x \o z)[2] = 1
    BY <2>3, <2>6, Zenon
  <2>8. ASSUME NEW v \in Seq(Int), Len(v) >= 3 PROVE Len(v) >= 2
    BY <2>8
  <2>9. QED
    BY <2>1, <2>6, <2>7, <2>8, Zenon DEF Starts
<1>2. NullableString(1) \in Seq(Int) /\ NullableString(2) \in Seq(Int)
  <2>1. Radix \in Nat /\ Radix >= 3 /\ Radix * Radix >= 9
    BY RequestsAssumption
  <2>2. 1 \in Int /\ 1 >= -1 /\ 2 * 1 < Radix * Radix /\ 2 \in Int /\ 2 >= -1 /\ 2 * 2 < Radix * Radix
    BY <2>1
  <2>3. QED
    BY <2>2, StringCells, Zenon
<1>3. << 3 >> \in Seq(Int) /\ Chars(3) \in Seq(Int)
  BY DEF Chars, Char
<1>4. PICK u : /\ u = <<apiKeySaslHandshake, 1, reauthHandshakeCorrelationID>>
                       \o NullableString(1) \o NullableString(2)
               /\ Starts(u, apiKeySaslHandshake)
  <2>1. apiKeySaslHandshake \in Int /\ reauthHandshakeCorrelationID \in Int
    BY DEF apiKeySaslHandshake, reauthHandshakeCorrelationID
  <2>2. QED
    BY <1>1, <1>2, <1>3, <2>1, Zenon
<1>5. PICK w : /\ w = <<apiKeySaslAuthenticate, 1, reauthCorrelationID>>
                       \o NullableString(1) \o << 3 >> \o Chars(3)
               /\ Starts(w, apiKeySaslAuthenticate)
  <2>1. apiKeySaslAuthenticate \in Int /\ reauthCorrelationID \in Int
    BY DEF apiKeySaslAuthenticate, reauthCorrelationID
  <2>2. QED
    BY <1>1, <1>2, <1>3, <2>1, Zenon
<1>6. ProxyRequest(buildReauthHandshakeRequest, apiKeySaslHandshake)
  <2>1. PICK f : f = buildReauthHandshakeRequest
    OBVIOUS
  <2>2. f = Framed(u) /\ FromProxy(f)
    BY <1>4, <2>1, Zenon DEF buildReauthHandshakeRequest, FromProxy
  <2>3. QED
    BY <1>4, <2>1, <2>2, FramedCells, Zenon DEF ProxyRequest, Starts
<1>7. ProxyRequest(buildReauthRequest, apiKeySaslAuthenticate)
  <2>1. PICK f : f = buildReauthRequest
    OBVIOUS
  <2>2. f = Framed(w) /\ FromProxy(f)
    BY <1>5, <2>1, Zenon DEF buildReauthRequest, FromProxy
  <2>3. QED
    BY <1>5, <2>1, <2>2, FramedCells, Zenon DEF ProxyRequest, Starts
<1>8. QED
  BY <1>6, <1>7

\* A request of the proxy is written between two requests.
LEMMA ProxyWrites ==
    ASSUME Types, SentOK, NEW p, Reaches(p), Sound(p), UNCHANGED <<acks0Disabled, sent>>,
           Begun(p, 0), NEW f, NEW key \in 0..maxRequestApiKey, ProxyRequest(f, key), dst' = dst \o f
    PROVE  /\ SentOK'
           /\ \E r : /\ Reaches(r)' /\ Sound(r)' /\ Begun(r, 0)'
                     /\ r.client = p.client /\ r.due = Append(p.due, Marker(key, 1))
<1>1. dst \in Seq(Int) /\ sent \in Seq(Sends) /\ p.end \in Nat
  BY DEF Types, Sound
<1>2. /\ f \in Seq(Int) /\ f # <<>> /\ f[1] = Len(f) - 1 /\ f[2] = key /\ f[3] = 1 /\ FromProxy(f)
  BY DEF ProxyRequest
<1>3. Len(f) \in Nat /\ 0 + Len(f) = Len(f)
  BY <1>2
<1>4. Stands(dst, p.end, 0, f)
  BY <1>1 DEF Stands, Begun
<1>5. Stands(dst', p.end, 0 + Len(f), f)
  <2>1. \A j \in 1..Len(f) : f[j] = f[0 + j]
    BY <1>3
  <2>2. QED
    BY <1>2, <1>4, <2>1, WrittenCells, Zenon
<1>6. dst' \in Seq(Int) /\ Len(dst') = p.end + Len(f) /\ \A j \in 1..Len(f) : dst'[p.end + j] = f[j]
  BY <1>3, <1>5, Zenon DEF Stands
<1>7. PICK r : r = Grown(p, f, Len(dst')) /\ Reaches(r)'
  BY <1>1, <1>2, <1>6, Completes, Zenon
<1>8. r.end = Len(dst') /\ r.client = p.client /\ r.due = Append(p.due, Marker(key, 1))
  BY <1>2, <1>7 DEF Grown
<1>9. Begun(r, 0)' /\ r.end \in Nat
  <2>1. Len(dst') \in Nat
    BY <1>6
  <2>2. QED
    BY <1>8, <2>1 DEF Begun
<1>10. Sound(r)'
  <2>1. /\ p.client \in Seq(Seq(Int)) /\ p.due \in Seq([key : 0..maxRequestApiKey, version : Nat])
        /\ Len(p.client) <= Len(sent)
        /\ \A i \in 1..Len(p.client) : p.client[i] = sent[i].cells /\ (Allowed(p.client[i]) \/ sent[i].raw)
    BY DEF Sound
  <2>2. Marker(key, 1) \in [key : 0..maxRequestApiKey, version : Nat]
    BY DEF Marker
  <2>3. r.due \in Seq([key : 0..maxRequestApiKey, version : Nat])
    BY <1>8, <2>1, <2>2
  <2>4. \E m \in Nat : Begun(r, m)'
    <3>1. 0 \in Nat
      OBVIOUS
    <3>2. QED
      BY <1>9, <3>1
  <2>5. QED
    BY <1>8, <1>9, <2>1, <2>3, <2>4, Zenon DEF Sound
<1>11. SentOK'
  BY DEF SentOK
<1>12. QED
  BY <1>7, <1>8, <1>9, <1>10, <1>11, Zenon

------------------------------------------------------------------------------
(* The invariant is inductive, one lemma per action.                        *)

\* It holds before anything is sent.
LEMMA InitHolds == Init => Steady
<1>1. SUFFICES ASSUME Init PROVE Steady
  OBVIOUS
<1>2. Types
  <2>1. request.size \in Int /\ request.key \in Int /\ request.version \in Int
    BY <1>1 DEF Init, NoRequest, RequestKeyVersion
  <2>2. MaxRequests \in Nat /\ MaxTimeouts \in Nat
    BY RequestsAssumption
  <2>3. QED
    BY <1>1, <2>1, <2>2 DEF Init, Types
<1>3. SentOK
  BY <1>1 DEF Init, SentOK
<1>4. PICK p : p = Unread
  OBVIOUS
<1>5. p.end = 0 /\ p.client = <<>> /\ p.due = <<>> /\ Len(p.client) = 0
  BY <1>4 DEF Unread
<1>6. Reaches(p)
  BY <1>4, ReachesUnread
<1>7. Begun(p, 0)
  BY <1>1, <1>5 DEF Init, Begun
<1>8. Sound(p)
  <2>1. \E n \in Nat : Begun(p, n)
    BY <1>7
  <2>2. QED
    BY <1>1, <1>5, <2>1 DEF Init, Sound
<1>9. Ahead(sent, src, 0, 0)
  <2>1. PICK at : at = [i \in 1..1 |-> 0]
    OBVIOUS
  <2>2. Placement(sent, src, at)
    BY <1>1, <2>1 DEF Init, Placement
  <2>3. at[0 + 1] = 0 - 0
    <3>1. 0 + 1 = 1 /\ 1 \in 1..1 /\ 0 - 0 = 0
      OBVIOUS
    <3>2. at[1] = 0
      BY <2>1
    <3>3. QED
      BY <3>1, <3>2, Zenon
  <2>4. QED
    BY <2>2, <2>3 DEF Ahead
<1>10. Agrees(p)
  <2>1. Between(p)
    BY <1>1, <1>5, <1>7, <1>9 DEF Init, Between, TokenTurn
  <2>2. QED
    BY <1>1, <2>1 DEF Init, Agrees
<1>11. QED
  BY <1>2, <1>3, <1>6, <1>8, <1>10, Zenon DEF Steady

\* A step that changes nothing.
LEMMA StutterKeeps == ASSUME Steady, UNCHANGED vars PROVE Steady'
<1>1. PICK p : Reaches(p) /\ Sound(p) /\ Agrees(p)
  BY DEF Steady
<1>2. Types /\ SentOK
  BY DEF Steady
<1>3. /\ acks0Disabled' = acks0Disabled /\ sent' = sent /\ src' = src /\ dst' = dst /\ markers' = markers
      /\ pc' = pc /\ request' = request /\ mustReply' = mustReply /\ read' = read /\ left' = left
      /\ timeouts' = timeouts
  BY DEF vars, streams
<1>4. SentOK' /\ Reaches(p)' /\ Sound(p)'
  BY <1>1, <1>2, <1>3, Quiet
<1>5. Types'
  BY <1>2, <1>3 DEF Types
<1>6. Agrees(p)'
  <2>1. Turn(p)' = Turn(p) /\ Cells(p)' = Cells(p) /\ TokenTurn(p)' = TokenTurn(p) /\ WithOwn(p)' = WithOwn(p)
    BY <1>3 DEF Turn, Cells, TokenTurn, WithOwn
  <2>2. ASSUME NEW n PROVE Begun(p, n)' = Begun(p, n)
    BY <1>3, <2>1 DEF Begun
  <2>3. Holding(p)' = Holding(p)
    BY <1>3, <2>1 DEF Holding, Refused
  <2>4. Between(p)' = Between(p)
    BY <1>3, <2>1, <2>2, Zenon DEF Between
  <2>5. ReadingAcks(p)' = ReadingAcks(p)
    BY <1>3, <2>1, <2>2, <2>3, Zenon DEF ReadingAcks
  <2>6. Writing(p)' = Writing(p)
    BY <1>3, <2>1, <2>2, <2>3, Zenon DEF Writing
  <2>7. Copying(p)' = Copying(p)
    BY <1>3, <2>1, <2>2, Zenon DEF Copying
  <2>8. CopyDone(p)' = CopyDone(p)
    BY <1>3, <2>1, <2>2, Zenon DEF CopyDone
  <2>9. QED
    BY <1>1, <1>3, <2>4, <2>5, <2>6, <2>7, <2>8, Zenon DEF Agrees
<1>7. QED
  BY <1>4, <1>5, <1>6, Zenon DEF Steady

\* The connection ends.
LEMMA FailsKeeps == ASSUME Steady, ConnectionFails PROVE Steady'
<1>1. PICK p : Reaches(p) /\ Sound(p) /\ Agrees(p)
  BY DEF Steady
<1>2. Types /\ SentOK
  BY DEF Steady
<1>3. pc' = "closed" /\ UNCHANGED <<acks0Disabled, sent, src, dst, markers, request, mustReply, read, left, timeouts>>
  BY DEF ConnectionFails, streams
<1>4. SentOK' /\ Reaches(p)' /\ Sound(p)'
  BY <1>1, <1>2, <1>3, Quiet
<1>5. Types'
  BY <1>2, <1>3 DEF Types
<1>6. Agrees(p)'
  BY <1>3 DEF Agrees
<1>7. QED
  BY <1>4, <1>5, <1>6, Zenon DEF Steady

\* The client sends a request.
LEMMA SendKeeps == ASSUME Steady, NEW r \in Sends, ClientSends(r) PROVE Steady'
<1>1. PICK p : Reaches(p) /\ Sound(p) /\ Agrees(p)
  BY DEF Steady
<1>2. Types /\ SentOK
  BY DEF Steady
<1>3. /\ Len(sent) < MaxRequests /\ (r.raw <=> sent # <<>> /\ Last(sent).handshakeV0)
      /\ acks0Disabled => r.answered \/ r.raw
      /\ sent' = Append(sent, r) /\ src' = src \o r.cells
      /\ UNCHANGED <<acks0Disabled, dst, markers, pc, request, mustReply, read, left, timeouts>>
  BY DEF ClientSends
<1>4. /\ sent \in Seq(Sends) /\ Len(sent) \in Nat /\ src \in Seq(Int) /\ dst \in Seq(Int)
      /\ left \in 0..Len(src) + Len(dst)
  BY <1>2 DEF Types
<1>5. /\ sent' \in Seq(Sends) /\ Len(sent') = Len(sent) + 1
      /\ sent'[Len(sent) + 1] = r
      /\ \A i \in 1..Len(sent) : sent'[i] = sent[i]
  BY <1>3, <1>4
<1>6. r.cells \in Seq(Int) /\ Len(r.cells) \in Nat
  BY SendFacts
<1>7. src' \in Seq(Int) /\ Len(src') = Len(src) + Len(r.cells) /\ Len(src) \in Nat
  BY <1>3, <1>4, <1>6
<1>8. Types'
  <2>1. Len(sent') <= MaxRequests /\ MaxRequests \in Nat
    BY <1>3, <1>4, <1>5, RequestsAssumption
  <2>2. left' \in 0..Len(src') + Len(dst')
    <3>1. Len(dst) \in Nat /\ left' = left /\ dst' = dst
      BY <1>3, <1>4
    <3>2. QED
      BY <1>4, <1>6, <1>7, <3>1
  <2>3. QED
    BY <1>2, <1>3, <1>5, <1>7, <2>1, <2>2 DEF Types
<1>9. SentOK'
  <2>1. SUFFICES ASSUME NEW i \in 1..Len(sent')
                 PROVE  /\ sent'[i].raw <=> i > 1 /\ sent'[i - 1].handshakeV0
                        /\ acks0Disabled' => sent'[i].answered \/ sent'[i].raw
    BY DEF SentOK
  <2>2. CASE i \in 1..Len(sent)
    <3>1. sent'[i] = sent[i] /\ (i > 1 => sent'[i - 1] = sent[i - 1])
      <4>1. i > 1 => i - 1 \in 1..Len(sent)
        BY <2>2
      <4>2. QED
        BY <1>5, <2>2, <4>1, Zenon
    <3>2. QED
      BY <1>2, <1>3, <2>2, <3>1, Zenon DEF SentOK
  <2>3. CASE i = Len(sent) + 1
    <3>1. sent'[i] = r /\ i - 1 = Len(sent)
      BY <1>4, <1>5, <2>3
    <3>2. sent # <<>> <=> i > 1
      BY <1>4, <2>3
    <3>3. i > 1 => sent'[i - 1] = Last(sent)
      <4>1. i > 1 => Len(sent) \in 1..Len(sent)
        BY <1>4, <2>3
      <4>2. QED
        BY <1>5, <3>1, <4>1, Zenon DEF Last
    <3>4. QED
      BY <1>3, <3>1, <3>2, <3>3, Zenon
  <2>4. QED
    BY <1>4, <1>5, <2>2, <2>3
<1>10. Reaches(p)'
  <2>1. PICK x : x = <<>>
    OBVIOUS
  <2>2. x \in Seq(Int) /\ dst' = dst \o x
    BY <1>3, <1>4, <2>1, ConcatEmptySeq
  <2>3. QED
    BY <1>1, <1>3, <1>4, <2>2, ReachesStays
<1>11. Len(p.client) \in Nat /\ Len(p.client) <= Len(sent) /\ Turn(p)' = Turn(p) /\ Turn(p) = Len(p.client) + 1
  BY <1>1 DEF Sound, Turn
<1>12. /\ Turn(p) <= Len(sent) => sent'[Turn(p)] = sent[Turn(p)] /\ Cells(p)' = Cells(p) /\ WithOwn(p)' = WithOwn(p)
       /\ Turn(p) <= Len(sent) => Turn(p) <= Len(sent')
  <2>1. Turn(p) <= Len(sent) => sent'[Turn(p)] = sent[Turn(p)]
    <3>1. Turn(p) <= Len(sent) => Turn(p) \in 1..Len(sent)
      BY <1>4, <1>11
    <3>2. QED
      BY <1>5, <3>1, Zenon
  <2>2. Turn(p) <= Len(sent) => Turn(p) <= Len(sent')
    BY <1>4, <1>5, <1>11
  <2>3. QED
    BY <1>11, <2>1, <2>2, Zenon DEF Cells, WithOwn
<1>13. TokenTurn(p)' = TokenTurn(p)
  <2>1. Len(p.client) >= 1 => Len(p.client) \in 1..Len(sent)
    BY <1>4, <1>11
  <2>2. QED
    BY <1>5, <2>1, Zenon DEF TokenTurn
<1>14. ASSUME NEW n \in Nat, Begun(p, n) PROVE Begun(p, n)'
  <2>1. CASE n = 0
    BY <1>3, <1>14, <2>1 DEF Begun
  <2>2. CASE n > 0
    BY <1>3, <1>11, <1>12, <1>14, <2>2, Zenon DEF Begun
  <2>3. QED
    BY <2>1, <2>2
<1>15. Sound(p)'
  <2>1. Len(p.client) <= Len(sent')
    BY <1>4, <1>5, <1>11
  <2>2. ASSUME NEW i \in 1..Len(p.client) PROVE sent'[i] = sent[i]
    <3>1. i \in 1..Len(sent)
      BY <1>4, <1>11
    <3>2. QED
      BY <1>5, <3>1, Zenon
  <2>3. QED
    BY <1>1, <1>14, <2>1, <2>2, Zenon DEF Sound
<1>16. ASSUME NEW n \in Nat, Ahead(sent, src, Len(p.client), n) PROVE Ahead(sent', src', Len(p.client), n)
  BY <1>3, <1>4, <1>11, <1>16, AheadSend
<1>17. Agrees(p)'
  <2>1. 0 \in Nat /\ 3 \in Nat
    OBVIOUS
  <2>2. Between(p) => Between(p)'
    BY <1>3, <1>13, <1>14, <1>16, <2>1, Zenon DEF Between
  <2>3. Holding(p) => Holding(p)'
    <3>1. 3 + Len(read) \in Nat
      BY <1>2 DEF Types
    <3>2. Refused(request)' = Refused(request)
      BY <1>3 DEF Refused
    <3>3. QED
      BY <1>3, <1>11, <1>12, <1>16, <3>1, <3>2, Zenon DEF Holding
  <2>4. ReadingAcks(p) => ReadingAcks(p)'
    <3>1. ReadingAcks(p) => Holding(p) /\ Turn(p) <= Len(sent)
      BY DEF ReadingAcks, Holding
    <3>2. QED
      BY <1>3, <1>12, <1>14, <2>1, <2>3, <3>1, Zenon DEF ReadingAcks
  <2>5. Writing(p) => Writing(p)'
    <3>1. Writing(p) => Holding(p) /\ Turn(p) <= Len(sent)
      BY DEF Writing, Holding
    <3>2. QED
      BY <1>3, <1>11, <1>12, <1>14, <2>1, <2>3, <3>1, Zenon DEF Writing
  <2>6. Copying(p) => Copying(p)'
    <3>1. SUFFICES ASSUME Copying(p) PROVE Copying(p)'
      OBVIOUS
    <3>2. Turn(p) <= Len(sent) /\ left < Len(Cells(p))
      BY <3>1 DEF Copying
    <3>3. Len(Cells(p)) - left \in Nat
      <4>1. Len(Cells(p)) \in Nat
        BY <1>1, <1>2, <3>2, TurnFacts
      <4>2. left \in Int
        BY <1>4
      <4>3. QED
        BY <3>2, <4>1, <4>2
    <3>4. QED
      BY <1>3, <1>11, <1>12, <1>14, <1>16, <3>1, <3>2, <3>3, Zenon DEF Copying
  <2>7. CopyDone(p) => CopyDone(p)'
    <3>1. Len(p.client) >= 1 => Len(p.client) \in 1..Len(sent)
      BY <1>4, <1>11
    <3>2. QED
      BY <1>3, <1>5, <1>14, <1>16, <2>1, <3>1, Zenon DEF CopyDone
  <2>8. QED
    BY <1>1, <1>3, <2>2, <2>4, <2>5, <2>6, <2>7, Zenon DEF Agrees
<1>18. QED
  BY <1>8, <1>9, <1>10, <1>15, <1>17, Zenon DEF Steady

\* The loop takes the first three cells of a request.
LEMMA HeaderKeeps == ASSUME Steady, ReadKeyVersion PROVE Steady'
<1>1. PICK p : Reaches(p) /\ Sound(p) /\ Agrees(p)
  BY DEF Steady
<1>2. Types /\ SentOK
  BY DEF Steady
<1>3. /\ pc = "header" /\ Len(src) >= 3
      /\ request' = RequestKeyVersion(src[1], src[2], src[3])
      /\ src' = SubSeq(src, 3 + 1, Len(src)) /\ mustReply' = TRUE
      /\ pc' = IF Refused(request') THEN "closed"
               ELSE IF request'.key = apiKeyProduce /\ ~acks0Disabled THEN "clientID" ELSE "marker"
      /\ UNCHANGED <<acks0Disabled, sent, dst, markers, read, left, timeouts>>
  <2>1. 1 + KeyVersionLen = 3
    BY DEF KeyVersionLen
  <2>2. QED
    BY <2>1, Zenon DEF ReadKeyVersion, Drop
<1>4. sent \in Seq(Sends) /\ Len(sent) \in Nat /\ src \in Seq(Int) /\ Len(src) \in Nat /\ dst \in Seq(Int)
  BY <1>2 DEF Types
<1>5. SentOK' /\ Reaches(p)' /\ Sound(p)'
  BY <1>1, <1>2, <1>3, Quiet
<1>6. Between(p)
  BY <1>1, <1>3 DEF Agrees
<1>7. /\ Begun(p, 0) /\ Ahead(sent, src, Len(p.client), 0) /\ read = <<>> /\ left = 0
      /\ ~TokenTurn(p) /\ markers = p.due
  BY <1>3, <1>6 DEF Between
<1>8. Len(p.client) \in Nat /\ Len(p.client) <= Len(sent)
  BY <1>1 DEF Sound
<1>9. Turn(p) <= Len(sent) /\ Len(p.client) < Len(sent)
  <2>1. Len(p.client) # Len(sent)
    <3>1. SUFFICES ASSUME Len(p.client) = Len(sent) PROVE FALSE
      OBVIOUS
    <3>2. src = <<>>
      BY <1>4, <1>7, <3>1, AheadNone, Zenon
    <3>3. QED
      BY <1>3, <3>2
  <2>2. QED
    BY <1>4, <1>8, <2>1 DEF Turn
<1>10. PICK q : q = Cells(p)
  OBVIOUS
<1>11. Turn(p) \in 1..Len(sent) /\ sent[Turn(p)] \in Sends /\ q \in Seq(Int) /\ Len(q) \in Nat /\ q[1] = Len(q) - 1
  BY <1>1, <1>2, <1>9, <1>10, TurnFacts, Zenon
<1>12. ~sent[Turn(p)].raw
  <2>1. Turn(p) > 1 => Len(p.client) >= 1 /\ Turn(p) - 1 = Len(p.client)
    BY <1>8 DEF Turn
  <2>2. QED
    BY <1>2, <1>7, <1>11, <2>1, Zenon DEF SentOK, TokenTurn
<1>13. Len(q) >= 3 /\ q[3] \in Nat /\ (q[2] # apiKeyProduce => sent[Turn(p)].answered)
  BY <1>10, <1>11, <1>12, SendFacts, Zenon DEF Cells
<1>14. src[1] = q[1] /\ src[2] = q[2] /\ src[3] = q[3]
  <2>2. 0 \in Nat /\ 0 < Len(q)
    BY <1>11, <1>13
  <2>3. \A k \in 1..Len(q) - 0 : src[k] = q[0 + k]
    BY <1>1, <1>2, <1>7, <1>9, <1>10, <2>2, NextCells, Zenon
  <2>4. 1 \in 1..Len(q) - 0 /\ 2 \in 1..Len(q) - 0 /\ 3 \in 1..Len(q) - 0 /\ 0 + 1 = 1 /\ 0 + 2 = 2 /\ 0 + 3 = 3
    BY <1>11, <1>13
  <2>5. src[1] = q[0 + 1] /\ src[2] = q[0 + 2] /\ src[3] = q[0 + 3]
    BY <2>3, <2>4
  <2>6. QED
    BY <2>4, <2>5, Zenon
<1>15. request' = RequestKeyVersion(q[1], q[2], q[3])
  BY <1>3, <1>14, Zenon
<1>16. Ahead(sent, src', Len(p.client), 3 + Len(read))
  <2>1. 0 \in Nat /\ 3 \in Nat /\ 3 <= Len(src) /\ 0 + 3 = 3 + Len(read)
    BY <1>3, <1>4, <1>7
  <2>2. Ahead(sent, src', Len(p.client), 0 + 3)
    BY <1>3, <1>4, <1>7, <1>8, <1>9, <2>1, AheadTake, Zenon
  <2>3. QED
    BY <2>1, <2>2, Zenon
<1>17. src' \in Seq(Int) /\ q[2] \in Int /\ q[1] \in Int
  <2>1. src' \in Seq(Int)
    BY <1>3, <1>4
  <2>2. 1 \in 1..Len(q) /\ 2 \in 1..Len(q)
    BY <1>11, <1>13
  <2>3. QED
    BY <1>11, <2>1, <2>2
<1>18. /\ request'.size = q[1] /\ request'.key = q[2] /\ request'.version = q[3]
  BY <1>15 DEF RequestKeyVersion
<1>19. pc' \in {"closed", "clientID", "marker"}
  BY <1>3
<1>20. Types'
  <2>1. request'.size \in Int /\ request'.key \in Int /\ request'.version \in Int
    BY <1>13, <1>17, <1>18
  <2>2. left' \in 0..Len(src') + Len(dst')
    <3>1. left' = 0 /\ Len(src') \in Nat /\ Len(dst') \in Nat
      BY <1>3, <1>4, <1>7, <1>17
    <3>2. QED
      BY <3>1
  <2>3. QED
    BY <1>2, <1>3, <1>17, <1>19, <2>1, <2>2 DEF Types
<1>21. Agrees(p)'
  <2>1. CASE Refused(request')
    <3>1. pc' = "closed"
      BY <1>3, <2>1
    <3>2. QED
      BY <3>1 DEF Agrees
  <2>2. CASE ~Refused(request')
    <3>1. Cells(p)' = q /\ Turn(p)' = Turn(p) /\ sent'[Turn(p)] = sent[Turn(p)]
      BY <1>3, <1>10 DEF Cells, Turn
    <3>2. 3 + Len(read) < Len(q)
      <4>1. q[1] > 2
        BY <1>17, <1>18, <2>2 DEF Refused, KeyVersionLen
      <4>2. QED
        BY <1>7, <1>11, <4>1
    <3>3. \A j \in 1..Len(read) : read[j] = q[3 + j]
      BY <1>7
    <3>4. Holding(p)'
      BY <1>3, <1>9, <1>12, <1>15, <1>16, <2>2, <3>1, <3>2, <3>3, Zenon DEF Holding
    <3>5. Begun(p, 0)'
      BY <1>3, <1>7, <3>1 DEF Begun
    <3>6. CASE request'.key = apiKeyProduce /\ ~acks0Disabled
      <4>1. pc' = "clientID"
        BY <1>3, <2>2, <3>6
      <4>2. ReadingAcks(p)'
        BY <1>3, <1>7, <1>18, <3>1, <3>4, <3>5, <3>6, <4>1 DEF ReadingAcks
      <4>3. QED
        BY <4>1, <4>2 DEF Agrees
    <3>7. CASE ~(request'.key = apiKeyProduce /\ ~acks0Disabled)
      <4>1. pc' = "marker"
        BY <1>3, <2>2, <3>7
      <4>2. sent[Turn(p)].answered
        BY <1>2, <1>11, <1>12, <1>13, <1>18, <3>7, Zenon DEF SentOK
      <4>3. mustReply' = sent'[Turn(p)].answered
        <5>1. sent[Turn(p)].answered \in BOOLEAN
          BY <1>11, SendFacts
        <5>2. QED
          BY <1>3, <3>1, <4>2, <5>1
      <4>4. Writing(p)'
        BY <1>3, <1>7, <3>1, <3>4, <3>5, <4>1, <4>3 DEF Writing
      <4>5. QED
        BY <4>1, <4>4 DEF Agrees
    <3>8. QED
      BY <3>6, <3>7
  <2>3. QED
    BY <2>1, <2>2
<1>22. QED
  BY <1>5, <1>20, <1>21, Zenon DEF Steady

\* The acks reader takes k more cells of the request and leaves some.
LEMMA TakeHeld ==
    ASSUME Types, NEW p, Sound(p), Holding(p), NEW k \in Nat, Take(k),
           3 + Len(read) + k < Len(Cells(p)), UNCHANGED <<sent, request>>
    PROVE  /\ Holding(p)' /\ Len(read') = Len(read) + k
           /\ src' \in Seq(Int) /\ read' \in Seq(Int)
<1>1. Len(src) >= k /\ read' = read \o SubSeq(src, 1, k) /\ src' = SubSeq(src, k + 1, Len(src))
  BY DEF Take, Drop
<1>2. sent \in Seq(Sends) /\ src \in Seq(Int) /\ read \in Seq(Int) /\ Len(src) \in Nat /\ Len(read) \in Nat
  BY DEF Types
<1>3. PICK q : q = Cells(p)
  OBVIOUS
<1>4. /\ Turn(p) <= Len(sent) /\ Ahead(sent, src, Len(p.client), 3 + Len(read))
      /\ \A j \in 1..Len(read) : read[j] = q[3 + j]
  BY <1>3 DEF Holding
<1>5. Len(p.client) \in Nat /\ Len(p.client) < Len(sent) /\ q \in Seq(Int) /\ Len(q) \in Nat
  BY <1>3, <1>4, TurnFacts, Zenon
<1>6. PICK n \in Nat : n = 3 + Len(read)
  BY <1>2
<1>7. n + k < Len(q)
  BY <1>3, <1>6, Zenon
<1>8. src' \in Seq(Int)
  BY <1>1, <1>2
<1>9. Ahead(sent, src', Len(p.client), n + k)
  <2>1. k <= Len(src)
    BY <1>1, <1>2
  <2>2. QED
    BY <1>1, <1>2, <1>4, <1>5, <1>6, <2>1, AheadTake, Zenon
<1>10. \A i \in 1..Len(q) - n : src[i] = q[n + i]
  <2>1. n < Len(q)
    BY <1>5, <1>7
  <2>2. QED
    BY <1>3, <1>4, <1>6, <2>1, NextCells, Zenon
<1>11. PICK x : x = SubSeq(src, 1, k)
  OBVIOUS
<1>12. x \in Seq(Int) /\ Len(x) = k /\ \A j \in 1..k : x[j] = src[j]
  <2>1. k <= Len(src)
    BY <1>1, <1>2
  <2>2. QED
    BY <1>2, <1>11, <2>1, TakeCells, Zenon
<1>13. PICK m \in Nat : m = Len(read)
  BY <1>2
<1>14. read' \in Seq(Int) /\ Len(read') = Len(read) + Len(x) /\ Holds(read', 0, read) /\ Holds(read', Len(read), x)
  BY <1>1, <1>2, <1>11, <1>12, ConcatHolds, Zenon
<1>15. Len(read') = m + k
  BY <1>12, <1>13, <1>14, Zenon
<1>16. ASSUME NEW j \in 1..m + k PROVE read'[j] = q[3 + j]
  <2>1. CASE j \in 1..m
    <3>1. 0 + j = j
      OBVIOUS
    <3>2. read'[0 + j] = read[j]
      BY <1>13, <1>14, <2>1, Zenon DEF Holds
    <3>3. QED
      BY <1>4, <1>13, <2>1, <3>1, <3>2, Zenon
  <2>2. CASE j \notin 1..m
    <3>1. PICK i \in 1..k : j = m + i
      <4>1. j - m \in 1..k /\ j = m + (j - m)
        BY <2>2
      <4>2. QED
        BY <4>1
    <3>2. read'[m + i] = x[i] /\ x[i] = src[i]
      BY <1>12, <1>13, <1>14, Zenon DEF Holds
    <3>3. i \in 1..Len(q) - n
      BY <1>5, <1>7
    <3>4. src[i] = q[n + i]
      BY <1>10, <3>3, Zenon
    <3>5. n + i = 3 + j
      BY <1>6, <1>13, <3>1
    <3>6. QED
      BY <3>1, <3>2, <3>4, <3>5, Zenon
  <2>3. QED
    BY <2>1, <2>2
<1>17. 3 + Len(read') = n + k
  BY <1>6, <1>13, <1>15
<1>18. Holding(p)'
  <2>1. Cells(p)' = q /\ Turn(p)' = Turn(p)
    BY <1>3 DEF Cells, Turn
  <2>2. Refused(request)' = Refused(request)
    BY DEF Refused
  <2>3. /\ Turn(p) <= Len(sent) /\ ~sent[Turn(p)].raw
        /\ request = RequestKeyVersion(q[1], q[2], q[3]) /\ ~Refused(request)
    BY <1>3 DEF Holding
  <2>4. QED
    BY <1>7, <1>9, <1>15, <1>16, <1>17, <2>1, <2>2, <2>3, Zenon DEF Holding
<1>19. QED
  BY <1>8, <1>13, <1>14, <1>15, <1>18, Zenon

\* The reader is right about the request the loop is at.
LEMMA HeldReads ==
    ASSUME Types, NEW p, Sound(p), Holding(p), Cells(p)[2] = apiKeyProduce
    PROVE  ReaderRight(Cells(p), sent[Turn(p)].answered)
<1>1. Turn(p) <= Len(sent) /\ ~sent[Turn(p)].raw
  BY DEF Holding
<1>2. sent[Turn(p)] \in Sends
  BY <1>1, TurnFacts
<1>3. sent[Turn(p)].cells[2] = apiKeyProduce
  BY DEF Cells
<1>4. QED
  BY <1>1, <1>2, <1>3, SendReads, Zenon DEF Cells

\* What the reader sees is the request.
LEMMA HeldCells ==
    ASSUME Types, NEW p, Sound(p), Holding(p)
    PROVE  \A k \in Nat : k >= 1 /\ 3 + Len(read) + k <= Len(Cells(p)) => src[k] = Cells(p)[3 + Len(read) + k]
<1>1. PICK n \in Nat : n = 3 + Len(read)
  BY DEF Types
<1>2. Turn(p) <= Len(sent) /\ Ahead(sent, src, Len(p.client), n) /\ n < Len(Cells(p))
  BY <1>1, Zenon DEF Holding
<1>3. Len(Cells(p)) \in Nat
  BY <1>2, TurnFacts
<1>4. \A k \in 1..Len(Cells(p)) - n : src[k] = Cells(p)[n + k]
  BY <1>2, NextCells, Zenon
<1>5. ASSUME NEW k \in Nat, k >= 1, n + k <= Len(Cells(p)) PROVE src[k] = Cells(p)[n + k]
  <2>1. k \in 1..Len(Cells(p)) - n
    BY <1>3, <1>5
  <2>2. QED
    BY <1>4, <2>1, Zenon
<1>6. QED
  BY <1>1, <1>5, Zenon

\* A step of the reader that stays inside the request.
LEMMA ReadsOn ==
    ASSUME Types, SentOK, NEW p, Reaches(p), Sound(p), ReadingAcks(p), NEW k \in Nat, Take(k),
           3 + Len(read) + k < Len(Cells(p)), mustReply' \in BOOLEAN, pc' \in {"txnID", "acks", "marker"},
           UNCHANGED <<acks0Disabled, sent, dst, markers, request, left, timeouts>>
    PROVE  /\ Types' /\ SentOK' /\ Reaches(p)' /\ Sound(p)'
           /\ Holding(p)' /\ Begun(p, 0)' /\ left' = 0 /\ markers' = p.due
           /\ Len(read') = Len(read) + k /\ Cells(p)' = Cells(p) /\ Turn(p)' = Turn(p)
<1>1. SentOK' /\ Reaches(p)' /\ Sound(p)'
  BY Quiet
<1>2. Holding(p) /\ Begun(p, 0) /\ left = 0 /\ markers = p.due
  BY DEF ReadingAcks
<1>3. Holding(p)' /\ Len(read') = Len(read) + k /\ src' \in Seq(Int) /\ read' \in Seq(Int)
  BY <1>2, TakeHeld
<1>4. Cells(p)' = Cells(p) /\ Turn(p)' = Turn(p)
  BY DEF Cells, Turn
<1>5. Begun(p, 0)' /\ left' = 0 /\ markers' = p.due
  BY <1>2, <1>4 DEF Begun
<1>6. Types'
  <2>1. left' \in 0..Len(src') + Len(dst')
    <3>1. dst \in Seq(Int)
      BY DEF Types
    <3>2. Len(src') \in Nat /\ Len(dst') \in Nat
      BY <1>3, <3>1
    <3>3. QED
      BY <1>5, <3>2
  <2>2. QED
    BY <1>3, <2>1 DEF Types
<1>7. QED
  BY <1>1, <1>3, <1>4, <1>5, <1>6

\* The reader passes a string.
LEMMA StringTaken ==
    ASSUME NEW before \in Nat, NEW next, TakeString(before, next), NEW n,
           n = ToInt16(src[before + 1], src[before + 2]), n \in Nat \cup {-1}
    PROVE  /\ Take(before + 2 + CharCount(n)) /\ pc' = next /\ CharCount(n) \in Nat
           /\ UNCHANGED <<acks0Disabled, sent, dst, markers, request, mustReply, left, timeouts>>
<1>1. ~(n < -1) /\ CharCount(n) \in Nat
  BY DEF CharCount, Null
<1>2. CharCount(n) = IF n = -1 THEN 0 ELSE n
  BY DEF CharCount, Null
<1>3. QED
  BY <1>1, <1>2, Zenon DEF TakeString

\* Behind a string.
LEMMA StringEnds ==
    ASSUME NEW q, NEW at \in Nat, ToInt16(q[at + 1], q[at + 2]) \in Nat \cup {-1}
    PROVE  StringEnd(q, at) = at + 2 + CharCount(ToInt16(q[at + 1], q[at + 2])) /\ StringEnd(q, at) \in Nat
<1>1. PICK n : n = ToInt16(q[at + 1], q[at + 2])
  OBVIOUS
<1>2. StringEnd(q, at) = at + 2 + (IF n = -1 THEN 0 ELSE n)
  BY <1>1, Zenon DEF StringEnd
<1>3. n \in Nat \cup {-1}
  BY <1>1, Zenon
<1>4. CharCount(n) = (IF n = -1 THEN 0 ELSE n) /\ CharCount(n) \in Nat
  BY <1>3 DEF CharCount, Null
<1>5. StringEnd(q, at) = at + 2 + CharCount(n) /\ StringEnd(q, at) \in Nat
  <2>1. StringEnd(q, at) = at + 2 + CharCount(n)
    BY <1>2, <1>4, Zenon
  <2>2. ASSUME NEW m \in Nat PROVE at + 2 + m \in Nat
    OBVIOUS
  <2>3. QED
    BY <1>4, <2>1, <2>2, Zenon
<1>6. QED
  BY <1>1, <1>5, Zenon

\* The reader passes correlation id and client id.
LEMMA ClientIDKeeps == ASSUME Steady, ReadHeaderPart PROVE Steady'
<1>1. PICK p : Reaches(p) /\ Sound(p) /\ Agrees(p)
  BY DEF Steady
<1>2. Types /\ SentOK
  BY DEF Steady
<1>3. pc = "clientID" /\ TakeString(1, IF TxnLayout(request.version) THEN "txnID" ELSE "acks")
  BY DEF ReadHeaderPart
<1>4. ReadingAcks(p)
  BY <1>1, <1>3 DEF Agrees
<1>5. Holding(p) /\ Cells(p)[2] = apiKeyProduce /\ Len(read) = 0
  BY <1>3, <1>4 DEF ReadingAcks
<1>6. PICK q : q = Cells(p)
  OBVIOUS
<1>7. ReaderRight(q, sent[Turn(p)].answered)
  BY <1>1, <1>2, <1>5, <1>6, HeldReads, Zenon
<1>8. Len(q) \in Nat
  BY <1>1, <1>2, <1>5, <1>6, TurnFacts DEF Holding
<1>9. PICK n : n = ToInt16(q[5], q[6])
  OBVIOUS
<1>10. Len(q) >= 6 /\ n \in Nat \cup {-1}
  BY <1>7, <1>9, Zenon DEF ReaderRight
<1>11. n = ToInt16(src[1 + 1], src[1 + 2])
  <2>1. /\ 2 \in Nat /\ 2 >= 1 /\ 3 + Len(read) + 2 <= Len(q) /\ 3 + Len(read) + 2 = 5 /\ 1 + 1 = 2
        /\ 3 \in Nat /\ 3 >= 1 /\ 3 + Len(read) + 3 <= Len(q) /\ 3 + Len(read) + 3 = 6 /\ 1 + 2 = 3
    BY <1>5, <1>8, <1>10
  <2>2. \A k \in Nat : k >= 1 /\ 3 + Len(read) + k <= Len(q) => src[k] = q[3 + Len(read) + k]
    BY <1>1, <1>2, <1>5, <1>6, HeldCells, Zenon
  <2>3. src[2] = q[3 + Len(read) + 2]
    BY <2>1, <2>2, Zenon
  <2>4. src[3] = q[3 + Len(read) + 3]
    BY <2>1, <2>2, Zenon
  <2>5. QED
    BY <1>9, <2>1, <2>3, <2>4, Zenon
<1>12. PICK k \in Nat : k = 1 + 2 + CharCount(n)
  BY <1>10 DEF CharCount, Null
<1>13. /\ Take(k) /\ pc' = (IF TxnLayout(request.version) THEN "txnID" ELSE "acks")
       /\ UNCHANGED <<acks0Disabled, sent, dst, markers, request, mustReply, left, timeouts>>
  <2>1. 1 \in Nat
    OBVIOUS
  <2>2. QED
    BY <1>3, <1>10, <1>11, <1>12, <2>1, StringTaken, Zenon
<1>14. HeaderEnd(q) = 3 + k
  <2>1. 4 \in Nat /\ 4 + 1 = 5 /\ 4 + 2 = 6
    OBVIOUS
  <2>2. ToInt16(q[4 + 1], q[4 + 2]) = n
    BY <1>9, <2>1, Zenon
  <2>3. StringEnd(q, 4) = 4 + 2 + CharCount(n)
    BY <1>10, <2>1, <2>2, StringEnds, Zenon
  <2>4. CharCount(n) \in Nat
    BY <1>10 DEF CharCount, Null
  <2>5. QED
    BY <1>12, <2>3, <2>4 DEF HeaderEnd
<1>15. 3 + Len(read) + k < Len(q)
  <2>1. HeaderEnd(q) + 2 <= Len(q)
    BY <1>7 DEF ReaderRight
  <2>2. QED
    BY <1>5, <1>8, <1>14, <2>1
<1>16. /\ Types' /\ SentOK' /\ Reaches(p)' /\ Sound(p)'
       /\ Holding(p)' /\ Begun(p, 0)' /\ left' = 0 /\ markers' = p.due
       /\ Len(read') = Len(read) + k /\ Cells(p)' = Cells(p)
  <2>1. mustReply' \in BOOLEAN /\ pc' \in {"txnID", "acks", "marker"}
    BY <1>2, <1>13 DEF Types
  <2>2. 3 + Len(read) + k < Len(Cells(p))
    BY <1>6, <1>15, Zenon
  <2>3. QED
    BY <1>1, <1>2, <1>4, <1>13, <2>1, <2>2, ReadsOn
<1>17. 3 + Len(read') = HeaderEnd(q)
  BY <1>5, <1>14, <1>16
<1>18. request.version = q[3]
  BY <1>5, <1>6 DEF Holding, RequestKeyVersion
<1>19. AcksAt(q) = HeaderEnd(q) \/ TxnLayout(q[3])
  BY DEF AcksAt
<1>20. ReadingAcks(p)'
  <2>1. Cells(p)' = q /\ q[2] = apiKeyProduce
    BY <1>5, <1>6, <1>16, Zenon
  <2>2. pc' # "clientID" /\ (pc' = "txnID" => TxnLayout(q[3])) /\ (pc' = "acks" => ~TxnLayout(q[3]))
    BY <1>13, <1>18
  <2>3. QED
    BY <1>16, <1>17, <1>19, <2>1, <2>2, Zenon DEF ReadingAcks
<1>21. Agrees(p)'
  <2>1. pc' = "txnID" \/ pc' = "acks"
    BY <1>13
  <2>2. QED
    BY <1>20, <2>1 DEF Agrees
<1>22. QED
  BY <1>16, <1>21, Zenon DEF Steady

\* It passes the transactional id.
LEMMA TxnIDKeeps == ASSUME Steady, ReadTxnID PROVE Steady'
<1>1. PICK p : Reaches(p) /\ Sound(p) /\ Agrees(p)
  BY DEF Steady
<1>2. Types /\ SentOK
  BY DEF Steady
<1>3. pc = "txnID" /\ TakeString(0, "acks")
  BY DEF ReadTxnID
<1>4. ReadingAcks(p)
  BY <1>1, <1>3 DEF Agrees
<1>5. Holding(p) /\ Cells(p)[2] = apiKeyProduce
  BY <1>4 DEF ReadingAcks
<1>6. PICK q : q = Cells(p)
  OBVIOUS
<1>7. ReaderRight(q, sent[Turn(p)].answered)
  BY <1>1, <1>2, <1>5, <1>6, HeldReads, Zenon
<1>8. Len(q) \in Nat /\ Len(read) \in Nat
  BY <1>1, <1>2, <1>5, <1>6, TurnFacts DEF Holding, Types
<1>9. PICK H \in Nat : H = 3 + Len(read)
  BY <1>8
<1>10. H = HeaderEnd(q) /\ TxnLayout(q[3])
  BY <1>3, <1>4, <1>6, <1>9, Zenon DEF ReadingAcks
<1>11. PICK n : n = ToInt16(q[H + 1], q[H + 2])
  OBVIOUS
<1>12. H + 2 <= Len(q) /\ n \in Nat \cup {-1} /\ AcksAt(q) + 2 < Len(q)
  BY <1>7, <1>10, <1>11, Zenon DEF ReaderRight
<1>13. n = ToInt16(src[0 + 1], src[0 + 2])
  <2>1. 1 \in Nat /\ 1 >= 1 /\ 2 \in Nat /\ 2 >= 1 /\ 0 + 1 = 1 /\ 0 + 2 = 2 /\ H + 1 <= Len(q)
    BY <1>8, <1>12
  <2>2. \A k \in Nat : k >= 1 /\ H + k <= Len(q) => src[k] = q[H + k]
    BY <1>1, <1>2, <1>5, <1>6, <1>9, HeldCells, Zenon
  <2>3. src[1] = q[H + 1] /\ src[2] = q[H + 2]
    BY <1>12, <2>1, <2>2, Zenon
  <2>4. QED
    BY <1>11, <2>1, <2>3, Zenon
<1>14. PICK k \in Nat : k = 0 + 2 + CharCount(n)
  BY <1>12 DEF CharCount, Null
<1>15. /\ Take(k) /\ pc' = "acks"
       /\ UNCHANGED <<acks0Disabled, sent, dst, markers, request, mustReply, left, timeouts>>
  <2>1. 0 \in Nat
    OBVIOUS
  <2>2. QED
    BY <1>3, <1>12, <1>13, <1>14, <2>1, StringTaken, Zenon
<1>16. AcksAt(q) = H + k
  <2>1. AcksAt(q) = StringEnd(q, H)
    BY <1>10 DEF AcksAt
  <2>2. StringEnd(q, H) = H + 2 + CharCount(n)
    BY <1>11, <1>12, StringEnds, Zenon
  <2>3. CharCount(n) \in Nat
    BY <1>12 DEF CharCount, Null
  <2>4. QED
    BY <1>14, <2>1, <2>2, <2>3
<1>17. H + k < Len(q)
  BY <1>8, <1>12, <1>16
<1>18. /\ Types' /\ SentOK' /\ Reaches(p)' /\ Sound(p)'
       /\ Holding(p)' /\ Begun(p, 0)' /\ left' = 0 /\ markers' = p.due
       /\ Len(read') = Len(read) + k /\ Cells(p)' = Cells(p)
  <2>1. mustReply' \in BOOLEAN /\ pc' \in {"txnID", "acks", "marker"}
    BY <1>2, <1>15 DEF Types
  <2>2. 3 + Len(read) + k < Len(Cells(p))
    BY <1>6, <1>9, <1>17, Zenon
  <2>3. QED
    BY <1>1, <1>2, <1>4, <1>15, <2>1, <2>2, ReadsOn
<1>19. 3 + Len(read') = AcksAt(q)
  BY <1>8, <1>9, <1>16, <1>18
<1>20. ReadingAcks(p)'
  <2>1. pc' # "clientID" /\ pc' # "txnID"
    BY <1>15
  <2>2. QED
    BY <1>5, <1>6, <1>18, <1>19, <2>1, Zenon DEF ReadingAcks
<1>21. Agrees(p)'
  BY <1>15, <1>20 DEF Agrees
<1>22. QED
  BY <1>18, <1>21, Zenon DEF Steady

\* It reads acks and knows whether there will be an answer.
LEMMA AcksKeeps == ASSUME Steady, ReadAcks PROVE Steady'
<1>1. PICK p : Reaches(p) /\ Sound(p) /\ Agrees(p)
  BY DEF Steady
<1>2. Types /\ SentOK
  BY DEF Steady
<1>3. /\ pc = "acks" /\ Take(2) /\ mustReply' = (ToInt16(src[1], src[2]) # 0) /\ pc' = "marker"
      /\ UNCHANGED <<acks0Disabled, sent, dst, markers, request, left, timeouts>>
  BY DEF ReadAcks
<1>4. ReadingAcks(p)
  BY <1>1, <1>3 DEF Agrees
<1>5. Holding(p) /\ Cells(p)[2] = apiKeyProduce
  BY <1>4 DEF ReadingAcks
<1>6. PICK q : q = Cells(p)
  OBVIOUS
<1>7. ReaderRight(q, sent[Turn(p)].answered)
  BY <1>1, <1>2, <1>5, <1>6, HeldReads, Zenon
<1>8. Len(q) \in Nat /\ Len(read) \in Nat
  BY <1>1, <1>2, <1>5, <1>6, TurnFacts DEF Holding, Types
<1>9. PICK A \in Nat : A = 3 + Len(read)
  BY <1>8
<1>10. A = AcksAt(q)
  BY <1>3, <1>4, <1>6, <1>9, Zenon DEF ReadingAcks
<1>11. A + 2 < Len(q) /\ ((ToInt16(q[A + 1], q[A + 2]) # 0) <=> sent[Turn(p)].answered)
  BY <1>7, <1>10, Zenon DEF ReaderRight
<1>12. src[1] = q[A + 1] /\ src[2] = q[A + 2]
  <2>1. 1 \in Nat /\ 1 >= 1 /\ 2 \in Nat /\ 2 >= 1 /\ A + 1 <= Len(q) /\ A + 2 <= Len(q)
    BY <1>8, <1>11
  <2>2. \A k \in Nat : k >= 1 /\ A + k <= Len(q) => src[k] = q[A + k]
    BY <1>1, <1>2, <1>5, <1>6, <1>9, HeldCells, Zenon
  <2>3. QED
    BY <2>1, <2>2, Zenon
<1>13. /\ Types' /\ SentOK' /\ Reaches(p)' /\ Sound(p)'
       /\ Holding(p)' /\ Begun(p, 0)' /\ left' = 0 /\ markers' = p.due /\ Turn(p)' = Turn(p)
  <2>1. 2 \in Nat /\ mustReply' \in BOOLEAN /\ pc' \in {"txnID", "acks", "marker"}
    BY <1>3
  <2>2. 3 + Len(read) + 2 < Len(Cells(p))
    BY <1>6, <1>9, <1>11, Zenon
  <2>3. QED
    BY <1>1, <1>2, <1>3, <1>4, <2>1, <2>2, ReadsOn
<1>14. mustReply' = sent'[Turn(p)].answered
  <2>1. sent[Turn(p)] \in Sends
    BY <1>1, <1>2, <1>5, TurnFacts DEF Holding
  <2>2. sent[Turn(p)].answered \in BOOLEAN /\ mustReply' \in BOOLEAN
    BY <1>3, <2>1, SendFacts
  <2>3. mustReply' <=> sent[Turn(p)].answered
    BY <1>3, <1>11, <1>12, Zenon
  <2>4. sent' = sent
    BY <1>3
  <2>5. QED
    BY <2>2, <2>3, <2>4, Zenon
<1>15. Writing(p)'
  <2>1. pc' # "writeRead" /\ pc' = "marker"
    BY <1>3
  <2>2. QED
    BY <1>13, <1>14, <2>1, Zenon DEF Writing
<1>16. Agrees(p)'
  BY <1>3, <1>15 DEF Agrees
<1>17. QED
  BY <1>13, <1>16, Zenon DEF Steady

\* What is not refused.
LEMMA NotRefused ==
    ASSUME NEW r, ~Refused(r), r.size \in Int, r.key \in Int
    PROVE  r.size > 2 /\ r.key \in 0..maxRequestApiKey /\ r.key \notin Forbidden
<1>1. ~(r.size <= KeyVersionLen) /\ ~(r.key < minRequestApiKey) /\ ~(r.key > maxRequestApiKey) /\ r.key \notin Forbidden
  BY Zenon DEF Refused
<1>2. PICK k \in Int : k = r.key
  OBVIOUS
<1>3. ~(k < 0) /\ ~(k > maxRequestApiKey) /\ maxRequestApiKey \in Nat
  BY <1>1, <1>2 DEF minRequestApiKey, maxRequestApiKey
<1>4. k \in 0..maxRequestApiKey
  BY <1>3
<1>5. r.size > 2
  BY <1>1 DEF KeyVersionLen
<1>6. QED
  BY <1>1, <1>2, <1>4, <1>5, Zenon

\* A marker is queued for a request that is answered.
LEMMA MarkerKeeps == ASSUME Steady, SendMarker PROVE Steady'
<1>1. PICK p : Reaches(p) /\ Sound(p) /\ Agrees(p)
  BY DEF Steady
<1>2. Types /\ SentOK
  BY DEF Steady
<1>3. /\ pc = "marker" /\ pc' = "write"
      /\ markers' = IF mustReply THEN Append(markers, Marker(request.key, request.version)) ELSE markers
      /\ UNCHANGED <<acks0Disabled, sent, src, dst, request, mustReply, read, left, timeouts>>
  BY DEF SendMarker, streams
<1>4. SentOK' /\ Reaches(p)' /\ Sound(p)'
  BY <1>1, <1>2, <1>3, Quiet
<1>5. Writing(p)
  BY <1>1, <1>3 DEF Agrees
<1>6. Holding(p) /\ Begun(p, 0) /\ left = 0 /\ markers = p.due /\ mustReply = sent[Turn(p)].answered
  BY <1>3, <1>5 DEF Writing
<1>7. Turn(p)' = Turn(p) /\ Cells(p)' = Cells(p) /\ WithOwn(p)' = WithOwn(p)
  BY <1>3 DEF Turn, Cells, WithOwn
<1>8. request.key = Cells(p)[2] /\ request.version = Cells(p)[3]
  BY <1>6 DEF Holding, RequestKeyVersion
<1>9. markers' = WithOwn(p)
  BY <1>3, <1>6, <1>8, Zenon DEF WithOwn
<1>10. Holding(p)' /\ Begun(p, 0)'
  BY <1>3, <1>6, <1>7 DEF Holding, Begun, Refused
<1>11. Types'
  <2>1. Marker(request.key, request.version) \in [key : 0..maxRequestApiKey, version : Nat]
    <3>1. request.size \in Int /\ request.key \in Int
      BY <1>2 DEF Types
    <3>2. request.key \in 0..maxRequestApiKey
      BY <1>6, <3>1, NotRefused, Zenon DEF Holding
    <3>3. Turn(p) <= Len(sent) /\ ~sent[Turn(p)].raw
      BY <1>6 DEF Holding
    <3>4. request.version \in Nat
      BY <1>1, <1>2, <1>8, <3>3, TurnFacts, SendFacts, Zenon DEF Cells
    <3>5. QED
      BY <3>2, <3>4 DEF Marker
  <2>2. markers \in Seq([key : 0..maxRequestApiKey, version : Nat])
    BY <1>2 DEF Types
  <2>3. markers' \in Seq([key : 0..maxRequestApiKey, version : Nat])
    <3>1. CASE mustReply
      <4>1. markers' = Append(markers, Marker(request.key, request.version))
        BY <1>3, <3>1, Zenon
      <4>2. QED
        BY <2>1, <2>2, <4>1
    <3>2. CASE ~mustReply
      BY <1>3, <2>2, <3>2, Zenon
    <3>3. QED
      BY <3>1, <3>2
  <2>4. QED
    BY <1>2, <1>3, <2>3 DEF Types
<1>12. Agrees(p)'
  <2>1. Writing(p)'
    BY <1>3, <1>6, <1>7, <1>9, <1>10 DEF Writing
  <2>2. QED
    BY <1>3, <2>1 DEF Agrees
<1>13. QED
  BY <1>4, <1>11, <1>12, Zenon DEF Steady

\* Its first three cells go to the broker,
LEMMA WriteKeeps == ASSUME Steady, WriteKeyVersion PROVE Steady'
<1>1. PICK p : Reaches(p) /\ Sound(p) /\ Agrees(p)
  BY DEF Steady
<1>2. Types /\ SentOK
  BY DEF Steady
<1>3. /\ pc = "write" /\ pc' = "writeRead"
      /\ dst' = dst \o <<request.size, request.key, request.version>>
      /\ UNCHANGED <<acks0Disabled, sent, src, markers, request, mustReply, read, left, timeouts>>
  BY DEF WriteKeyVersion
<1>4. Writing(p)
  BY <1>1, <1>3 DEF Agrees
<1>5. Holding(p) /\ Begun(p, 0) /\ left = 0 /\ markers = WithOwn(p)
  BY <1>3, <1>4 DEF Writing
<1>6. Turn(p) <= Len(sent) /\ 3 + Len(read) < Len(Cells(p))
  BY <1>5 DEF Holding
<1>7. PICK x : x = <<request.size, request.key, request.version>>
  OBVIOUS
<1>8. request.size = Cells(p)[1] /\ request.key = Cells(p)[2] /\ request.version = Cells(p)[3]
  BY <1>5 DEF Holding, RequestKeyVersion
<1>9. x \in Seq(Int) /\ Len(x) = 3 /\ x[1] = Cells(p)[1] /\ x[2] = Cells(p)[2] /\ x[3] = Cells(p)[3]
  <2>1. request.size \in Int /\ request.key \in Int /\ request.version \in Int
    BY <1>2 DEF Types
  <2>2. QED
    BY <1>7, <1>8, <2>1
<1>10. \A j \in 1..Len(x) : x[j] = Cells(p)[0 + j]
  <2>1. SUFFICES ASSUME NEW j \in 1..3 PROVE x[j] = Cells(p)[j]
    BY <1>9
  <2>2. j = 1 \/ j = 2 \/ j = 3
    OBVIOUS
  <2>3. QED
    BY <1>9, <2>2
<1>11. 0 \in Nat /\ 0 + Len(x) < Len(Cells(p)) /\ 0 + Len(x) = 3
  <2>1. Len(read) \in Nat /\ Len(Cells(p)) \in Nat
    BY <1>1, <1>2, <1>6, TurnFacts DEF Types
  <2>2. QED
    BY <1>6, <1>9, <2>1
<1>12. SentOK' /\ Reaches(p)' /\ Sound(p)' /\ Begun(p, 3)'
  <2>1. dst' = dst \o x
    BY <1>3, <1>7
  <2>2. PICK m \in Nat : m = 0
    OBVIOUS
  <2>3. Begun(p, m) /\ m + Len(x) < Len(Cells(p)) /\ m + Len(x) = 3 /\ \A j \in 1..Len(x) : x[j] = Cells(p)[m + j]
    BY <1>5, <1>10, <1>11, <2>2, Zenon
  <2>4. SentOK' /\ Reaches(p)' /\ Sound(p)' /\ Begun(p, m + Len(x))'
    BY <1>1, <1>2, <1>3, <1>6, <1>9, <2>1, <2>3, PartWritten
  <2>5. QED
    BY <2>3, <2>4, Zenon
<1>13. Turn(p)' = Turn(p) /\ Cells(p)' = Cells(p) /\ WithOwn(p)' = WithOwn(p)
  BY <1>3 DEF Turn, Cells, WithOwn
<1>14. Holding(p)'
  BY <1>3, <1>5, <1>13 DEF Holding, Refused
<1>15. Types'
  <2>1. dst \in Seq(Int) /\ src \in Seq(Int)
    BY <1>2 DEF Types
  <2>2. dst' \in Seq(Int)
    BY <1>3, <1>7, <1>9, <2>1
  <2>3. left' \in 0..Len(src') + Len(dst')
    <3>1. Len(src') \in Nat /\ Len(dst') \in Nat /\ left' = 0
      BY <1>3, <1>5, <2>1, <2>2
    <3>2. QED
      BY <3>1
  <2>4. QED
    BY <1>2, <1>3, <2>2, <2>3 DEF Types
<1>16. Agrees(p)'
  <2>1. Writing(p)'
    BY <1>3, <1>5, <1>12, <1>13, <1>14 DEF Writing
  <2>2. QED
    BY <1>3, <2>1 DEF Agrees
<1>17. QED
  BY <1>12, <1>15, <1>16, Zenon DEF Steady

\* then what the reader took.
LEMMA WriteReadKeeps == ASSUME Steady, WriteRead PROVE Steady'
<1>1. PICK p : Reaches(p) /\ Sound(p) /\ Agrees(p)
  BY DEF Steady
<1>2. Types /\ SentOK
  BY DEF Steady
<1>3. /\ pc = "writeRead" /\ pc' = "copy" /\ dst' = dst \o read /\ left' = CopyLength /\ read' = <<>>
      /\ UNCHANGED <<acks0Disabled, sent, src, markers, request, mustReply, timeouts>>
  BY DEF WriteRead
<1>4. Writing(p)
  BY <1>1, <1>3 DEF Agrees
<1>5. Holding(p) /\ Begun(p, 3) /\ markers = WithOwn(p)
  BY <1>3, <1>4 DEF Writing
<1>6. PICK q : q = Cells(p)
  OBVIOUS
<1>7. /\ Turn(p) <= Len(sent) /\ ~sent[Turn(p)].raw /\ request = RequestKeyVersion(q[1], q[2], q[3])
      /\ ~Refused(request) /\ 3 + Len(read) < Len(q) /\ Ahead(sent, src, Len(p.client), 3 + Len(read))
      /\ \A j \in 1..Len(read) : read[j] = q[3 + j]
  BY <1>5, <1>6, Zenon DEF Holding
<1>8. Len(q) \in Nat /\ q[1] = Len(q) - 1 /\ q \in Seq(Int) /\ sent[Turn(p)] \in Sends
  BY <1>1, <1>2, <1>6, <1>7, TurnFacts, Zenon
<1>9. read \in Seq(Int) /\ Len(read) \in Nat /\ src \in Seq(Int) /\ dst \in Seq(Int)
  BY <1>2 DEF Types
<1>10. request.size = q[1] /\ request.key = q[2] /\ request.version = q[3]
  BY <1>7 DEF RequestKeyVersion
<1>11. PICK n \in Nat : n = 3 + Len(read)
  BY <1>9
<1>12. left' = Len(q) - n /\ left' \in Nat /\ left' # 0 /\ left' < Len(q) /\ Len(q) - left' = n
  <2>1. left' = q[1] - (2 + Len(read))
    BY <1>3, <1>10 DEF CopyLength, KeyVersionLen
  <2>2. left' = (Len(q) - 1) - (2 + Len(read))
    BY <1>8, <2>1, Zenon
  <2>3. PICK l \in Nat : l = Len(q)
    BY <1>8
  <2>4. left' = l - n /\ n < l /\ n >= 3
    BY <1>7, <1>9, <1>11, <2>2, <2>3
  <2>5. left' \in Nat /\ left' # 0 /\ left' < l /\ l - left' = n
    BY <2>4
  <2>6. QED
    BY <2>3, <2>4, <2>5, Zenon
<1>13. SentOK' /\ Reaches(p)' /\ Sound(p)' /\ Begun(p, n)'
  <2>1. 3 \in Nat /\ 3 + Len(read) < Len(Cells(p)) /\ \A j \in 1..Len(read) : read[j] = Cells(p)[3 + j]
    BY <1>6, <1>7, Zenon
  <2>2. PICK m \in Nat : m = 3
    OBVIOUS
  <2>3. PICK x : x = read
    OBVIOUS
  <2>4. Begun(p, m) /\ m + Len(x) < Len(Cells(p)) /\ m + Len(x) = n /\ \A j \in 1..Len(x) : x[j] = Cells(p)[m + j]
    BY <1>5, <1>11, <2>1, <2>2, <2>3, Zenon
  <2>5. x \in Seq(Int) /\ dst' = dst \o x
    BY <1>3, <1>9, <2>3, Zenon
  <2>6. SentOK' /\ Reaches(p)' /\ Sound(p)' /\ Begun(p, m + Len(x))'
    BY <1>1, <1>2, <1>3, <1>7, <2>4, <2>5, PartWritten
  <2>7. QED
    BY <2>4, <2>6, Zenon
<1>14. Turn(p)' = Turn(p) /\ Cells(p)' = q /\ WithOwn(p)' = WithOwn(p) /\ sent' = sent
  BY <1>3, <1>6 DEF Turn, Cells, WithOwn
<1>15. Types'
  <2>1. dst' \in Seq(Int) /\ read' \in Seq(Int)
    BY <1>3, <1>9
  <2>2. left' \in 0..Len(src') + Len(dst')
    <3>1. Len(src) >= Len(q) - n
      <4>1. n < Len(Cells(p)) /\ Ahead(sent, src, Len(p.client), n)
        BY <1>6, <1>7, <1>11, Zenon
      <4>2. QED
        BY <1>1, <1>2, <1>6, <1>7, <4>1, NextCells, Zenon
    <3>2. Len(src) \in Nat /\ Len(dst') \in Nat /\ src' = src
      BY <1>3, <1>9, <2>1
    <3>3. QED
      BY <1>8, <1>12, <3>1, <3>2
  <2>3. QED
    BY <1>2, <1>3, <2>1, <2>2 DEF Types
<1>16. Allowed(q)
  <2>1. request.size \in Int /\ request.key \in Int
    BY <1>2 DEF Types
  <2>2. q[2] \in 0..maxRequestApiKey /\ q[2] \notin Forbidden /\ q[1] > 2
    BY <1>7, <1>10, <2>1, NotRefused, Zenon
  <2>3. minRequestApiKey = 0
    BY DEF minRequestApiKey
  <2>4. Len(q) >= 4
    BY <1>8, <2>2
  <2>5. QED
    BY <2>2, <2>3, <2>4, Zenon DEF Allowed
<1>17. Agrees(p)'
  <2>1. request' = Copied(sent[Turn(p)])'
    BY <1>3, <1>6, <1>7, <1>14, Zenon DEF Copied, Cells
  <2>2. Copying(p)'
    BY <1>3, <1>5, <1>7, <1>11, <1>12, <1>13, <1>14, <1>16, <2>1, Zenon DEF Copying
  <2>3. QED
    BY <1>3, <1>12, <2>2 DEF Agrees
<1>18. QED
  BY <1>13, <1>15, <1>17, Zenon DEF Steady

\* A piece x of k cells goes from the client to the broker, behind the first m of the
\* request.
Moves(x, k, m, p) ==
    /\ Turn(p) <= Len(sent) /\ Ahead(sent, src, Len(p.client), m) /\ Begun(p, m)
    /\ m \in Nat /\ k \in Nat /\ k <= Len(src) /\ m < Len(Cells(p))
    /\ x = SubSeq(src, 1, k) /\ src' = SubSeq(src, k + 1, Len(src)) /\ dst' = dst \o x

\* The piece is part of the request.
LEMMA Moved ==
    ASSUME Types, NEW p, Sound(p), NEW x, NEW k, NEW m, Moves(x, k, m, p), m + k <= Len(Cells(p))
    PROVE  /\ x \in Seq(Int) /\ Len(x) = k /\ \A j \in 1..k : x[j] = Cells(p)[m + j]
           /\ src' \in Seq(Int) /\ dst' \in Seq(Int)
           /\ Len(src') = Len(src) - k /\ Len(dst') = Len(dst) + k
<1>1. /\ Turn(p) <= Len(sent) /\ Ahead(sent, src, Len(p.client), m)
      /\ m \in Nat /\ k \in Nat /\ k <= Len(src) /\ m < Len(Cells(p))
      /\ x = SubSeq(src, 1, k) /\ src' = SubSeq(src, k + 1, Len(src)) /\ dst' = dst \o x
  BY DEF Moves
<1>2. src \in Seq(Int) /\ dst \in Seq(Int)
  BY DEF Types
<1>3. Len(Cells(p)) \in Nat
  BY <1>1, TurnFacts
<1>4. x \in Seq(Int) /\ Len(x) = k /\ \A j \in 1..k : x[j] = src[j]
  BY <1>1, <1>2, TakeCells, Zenon
<1>5. \A j \in 1..Len(Cells(p)) - m : src[j] = Cells(p)[m + j]
  BY <1>1, NextCells, Zenon
<1>6. ASSUME NEW j \in 1..k PROVE x[j] = Cells(p)[m + j]
  <2>1. j \in 1..Len(Cells(p)) - m
    BY <1>1, <1>3
  <2>2. QED
    BY <1>4, <1>5, <2>1, Zenon
<1>7. src' \in Seq(Int) /\ Len(src') = Len(src) - k
  BY <1>1, <1>2, DropCells, Zenon
<1>8. dst' \in Seq(Int) /\ Len(dst') = Len(dst) + k
  <2>1. dst' \in Seq(Int) /\ Len(dst') = Len(dst) + Len(x)
    BY <1>1, <1>2, <1>4, ConcatHolds, Zenon
  <2>2. QED
    BY <1>4, <2>1, Zenon
<1>9. QED
  BY <1>4, <1>6, <1>7, <1>8, Zenon

\* More of the request is to come,
LEMMA MovesOn ==
    ASSUME Types, SentOK, NEW p, Reaches(p), Sound(p), UNCHANGED <<acks0Disabled, sent>>,
           NEW x, NEW k, NEW m, Moves(x, k, m, p), m + k < Len(Cells(p))
    PROVE  /\ SentOK' /\ Reaches(p)' /\ Sound(p)' /\ Begun(p, m + k)'
           /\ Ahead(sent', src', Len(p.client), m + k)
<1>1. /\ Turn(p) <= Len(sent) /\ Ahead(sent, src, Len(p.client), m) /\ Begun(p, m)
      /\ m \in Nat /\ k \in Nat /\ k <= Len(src)
      /\ src' = SubSeq(src, k + 1, Len(src)) /\ dst' = dst \o x
  BY DEF Moves
<1>2. Len(p.client) \in Nat /\ Len(p.client) < Len(sent) /\ Len(Cells(p)) \in Nat
  BY <1>1, TurnFacts
<1>3. m + k <= Len(Cells(p))
  BY <1>1, <1>2
<1>4. x \in Seq(Int) /\ Len(x) = k /\ \A j \in 1..k : x[j] = Cells(p)[m + j]
  BY <1>3, Moved
<1>5. SentOK' /\ Reaches(p)' /\ Sound(p)' /\ Begun(p, m + k)'
  <2>1. m + Len(x) < Len(Cells(p)) /\ \A j \in 1..Len(x) : x[j] = Cells(p)[m + j]
    BY <1>4, Zenon
  <2>2. SentOK' /\ Reaches(p)' /\ Sound(p)' /\ Begun(p, m + Len(x))'
    BY <1>1, <1>4, <2>1, PartWritten
  <2>3. QED
    BY <1>4, <2>2, Zenon
<1>6. Ahead(sent', src', Len(p.client), m + k)
  <2>1. sent \in Seq(Sends) /\ src \in Seq(Int) /\ sent' = sent
    BY DEF Types
  <2>2. QED
    BY <1>1, <1>2, <2>1, AheadTake, Zenon
<1>7. QED
  BY <1>5, <1>6

\* or it is complete.
LEMMA MovesRest ==
    ASSUME Types, SentOK, NEW p, Reaches(p), Sound(p), UNCHANGED <<acks0Disabled, sent>>,
           NEW x, NEW k, NEW m, Moves(x, k, m, p), m + k = Len(Cells(p)),
           Allowed(Cells(p)) \/ sent[Turn(p)].raw,
           markers' = WithOwn(p), read' = <<>>, request' = Copied(sent[Turn(p)])
    PROVE  SentOK' /\ \E r : Reaches(r)' /\ Sound(r)' /\ CopyDone(r)'
<1>1. /\ Turn(p) <= Len(sent) /\ Ahead(sent, src, Len(p.client), m) /\ Begun(p, m)
      /\ m \in Nat /\ k \in Nat /\ k <= Len(src)
      /\ src' = SubSeq(src, k + 1, Len(src)) /\ dst' = dst \o x
  BY DEF Moves
<1>2. Len(p.client) \in Nat /\ Len(p.client) < Len(sent) /\ Len(Cells(p)) \in Nat
  BY <1>1, TurnFacts
<1>3. m + k <= Len(Cells(p))
  BY <1>1, <1>2
<1>4. x \in Seq(Int) /\ Len(x) = k /\ \A j \in 1..k : x[j] = Cells(p)[m + j]
  BY <1>3, Moved, ZenonT(60)
<1>5. SentOK' /\ \E r : /\ Reaches(r)' /\ Sound(r)' /\ Begun(r, 0)'
                        /\ r.client = Append(p.client, Cells(p)) /\ r.due = WithOwn(p)
  <2>1. m + Len(x) = Len(Cells(p)) /\ \A j \in 1..Len(x) : x[j] = Cells(p)[m + j]
    BY <1>4, Zenon
  <2>2. QED
    BY <1>1, <1>4, <2>1, RestWritten
<1>6. PICK r : /\ Reaches(r)' /\ Sound(r)' /\ Begun(r, 0)'
               /\ r.client = Append(p.client, Cells(p)) /\ r.due = WithOwn(p)
  BY <1>5
<1>7. Len(r.client) = Len(p.client) + 1
  <2>1. p.client \in Seq(Seq(Int)) /\ Cells(p) \in Seq(Int)
    BY <1>1, TurnFacts DEF Sound
  <2>2. QED
    BY <1>6, <2>1
<1>8. Ahead(sent', src', Len(r.client), 0)
  <2>1. sent \in Seq(Sends) /\ src \in Seq(Int) /\ sent' = sent
    BY DEF Types
  <2>2. m + k = Len(sent[Len(p.client) + 1].cells)
    BY DEF Cells, Turn
  <2>3. Ahead(sent, src', Len(p.client) + 1, 0)
    BY <1>1, <1>2, <2>1, <2>2, AheadTake, Zenon
  <2>4. QED
    BY <1>7, <2>1, <2>3, Zenon
<1>9. CopyDone(r)'
  <2>1. Len(r.client) >= 1
    BY <1>2, <1>7
  <2>2. request' = Copied(sent[Len(r.client)])'
    BY <1>7 DEF Turn, Copied
  <2>3. QED
    BY <1>6, <1>8, <2>1, <2>2, Zenon DEF CopyDone
<1>10. QED
  BY <1>5, <1>6, <1>9, Zenon

\* myCopyN moves a piece.
LEMMA CopyKeeps == ASSUME Steady, NEW n \in 1..BufSize, Copy(n) PROVE Steady'
<1>1. PICK p : Reaches(p) /\ Sound(p) /\ Agrees(p)
  BY DEF Steady
<1>2. Types /\ SentOK
  BY DEF Steady
<1>3. /\ pc = "copy" /\ n <= left /\ n <= Len(src)
      /\ dst' = dst \o SubSeq(src, 1, n) /\ src' = SubSeq(src, n + 1, Len(src)) /\ left' = left - n
      /\ UNCHANGED <<acks0Disabled, sent, markers, pc, request, mustReply, read, timeouts>>
  BY DEF Copy, Drop
<1>4. /\ n \in Nat /\ n >= 1 /\ left \in Nat /\ left > 0 /\ left <= Len(src) + Len(dst)
      /\ Len(src) \in Nat /\ Len(dst) \in Nat
  <2>1. n \in Nat /\ n >= 1
    BY RequestsAssumption
  <2>2. src \in Seq(Int) /\ dst \in Seq(Int) /\ left \in 0..Len(src) + Len(dst)
    BY <1>2 DEF Types
  <2>3. Len(src) \in Nat /\ Len(dst) \in Nat
    BY <2>2
  <2>4. QED
    BY <1>3, <2>1, <2>2, <2>3
<1>5. Copying(p)
  BY <1>1, <1>3, <1>4 DEF Agrees
<1>6. PICK l \in Nat : l = Len(Cells(p))
  BY <1>1, <1>2, <1>5, TurnFacts DEF Copying
<1>7. PICK m \in Nat : m = l - left
  <2>1. left < l
    BY <1>5, <1>6, Zenon DEF Copying
  <2>2. l - left \in Nat
    BY <1>4, <2>1
  <2>3. QED
    BY <2>2
<1>8. PICK x : x = SubSeq(src, 1, n)
  OBVIOUS
<1>9. m < l /\ m + n <= l /\ l - (left - n) = m + n /\ (m + n = l <=> left - n = 0) /\ left - n < l
  <2>1. left < l
    BY <1>5, <1>6 DEF Copying
  <2>2. QED
    BY <1>3, <1>4, <1>7, <2>1
<1>10. Moves(x, n, m, p)
  <2>1. Turn(p) <= Len(sent) /\ Ahead(sent, src, Len(p.client), m) /\ Begun(p, m)
    BY <1>5, <1>6, <1>7, Zenon DEF Copying
  <2>2. QED
    BY <1>3, <1>4, <1>6, <1>8, <1>9, <2>1, Zenon DEF Moves
<1>11. src' \in Seq(Int) /\ dst' \in Seq(Int) /\ Len(src') = Len(src) - n /\ Len(dst') = Len(dst) + n
  BY <1>1, <1>2, <1>6, <1>9, <1>10, Moved, Zenon
<1>12. Types'
  <2>1. left' \in 0..Len(src') + Len(dst')
    <3>1. ASSUME NEW a \in Nat, NEW b \in Nat, NEW c \in Nat, c <= a + b, n <= c
          PROVE  c - n \in 0..(a - n) + (b + n)
      BY <1>4, <3>1
    <3>2. left - n \in 0..(Len(src) - n) + (Len(dst) + n)
      BY <1>3, <1>4, <3>1, Zenon
    <3>3. QED
      BY <1>3, <1>11, <3>2, Zenon
  <2>2. QED
    BY <1>2, <1>3, <1>11, <2>1 DEF Types
<1>13. CASE m + n < l
  <2>1. /\ SentOK' /\ Reaches(p)' /\ Sound(p)' /\ Begun(p, m + n)'
        /\ Ahead(sent', src', Len(p.client), m + n)
    BY <1>1, <1>2, <1>3, <1>6, <1>10, <1>13, MovesOn
  <2>2. left' # 0 /\ left' < l /\ l - left' = m + n
    <3>1. m + n # l
      BY <1>13
    <3>2. QED
      BY <1>3, <1>9, <3>1, Zenon
  <2>3. /\ Turn(p)' = Turn(p) /\ Cells(p)' = Cells(p) /\ WithOwn(p)' = WithOwn(p)
        /\ Copied(sent[Turn(p)])' = Copied(sent[Turn(p)])
    BY <1>3 DEF Turn, Cells, WithOwn, Copied
  <2>4. Copying(p)'
    BY <1>3, <1>5, <1>6, <2>1, <2>2, <2>3, Zenon DEF Copying
  <2>5. Agrees(p)'
    BY <1>3, <2>2, <2>4 DEF Agrees
  <2>6. QED
    BY <1>12, <2>1, <2>5, Zenon DEF Steady
<1>14. CASE m + n = l
  <2>1. /\ Allowed(Cells(p)) \/ sent[Turn(p)].raw
        /\ markers' = WithOwn(p) /\ read' = <<>> /\ request' = Copied(sent[Turn(p)])
    BY <1>3, <1>5, Zenon DEF Copying
  <2>2. SentOK' /\ \E r : Reaches(r)' /\ Sound(r)' /\ CopyDone(r)'
    BY <1>1, <1>2, <1>3, <1>6, <1>10, <1>14, <2>1, MovesRest
  <2>3. PICK r : Reaches(r)' /\ Sound(r)' /\ CopyDone(r)'
    BY <2>2
  <2>4. left' = 0
    BY <1>3, <1>9, <1>14, Zenon
  <2>5. Agrees(r)'
    BY <1>3, <2>3, <2>4 DEF Agrees
  <2>6. QED
    BY <1>12, <2>2, <2>3, <2>5, Zenon DEF Steady
<1>15. QED
  BY <1>9, <1>13, <1>14

\* myCopyN has returned.
LEMMA EndsKeeps == ASSUME Steady, CopyEnds PROVE Steady'
<1>1. PICK p : Reaches(p) /\ Sound(p) /\ Agrees(p)
  BY DEF Steady
<1>2. Types /\ SentOK
  BY DEF Steady
<1>3. /\ pc = "copy" /\ left <= 0 /\ pc' = (IF left < 0 THEN "closed" ELSE NextHandler(request))
      /\ request' = NoRequest /\ left' = 0
      /\ UNCHANGED <<acks0Disabled, sent, src, dst, markers, mustReply, read, timeouts>>
  BY DEF CopyEnds, streams
<1>4. left = 0
  <2>1. src \in Seq(Int) /\ dst \in Seq(Int) /\ left \in 0..Len(src) + Len(dst)
    BY <1>2 DEF Types
  <2>2. left \in Nat
    BY <2>1
  <2>3. QED
    BY <1>3, <2>2
<1>5. CopyDone(p)
  BY <1>1, <1>3, <1>4 DEF Agrees
<1>6. SentOK' /\ Reaches(p)' /\ Sound(p)'
  BY <1>1, <1>2, <1>3, Quiet
<1>7. pc' = NextHandler(request) /\ (pc' = "raw" \/ pc' = "header")
  BY <1>3, <1>4 DEF NextHandler
<1>8. Types'
  <2>1. request'.size \in Int /\ request'.key \in Int /\ request'.version \in Int
    BY <1>3 DEF NoRequest, RequestKeyVersion
  <2>2. left' \in 0..Len(src') + Len(dst')
    BY <1>2, <1>3, <1>4 DEF Types
  <2>3. pc' \in {"raw", "header"}
    BY <1>7
  <2>4. QED
    BY <1>2, <1>3, <2>1, <2>2, <2>3 DEF Types
<1>9. PICK c : c = Len(p.client)
  OBVIOUS
<1>10. c >= 1 /\ request = Copied(sent[c]) /\ c \in 1..Len(sent)
  <2>1. c \in Nat /\ c <= Len(sent) /\ Len(sent) \in Nat
    BY <1>1, <1>2, <1>9 DEF Sound, Types
  <2>2. c >= 1 /\ request = Copied(sent[c])
    BY <1>5, <1>9 DEF CopyDone
  <2>3. QED
    BY <2>1, <2>2
<1>11. pc' = "raw" <=> sent[c].handshakeV0
  <2>1. sent[c] \in Sends
    BY <1>2, <1>10 DEF Types
  <2>2. sent[c].handshakeV0 <=> ~sent[c].raw /\ sent[c].cells[2] = apiKeySaslHandshake /\ sent[c].cells[3] = 0
    BY <2>1, SendFacts, Zenon
  <2>3. CASE sent[c].raw
    <3>1. request.key = -1
      BY <1>10, <2>3 DEF Copied, NoRequest, RequestKeyVersion
    <3>2. pc' = "header"
      BY <1>7, <3>1 DEF NextHandler, apiKeySaslHandshake
    <3>3. QED
      BY <2>2, <2>3, <3>2
  <2>4. CASE ~sent[c].raw
    <3>1. request.key = sent[c].cells[2] /\ request.version = sent[c].cells[3]
      BY <1>10, <2>4 DEF Copied, RequestKeyVersion
    <3>2. pc' = "raw" <=> request.key = apiKeySaslHandshake /\ request.version = 0
      BY <1>7 DEF NextHandler
    <3>3. QED
      BY <2>2, <2>4, <3>1, <3>2, Zenon
  <2>5. QED
    BY <2>3, <2>4
<1>12. Between(p)'
  <2>1. Begun(p, 0)'
    BY <1>3, <1>5 DEF CopyDone, Begun
  <2>2. TokenTurn(p)' <=> sent[c].handshakeV0
    BY <1>3, <1>9, <1>10, Zenon DEF TokenTurn
  <2>3. Ahead(sent', src', Len(p.client), 0) /\ read' = <<>> /\ markers' = p.due
    BY <1>3, <1>5 DEF CopyDone
  <2>4. pc' # "reauthToken" /\ pc' # "reauthSent" /\ pc' # "reauthMarker"
    BY <1>7
  <2>5. QED
    BY <1>3, <1>11, <2>1, <2>2, <2>3, <2>4, Zenon DEF Between
<1>13. Agrees(p)'
  BY <1>7, <1>12 DEF Agrees
<1>14. QED
  BY <1>6, <1>8, <1>13, Zenon DEF Steady

\* The size of a raw token is sent on.
LEMMA RawKeeps == ASSUME Steady, ReadRawSize PROVE Steady'
<1>1. PICK p : Reaches(p) /\ Sound(p) /\ Agrees(p)
  BY DEF Steady
<1>2. Types /\ SentOK
  BY DEF Steady
<1>3. /\ pc = "raw" /\ src # <<>> /\ src' = SubSeq(src, 1 + 1, Len(src))
      /\ IF src[1] > MaxRequestSize
         THEN pc' = "closed" /\ UNCHANGED <<dst, left>>
         ELSE pc' = "copy" /\ dst' = Append(dst, src[1]) /\ left' = Uint32(src[1])
      /\ UNCHANGED <<acks0Disabled, sent, markers, request, mustReply, read, timeouts>>
  BY DEF ReadRawSize, Drop
<1>4. /\ src \in Seq(Int) /\ dst \in Seq(Int) /\ sent \in Seq(Sends)
      /\ Len(src) \in Nat /\ Len(dst) \in Nat /\ Len(sent) \in Nat
  BY <1>2 DEF Types
<1>5. Len(src) >= 1 /\ src[1] \in Int
  BY <1>3, <1>4
<1>6. src' \in Seq(Int) /\ Len(src') = Len(src) - 1
  <2>1. 1 \in Nat /\ 1 <= Len(src)
    BY <1>4, <1>5
  <2>2. QED
    BY <1>3, <1>4, <2>1, DropCells, Zenon
<1>7. Between(p)
  BY <1>1, <1>3 DEF Agrees
<1>8. /\ Begun(p, 0) /\ Ahead(sent, src, Len(p.client), 0) /\ read = <<>> /\ left = 0 /\ request = NoRequest
      /\ TokenTurn(p) /\ markers = p.due
  BY <1>3, <1>7 DEF Between
<1>9. CASE src[1] > MaxRequestSize
  <2>1. pc' = "closed" /\ UNCHANGED <<dst, left>>
    BY <1>3, <1>9
  <2>2. SentOK' /\ Reaches(p)' /\ Sound(p)'
    BY <1>1, <1>2, <1>3, <2>1, Quiet
  <2>3. left' \in 0..Len(src') + Len(dst')
    BY <1>4, <1>5, <1>6, <1>8, <2>1
  <2>4. Types'
    BY <1>2, <1>3, <1>6, <2>1, <2>3 DEF Types
  <2>5. Agrees(p)'
    BY <2>1 DEF Agrees
  <2>6. QED
    BY <2>2, <2>4, <2>5, Zenon DEF Steady
<1>10. CASE ~(src[1] > MaxRequestSize)
  <2>1. pc' = "copy" /\ dst' = Append(dst, src[1]) /\ left' = Uint32(src[1])
    BY <1>3, <1>10
  <2>2. Len(p.client) \in Nat /\ Len(p.client) <= Len(sent)
    BY <1>1 DEF Sound
  <2>3. Turn(p) <= Len(sent) /\ Len(p.client) < Len(sent)
    <3>1. Len(p.client) # Len(sent)
      <4>1. SUFFICES ASSUME Len(p.client) = Len(sent) PROVE FALSE
        OBVIOUS
      <4>2. src = <<>>
        BY <1>4, <1>8, <4>1, AheadNone, Zenon
      <4>3. QED
        BY <1>3, <4>2
    <3>2. QED
      BY <1>4, <2>2, <3>1 DEF Turn
  <2>4. PICK l \in Nat : l = Len(Cells(p))
    BY <1>1, <1>2, <2>3, TurnFacts
  <2>5. /\ Turn(p) \in 1..Len(sent) /\ sent[Turn(p)] \in Sends
        /\ l >= 1 /\ Cells(p)[1] = l - 1
    BY <1>1, <1>2, <2>3, <2>4, TurnFacts, Zenon
  <2>6. sent[Turn(p)].raw /\ ~sent[Turn(p)].answered
    <3>1. Turn(p) > 1 /\ Turn(p) - 1 = Len(p.client)
      BY <1>8, <2>2 DEF Turn, TokenTurn
    <3>2. sent[Turn(p)].raw
      BY <1>2, <1>8, <2>5, <3>1, Zenon DEF SentOK, TokenTurn
    <3>3. QED
      BY <2>5, <3>2, SendFacts, Zenon
  <2>7. PICK m \in Nat : m = 0
    OBVIOUS
  <2>8. PICK k \in Nat : k = 1
    OBVIOUS
  <2>9. PICK x : x = SubSeq(src, 1, k)
    OBVIOUS
  <2>10. x = <<src[1]>>
    <3>1. x \in Seq(Int) /\ Len(x) = 1 /\ x[1] = src[1]
      BY <1>4, <1>5, <2>8, <2>9
    <3>2. <<src[1]>> \in Seq(Int) /\ Len(<<src[1]>>) = 1 /\ <<src[1]>>[1] = src[1]
      BY <1>5
    <3>3. \A j \in 1..1 : x[j] = <<src[1]>>[j]
      BY <3>1, <3>2
    <3>4. QED
      BY <3>1, <3>2, <3>3, SeqEqual
  <2>11. dst' = dst \o x
    <3>1. Append(dst, src[1]) = dst \o <<src[1]>>
      BY <1>4, <1>5, AppendIsConcat, Zenon
    <3>2. QED
      BY <2>1, <2>10, <3>1, Zenon
  <2>12. m < l /\ k <= Len(src) /\ m + k = 1 /\ m + k <= l
    BY <1>5, <2>5, <2>7, <2>8
  <2>13. Moves(x, k, m, p)
    <3>1. Ahead(sent, src, Len(p.client), m) /\ Begun(p, m) /\ src' = SubSeq(src, k + 1, Len(src))
      BY <1>3, <1>8, <2>7, <2>8, Zenon
    <3>2. QED
      BY <2>3, <2>4, <2>9, <2>11, <2>12, <3>1, Zenon DEF Moves
  <2>14. dst' \in Seq(Int) /\ Len(dst') = Len(dst) + k
    BY <1>1, <1>2, <2>4, <2>12, <2>13, Moved
  <2>15. left' = l - 1
    <3>1. \A j \in 1..l - m : src[j] = Cells(p)[m + j]
      BY <1>1, <1>2, <1>8, <2>3, <2>4, <2>7, <2>12, NextCells, Zenon
    <3>2. 1 \in 1..l - m /\ m + 1 = 1
      BY <2>5, <2>7
    <3>3. src[1] = Cells(p)[1]
      <4>1. src[1] = Cells(p)[m + 1]
        BY <3>1, <3>2
      <4>2. QED
        BY <3>2, <4>1, Zenon
    <3>4. src[1] = l - 1 /\ 2 * src[1] < SizeSpace
      BY <2>5, <3>3, SendFacts, Zenon DEF Cells
    <3>5. Uint32(src[1]) = src[1]
      <4>1. SizeSpace \in Nat /\ SizeSpace > 0 /\ src[1] \in Nat /\ src[1] \in 0..SizeSpace - 1
        BY <2>5, <3>4, RequestsAssumption
      <4>2. src[1] = SizeSpace * 0 + src[1]
        BY <4>1
      <4>3. QED
        BY <4>1, <4>2, DivUnique DEF Uint32
    <3>6. QED
      BY <2>1, <3>4, <3>5, Zenon
  <2>16. Types'
    <3>1. left' \in 0..Len(src') + Len(dst')
      <4>1. Len(src) >= l - m
        BY <1>1, <1>2, <1>8, <2>3, <2>4, <2>7, <2>12, NextCells, Zenon
      <4>2. QED
        BY <1>4, <1>6, <2>5, <2>7, <2>8, <2>14, <2>15, <4>1
    <3>2. QED
      BY <1>2, <1>3, <1>6, <2>1, <2>14, <3>1 DEF Types
  <2>17. WithOwn(p) = p.due /\ Copied(sent[Turn(p)]) = NoRequest
    BY <2>6 DEF WithOwn, Copied
  <2>18. CASE l = 1
    <3>1. /\ Allowed(Cells(p)) \/ sent[Turn(p)].raw
          /\ markers' = WithOwn(p) /\ read' = <<>> /\ request' = Copied(sent[Turn(p)])
      BY <1>3, <1>8, <2>6, <2>17, Zenon
    <3>2. m + k = Len(Cells(p))
      BY <2>4, <2>12, <2>18, Zenon
    <3>3. SentOK' /\ \E r : Reaches(r)' /\ Sound(r)' /\ CopyDone(r)'
      BY <1>1, <1>2, <1>3, <2>13, <3>1, <3>2, MovesRest
    <3>4. PICK r : Reaches(r)' /\ Sound(r)' /\ CopyDone(r)'
      BY <3>3
    <3>5. left' = 0
      BY <2>15, <2>18
    <3>6. Agrees(r)'
      BY <2>1, <3>4, <3>5 DEF Agrees
    <3>7. QED
      BY <2>16, <3>3, <3>4, <3>6, Zenon DEF Steady
  <2>19. CASE l > 1
    <3>1. m + k < Len(Cells(p))
      BY <2>4, <2>12, <2>19
    <3>2. /\ SentOK' /\ Reaches(p)' /\ Sound(p)' /\ Begun(p, m + k)'
          /\ Ahead(sent', src', Len(p.client), m + k)
      BY <1>1, <1>2, <1>3, <2>13, <3>1, MovesOn
    <3>3. left' # 0 /\ left' < l /\ l - left' = 1
      BY <2>15, <2>19
    <3>4. /\ Turn(p)' = Turn(p) /\ Cells(p)' = Cells(p) /\ WithOwn(p)' = WithOwn(p)
          /\ Copied(sent[Turn(p)])' = Copied(sent[Turn(p)])
      BY <1>3 DEF Turn, Cells, WithOwn, Copied
    <3>5. Len(Cells(p)') - left' = m + k /\ left' < Len(Cells(p)')
      BY <2>4, <2>12, <3>3, <3>4, Zenon
    <3>6. Copying(p)'
      BY <1>3, <1>8, <2>3, <2>6, <2>17, <3>2, <3>4, <3>5, Zenon DEF Copying
    <3>7. Agrees(p)'
      BY <2>1, <3>3, <3>6 DEF Agrees
    <3>8. QED
      BY <2>16, <3>2, <3>7, Zenon DEF Steady
  <2>20. QED
    BY <2>5, <2>18, <2>19
<1>11. QED
  BY <1>9, <1>10

\* A deadline passes where no request has begun.
LEMMA TimeoutKeeps == ASSUME Steady, ReadTimesOut(0) PROVE Steady'
<1>1. PICK p : Reaches(p) /\ Sound(p) /\ Agrees(p)
  BY DEF Steady
<1>2. Types /\ SentOK
  BY DEF Steady
<1>3. /\ pc = "header" /\ timeouts < MaxTimeouts /\ timeouts' = timeouts + 1 /\ pc' \in {"header", "reauth"}
      /\ UNCHANGED <<acks0Disabled, sent, src, dst, markers, request, mustReply, read, left>>
  <2>1. src \in Seq(Int)
    BY <1>2 DEF Types
  <2>2. src' = SubSeq(src, 1, Len(src))
    BY DEF ReadTimesOut, Drop
  <2>3. src' = src
    BY <2>1, <2>2
  <2>4. QED
    BY <2>3 DEF ReadTimesOut
<1>4. SentOK' /\ Reaches(p)' /\ Sound(p)'
  BY <1>1, <1>2, <1>3, Quiet
<1>5. Types'
  <2>1. timeouts' \in 0..MaxTimeouts
    BY <1>2, <1>3, RequestsAssumption DEF Types
  <2>2. QED
    BY <1>2, <1>3, <2>1 DEF Types
<1>6. Between(p)
  BY <1>1, <1>3 DEF Agrees
<1>7. Between(p)'
  <2>1. TokenTurn(p)' = TokenTurn(p) /\ Begun(p, 0)' = Begun(p, 0)
    BY <1>3 DEF TokenTurn, Begun, Turn, Cells
  <2>2. QED
    BY <1>3, <1>6, <2>1 DEF Between
<1>8. Agrees(p)'
  BY <1>3, <1>7 DEF Agrees
<1>9. QED
  BY <1>4, <1>5, <1>8, Zenon DEF Steady

\* The two requests of a re-authentication stand between two of the client's.
LEMMA HandshakeKeeps == ASSUME Steady, WriteReauthHandshake PROVE Steady'
<1>1. PICK p : Reaches(p) /\ Sound(p) /\ Agrees(p)
  BY DEF Steady
<1>2. Types /\ SentOK
  BY DEF Steady
<1>3. /\ pc = "reauth" /\ dst' = dst \o buildReauthHandshakeRequest /\ pc' = "reauthToken"
      /\ UNCHANGED <<acks0Disabled, sent, src, markers, request, mustReply, read, left, timeouts>>
  BY DEF WriteReauthHandshake
<1>4. Between(p)
  BY <1>1, <1>3 DEF Agrees
<1>5. /\ Begun(p, 0) /\ Ahead(sent, src, Len(p.client), 0) /\ read = <<>> /\ left = 0 /\ request = NoRequest
      /\ ~TokenTurn(p) /\ markers = p.due
  BY <1>3, <1>4 DEF Between
<1>6. PICK f : f = buildReauthHandshakeRequest
  OBVIOUS
<1>7. ProxyRequest(f, apiKeySaslHandshake) /\ apiKeySaslHandshake \in 0..maxRequestApiKey /\ f \in Seq(Int)
  <2>1. apiKeySaslHandshake \in 0..maxRequestApiKey
    BY DEF apiKeySaslHandshake, maxRequestApiKey
  <2>2. QED
    BY <1>6, <2>1, ReauthCells, Zenon DEF ProxyRequest
<1>8. SentOK' /\ \E r : /\ Reaches(r)' /\ Sound(r)' /\ Begun(r, 0)'
                        /\ r.client = p.client /\ r.due = Append(p.due, handshakeMarker)
  BY <1>1, <1>2, <1>3, <1>5, <1>6, <1>7, ProxyWrites DEF handshakeMarker
<1>9. PICK r : /\ Reaches(r)' /\ Sound(r)' /\ Begun(r, 0)'
               /\ r.client = p.client /\ r.due = Append(p.due, handshakeMarker)
  BY <1>8
<1>10. Types'
  <2>1. dst \in Seq(Int) /\ src \in Seq(Int)
    BY <1>2 DEF Types
  <2>2. dst' \in Seq(Int)
    BY <1>3, <1>6, <1>7, <2>1
  <2>3. left' \in 0..Len(src') + Len(dst')
    <3>1. Len(src') \in Nat /\ Len(dst') \in Nat /\ left' = 0
      BY <1>3, <1>5, <2>1, <2>2
    <3>2. QED
      BY <3>1
  <2>4. QED
    BY <1>2, <1>3, <2>2, <2>3 DEF Types
<1>11. Between(r)'
  <2>1. ~TokenTurn(r)' /\ pc' = "reauthToken" /\ pc' # "raw"
    BY <1>3, <1>5, <1>9 DEF TokenTurn
  <2>2. r.due = Append(markers', handshakeMarker)
    BY <1>3, <1>5, <1>9, Zenon
  <2>3. QED
    BY <1>3, <1>5, <1>9, <2>1, <2>2, Zenon DEF Between
<1>12. Agrees(r)'
  BY <1>3, <1>11 DEF Agrees
<1>13. QED
  BY <1>8, <1>9, <1>10, <1>12, Zenon DEF Steady

LEMMA ReauthKeeps == ASSUME Steady, WriteReauth PROVE Steady'
<1>1. PICK p : Reaches(p) /\ Sound(p) /\ Agrees(p)
  BY DEF Steady
<1>2. Types /\ SentOK
  BY DEF Steady
<1>3. /\ pc = "reauthToken" /\ dst' = dst \o buildReauthRequest /\ pc' = "reauthSent"
      /\ UNCHANGED <<acks0Disabled, sent, src, markers, request, mustReply, read, left, timeouts>>
  BY DEF WriteReauth
<1>4. Between(p)
  BY <1>1, <1>3 DEF Agrees
<1>5. /\ Begun(p, 0) /\ Ahead(sent, src, Len(p.client), 0) /\ read = <<>> /\ left = 0 /\ request = NoRequest
      /\ ~TokenTurn(p) /\ p.due = Append(markers, handshakeMarker)
  BY <1>3, <1>4 DEF Between
<1>6. PICK f : f = buildReauthRequest
  OBVIOUS
<1>7. ProxyRequest(f, apiKeySaslAuthenticate) /\ apiKeySaslAuthenticate \in 0..maxRequestApiKey /\ f \in Seq(Int)
  <2>1. apiKeySaslAuthenticate \in 0..maxRequestApiKey
    BY DEF apiKeySaslAuthenticate, maxRequestApiKey
  <2>2. QED
    BY <1>6, <2>1, ReauthCells, Zenon DEF ProxyRequest
<1>8. SentOK' /\ \E r : /\ Reaches(r)' /\ Sound(r)' /\ Begun(r, 0)'
                        /\ r.client = p.client /\ r.due = Append(p.due, authenticateMarker)
  BY <1>1, <1>2, <1>3, <1>5, <1>6, <1>7, ProxyWrites DEF authenticateMarker
<1>9. PICK r : /\ Reaches(r)' /\ Sound(r)' /\ Begun(r, 0)'
               /\ r.client = p.client /\ r.due = Append(p.due, authenticateMarker)
  BY <1>8
<1>10. r.due = Append(Append(markers', handshakeMarker), authenticateMarker)
  BY <1>3, <1>5, <1>9, Zenon
<1>11. Types'
  <2>1. dst \in Seq(Int) /\ src \in Seq(Int)
    BY <1>2 DEF Types
  <2>2. dst' \in Seq(Int)
    BY <1>3, <1>6, <1>7, <2>1
  <2>3. left' \in 0..Len(src') + Len(dst')
    <3>1. Len(src') \in Nat /\ Len(dst') \in Nat /\ left' = 0
      BY <1>3, <1>5, <2>1, <2>2
    <3>2. QED
      BY <3>1
  <2>4. QED
    BY <1>2, <1>3, <2>2, <2>3 DEF Types
<1>12. Between(r)'
  <2>1. ~TokenTurn(r)' /\ pc' = "reauthSent" /\ pc' # "raw"
    BY <1>3, <1>5, <1>9 DEF TokenTurn
  <2>2. QED
    BY <1>3, <1>5, <1>9, <1>10, <2>1, Zenon DEF Between
<1>13. Agrees(r)'
  BY <1>3, <1>12 DEF Agrees
<1>14. QED
  BY <1>8, <1>9, <1>11, <1>13, Zenon DEF Steady

\* Their two markers follow.
LEMMA EnqueueKeeps == ASSUME Steady, EnqueueHandshakeMarker \/ EnqueueReauthMarker PROVE Steady'
<1>1. PICK p : Reaches(p) /\ Sound(p) /\ Agrees(p)
  BY DEF Steady
<1>2. Types /\ SentOK
  BY DEF Steady
<1>3. UNCHANGED <<acks0Disabled, sent, src, dst, request, mustReply, read, left, timeouts>>
  BY DEF EnqueueHandshakeMarker, EnqueueReauthMarker, streams
<1>4. /\ pc \in {"reauthSent", "reauthMarker"}
      /\ pc = "reauthSent" => pc' = "reauthMarker" /\ markers' = Append(markers, handshakeMarker)
      /\ pc = "reauthMarker" => pc' = "header" /\ markers' = Append(markers, authenticateMarker)
  BY DEF EnqueueHandshakeMarker, EnqueueReauthMarker
<1>5. SentOK' /\ Reaches(p)' /\ Sound(p)'
  BY <1>1, <1>2, <1>3, Quiet
<1>6. Types'
  <2>1. /\ handshakeMarker \in [key : 0..maxRequestApiKey, version : Nat]
        /\ authenticateMarker \in [key : 0..maxRequestApiKey, version : Nat]
    BY DEF handshakeMarker, authenticateMarker, Marker, apiKeySaslHandshake, apiKeySaslAuthenticate, maxRequestApiKey
  <2>2. markers' \in Seq([key : 0..maxRequestApiKey, version : Nat])
    <3>1. markers \in Seq([key : 0..maxRequestApiKey, version : Nat])
      BY <1>2 DEF Types
    <3>2. /\ Append(markers, handshakeMarker) \in Seq([key : 0..maxRequestApiKey, version : Nat])
          /\ Append(markers, authenticateMarker) \in Seq([key : 0..maxRequestApiKey, version : Nat])
      BY <2>1, <3>1, AppendOne, Zenon
    <3>3. QED
      BY <1>4, <3>2
  <2>3. QED
    BY <1>2, <1>3, <1>4, <2>2 DEF Types
<1>7. Between(p)
  BY <1>1, <1>4 DEF Agrees
<1>8. Between(p)'
  <2>1. TokenTurn(p)' = TokenTurn(p) /\ Begun(p, 0)' = Begun(p, 0)
    BY <1>3 DEF TokenTurn, Begun, Turn, Cells
  <2>2. CASE pc = "reauthSent"
    BY <1>3, <1>4, <1>7, <2>1, <2>2 DEF Between
  <2>3. CASE pc = "reauthMarker"
    BY <1>3, <1>4, <1>7, <2>1, <2>3 DEF Between
  <2>4. QED
    BY <1>4, <2>2, <2>3
<1>9. Agrees(p)'
  BY <1>4, <1>8 DEF Agrees
<1>10. QED
  BY <1>5, <1>6, <1>9, Zenon DEF Steady

\* A step of the loop that cuts no header keeps it in step.
LEMMA SteadyStep ==
    ASSUME Steady, [Next]_vars, intact' PROVE Steady'
<1>2. CASE ReadKeyVersion
  BY <1>2, HeaderKeeps
<1>3. CASE ReadHeaderPart
  BY <1>3, ClientIDKeeps
<1>4. CASE ReadTxnID
  BY <1>4, TxnIDKeeps
<1>5. CASE ReadAcks
  BY <1>5, AcksKeeps
<1>6. CASE SendMarker
  BY <1>6, MarkerKeeps
<1>7. CASE WriteKeyVersion
  BY <1>7, WriteKeeps
<1>8. CASE WriteRead
  BY <1>8, WriteReadKeeps
<1>9. CASE \E n \in 1..BufSize : Copy(n)
  BY <1>9, CopyKeeps, Zenon
<1>10. CASE CopyEnds
  BY <1>10, EndsKeeps
<1>11. CASE ReadRawSize
  BY <1>11, RawKeeps
<1>12. CASE WriteReauthHandshake
  BY <1>12, HandshakeKeeps
<1>13. CASE WriteReauth
  BY <1>13, ReauthKeeps
<1>14. CASE EnqueueHandshakeMarker \/ EnqueueReauthMarker
  BY <1>14, EnqueueKeeps
<1>15. CASE \E n \in 0..KeyVersionLen : ReadTimesOut(n)
  <2>1. PICK n \in 0..KeyVersionLen : ReadTimesOut(n)
    BY <1>15
  <2>2. n = 0
    BY <2>1 DEF ReadTimesOut
  <2>3. QED
    BY <2>1, <2>2, TimeoutKeeps
<1>16. CASE ConnectionFails
  BY <1>16, FailsKeeps
<1>17. CASE \E r \in Sends : ClientSends(r)
  BY <1>17, SendKeeps, Zenon
<1>18. CASE UNCHANGED vars
  BY <1>18, StutterKeeps
<1>19. CASE Finished
  BY <1>19, StutterKeeps DEF Finished
<1>20. QED
  BY <1>2, <1>3, <1>4, <1>5, <1>6, <1>7, <1>8, <1>9, <1>10, <1>11, <1>12, <1>13, <1>14,
     <1>15, <1>16, <1>17, <1>18, <1>19, Zenon DEF Next, LoopStep

\* The initial state.
LEMMA InitKeeps == Init => IInv
<1>1. SUFFICES ASSUME Init PROVE IInv
  OBVIOUS
<1>2. request.size \in Int /\ request.key \in Int /\ request.version \in Int
  BY <1>1 DEF Init, NoRequest, RequestKeyVersion
<1>3. MaxRequests \in Nat /\ MaxTimeouts \in Nat
  BY RequestsAssumption
<1>4. TypeOK
  BY <1>1, <1>2, <1>3 DEF Init, TypeOK
<1>5. InRange
  BY <1>1 DEF Init, InRange
<1>6. QED
  BY <1>1, <1>4, <1>5, InitHolds DEF IInv

\* Types and ranges do not need the loop in step: they survive a cut header.
LEMMA TypeStep == ASSUME TypeOK, InRange, [Next]_vars PROVE TypeOK' /\ InRange'
<1> USE DEF streams
<1>1. ASSUME NEW n \in Nat PROVE SubSeq(src, n + 1, Len(src)) \in Seq(Int)
  BY <1>1 DEF TypeOK
<1>2. ASSUME NEW n \in Nat, n <= Len(src) PROVE SubSeq(src, 1, n) \in Seq(Int)
  BY <1>2 DEF TypeOK
<1>3. CASE ReadKeyVersion
  <2>1. src[1] \in Int /\ src[2] \in Int /\ src[3] \in Int
    BY <1>3 DEF TypeOK, ReadKeyVersion, KeyVersionLen
  <2>2. request'.size = src[1] /\ request'.key = src[2] /\ request'.version = src[3]
    BY <1>3 DEF ReadKeyVersion, RequestKeyVersion
  <2>3. src' \in Seq(Int)
    BY <1>1, <1>3 DEF ReadKeyVersion, Drop, KeyVersionLen
  <2>4. pc' = "closed" \/ (~Refused(request') /\ pc' \in {"clientID", "marker"})
    BY <1>3 DEF ReadKeyVersion
  <2>5. InRange'
    <3>1. request'.key \in Int
      BY <2>1, <2>2, Zenon
    <3>2. PICK k \in Int : k = request'.key
      BY <3>1
    <3>3. pc' = "closed" \/ ~(k < 0 \/ k > maxRequestApiKey)
      BY <2>4, <3>2, Zenon DEF Refused, minRequestApiKey
    <3>4. ~(k < 0 \/ k > maxRequestApiKey) => k \in 0..maxRequestApiKey
      <4>1. maxRequestApiKey \in Int
        BY DEF maxRequestApiKey
      <4>2. QED
        BY <4>1, <3>2
    <3>5. "closed" \notin {"clientID", "txnID", "acks", "marker"}
      OBVIOUS
    <3>6. QED
      BY <3>2, <3>3, <3>4, <3>5, Zenon DEF InRange
  <2>6. TypeOK'
    BY <1>3, <2>1, <2>2, <2>3, <2>4 DEF TypeOK, ReadKeyVersion
  <2>7. QED
    BY <2>5, <2>6
<1>4. ASSUME NEW n \in Int, n >= 0, Take(n) PROVE src' \in Seq(Int) /\ read' \in Seq(Int)
  <2>1. src' \in Seq(Int)
    <3>1. n \in Nat /\ src' = SubSeq(src, n + 1, Len(src))
      BY <1>4 DEF Take, Drop
    <3>2. QED
      BY <1>1, <3>1, Zenon
  <2>2. read \in Seq(Int) /\ SubSeq(src, 1, n) \in Seq(Int)
    BY <1>2, <1>4 DEF Take, TypeOK
  <2>3. QED
    BY <1>4, <2>1, <2>2 DEF Take
<1>5. ASSUME NEW b \in {0, 1}, NEW next \in {"txnID", "acks"}, TakeString(b, next), pc \in {"clientID", "txnID"}
      PROVE  TypeOK' /\ InRange'
  <2>1. PICK k : k = ToInt16(src[b + 1], src[b + 2])
    OBVIOUS
  <2>2. k \in Int
    <3>1. src[b + 1] \in Int /\ src[b + 2] \in Int
      BY <1>5 DEF TakeString, TypeOK
    <3>2. Radix \in Int
      BY RequestsAssumption
    <3>3. QED
      BY <2>1, <3>1, <3>2 DEF ToInt16
  <2>3. \/ pc' = "closed" /\ src' = src /\ read' = read
        \/ k >= -1 /\ Take(b + 2 + (IF k = -1 THEN 0 ELSE k)) /\ pc' = next
    BY <1>5, <2>1, <2>2 DEF TakeString
  <2>4. src' \in Seq(Int) /\ read' \in Seq(Int)
    <3>1. CASE src' = src /\ read' = read
      BY <3>1 DEF TypeOK
    <3>2. CASE k >= -1 /\ Take(b + 2 + (IF k = -1 THEN 0 ELSE k))
      <4>1. b + 2 + (IF k = -1 THEN 0 ELSE k) \in Int /\ b + 2 + (IF k = -1 THEN 0 ELSE k) >= 0
        BY <2>2, <3>2
      <4>2. QED
        BY <1>4, <3>2, <4>1
    <3>3. QED
      BY <2>3, <3>1, <3>2
  <2>5. UNCHANGED <<acks0Disabled, sent, dst, markers, request, mustReply, left, timeouts, intact>>
    BY <1>5 DEF TakeString
  <2>6. TypeOK'
    BY <2>3, <2>4, <2>5 DEF TypeOK
  <2>7. QED
    BY <1>5, <2>5, <2>6 DEF InRange
<1>6. CASE ReadHeaderPart
  BY <1>5, <1>6 DEF ReadHeaderPart
<1>7. CASE ReadTxnID
  BY <1>5, <1>7 DEF ReadTxnID
<1>8. CASE ReadAcks
  <2>1. src' \in Seq(Int) /\ read' \in Seq(Int)
    BY <1>4, <1>8 DEF ReadAcks
  <2>2. mustReply' \in BOOLEAN
    BY <1>8 DEF ReadAcks
  <2>3. QED
    BY <1>8, <2>1, <2>2 DEF ReadAcks, TypeOK, InRange
<1>9. CASE SendMarker
  <2>1. Marker(request.key, request.version) \in [key : 0..maxRequestApiKey, version : Int]
    BY <1>9 DEF SendMarker, InRange, TypeOK, Marker
  <2>2. markers' \in Seq([key : 0..maxRequestApiKey, version : Int])
    <3>1. markers \in Seq([key : 0..maxRequestApiKey, version : Int])
      BY DEF TypeOK
    <3>2. Append(markers, Marker(request.key, request.version)) \in Seq([key : 0..maxRequestApiKey, version : Int])
      BY <2>1, <3>1, AppendOne, Zenon
    <3>3. QED
      BY <1>9, <3>1, <3>2, Zenon DEF SendMarker
  <2>3. QED
    BY <1>9, <2>2 DEF SendMarker, TypeOK, InRange
<1>10. CASE WriteKeyVersion
  <2>1. dst' \in Seq(Int)
    BY <1>10 DEF WriteKeyVersion, TypeOK
  <2>2. QED
    BY <1>10, <2>1 DEF WriteKeyVersion, TypeOK, InRange
<1>11. CASE WriteRead
  <2>1. dst' \in Seq(Int)
    BY <1>11 DEF WriteRead, TypeOK
  <2>2. left' \in Int /\ read' \in Seq(Int)
    BY <1>11 DEF WriteRead, CopyLength, KeyVersionLen, TypeOK
  <2>3. QED
    BY <1>11, <2>1, <2>2 DEF WriteRead, TypeOK, InRange
<1>12. CASE \E n \in 1..BufSize : Copy(n)
  <2>1. PICK n \in 1..BufSize : Copy(n)
    BY <1>12
  <2>2. n \in Nat /\ n <= Len(src)
    BY <2>1, RequestsAssumption DEF Copy
  <2>3. src' \in Seq(Int) /\ SubSeq(src, 1, n) \in Seq(Int)
    BY <1>1, <1>2, <2>1, <2>2 DEF Copy, Drop
  <2>4. dst' \in Seq(Int) /\ left' \in Int
    BY <2>1, <2>2, <2>3 DEF Copy, TypeOK
  <2>5. QED
    BY <2>1, <2>3, <2>4 DEF Copy, TypeOK, InRange
<1>13. CASE CopyEnds
  <2>1. request'.size \in Int /\ request'.key \in Int /\ request'.version \in Int
    BY <1>13 DEF CopyEnds, NoRequest, RequestKeyVersion
  <2>2. QED
    BY <1>13, <2>1 DEF CopyEnds, NextHandler, TypeOK, InRange
<1>14. CASE ReadRawSize
  <2>1. src[1] \in Int /\ Uint32(src[1]) \in Int
    BY <1>14, RequestsAssumption DEF ReadRawSize, TypeOK, Uint32
  <2>2. src' \in Seq(Int)
    BY <1>1, <1>14 DEF ReadRawSize, Drop
  <2>3. dst' \in Seq(Int) /\ left' \in Int
    <3>1. dst \in Seq(Int) /\ left \in Int
      BY DEF TypeOK
    <3>2. Append(dst, src[1]) \in Seq(Int)
      BY <2>1, <3>1, AppendOne, Zenon
    <3>3. QED
      BY <1>14, <2>1, <3>1, <3>2, Zenon DEF ReadRawSize
  <2>4. QED
    BY <1>14, <2>2, <2>3 DEF ReadRawSize, TypeOK, InRange
<1>15. CASE \E n \in 0..KeyVersionLen : ReadTimesOut(n)
  <2>1. PICK n \in 0..KeyVersionLen : ReadTimesOut(n)
    BY <1>15
  <2>2. src' \in Seq(Int)
    <3>1. n \in Nat /\ src' = SubSeq(src, n + 1, Len(src))
      BY <2>1 DEF ReadTimesOut, Drop, KeyVersionLen
    <3>2. QED
      BY <1>1, <3>1, Zenon
  <2>3. timeouts' \in 0..MaxTimeouts /\ intact' \in BOOLEAN
    BY <2>1, RequestsAssumption DEF ReadTimesOut, TypeOK
  <2>4. QED
    BY <2>1, <2>2, <2>3 DEF ReadTimesOut, TypeOK, InRange
<1>16. buildReauthHandshakeRequest \in Seq(Int) /\ buildReauthRequest \in Seq(Int)
  BY ReauthCells DEF ProxyRequest
<1>17. CASE WriteReauthHandshake
  <2>1. dst' \in Seq(Int)
    BY <1>16, <1>17 DEF WriteReauthHandshake, TypeOK
  <2>2. QED
    BY <1>17, <2>1 DEF WriteReauthHandshake, TypeOK, InRange
<1>18. CASE WriteReauth
  <2>1. dst' \in Seq(Int)
    BY <1>16, <1>18 DEF WriteReauth, TypeOK
  <2>2. QED
    BY <1>18, <2>1 DEF WriteReauth, TypeOK, InRange
<1>19. CASE EnqueueHandshakeMarker \/ EnqueueReauthMarker
  <2>1. /\ handshakeMarker \in [key : 0..maxRequestApiKey, version : Int]
        /\ authenticateMarker \in [key : 0..maxRequestApiKey, version : Int]
    BY DEF handshakeMarker, authenticateMarker, Marker, apiKeySaslHandshake, apiKeySaslAuthenticate, maxRequestApiKey
  <2>2. markers' \in Seq([key : 0..maxRequestApiKey, version : Int])
    <3>1. markers \in Seq([key : 0..maxRequestApiKey, version : Int])
      BY DEF TypeOK
    <3>2. QED
      BY <1>19, <2>1, <3>1, AppendOne, Zenon DEF EnqueueHandshakeMarker, EnqueueReauthMarker
  <2>3. QED
    BY <1>19, <2>2 DEF EnqueueHandshakeMarker, EnqueueReauthMarker, TypeOK, InRange
<1>20. CASE ConnectionFails
  BY <1>20 DEF ConnectionFails, TypeOK, InRange
<1>21. CASE \E r \in Sends : ClientSends(r)
  <2>1. PICK r \in Sends : ClientSends(r)
    BY <1>21
  <2>2. r.cells \in Seq(Int)
    BY SendFacts
  <2>3. src' \in Seq(Int)
    BY <2>1, <2>2 DEF ClientSends, TypeOK
  <2>4. sent' \in Seq(Sends) /\ Len(sent') <= MaxRequests
    BY <2>1, RequestsAssumption DEF ClientSends, TypeOK
  <2>5. QED
    BY <2>1, <2>3, <2>4 DEF ClientSends, TypeOK, InRange
<1>22. CASE UNCHANGED vars
  BY <1>22 DEF vars, TypeOK, InRange
<1>23. CASE Finished
  BY <1>22, <1>23 DEF Finished
<1>24. QED
  BY <1>3, <1>6, <1>7, <1>8, <1>9, <1>10, <1>11, <1>12, <1>13, <1>14, <1>15, <1>17, <1>18, <1>19,
     <1>20, <1>21, <1>22, <1>23, Zenon DEF Next, LoopStep

\* A header that was cut stays cut.
LEMMA CutStays == ASSUME [Next]_vars, intact' PROVE intact
BY DEF Next, LoopStep, vars, ReadKeyVersion, ReadHeaderPart, ReadTxnID, TakeString, ReadAcks, SendMarker,
       WriteKeyVersion, WriteRead, Copy, CopyEnds, ReadRawSize, ReadTimesOut, WriteReauthHandshake,
       WriteReauth, EnqueueHandshakeMarker, EnqueueReauthMarker, ConnectionFails, Finished, ClientSends

\* Every step keeps the invariant.
LEMMA Inductive == IInv /\ [Next]_vars => IInv'
<1>1. SUFFICES ASSUME IInv, [Next]_vars PROVE IInv'
  OBVIOUS
<1>2. TypeOK' /\ InRange'
  BY <1>1, TypeStep DEF IInv
<1>3. ASSUME intact' PROVE Steady'
  <2>1. intact
    BY <1>1, <1>3, CutStays
  <2>2. QED
    BY <1>1, <1>3, <2>1, SteadyStep DEF IInv
<1>4. QED
  BY <1>2, <1>3 DEF IInv

------------------------------------------------------------------------------
(* The theorems.                                                            *)

\* The request loop stays in step with what the broker has read, on whatever boundary
\* the reads, the copies, the client and a re-auth fall, until a read deadline cuts a
\* header (handleRequest drops what it has read of it).
THEOREM InStep == Spec => []IInv
<1>1. QED
  BY InitKeeps, Inductive, PTL DEF Spec

\* Every variable keeps its type, also behind a header that was cut: the loop queues no
\* marker with an api key out of range.
THEOREM TypeCorrect == Spec => []TypeOK
<1>1. IInv => TypeOK
  BY DEF IInv
<1>2. QED
  BY <1>1, InStep, PTL

\* Until a read deadline cuts a header, the broker finds the client's requests in its
\* stream, whole, in order and unchanged, and the re-auth requests between them
\* (handleRequest, copySaslAuthRequest, runReauth), for every set of requests, buffer
\* size and radix.
THEOREM BrokerFindsRequests == Spec => []BrokerStream
<1>1. IInv => BrokerStream
  BY BrokerFollows DEF IInv, BrokerStream
<1>2. QED
  BY <1>1, InStep, PTL

\* Until a read deadline cuts a header, a marker is queued for each request that is
\* answered and for no other: mustReply is right about every version of Produce and ids
\* of every length, also where the layout it reads by is not the request's.  A client's
\* marker is there before the broker has the request; runReauth's two follow theirs
\* before the loop reads on.
THEOREM MarkersAreRight == Spec => []MarkersRight
<1>1. IInv => MarkersRight
  BY MarkersFollow DEF IInv, MarkersRight
<1>2. QED
  BY <1>1, InStep, PTL
=============================================================================
