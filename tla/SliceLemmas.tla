----------------------------- MODULE SliceLemmas -----------------------------
(***************************************************************************)
(* Slices of a sequence, possibly empty: what the proofs about buffers     *)
(* need, because a buffer is always a slice of what was sent; and the two  *)
(* facts about sets of numbers by which a recursive function is reasoned   *)
(* about.                                                                  *)
(***************************************************************************)
EXTENDS SequenceTheorems, WellFoundedInduction, TLAPS

\* A slice of a sequence is a sequence of the expected length, and its k-th
\* element is the one at the expected place.
LEMMA Slice ==
  ASSUME NEW S, NEW s \in Seq(S),
         NEW m \in 1..(Len(s) + 1), NEW n \in (m - 1)..Len(s)
  PROVE  /\ SubSeq(s, m, n) \in Seq(S)
         /\ Len(SubSeq(s, m, n)) = n - m + 1
         /\ \A k \in 1..(n - m + 1) : SubSeq(s, m, n)[k] = s[m + k - 1]
<1>1. Len(s) \in Nat /\ \A i \in 1..Len(s) : s[i] \in S
  BY LenProperties, ElementOfSeq
<1>2. m \in Int /\ n \in Int /\ \A i \in m..n : s[i] \in S
  BY <1>1
<1> QED
  BY ONLY <1>1, <1>2, SubSeqProperties, m \in 1..(Len(s) + 1), n \in (m - 1)..Len(s)

\* A slice of a slice is a slice.
LEMMA SliceOfSlice ==
  ASSUME NEW S, NEW s \in Seq(S),
         NEW a \in 1..(Len(s) + 1), NEW b \in (a - 1)..Len(s),
         NEW m \in 1..(b - a + 2), NEW n \in (m - 1)..(b - a + 1)
  PROVE  SubSeq(SubSeq(s, a, b), m, n) = SubSeq(s, a + m - 1, a + n - 1)
<1> DEFINE t == SubSeq(s, a, b)
           l == SubSeq(t, m, n)
           r == SubSeq(s, a + m - 1, a + n - 1)
<1>0. Len(s) \in Nat
  BY LenProperties
<1>1. /\ t \in Seq(S) /\ Len(t) = b - a + 1
      /\ \A k \in 1..(b - a + 1) : t[k] = s[a + k - 1]
  BY Slice
<1>2. /\ l \in Seq(S) /\ Len(l) = n - m + 1
      /\ \A k \in 1..(n - m + 1) : l[k] = t[m + k - 1]
  <2>1. m \in 1..(Len(t) + 1) /\ n \in (m - 1)..Len(t)
    BY <1>0, <1>1
  <2> QED
    BY <1>1, <2>1, Slice
<1>3. /\ r \in Seq(S) /\ Len(r) = n - m + 1
      /\ \A k \in 1..(n - m + 1) : r[k] = s[a + m - 1 + k - 1]
  <2>1. /\ a + m - 1 \in 1..(Len(s) + 1)
        /\ a + n - 1 \in (a + m - 1 - 1)..Len(s)
        /\ (a + n - 1) - (a + m - 1) + 1 = n - m + 1
    BY <1>0
  <2> HIDE DEF t, l
  <2> QED
    BY <2>1, Slice
<1>4. ASSUME NEW k \in 1..Len(l) PROVE l[k] = r[k]
  <2>1. m + k - 1 \in 1..(b - a + 1) /\ k \in 1..(n - m + 1)
    BY <1>0, <1>2
  <2>2. l[k] = t[m + k - 1] /\ t[m + k - 1] = s[a + (m + k - 1) - 1]
    BY <1>1, <1>2, <2>1
  <2>3. r[k] = s[a + m - 1 + k - 1]
    BY <1>3, <2>1
  <2>4. a + (m + k - 1) - 1 = a + m - 1 + k - 1
    BY <1>0, <2>1
  <2> QED
    BY <2>2, <2>3, <2>4
<1> HIDE DEF t, l, r
<1>5. l = r
  BY <1>2, <1>3, <1>4, SeqEqual
<1> QED
  BY <1>5 DEF l, r, t

\* The same facts for slices given by the positions p, q between which they
\* lie: SubSeq(s, p + 1, q) is what is left of s between p and q.
LEMMA Cut ==
  ASSUME NEW S, NEW s \in Seq(S), NEW p \in Nat, NEW q \in Nat,
         p <= q, q <= Len(s)
  PROVE  /\ SubSeq(s, p + 1, q) \in Seq(S)
         /\ Len(SubSeq(s, p + 1, q)) = q - p
         /\ \A k \in 1..(q - p) : SubSeq(s, p + 1, q)[k] = s[p + k]
<1> DEFINE m == p + 1
<1>1. Len(s) \in Nat
  BY LenProperties
<1>2. /\ m \in 1..(Len(s) + 1) /\ q \in (m - 1)..Len(s)
      /\ q - m + 1 = q - p /\ \A k \in 1..(q - p) : m + k - 1 = p + k
  BY <1>1
<1> HIDE DEF m
<1>3. /\ SubSeq(s, m, q) \in Seq(S)
      /\ Len(SubSeq(s, m, q)) = q - m + 1
      /\ \A k \in 1..(q - m + 1) : SubSeq(s, m, q)[k] = s[m + k - 1]
  BY <1>2, Slice
<1>4. /\ Len(SubSeq(s, m, q)) = q - p
      /\ \A k \in 1..(q - p) : SubSeq(s, m, q)[k] = s[p + k]
  BY <1>2, <1>3
<1> QED
  BY <1>3, <1>4 DEF m

LEMMA Join ==
  ASSUME NEW S, NEW s \in Seq(S), NEW p \in Nat, NEW q \in Nat, NEW r \in Nat,
         p <= q, q <= r, r <= Len(s)
  PROVE  SubSeq(s, p + 1, q) \o SubSeq(s, q + 1, r) = SubSeq(s, p + 1, r)
<1> DEFINE m == p + 1
<1>1. Len(s) \in Nat
  BY LenProperties
<1>2. m \in 1..(Len(s) + 1) /\ q \in (m - 1)..Len(s) /\ r \in q..Len(s)
  BY <1>1
<1> HIDE DEF m
<1>3. SubSeq(s, m, q) \o SubSeq(s, q + 1, r) = SubSeq(s, m, r)
  BY <1>2, ConcatAdjacentSubSeq
<1> QED
  BY <1>3 DEF m

LEMMA CutOfCut ==
  ASSUME NEW S, NEW s \in Seq(S), NEW p \in Nat, NEW q \in Nat,
         p <= q, q <= Len(s),
         NEW m \in Nat, NEW n \in Nat, m <= n, n <= q - p
  PROVE  SubSeq(SubSeq(s, p + 1, q), m + 1, n) = SubSeq(s, p + m + 1, p + n)
<1> DEFINE a == p + 1
           c == m + 1
<1>1. Len(s) \in Nat
  BY LenProperties
<1>2. /\ a \in 1..(Len(s) + 1) /\ q \in (a - 1)..Len(s)
      /\ c \in 1..(q - a + 2) /\ n \in (c - 1)..(q - a + 1)
      /\ a + c - 1 = p + m + 1 /\ a + n - 1 = p + n
  BY <1>1
<1> HIDE DEF a, c
<1>3. SubSeq(SubSeq(s, a, q), c, n) = SubSeq(s, a + c - 1, a + n - 1)
  BY <1>2, SliceOfSlice
<1>4. SubSeq(SubSeq(s, a, q), c, n) = SubSeq(s, p + m + 1, p + n)
  BY <1>2, <1>3
<1> QED
  BY <1>4 DEF a, c

LEMMA PrefixOfCut ==
  ASSUME NEW S, NEW s \in Seq(S), NEW p \in Nat, NEW q \in Nat,
         p <= q, q <= Len(s), NEW n \in Nat, n <= q - p
  PROVE  SubSeq(SubSeq(s, p + 1, q), 1, n) = SubSeq(s, p + 1, p + n)
<1> DEFINE t == SubSeq(s, p + 1, q)
<1>1. 0 \in Nat /\ 0 <= n /\ 0 + 1 = 1 /\ p + 0 + 1 = p + 1
  OBVIOUS
<1>2. SubSeq(t, 0 + 1, n) = SubSeq(s, p + 0 + 1, p + n)
  BY ONLY <1>1, CutOfCut, s \in Seq(S), p \in Nat, q \in Nat, p <= q, q <= Len(s),
          n \in Nat, n <= q - p
<1> HIDE DEF t
<1>3. SubSeq(t, 1, n) = SubSeq(s, p + 1, p + n)
  BY <1>1, <1>2
<1> QED
  BY <1>3 DEF t

\* a and b are adjacent slices of s.
Adjacent(s, o, p, q, a, b) ==
  /\ o <= p /\ p <= q /\ q <= Len(s)
  /\ a = SubSeq(s, o + 1, p) /\ b = SubSeq(s, p + 1, q)

\* They stay adjacent when n units move from the front of the second to the end
\* of the first.
LEMMA MoveCut ==
  ASSUME NEW S, NEW s \in Seq(S), NEW o \in Nat, NEW p \in Nat, NEW q \in Nat,
         NEW a, NEW b, Adjacent(s, o, p, q, a, b),
         NEW n \in Nat, n <= Len(b)
  PROVE  /\ p + n \in Nat
         /\ Adjacent(s, o, p + n, q, a \o SubSeq(b, 1, n), SubSeq(b, n + 1, Len(b)))
         /\ Len(a \o SubSeq(b, 1, n)) = (p + n) - o
<1> DEFINE m == p + n
<1>0. /\ o <= p /\ p <= q /\ q <= Len(s)
      /\ a = SubSeq(s, o + 1, p) /\ b = SubSeq(s, p + 1, q)
  BY DEF Adjacent
<1>1. Len(s) \in Nat /\ Len(b) = q - p
  BY <1>0, Cut, LenProperties
<1>2. /\ n \in Nat /\ n <= q - p /\ p <= m /\ m <= q /\ m <= Len(s) /\ m \in Nat /\ o <= m
      /\ p + (q - p) = q /\ q - p \in Nat /\ p <= Len(s)
  BY <1>0, <1>1
<1>3. SubSeq(SubSeq(s, p + 1, q), 1, n) = SubSeq(s, p + 1, m)
  BY <1>0, <1>2, PrefixOfCut
<1>4. SubSeq(SubSeq(s, p + 1, q), n + 1, q - p) = SubSeq(s, m + 1, p + (q - p))
  BY ONLY <1>0, <1>2, CutOfCut, s \in Seq(S), p \in Nat, q \in Nat
<1> HIDE DEF m
<1>5. SubSeq(s, o + 1, p) \o SubSeq(s, p + 1, m) = SubSeq(s, o + 1, m)
  BY <1>0, <1>2, Join
<1>6. Len(SubSeq(s, o + 1, m)) = m - o
  BY <1>2, Cut
<1>7. a \o SubSeq(b, 1, n) = SubSeq(s, o + 1, m)
  BY <1>0, <1>3, <1>5
<1>8. SubSeq(b, n + 1, Len(b)) = SubSeq(s, m + 1, q)
  BY <1>0, <1>1, <1>2, <1>4
<1>9. /\ m \in Nat
      /\ Adjacent(s, o, m, q, a \o SubSeq(b, 1, n), SubSeq(b, n + 1, Len(b)))
      /\ Len(a \o SubSeq(b, 1, n)) = m - o
  BY <1>0, <1>2, <1>6, <1>7, <1>8 DEF Adjacent
<1> QED
  BY <1>9 DEF m

\* A cut of length zero is empty.
LEMMA EmptyCut == ASSUME NEW s, NEW p \in Nat PROVE SubSeq(s, p + 1, p) = <<>>
  BY SubSeqEmpty

\* What is at the front of a sequence.
LEMMA FrontCut ==
  ASSUME NEW S, NEW s \in Seq(S), NEW n \in Nat, n <= Len(s)
  PROVE  /\ SubSeq(s, 1, n) \in Seq(S) /\ Len(SubSeq(s, 1, n)) = n
         /\ \A k \in 1..n : SubSeq(s, 1, n)[k] = s[k]
<1>1. Len(s) \in Nat /\ 0 \in Nat /\ 0 + 1 = 1 /\ 0 <= n /\ n - 0 = n
      /\ \A k \in 1..n : 0 + k = k
  BY LenProperties
<1>2. /\ SubSeq(s, 0 + 1, n) \in Seq(S) /\ Len(SubSeq(s, 0 + 1, n)) = n - 0
      /\ \A k \in 1..(n - 0) : SubSeq(s, 0 + 1, n)[k] = s[0 + k]
  BY <1>1, Cut
<1> QED
  BY <1>1, <1>2

\* What is taken off the front of the second of two adjacent slices goes to
\* the end of the first.
LEMMA MoveHead ==
  ASSUME NEW S, NEW s \in Seq(S), NEW p \in Nat, NEW q \in Nat, NEW r \in Nat,
         p <= q, q < r, r <= Len(s)
  PROVE  /\ Append(SubSeq(s, p + 1, q), Head(SubSeq(s, q + 1, r))) = SubSeq(s, p + 1, q + 1)
         /\ Tail(SubSeq(s, q + 1, r)) = SubSeq(s, (q + 1) + 1, r)
<1> DEFINE m == q + 1
           a == SubSeq(s, p + 1, q)
<1>1. Len(s) \in Nat /\ m \in 1..Len(s) /\ r \in m..Len(s) /\ m \in Nat /\ q <= m /\ q <= Len(s)
  BY LenProperties
<1>2. a \in Seq(S)
  BY <1>1, Cut
<1>3. s[m] \in S
  BY <1>1, ElementOfSeq
<1> HIDE DEF m
<1>4. Head(SubSeq(s, m, r)) = s[m] /\ Tail(SubSeq(s, m, r)) = SubSeq(s, m + 1, r)
  BY ONLY <1>1, HeadTailOfSubSeq, s \in Seq(S)
<1>5. SubSeq(s, m, m) = <<s[m]>>
  <2>1. SubSeq(s, m + 1, m) = <<>>
    BY <1>1, SubSeqEmpty
  <2>2. m \in m..Len(s)
    BY <1>1
  <2>3. SubSeq(s, m, m) = <<s[m]>> \o SubSeq(s, m + 1, m)
    BY ONLY <1>1, <2>2, SubSeqRecursiveFirst, s \in Seq(S)
  <2>4. <<s[m]>> \in Seq(S)
    BY <1>3
  <2> QED
    BY <2>1, <2>3, <2>4, ConcatEmptySeq
<1>6. a \o SubSeq(s, m, m) = SubSeq(s, p + 1, m)
  BY <1>1, Join DEF m
<1>7. Append(a, s[m]) = SubSeq(s, p + 1, m)
  <2> HIDE DEF a
  <2> QED
    BY <1>2, <1>3, <1>5, <1>6, AppendIsConcat
<1> QED
  BY <1>4, <1>7 DEF m

\* The front of a sequence without its first element.
LEMMA WithoutFirst ==
  ASSUME NEW S, NEW s \in Seq(S), NEW n \in 1..Len(s)
  PROVE  /\ SubSeq(s, 1, n)[1] = s[1]
         /\ SubSeq(SubSeq(s, 1, n), 2, n) = SubSeq(s, 2, n)
         /\ Len(SubSeq(s, 2, n)) = n - 1
<1>1. Len(s) \in Nat
  BY LenProperties
<1>2. \A k \in 1..(n - 1 + 1) : SubSeq(s, 1, n)[k] = s[1 + k - 1]
  <2>1. 1 \in 1..(Len(s) + 1) /\ n \in (1 - 1)..Len(s)
    BY <1>1
  <2> QED
    BY ONLY <2>1, Slice, s \in Seq(S)
<1>3. SubSeq(s, 1, n)[1] = s[1]
  <2>1. 1 \in 1..(n - 1 + 1) /\ 1 + 1 - 1 = 1
    BY <1>1
  <2> QED
    BY <1>2, <2>1
<1>4. SubSeq(SubSeq(s, 1, n), 2, n) = SubSeq(s, 1 + 2 - 1, 1 + n - 1)
  <2>1. /\ 1 \in 1..(Len(s) + 1) /\ n \in (1 - 1)..Len(s)
        /\ 2 \in 1..(n - 1 + 2) /\ n \in (2 - 1)..(n - 1 + 1)
    BY <1>1
  <2> QED
    BY ONLY <2>1, SliceOfSlice, s \in Seq(S)
<1>5. 1 + 2 - 1 = 2 /\ 1 + n - 1 = n
  BY <1>1
<1>6. Len(SubSeq(s, 2, n)) = n - 2 + 1
  <2>1. 2 \in 1..(Len(s) + 1) /\ n \in (2 - 1)..Len(s)
    BY <1>1
  <2> QED
    BY ONLY <2>1, Slice, s \in Seq(S)
<1> QED
  BY <1>1, <1>3, <1>4, <1>5, <1>6

\* The lengths of two adjacent slices, and where they begin.
LEMMA AdjacentLengths ==
  ASSUME NEW S, NEW s \in Seq(S), NEW t \in Nat, NEW q \in Nat, NEW g \in Nat,
         NEW a, NEW b, Adjacent(s, t, q, g, a, b)
  PROVE  /\ a \in Seq(S) /\ b \in Seq(S)
         /\ Len(a) = q - t /\ Len(b) = g - q
         /\ t <= q /\ q <= g /\ g <= Len(s)
         /\ t + Len(a) = q /\ (g - Len(b)) - Len(a) = t
<1>1. /\ t <= q /\ q <= g /\ g <= Len(s)
      /\ a = SubSeq(s, t + 1, q) /\ b = SubSeq(s, q + 1, g)
  BY DEF Adjacent
<1>2. Len(s) \in Nat /\ q <= Len(s)
  BY <1>1, LenProperties
<1>3. a \in Seq(S) /\ Len(a) = q - t
  BY <1>1, <1>2, Cut
<1>4. b \in Seq(S) /\ Len(b) = g - q
  BY <1>1, <1>2, Cut
<1> QED
  BY <1>1, <1>3, <1>4

\* What arrives at the end of the second of two adjacent slices.
LEMMA GrowCut ==
  ASSUME NEW S, NEW s \in Seq(S), NEW t \in Nat, NEW q \in Nat, NEW g \in Nat,
         NEW a, NEW b, Adjacent(s, t, q, g, a, b),
         NEW n \in Nat, g + n <= Len(s)
  PROVE  Adjacent(s, t, q, g + n, a, b \o SubSeq(s, g + 1, g + n))
<1> DEFINE r == g + n
<1>1. /\ t <= q /\ q <= g /\ g <= Len(s)
      /\ a = SubSeq(s, t + 1, q) /\ b = SubSeq(s, q + 1, g)
  BY DEF Adjacent
<1>2. Len(s) \in Nat /\ r \in Nat /\ g <= r /\ r <= Len(s) /\ q <= r
  BY <1>1, LenProperties
<1> HIDE DEF r
<1>3. SubSeq(s, q + 1, g) \o SubSeq(s, g + 1, r) = SubSeq(s, q + 1, r)
  BY <1>1, <1>2, Join
<1>4. Adjacent(s, t, q, r, a, b \o SubSeq(s, g + 1, r))
  BY <1>1, <1>2, <1>3 DEF Adjacent
<1> QED
  BY <1>4 DEF r

(***************************************************************************)
(* Sets of numbers.                                                        *)
(***************************************************************************)
\* A set of numbers that is not empty has a least one.
LEMMA LeastNumber ==
  ASSUME NEW T, T \subseteq Nat, T # {}
  PROVE  \E x \in T : \A y \in T : x <= y
<1>1. \E x \in T : \A y \in T : ~ (<<y, x>> \in OpToRel(<, Nat))
  BY WFMin, NatLessThanWellFounded
<1>2. ASSUME NEW x \in T, NEW y \in T, ~ (<<y, x>> \in OpToRel(<, Nat))
      PROVE  x <= y
  <2>1. x \in Nat /\ y \in Nat /\ <<y, x>> \in Nat \X Nat
    OBVIOUS
  <2>2. ~ (y < x)
    BY <2>1, <1>2 DEF OpToRel
  <2> QED
    BY <2>1, <2>2
<1> QED
  BY <1>1, <1>2

\* A set of numbers with 0 and with the successor of each of its members has
\* them all.
LEMMA SetInduction ==
  ASSUME NEW T, T \subseteq Nat, 0 \in T, \A n \in T : n + 1 \in T
  PROVE  T = Nat
<1>1. SUFFICES ASSUME T # Nat PROVE FALSE
  OBVIOUS
<1> DEFINE U == Nat \ T
<1>2. PICK x \in U : \A y \in U : x <= y
  BY <1>1, LeastNumber
<1>3. x # 0 /\ x \in Nat
  OBVIOUS
<1>4. x - 1 \in Nat /\ ~ (x <= x - 1) /\ (x - 1) + 1 = x
  BY <1>3
<1>5. x - 1 \in T
  BY <1>2, <1>4
<1> QED
  BY <1>4, <1>5

\* What FlattenSeq computes, sequence by sequence.
Flattening(s, n, f) ==
  f = [i \in 1..n |-> IF i = 1 THEN s[i] ELSE f[i - 1] \o s[i]]

\* There is such a function, for any number of sequences.
LEMMA FlatteningExists ==
  ASSUME NEW s, NEW n \in Nat
  PROVE  \E f : Flattening(s, n, f)
<1> DEFINE T == {k \in Nat : \E f : Flattening(s, k, f)}
<1>1. 0 \in T
  <2>1. Flattening(s, 0, [i \in 1..0 |-> <<>>])
    BY DEF Flattening
  <2> QED
    BY <2>1
<1>2. ASSUME NEW k \in T PROVE k + 1 \in T
  <2>1. PICK f : Flattening(s, k, f)
    OBVIOUS
  <2> DEFINE g == [i \in 1..(k + 1) |->
                     IF i \in 1..k THEN f[i] ELSE IF i = 1 THEN s[i] ELSE f[k] \o s[i]]
  <2>2. ASSUME NEW i \in 1..(k + 1)
        PROVE  g[i] = IF i = 1 THEN s[i] ELSE g[i - 1] \o s[i]
    <3>1. CASE i = 1 /\ i \in 1..k
      BY <2>1, <3>1 DEF Flattening
    <3>2. CASE i = 1 /\ i \notin 1..k
      BY <3>2
    <3>3. CASE i # 1 /\ i \in 1..k
      <4>1. i - 1 \in 1..k /\ i - 1 \in 1..(k + 1)
        BY <3>3
      <4>2. g[i] = f[i] /\ g[i - 1] = f[i - 1]
        BY <3>3, <4>1
      <4>3. f[i] = f[i - 1] \o s[i]
        BY <2>1, <3>3 DEF Flattening
      <4> QED
        BY <3>3, <4>2, <4>3
    <3>4. CASE i # 1 /\ i \notin 1..k
      <4>1. i - 1 = k /\ k \in 1..k /\ k \in 1..(k + 1)
        BY <3>4
      <4>2. g[i] = f[k] \o s[i] /\ g[i - 1] = f[k]
        BY <3>4, <4>1
      <4> QED
        BY <3>4, <4>2
    <3> QED
      BY <3>1, <3>2, <3>3, <3>4
  <2>3. Flattening(s, k + 1, g)
    BY <2>2 DEF Flattening
  <2> QED
    BY <2>3
<1>3. T = Nat
  <2> HIDE DEF T
  <2>1. T \subseteq Nat
    BY DEF T
  <2> QED
    BY <1>1, <1>2, <2>1, SetInduction
<1> QED
  BY <1>3

\* What stands somewhere in a sequence is cut out there.
LEMMA PieceOf ==
  ASSUME NEW S, NEW s \in Seq(S), NEW a \in Seq(S), NEW p \in Nat, NEW q \in Nat,
         q = p + Len(a), q <= Len(s), \A i \in 1..Len(a) : s[p + i] = a[i]
  PROVE  SubSeq(s, p + 1, q) = a
<1>1. PICK n \in Nat : n = Len(a)
  BY LenProperties
<1>2. PICK t : t = SubSeq(s, p + 1, q)
  OBVIOUS
<1>3. /\ p <= q /\ q - p = n
  BY <1>1
<1>4. t \in Seq(S) /\ Len(t) = n /\ \A i \in 1..n : t[i] = s[p + i]
  BY <1>2, <1>3, Cut
<1>5. Len(t) = Len(a) /\ \A i \in 1..Len(t) : t[i] = a[i]
  BY <1>1, <1>4
<1> QED
  BY ONLY <1>2, <1>4, <1>5, SeqEqual, a \in Seq(S)

\* A sequence that consists of two: the front of it, long enough to hold the
\* first, starts with it, and what follows is all of the second only if the
\* front is the whole.
LEMMA TwoPieces ==
  ASSUME NEW S, NEW a \in Seq(S), NEW b \in Seq(S), NEW n \in Nat,
         n <= Len(a \o b), Len(a) <= n
  PROVE  LET c == SubSeq(a \o b, 1, n)
         IN  /\ \A i \in 1..n : c[i] = (a \o b)[i]
             /\ SubSeq(c, 1, Len(a)) = a
             /\ Len(SubSeq(c, Len(a) + 1, n)) = n - Len(a)
             /\ n = Len(a \o b) => SubSeq(c, Len(a) + 1, n) = b
<1>0. PICK c : c = SubSeq(a \o b, 1, n)
  OBVIOUS
<1>1. PICK k \in Nat : k = Len(a)
  BY LenProperties
<1>2. PICK m \in Nat : m = Len(b)
  BY LenProperties
<1>3. PICK w : w = a \o b
  OBVIOUS
<1>4. /\ w \in Seq(S) /\ Len(w) = k + m
      /\ \A i \in 1..(k + m) : w[i] = IF i <= k THEN a[i] ELSE b[i - k]
  BY <1>1, <1>2, <1>3, ConcatProperties
<1>5. c \in Seq(S) /\ Len(c) = n /\ \A i \in 1..n : c[i] = w[i]
  BY <1>0, <1>3, <1>4, FrontCut
<1>6. SubSeq(c, 1, k) = a
  <2>1. \A i \in 1..Len(a) : c[0 + i] = a[i]
    BY <1>1, <1>3, <1>4, <1>5
  <2>2. 0 \in Nat /\ k = 0 + Len(a) /\ k <= Len(c) /\ 0 + 1 = 1
    BY <1>1, <1>5
  <2>3. SubSeq(c, 0 + 1, k) = a
    BY ONLY <1>5, <2>1, <2>2, PieceOf, k \in Nat, a \in Seq(S)
  <2> QED
    BY <2>2, <2>3
<1>7. Len(SubSeq(c, k + 1, n)) = n - k
  BY <1>1, <1>5, Cut
<1>8. ASSUME n = k + m PROVE SubSeq(c, k + 1, n) = b
  <2>1. \A i \in 1..Len(b) : c[k + i] = b[i]
    <3> SUFFICES ASSUME NEW i \in 1..m PROVE c[k + i] = b[i]
      BY <1>2
    <3>1. k + i \in 1..(k + m) /\ ~ (k + i <= k) /\ (k + i) - k = i
      OBVIOUS
    <3> QED
      BY <1>4, <1>5, <1>8, <3>1
  <2>2. n = k + Len(b) /\ n <= Len(c)
    BY <1>2, <1>5, <1>8
  <2>3. SubSeq(c, k + 1, n) = b
    BY ONLY <1>5, <2>1, <2>2, PieceOf, k \in Nat, n \in Nat, b \in Seq(S)
  <2> QED
    BY <2>3
<1> QED
  BY <1>0, <1>1, <1>2, <1>3, <1>4, <1>5, <1>6, <1>7, <1>8
===============================================================================
