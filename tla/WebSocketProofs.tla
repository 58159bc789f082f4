--------------------------- MODULE WebSocketProofs ----------------------------
(***************************************************************************)
(* Proofs about WebSocketConnection, for every stream of frames, every     *)
(* buffer size and either role: the reads into its two buffers, the order  *)
(* of its input, the frames of its output, and the steps of the channel it *)
(* implements.                                                             *)
(*                                                                         *)
(* The wire is the response to the handshake, if there is one, and then    *)
(* the frames.  Three positions divide what the peer has sent of it: what  *)
(* is in front of Start is decoded, from there up to p it is in read_buf_, *)
(* up to q in raw_buf_, and up to sent in the socket (Placed).  That this  *)
(* stays so rests on the order of the operations (InLine): of the reads    *)
(* that read_frame() starts, the one into read_buf_ is in front of the one *)
(* into raw_buf_, where they wait for the socket and where their handlers  *)
(* wait for the event loop, so that what is read into raw_buf_ is always   *)
(* what follows.                                                           *)
(***************************************************************************)
EXTENDS WebSocket, SliceLemmas, FiniteSetTheorems

(***************************************************************************)
(* Flattening.                                                             *)
(***************************************************************************)
\* FlattenSeq is one of them.
LEMMA FlattenIs ==
  ASSUME NEW s, NEW n \in Nat, n = Len(s), n # 0
  PROVE  \E f : Flattening(s, n, f) /\ FlattenSeq(s) = f[n]
<1> DEFINE g == CHOOSE f : Flattening(s, n, f)
<1>1. Flattening(s, n, g)
  BY FlatteningExists
<1>2. FlattenSeq(s) = g[n]
  BY DEF FlattenSeq, Flattening
<1> QED
  BY <1>1, <1>2

\* Sequences with the same beginning are flattened alike there.
LEMMA FlattenAlike ==
  ASSUME NEW s, NEW t, NEW m \in Nat, NEW n \in Nat, m <= n,
         \A i \in 1..m : t[i] = s[i],
         NEW f, NEW g, Flattening(s, m, f), Flattening(t, n, g)
  PROVE  \A i \in 1..m : g[i] = f[i]
<1> DEFINE T == {k \in Nat : k + 1 <= m => g[k + 1] = f[k + 1]}
<1>1. 0 \in T
  BY DEF Flattening
<1>2. ASSUME NEW k \in T PROVE k + 1 \in T
  <2>1. SUFFICES ASSUME k + 2 <= m PROVE g[k + 2] = f[k + 2]
    OBVIOUS
  <2>2. k + 1 <= m
    BY <2>1
  <2>3. g[k + 1] = f[k + 1]
    BY <1>2, <2>2
  <2>4. PICK i \in 1..m : i = k + 2
    BY <2>1
  <2>5. i \in 1..n /\ i # 1 /\ i - 1 = k + 1
    BY <2>4
  <2>6. f[i] = f[i - 1] \o s[i]
    BY ONLY <2>5, i \in 1..m, Flattening(s, m, f), m \in Nat DEF Flattening
  <2>7. g[i] = g[i - 1] \o t[i]
    BY ONLY <2>5, i \in 1..n, Flattening(t, n, g), n \in Nat DEF Flattening
  <2> QED
    BY <2>3, <2>4, <2>5, <2>6, <2>7
<1>3. T = Nat
  <2> HIDE DEF T
  <2>1. T \subseteq Nat
    BY DEF T
  <2> QED
    BY <1>1, <1>2, <2>1, SetInduction
<1>4. ASSUME NEW i \in 1..m PROVE g[i] = f[i]
  <2>1. \A k \in Nat : k + 1 <= m => g[k + 1] = f[k + 1]
    BY <1>3
  <2>2. i - 1 \in Nat /\ (i - 1) + 1 = i /\ i <= m
    OBVIOUS
  <2> QED
    BY <2>1, <2>2
<1> QED
  BY <1>4

\* The result is a sequence of what the sequences have.
LEMMA FlattenType ==
  ASSUME NEW S, NEW s \in Seq(Seq(S))
  PROVE  FlattenSeq(s) \in Seq(S)
<1>1. PICK n \in Nat : n = Len(s)
  BY LenProperties
<1>2. CASE n = 0
  <2>1. s = <<>> /\ FlattenSeq(s) = s
    BY <1>1, <1>2, EmptySeq DEF FlattenSeq
  <2> QED
    BY <2>1, EmptySeq
<1>3. CASE n # 0
  <2>1. PICK f : Flattening(s, n, f) /\ FlattenSeq(s) = f[n]
    BY <1>1, <1>3, FlattenIs
  <2> DEFINE T == {k \in Nat : k + 1 <= n => f[k + 1] \in Seq(S)}
  <2>2. \A i \in 1..n : s[i] \in Seq(S)
    BY <1>1, ElementOfSeq
  <2>3. 0 \in T
    BY <2>1, <2>2 DEF Flattening
  <2>4. ASSUME NEW k \in T PROVE k + 1 \in T
    <3>1. SUFFICES ASSUME k + 2 <= n PROVE f[k + 2] \in Seq(S)
      OBVIOUS
    <3>2. k + 1 <= n
      BY <3>1
    <3>3. f[k + 1] \in Seq(S)
      BY <2>4, <3>2
    <3>4. k + 2 \in 1..n /\ k + 2 # 1 /\ (k + 2) - 1 = k + 1
      BY <3>1
    <3>5. f[k + 2] = f[k + 1] \o s[k + 2] /\ s[k + 2] \in Seq(S)
      BY <2>1, <2>2, <3>4 DEF Flattening
    <3> QED
      BY <3>3, <3>5, ConcatProperties
  <2>5. T = Nat
    <3> HIDE DEF T
    <3>1. T \subseteq Nat
      BY DEF T
    <3> QED
      BY <2>3, <2>4, <3>1, SetInduction
  <2>6. \A k \in Nat : k + 1 <= n => f[k + 1] \in Seq(S)
    BY <2>5
  <2>7. n - 1 \in Nat /\ (n - 1) + 1 = n /\ n <= n
    BY <1>3
  <2> QED
    BY <2>1, <2>6, <2>7
<1> QED
  BY <1>2, <1>3

\* One more sequence is put behind the others.
LEMMA FlattenAppend ==
  ASSUME NEW S, NEW s \in Seq(Seq(S)), NEW x \in Seq(S)
  PROVE  FlattenSeq(Append(s, x)) = FlattenSeq(s) \o x
<1>1. PICK n \in Nat : n = Len(s)
  BY LenProperties
<1>2. PICK t : t = Append(s, x)
  OBVIOUS
<1>3. Len(t) = n + 1 /\ (\A i \in 1..n : t[i] = s[i]) /\ t[n + 1] = x
  BY <1>1, <1>2, AppendProperties
<1>4. PICK g : Flattening(t, n + 1, g) /\ FlattenSeq(t) = g[n + 1]
  BY <1>3, FlattenIs
<1>5. CASE n = 0
  <2>1. s = <<>> /\ FlattenSeq(s) = s
    BY <1>1, <1>5, EmptySeq DEF FlattenSeq
  <2>2. g[1] = x
    BY <1>3, <1>4, <1>5 DEF Flattening
  <2> QED
    BY <1>2, <1>4, <1>5, <2>1, <2>2, ConcatEmptySeq
<1>6. CASE n # 0
  <2>1. PICK f : Flattening(s, n, f) /\ FlattenSeq(s) = f[n]
    BY <1>1, <1>6, FlattenIs
  <2>2. \A i \in 1..n : g[i] = f[i]
    BY <1>3, <1>4, <2>1, FlattenAlike
  <2>3. n + 1 \in 1..(n + 1) /\ n + 1 # 1 /\ (n + 1) - 1 = n /\ n \in 1..n
    BY <1>6
  <2>4. g[n + 1] = g[n] \o x
    BY <1>3, <1>4, <2>3 DEF Flattening
  <2> QED
    BY <1>2, <1>4, <2>1, <2>2, <2>3, <2>4
<1> QED
  BY <1>5, <1>6

(***************************************************************************)
(* The wire.                                                               *)
(***************************************************************************)
UnitSet == [of : Nat, at : Nat]

\* FramesUpTo and Wire of a stream st behind the preface pre.
Frames(st, n)       == FlattenSeq([i \in 1..n |-> FrameUnits(i, st[i].size)])
UpToFrame(pre, st, n) == pre \o Frames(st, n)
Bound(pre, st, n)   == Len(UpToFrame(pre, st, n))
WireOf(pre, st)     == UpToFrame(pre, st, Len(st))

\* A frame has a size and an opcode.
LEMMA SizeType ==
  ASSUME NEW st \in Seq(FrameSet), NEW i \in 1..Len(st)
  PROVE  /\ st[i].size \in Nat /\ st[i].size # 0
         /\ st[i].op \in {"message", "ping", "pong", "close"}
<1>1. st[i] \in FrameSet
  BY ElementOfSeq
<1> QED
  BY <1>1 DEF FrameSet

\* The units of a frame.
LEMMA FrameUnitsType ==
  ASSUME NEW i \in Nat, NEW n \in Nat
  PROVE  /\ FrameUnits(i, n) \in Seq(UnitSet)
         /\ Len(FrameUnits(i, n)) = n
         /\ \A j \in 1..n : FrameUnits(i, n)[j] = Unit(i, j)
<1>1. ASSUME NEW j \in 1..n PROVE Unit(i, j) \in UnitSet
  BY DEF Unit, UnitSet
<1>2. [j \in 1..n |-> Unit(i, j)] \in [1..n -> UnitSet]
  BY <1>1
<1>3. [j \in 1..n |-> Unit(i, j)] \in Seq(UnitSet)
  BY <1>2
<1> QED
  BY <1>3 DEF FrameUnits

\* Flattening one more sequence.
LEMMA FlattenNext ==
  ASSUME NEW S, NEW h, NEW n \in Nat, \A i \in 1..(n + 1) : h[i] \in Seq(S)
  PROVE  /\ FlattenSeq([i \in 1..n |-> h[i]]) \in Seq(S)
         /\ FlattenSeq([i \in 1..(n + 1) |-> h[i]]) \in Seq(S)
         /\ FlattenSeq([i \in 1..(n + 1) |-> h[i]]) = FlattenSeq([i \in 1..n |-> h[i]]) \o h[n + 1]
<1> DEFINE s == [i \in 1..n |-> h[i]]
           t == [i \in 1..(n + 1) |-> h[i]]
<1>1. s \in Seq(Seq(S)) /\ t \in Seq(Seq(S)) /\ Len(s) = n /\ Len(t) = n + 1
  <2>1. s \in [1..n -> Seq(S)] /\ t \in [1..(n + 1) -> Seq(S)]
    OBVIOUS
  <2> QED
    BY <2>1
<1>2. h[n + 1] \in Seq(S) /\ n + 1 \in 1..(n + 1)
  OBVIOUS
<1>3. PICK u : u = Append(s, h[n + 1])
  OBVIOUS
<1>4. u \in Seq(Seq(S)) /\ Len(u) = n + 1 /\ (\A i \in 1..n : u[i] = s[i]) /\ u[n + 1] = h[n + 1]
  BY <1>1, <1>2, <1>3, AppendProperties
<1>5. \A i \in 1..(n + 1) : t[i] = u[i]
  <2>1. \A i \in 1..(n + 1) : i \in 1..n \/ i = n + 1
    OBVIOUS
  <2> QED
    BY <1>4, <2>1
<1>6. t = u
  BY <1>1, <1>4, <1>5, SeqEqual
<1> HIDE DEF s, t
<1>7. FlattenSeq(t) = FlattenSeq(s) \o h[n + 1]
  BY <1>1, <1>2, <1>3, <1>6, FlattenAppend
<1>8. FlattenSeq(t) \in Seq(S) /\ FlattenSeq(s) \in Seq(S)
  BY <1>1, FlattenType
<1> QED
  BY <1>7, <1>8 DEF s, t

\* Nothing is flattened to nothing.
LEMMA FlattenNone ==
  ASSUME NEW h
  PROVE  FlattenSeq([i \in 1..0 |-> h[i]]) = <<>>
  BY EmptySeq DEF FlattenSeq

\* One more frame of the stream.
LEMMA NextFrame ==
  ASSUME NEW st \in Seq(FrameSet), NEW n \in Nat, n < Len(st)
  PROVE  /\ Frames(st, n) \in Seq(UnitSet)
         /\ Frames(st, n + 1) \in Seq(UnitSet)
         /\ Frames(st, n + 1) = Frames(st, n) \o FrameUnits(n + 1, st[n + 1].size)
<1> DEFINE L == Len(st)
           h == [i \in 1..L |-> FrameUnits(i, st[i].size)]
<1>1. L \in Nat /\ n + 1 \in 1..L
  BY LenProperties
<1>2. ASSUME NEW i \in 1..L PROVE h[i] = FrameUnits(i, st[i].size) /\ h[i] \in Seq(UnitSet)
  <2>1. PICK z \in Nat, j \in Nat : z = st[i].size /\ j = i
    BY SizeType
  <2>2. FrameUnits(j, z) \in Seq(UnitSet)
    BY FrameUnitsType
  <2>3. h[i] = FrameUnits(j, z)
    BY <2>1
  <2> QED
    BY <2>1, <2>2, <2>3
<1>3. \A i \in 1..(n + 1) : i \in 1..L /\ h[i] \in Seq(UnitSet)
  BY <1>1, <1>2
<1>4. /\ FlattenSeq([i \in 1..n |-> h[i]]) \in Seq(UnitSet)
      /\ FlattenSeq([i \in 1..(n + 1) |-> h[i]]) \in Seq(UnitSet)
      /\ FlattenSeq([i \in 1..(n + 1) |-> h[i]]) = FlattenSeq([i \in 1..n |-> h[i]]) \o h[n + 1]
  <2> HIDE DEF h
  <2> QED
    BY <1>3, FlattenNext
<1>5. [i \in 1..n |-> h[i]] = [i \in 1..n |-> FrameUnits(i, st[i].size)]
  BY <1>2, <1>3
<1>6. [i \in 1..(n + 1) |-> h[i]] = [i \in 1..(n + 1) |-> FrameUnits(i, st[i].size)]
  BY <1>2, <1>3
<1>7. h[n + 1] = FrameUnits(n + 1, st[n + 1].size)
  BY <1>1, <1>2
<1> QED
  BY <1>4, <1>5, <1>6, <1>7 DEF Frames

\* No frame of the stream.
LEMMA NoFrame == ASSUME NEW st PROVE Frames(st, 0) = <<>>
  BY EmptySeq DEF Frames, FlattenSeq

\* s is what t begins with.
Begins(s, t) == Len(s) <= Len(t) /\ \A k \in 1..Len(s) : s[k] = t[k]

\* What is true of the wire up to frame n.
GoodUpTo(pre, st, n) ==
  LET A(m) == UpToFrame(pre, st, m)
  IN  /\ A(n) \in Seq(UnitSet)
      /\ \A k \in 1..Len(A(n)) : A(n)[k] # Filler
      /\ \A m \in 0..n : Begins(A(m), A(n))
      /\ \A m \in 0..n : m < n => Len(A(m)) < Len(A(n))

\* Where the next frame is on the wire.
LEMMA OneMoreFrame ==
  ASSUME NEW st \in Seq(FrameSet), NEW pre \in Seq(UnitSet),
         NEW n \in Nat, n < Len(st), UpToFrame(pre, st, n) \in Seq(UnitSet)
  PROVE  /\ UpToFrame(pre, st, n + 1) \in Seq(UnitSet)
         /\ st[n + 1].size \in Nat \ {0}
         /\ Bound(pre, st, n) \in Nat
         /\ Bound(pre, st, n + 1) = Bound(pre, st, n) + st[n + 1].size
         /\ \A k \in 1..Bound(pre, st, n) :
              UpToFrame(pre, st, n + 1)[k] = UpToFrame(pre, st, n)[k]
         /\ \A j \in 1..st[n + 1].size :
              UpToFrame(pre, st, n + 1)[Bound(pre, st, n) + j] = Unit(n + 1, j)
<1>1. PICK a \in Seq(UnitSet) : a = UpToFrame(pre, st, n)
  OBVIOUS
<1>2. n + 1 \in 1..Len(st) /\ Len(st) \in Nat
  BY LenProperties
<1>3. PICK z \in Nat \ {0} : z = st[n + 1].size
  BY <1>2, SizeType
<1>4. PICK f \in Seq(UnitSet) :
        /\ f = FrameUnits(n + 1, z) /\ Len(f) = z /\ \A j \in 1..z : f[j] = Unit(n + 1, j)
  BY FrameUnitsType
<1>5. PICK b \in Nat : b = Len(a)
  BY LenProperties
<1>6. UpToFrame(pre, st, n + 1) = a \o f
  <2>1. Frames(st, n) \in Seq(UnitSet) /\ Frames(st, n + 1) = Frames(st, n) \o f
    BY <1>3, <1>4, NextFrame
  <2>2. pre \o (Frames(st, n) \o f) = (pre \o Frames(st, n)) \o f
    <3>1. PICK g \in Seq(UnitSet) : g = Frames(st, n)
      BY <2>1
    <3>2. (pre \o g) \o f = pre \o (g \o f)
      OBVIOUS
    <3> QED
      BY ONLY <3>1, <3>2
  <2>3. UpToFrame(pre, st, n + 1) = pre \o Frames(st, n + 1) /\ a = pre \o Frames(st, n)
    BY ONLY <1>1 DEF UpToFrame
  <2> QED
    BY ONLY <2>1, <2>2, <2>3
<1>7. PICK c : c = a \o f
  OBVIOUS
<1>8. /\ c \in Seq(UnitSet) /\ Len(c) = b + z
      /\ \A i \in 1..(b + z) : c[i] = IF i <= b THEN a[i] ELSE f[i - b]
  <2>1. Len(a) = b /\ Len(f) = z
    BY <1>4, <1>5
  <2> QED
    BY ONLY <2>1, <1>7, a \in Seq(UnitSet), f \in Seq(UnitSet), ConcatProperties
<1>9. ASSUME NEW j \in 1..z PROVE c[b + j] = Unit(n + 1, j)
  <2>1. b + j \in 1..(b + z) /\ ~ (b + j <= b) /\ (b + j) - b = j
    OBVIOUS
  <2> QED
    BY <1>4, <1>8, <2>1
<1>10. ASSUME NEW k \in 1..b PROVE c[k] = a[k]
  BY <1>8
<1> QED
  BY <1>1, <1>3, <1>5, <1>6, <1>7, <1>8, <1>9, <1>10 DEF Bound

\* Every frame of the stream is on the wire behind the one before it.
LEMMA GoodWire ==
  ASSUME NEW st \in Seq(FrameSet), NEW pre \in Seq(UnitSet),
         \A k \in 1..Len(pre) : pre[k] # Filler
  PROVE  \A n \in 0..Len(st) : GoodUpTo(pre, st, n)
<1> DEFINE L == Len(st)
           T == {n \in Nat : n <= L => GoodUpTo(pre, st, n)}
<1>0. L \in Nat
  BY LenProperties
<1>1. 0 \in T
  <2>1. UpToFrame(pre, st, 0) = pre
    BY NoFrame, ConcatEmptySeq DEF UpToFrame
  <2>2. Len(pre) \in Nat
    BY LenProperties
  <2>3. GoodUpTo(pre, st, 0)
    BY <2>1, <2>2 DEF GoodUpTo, Begins
  <2> QED
    BY <2>3
<1>2. ASSUME NEW n \in T PROVE n + 1 \in T
  <2>1. SUFFICES ASSUME n + 1 <= L PROVE GoodUpTo(pre, st, n + 1)
    OBVIOUS
  <2>2. n \in Nat /\ n < L /\ GoodUpTo(pre, st, n)
    BY <1>0, <1>2, <2>1
  <2>3. PICK a \in Seq(UnitSet) : a = UpToFrame(pre, st, n)
    BY <2>2 DEF GoodUpTo
  <2>4a. n < Len(st) /\ UpToFrame(pre, st, n) \in Seq(UnitSet) /\ n \in Nat
    BY <2>2 DEF GoodUpTo
  <2>4b. PICK c \in Seq(UnitSet) : c = UpToFrame(pre, st, n + 1)
    BY <2>4a, OneMoreFrame
  <2>4c. PICK z \in Nat \ {0} : z = st[n + 1].size
    BY <2>4a, OneMoreFrame
  <2>4d. PICK b \in Nat : b = Len(a) /\ b = Bound(pre, st, n) /\ Len(c) = Bound(pre, st, n + 1)
    BY <2>3, <2>4b, LenProperties DEF Bound
  <2>4. /\ c = UpToFrame(pre, st, n + 1) /\ b = Len(a) /\ Len(c) = b + z
        /\ \A k \in 1..b : c[k] = a[k]
        /\ \A j \in 1..z : c[b + j] = Unit(n + 1, j)
    <3>1. /\ Bound(pre, st, n + 1) = Bound(pre, st, n) + st[n + 1].size
          /\ \A k \in 1..Bound(pre, st, n) :
               UpToFrame(pre, st, n + 1)[k] = UpToFrame(pre, st, n)[k]
          /\ \A j \in 1..st[n + 1].size :
               UpToFrame(pre, st, n + 1)[Bound(pre, st, n) + j] = Unit(n + 1, j)
      <4> HIDE DEF L, T
      <4> QED
        BY ONLY <2>4a, st \in Seq(FrameSet), pre \in Seq(UnitSet), OneMoreFrame
    <3> QED
      BY ONLY <2>3, <2>4b, <2>4c, <2>4d, <3>1
  <2>5. ASSUME NEW k \in 1..(b + z) PROVE c[k] # Filler
    <3>1. CASE k \in 1..b
      BY <2>2, <2>3, <2>4, <3>1 DEF GoodUpTo
    <3>2. CASE k \notin 1..b
      <4>1. k - b \in 1..z /\ b + (k - b) = k
        BY <3>2
      <4>2. c[k] = Unit(n + 1, k - b)
        BY <2>4, <4>1
      <4> QED
        BY <2>2, <4>2 DEF Unit, Filler
    <3> QED
      BY <3>1, <3>2
  <2>6. ASSUME NEW m \in 0..(n + 1)
        PROVE  /\ Begins(UpToFrame(pre, st, m), c)
               /\ m < n + 1 => Len(UpToFrame(pre, st, m)) < Len(c)
    <3>1. CASE m = n + 1
      BY <2>4, <3>1 DEF Begins
    <3>2. CASE m # n + 1
      <4>1. m \in 0..n
        BY <2>2, <3>2
      <4>2. PICK d : d = UpToFrame(pre, st, m)
        OBVIOUS
      <4>3. Begins(d, a) /\ (m < n => Len(d) < Len(a)) /\ (m = n => d = a)
        BY <2>2, <2>3, <4>1, <4>2 DEF GoodUpTo
      <4>4. Len(d) <= b /\ \A k \in 1..Len(d) : d[k] = a[k]
        BY <2>4, <4>3 DEF Begins
      <4>5. \A k \in 1..Len(d) : k \in 1..b
        BY <4>4
      <4>6. Len(d) <= Len(c) /\ Len(d) < Len(c)
        BY <2>4, <4>4
      <4> QED
        BY <2>4, <4>2, <4>4, <4>5, <4>6 DEF Begins
    <3> QED
      BY <3>1, <3>2
  <2> QED
    BY <2>4, <2>5, <2>6 DEF GoodUpTo
<1>3. T = Nat
  <2> HIDE DEF T
  <2>1. T \subseteq Nat
    BY DEF T
  <2> QED
    BY <1>1, <1>2, <2>1, SetInduction
<1>4. \A n \in Nat : n <= L => GoodUpTo(pre, st, n)
  BY <1>3
<1> QED
  BY <1>0, <1>4

\* The wire w of a stream st behind the preface pre, where frame n ends at b[n].
Laid(w, b, st, pre) ==
  /\ w \in Seq(UnitSet) /\ Len(w) \in Nat
  /\ \A k \in 1..Len(w) : w[k] # Filler
  /\ b \in [0..Len(st) -> Nat]
  /\ b[0] = Len(pre) /\ b[Len(st)] = Len(w)
  /\ \A n \in 0..Len(st) : b[n] <= Len(w) /\ SubSeq(w, 1, b[n]) = UpToFrame(pre, st, n)
  /\ \A m, n \in 0..Len(st) : m < n => b[m] < b[n]
  /\ \A n \in 1..Len(st) : b[n] = b[n - 1] + st[n].size /\ w[b[n - 1] + 1] = Unit(n, 1)

Bounds(pre, st) == [n \in 0..Len(st) |-> Bound(pre, st, n)]

\* The wire of a stream is laid out frame by frame.
LEMMA WireLaid ==
  ASSUME NEW st \in Seq(FrameSet), NEW pre \in Seq(UnitSet),
         \A k \in 1..Len(pre) : pre[k] # Filler
  PROVE  Laid(WireOf(pre, st), Bounds(pre, st), st, pre)
<1>1. PICK l \in Nat : l = Len(st)
  BY LenProperties
<1>2. \A n \in 0..l : GoodUpTo(pre, st, n)
  BY <1>1, GoodWire
<1>3. PICK w \in Seq(UnitSet) : w = WireOf(pre, st) /\ w = UpToFrame(pre, st, l)
  BY <1>1, <1>2 DEF WireOf, GoodUpTo
<1>4. PICK z \in Nat : z = Len(w)
  BY LenProperties
<1>5. PICK b : b = Bounds(pre, st)
  OBVIOUS
<1>6. ASSUME NEW n \in 0..l
      PROVE  /\ b[n] \in Nat /\ b[n] = Len(UpToFrame(pre, st, n))
             /\ UpToFrame(pre, st, n) \in Seq(UnitSet)
  <2>1. UpToFrame(pre, st, n) \in Seq(UnitSet)
    BY <1>2 DEF GoodUpTo
  <2>2. b[n] = Len(UpToFrame(pre, st, n))
    BY <1>1, <1>5 DEF Bounds, Bound
  <2> QED
    BY <2>1, <2>2, LenProperties
<1>7. b \in [0..l -> Nat]
  <2>1. b = [n \in 0..l |-> Bound(pre, st, n)]
    BY <1>1, <1>5 DEF Bounds
  <2>2. \A n \in 0..l : b[n] \in Nat
    BY <1>6
  <2> QED
    BY <2>1, <2>2
<1>8. b[0] = Len(pre) /\ b[l] = z
  <2>1. UpToFrame(pre, st, 0) = pre
    BY NoFrame, ConcatEmptySeq DEF UpToFrame
  <2>2. 0 \in 0..l /\ l \in 0..l
    OBVIOUS
  <2> QED
    BY <1>3, <1>4, <1>6, <2>1, <2>2
<1>9. \A k \in 1..z : w[k] # Filler
  BY <1>2, <1>3, <1>4 DEF GoodUpTo
<1>10. ASSUME NEW n \in 0..l
       PROVE  /\ b[n] <= z
              /\ \A k \in 1..b[n] : w[k] = UpToFrame(pre, st, n)[k]
              /\ SubSeq(w, 1, b[n]) = UpToFrame(pre, st, n)
  <2>1. Begins(UpToFrame(pre, st, n), UpToFrame(pre, st, l))
    BY <1>2 DEF GoodUpTo
  <2>2. PICK a \in Seq(UnitSet) : a = UpToFrame(pre, st, n) /\ Len(a) = b[n]
    BY <1>6
  <2>3. PICK m \in Nat : m = b[n]
    BY <1>6
  <2>4. m <= z /\ \A k \in 1..m : w[k] = a[k]
    BY <1>3, <1>4, <2>1, <2>2, <2>3 DEF Begins
  <2>5. SubSeq(w, 1, m) \in Seq(UnitSet) /\ Len(SubSeq(w, 1, m)) = m
        /\ \A k \in 1..m : SubSeq(w, 1, m)[k] = w[k]
    BY <1>4, <2>4, FrontCut
  <2>6. SubSeq(w, 1, m) = a
    <3>1. PICK c : c = SubSeq(w, 1, m)
      OBVIOUS
    <3>2. c \in Seq(UnitSet) /\ Len(c) = Len(a) /\ \A k \in 1..Len(c) : c[k] = a[k]
      BY <2>2, <2>3, <2>4, <2>5, <3>1
    <3>3. c = a
      BY ONLY <3>2, a \in Seq(UnitSet), SeqEqual
    <3> QED
      BY <3>1, <3>3
  <2> QED
    BY <2>2, <2>3, <2>4, <2>6
<1>11. ASSUME NEW m \in 0..l, NEW n \in 0..l, m < n PROVE b[m] < b[n]
  BY <1>2, <1>6, <1>11 DEF GoodUpTo
<1>12. ASSUME NEW n \in 1..l
       PROVE  b[n] = b[n - 1] + st[n].size /\ w[b[n - 1] + 1] = Unit(n, 1)
  <2>1. PICK m \in Nat : m = n - 1 /\ m < l /\ m \in 0..l /\ m + 1 = n /\ n \in 0..l
    OBVIOUS
  <2>2. UpToFrame(pre, st, m) \in Seq(UnitSet) /\ m < Len(st)
    BY <1>1, <1>6, <2>1
  <2>3. PICK s \in Nat \ {0} : s = st[n].size
    BY <1>1, SizeType
  <2>4. /\ Bound(pre, st, n) = Bound(pre, st, m) + s
        /\ \A j \in 1..s : UpToFrame(pre, st, n)[Bound(pre, st, m) + j] = Unit(n, j)
    BY <2>1, <2>2, <2>3, OneMoreFrame
  <2>5. b[n] = b[m] + s /\ UpToFrame(pre, st, n)[b[m] + 1] = Unit(n, 1) /\ b[m] \in Nat
    <3>1. b[m] = Bound(pre, st, m) /\ b[n] = Bound(pre, st, n) /\ b[m] \in Nat
      BY <1>6, <2>1 DEF Bound
    <3>2. 1 \in 1..s
      OBVIOUS
    <3>3. UpToFrame(pre, st, n)[Bound(pre, st, m) + 1] = Unit(n, 1)
      BY ONLY <2>4, <3>2
    <3> QED
      BY ONLY <2>4, <3>1, <3>3
  <2>6. b[m] + 1 \in 1..b[n]
    BY <2>5
  <2>7. w[b[m] + 1] = Unit(n, 1)
    <3>1. \A k \in 1..b[n] : w[k] = UpToFrame(pre, st, n)[k]
      BY <1>10, <2>1
    <3> QED
      BY ONLY <2>5, <2>6, <3>1
  <2> QED
    BY <2>1, <2>3, <2>5, <2>7
<1> QED
  BY <1>1, <1>3, <1>4, <1>5, <1>7, <1>8, <1>9, <1>10, <1>11, <1>12 DEF Laid

(***************************************************************************)
(* The operations that are under way, in the order their handlers will run. *)
(***************************************************************************)
Completion == [op : {"until"}, grown : Nat, n : Nat]
         \cup [op : {"some"}, got : Seq(UnitSet)]
         \cup [op : {"write"}, rest : Seq(UnitSet)]

\* What the completed operations carry.
LEMMA CompletionType ==
  /\ \A g, n \in Nat : /\ UntilDone(g, n) \in Completion /\ UntilDone(g, n).op = "until"
                       /\ UntilDone(g, n).grown = g /\ UntilDone(g, n).n = n
  /\ \A s \in Seq(UnitSet) : /\ SomeDone(s) \in Completion /\ SomeDone(s).op = "some"
                             /\ SomeDone(s).got = s
                             /\ Partial(s) \in Completion /\ Partial(s).op = "write"
                             /\ Partial(s).rest = s
  /\ \A c \in Completion : /\ c.op \in {"until", "some", "write"}
                           /\ c.op = "until" => c.grown \in Nat /\ c.n \in Nat
                           /\ c.op = "some" => c.got \in Seq(UnitSet)
                           /\ c.op = "write" => c.rest \in Seq(UnitSet)
  BY DEF Completion, UntilDone, SomeDone, Partial

\* b may be behind a: there is one read of either kind, and the one into
\* read_buf_ is in front.
Follows(a, b) ==
  /\ a = "some" => b = "write"
  /\ a = "until" => b # "until"

\* The completed operations rd and then the waiting reads rs.
InLine(rd, rs) ==
  /\ rd \in Seq(Completion) /\ rs \in Seq({"until", "some"})
  /\ \A i, j \in 1..Len(rd) : i < j => Follows(rd[i].op, rd[j].op)
  /\ \A i \in 1..Len(rd), j \in 1..Len(rs) : Follows(rd[i].op, rs[j])
  /\ \A i, j \in 1..Len(rs) : i < j => Follows(rs[i], rs[j])

Held(rd, op)  == {rd[i] : i \in {i \in 1..Len(rd) : rd[i].op = op}}
Waits(rs, op) == \E j \in 1..Len(rs) : rs[j] = op
None(rd, rs, op) == Held(rd, op) = {} /\ ~ Waits(rs, op)

\* What becomes of the completed operations when one more is completed.
LEMMA HeldAppend ==
  ASSUME NEW rd \in Seq(Completion), NEW x \in Completion
  PROVE  /\ Append(rd, x) \in Seq(Completion)
         /\ Len(rd) \in Nat /\ Len(Append(rd, x)) = Len(rd) + 1
         /\ \A i \in 1..Len(rd) : Append(rd, x)[i] = rd[i]
         /\ Append(rd, x)[Len(rd) + 1] = x
         /\ \A op : Held(Append(rd, x), op) = Held(rd, op) \cup {y \in {x} : y.op = op}
<1>1. PICK n \in Nat : n = Len(rd)
  BY LenProperties
<1>2. PICK t : t = Append(rd, x)
  OBVIOUS
<1>3. t \in Seq(Completion) /\ Len(t) = n + 1 /\ (\A i \in 1..n : t[i] = rd[i]) /\ t[n + 1] = x
  BY <1>1, <1>2, AppendProperties
<1>4. \A i \in 1..(n + 1) : i \in 1..n \/ i = n + 1
  OBVIOUS
<1>4a. (\A i \in 1..n : i \in 1..(n + 1)) /\ n + 1 \in 1..(n + 1)
  OBVIOUS
<1>5. ASSUME NEW op PROVE Held(t, op) = Held(rd, op) \cup {y \in {x} : y.op = op}
  <2>1. Held(t, op) = {t[i] : i \in {i \in 1..(n + 1) : t[i].op = op}}
    BY <1>3 DEF Held
  <2>2. Held(rd, op) = {rd[i] : i \in {i \in 1..n : rd[i].op = op}}
    BY <1>1 DEF Held
  <2>3. \A c : c \in Held(t, op) <=> \E i \in 1..(n + 1) : t[i].op = op /\ c = t[i]
    BY ONLY <2>1
  <2>4. \A c : c \in Held(rd, op) <=> \E i \in 1..n : rd[i].op = op /\ c = rd[i]
    BY ONLY <2>2
  <2>5. \A c : c \in Held(t, op) <=> (c \in Held(rd, op) \/ (x.op = op /\ c = x))
    BY ONLY <2>3, <2>4, <1>3, <1>4, <1>4a
  <2> QED
    BY ONLY <2>5
<1> QED
  BY <1>1, <1>2, <1>3, <1>5

\* And when the handler of the first one runs.
LEMMA HeldTail ==
  ASSUME NEW rd \in Seq(Completion), rd # <<>>
  PROVE  /\ Head(rd) \in Completion /\ Tail(rd) \in Seq(Completion)
         /\ Len(Tail(rd)) = Len(rd) - 1 /\ Len(rd) \in Nat /\ Len(rd) >= 1
         /\ Head(rd) = rd[1]
         /\ \A i \in 1..(Len(rd) - 1) : Tail(rd)[i] = rd[i + 1]
         /\ \A op : Held(rd, op) = Held(Tail(rd), op) \cup {y \in {Head(rd)} : y.op = op}
<1>1. PICK n \in Nat : n = Len(rd) /\ n >= 1
  BY EmptySeq, LenProperties
<1>2. PICK t : t = Tail(rd)
  OBVIOUS
<1>2a. PICK x : x = Head(rd)
  OBVIOUS
<1>3. /\ t \in Seq(Completion) /\ Len(t) = n - 1 /\ x \in Completion /\ x = rd[1]
      /\ \A i \in 1..(n - 1) : t[i] = rd[i + 1]
  BY <1>1, <1>2, <1>2a, HeadTailProperties
<1>5. ASSUME NEW op PROVE Held(rd, op) = Held(t, op) \cup {y \in {x} : y.op = op}
  <2>1. Held(t, op) = {t[i] : i \in {i \in 1..(n - 1) : t[i].op = op}}
    BY <1>3 DEF Held
  <2>2. Held(rd, op) = {rd[i] : i \in {i \in 1..n : rd[i].op = op}}
    BY <1>1 DEF Held
  <2>3. \A c : c \in Held(t, op) <=> \E i \in 1..(n - 1) : t[i].op = op /\ c = t[i]
    BY ONLY <2>1
  <2>4. \A c : c \in Held(rd, op) <=> \E i \in 1..n : rd[i].op = op /\ c = rd[i]
    BY ONLY <2>2
  <2>5. ASSUME NEW c, c \in Held(rd, op) PROVE c \in Held(t, op) \/ (x.op = op /\ c = x)
    <3>1. PICK i \in 1..n : rd[i].op = op /\ c = rd[i]
      BY <2>4, <2>5
    <3>2. CASE i = 1
      BY <1>3, <3>1, <3>2
    <3>3. CASE i # 1
      <4>1. i - 1 \in 1..(n - 1) /\ (i - 1) + 1 = i
        BY <3>3
      <4>2. t[i - 1] = rd[i]
        BY <1>3, <4>1
      <4> QED
        BY <2>3, <3>1, <4>1, <4>2
    <3> QED
      BY <3>2, <3>3
  <2>6. ASSUME NEW c, c \in Held(t, op) PROVE c \in Held(rd, op)
    <3>1. PICK i \in 1..(n - 1) : t[i].op = op /\ c = t[i]
      BY <2>3, <2>6
    <3>2. i + 1 \in 1..n /\ t[i] = rd[i + 1]
      BY <1>1, <1>3
    <3> QED
      BY <2>4, <3>1, <3>2
  <2>7. x.op = op => x \in Held(rd, op)
    <3>1. 1 \in 1..n
      BY <1>1
    <3> QED
      BY <1>3, <2>4, <3>1
  <2> QED
    BY <2>5, <2>6, <2>7
<1> QED
  BY <1>1, <1>2, <1>2a, <1>3, <1>5

\* A write that goes on is of no account to the reads.
Pushes(rd, rd2) == rd2 = rd \/ \E rest \in Seq(UnitSet) : rd2 = Append(rd, Partial(rest))

\* No completed operation of a kind is held.
LEMMA HeldEmpty ==
  ASSUME NEW rd \in Seq(Completion), NEW op
  PROVE  Held(rd, op) = {} <=> \A i \in 1..Len(rd) : rd[i].op # op
  BY DEF Held

\* It leaves the reads in line.
LEMMA PushKeeps ==
  ASSUME NEW rd, NEW rd2, NEW rs, InLine(rd, rs), Pushes(rd, rd2)
  PROVE  /\ InLine(rd2, rs)
         /\ \A op \in {"until", "some"} : Held(rd2, op) = Held(rd, op)
<1>1. rd \in Seq(Completion) /\ rs \in Seq({"until", "some"})
  BY DEF InLine
<1>2. SUFFICES ASSUME NEW rest \in Seq(UnitSet), rd2 = Append(rd, Partial(rest))
               PROVE  /\ InLine(rd2, rs)
                      /\ \A op \in {"until", "some"} : Held(rd2, op) = Held(rd, op)
  BY DEF Pushes
<1>3. PICK x \in Completion : x = Partial(rest) /\ x.op = "write"
  BY CompletionType
<1>4. PICK n \in Nat, m \in Nat : n = Len(rd) /\ m = Len(rs)
  BY <1>1, LenProperties
<1>5. /\ rd2 \in Seq(Completion) /\ Len(rd2) = n + 1
      /\ \A i \in 1..n : rd2[i] = rd[i]
      /\ rd2[n + 1] = x
      /\ \A op : Held(rd2, op) = Held(rd, op) \cup {y \in {x} : y.op = op}
  BY <1>1, <1>2, <1>3, <1>4, HeldAppend
<1>6. /\ \A i, j \in 1..n : i < j => Follows(rd[i].op, rd[j].op)
      /\ \A i \in 1..n, j \in 1..m : Follows(rd[i].op, rs[j])
      /\ \A i, j \in 1..m : i < j => Follows(rs[i], rs[j])
  BY <1>4 DEF InLine
<1>7. \A i \in 1..(n + 1) : i \in 1..n \/ i = n + 1
  OBVIOUS
<1>8. \A a : Follows(a, "write") /\ Follows("write", a)
  BY DEF Follows
<1>9. ASSUME NEW i \in 1..(n + 1), NEW j \in 1..(n + 1), i < j
      PROVE  Follows(rd2[i].op, rd2[j].op)
  <2>1. i \in 1..n
    BY <1>9
  <2>2. CASE j = n + 1
    BY <1>3, <1>5, <1>8, <2>2
  <2>3. CASE j \in 1..n
    BY <1>5, <1>6, <1>9, <2>1, <2>3
  <2> QED
    BY <1>7, <2>2, <2>3
<1>10. ASSUME NEW i \in 1..(n + 1), NEW j \in 1..m PROVE Follows(rd2[i].op, rs[j])
  BY <1>3, <1>5, <1>6, <1>7, <1>8
<1>11. InLine(rd2, rs)
  BY <1>1, <1>4, <1>5, <1>6, <1>9, <1>10 DEF InLine
<1>12. \A op \in {"until", "some"} : Held(rd2, op) = Held(rd, op)
  BY <1>3, <1>5
<1> QED
  BY <1>11, <1>12

\* The socket serves the first read that waits.
LEMMA ServeKeeps ==
  ASSUME NEW rd, NEW rs, InLine(rd, rs), rs # <<>>,
         NEW x \in Completion, x.op = Head(rs)
  PROVE  /\ InLine(Append(rd, x), Tail(rs))
         /\ None(rd, Tail(rs), x.op)
         /\ x.op = "until" => Held(rd, "some") = {}
         /\ \A op : op # x.op => (Waits(rs, op) <=> Waits(Tail(rs), op))
<1>1. rd \in Seq(Completion) /\ rs \in Seq({"until", "some"})
  BY DEF InLine
<1>2. PICK n \in Nat, m \in Nat : n = Len(rd) /\ m = Len(rs) /\ m >= 1
  BY <1>1, LenProperties, EmptySeq
<1>3. PICK t, u : t = Append(rd, x) /\ u = Tail(rs)
  OBVIOUS
<1>4. t \in Seq(Completion) /\ Len(t) = n + 1 /\ (\A i \in 1..n : t[i] = rd[i]) /\ t[n + 1] = x
  BY <1>1, <1>2, <1>3, HeldAppend
<1>5. /\ u \in Seq({"until", "some"}) /\ Len(u) = m - 1
      /\ \A i \in 1..(m - 1) : u[i] = rs[i + 1]
      /\ Head(rs) = rs[1]
  BY <1>1, <1>2, <1>3, HeadTailProperties
<1>6. /\ \A i, j \in 1..n : i < j => Follows(rd[i].op, rd[j].op)
      /\ \A i \in 1..n, j \in 1..m : Follows(rd[i].op, rs[j])
      /\ \A i, j \in 1..m : i < j => Follows(rs[i], rs[j])
  BY <1>2 DEF InLine
<1>7. x.op = rs[1] /\ x.op \in {"until", "some"} /\ 1 \in 1..m
  <2>1. 1 \in 1..m
    BY <1>2
  <2>2. rs[1] \in {"until", "some"}
    BY <1>1, <1>2, <2>1, ElementOfSeq
  <2> QED
    BY <1>5, <2>1, <2>2
<1>8. \A i \in 1..(m - 1) : i + 1 \in 1..m /\ 1 < i + 1 /\ Follows(x.op, u[i])
  <2>1. ASSUME NEW i \in 1..(m - 1) PROVE i + 1 \in 1..m /\ 1 < i + 1 /\ Follows(x.op, u[i])
    <3>1. i + 1 \in 1..m /\ 1 < i + 1
      OBVIOUS
    <3>2. Follows(rs[1], rs[i + 1])
      BY <1>6, <1>7, <3>1
    <3> QED
      BY <1>5, <1>7, <3>1, <3>2
  <2> QED
    BY <2>1
<1>9. \A i \in 1..n : Follows(rd[i].op, x.op)
  BY <1>6, <1>7
<1>10. ASSUME NEW i \in 1..(n + 1), NEW j \in 1..(n + 1), i < j
       PROVE  Follows(t[i].op, t[j].op)
  <2>1. i \in 1..n /\ t[i] = rd[i]
    BY <1>4, <1>10
  <2>2. CASE j = n + 1
    BY <1>4, <1>9, <2>1, <2>2
  <2>3. CASE j # n + 1
    <3>1. j \in 1..n
      BY <2>3
    <3> QED
      BY <1>4, <1>6, <1>10, <2>1, <3>1
  <2> QED
    BY <2>2, <2>3
<1>11. ASSUME NEW i \in 1..(n + 1), NEW j \in 1..(m - 1) PROVE Follows(t[i].op, u[j])
  <2>1. CASE i = n + 1
    BY <1>4, <1>8, <2>1
  <2>2. CASE i # n + 1
    <3>1. i \in 1..n /\ j + 1 \in 1..m
      BY <2>2
    <3>2. Follows(rd[i].op, rs[j + 1])
      BY <1>6, <3>1
    <3> QED
      BY <1>4, <1>5, <3>1, <3>2
  <2> QED
    BY <2>1, <2>2
<1>12. ASSUME NEW i \in 1..(m - 1), NEW j \in 1..(m - 1), i < j PROVE Follows(u[i], u[j])
  <2>1. i + 1 \in 1..m /\ j + 1 \in 1..m /\ i + 1 < j + 1
    BY <1>12
  <2>2. Follows(rs[i + 1], rs[j + 1])
    BY <1>6, <2>1
  <2> QED
    BY <1>5, <2>2
<1>13. InLine(t, u)
  BY <1>4, <1>5, <1>10, <1>11, <1>12 DEF InLine
<1>14. Held(rd, x.op) = {} /\ (x.op = "until" => Held(rd, "some") = {})
  <2>1. \A i \in 1..n : rd[i].op # x.op /\ (x.op = "until" => rd[i].op # "some")
    BY <1>7, <1>9 DEF Follows
  <2> QED
    BY <1>1, <1>2, <2>1, HeldEmpty
<1>15. ~ Waits(u, x.op)
  BY <1>5, <1>7, <1>8 DEF Waits, Follows
<1>16. ASSUME NEW op, op # x.op PROVE Waits(rs, op) <=> Waits(u, op)
  <2>1. ASSUME Waits(u, op) PROVE Waits(rs, op)
    BY <1>2, <1>5, <1>8, <2>1 DEF Waits
  <2>2. ASSUME Waits(rs, op) PROVE Waits(u, op)
    <3>1. PICK j \in 1..m : rs[j] = op
      BY <1>2, <2>2 DEF Waits
    <3>2. j # 1
      BY <1>7, <1>16, <3>1
    <3>3. j - 1 \in 1..(m - 1) /\ (j - 1) + 1 = j
      BY <3>2
    <3>4. u[j - 1] = op
      BY <1>5, <3>1, <3>3
    <3> QED
      BY <1>5, <3>3, <3>4 DEF Waits
  <2> QED
    BY <2>1, <2>2
<1> QED
  BY <1>3, <1>13, <1>14, <1>15, <1>16 DEF None

\* The event loop runs the handler of the first completed operation.
LEMMA RunKeeps ==
  ASSUME NEW rd, NEW rs, InLine(rd, rs), rd # <<>>
  PROVE  /\ InLine(Tail(rd), rs)
         /\ Head(rd).op \in {"until", "some"} => None(Tail(rd), rs, Head(rd).op)
         /\ Head(rd).op = "some" => None(Tail(rd), rs, "until")
<1>1. rd \in Seq(Completion) /\ rs \in Seq({"until", "some"})
  BY DEF InLine
<1>2. PICK n \in Nat, m \in Nat : n = Len(rd) /\ m = Len(rs) /\ n >= 1
  BY <1>1, LenProperties, EmptySeq
<1>3. PICK t, x : t = Tail(rd) /\ x = Head(rd)
  OBVIOUS
<1>4. /\ t \in Seq(Completion) /\ Len(t) = n - 1 /\ x \in Completion /\ x = rd[1]
      /\ \A i \in 1..(n - 1) : t[i] = rd[i + 1]
  BY <1>1, <1>2, <1>3, HeldTail
<1>5. /\ \A i, j \in 1..n : i < j => Follows(rd[i].op, rd[j].op)
      /\ \A i \in 1..n, j \in 1..m : Follows(rd[i].op, rs[j])
      /\ \A i, j \in 1..m : i < j => Follows(rs[i], rs[j])
  BY <1>2 DEF InLine
<1>6. \A i \in 1..(n - 1) : i + 1 \in 1..n /\ 1 \in 1..n /\ 1 < i + 1
  BY <1>2
<1>7. ASSUME NEW i \in 1..(n - 1) PROVE Follows(x.op, t[i].op)
  <2>1. Follows(rd[1].op, rd[i + 1].op)
    BY <1>5, <1>6
  <2> QED
    BY <1>4, <2>1
<1>8. ASSUME NEW j \in 1..m PROVE Follows(x.op, rs[j])
  BY <1>2, <1>4, <1>5
<1>9. ASSUME NEW i \in 1..(n - 1), NEW j \in 1..(n - 1), i < j
      PROVE  Follows(t[i].op, t[j].op)
  <2>1. i + 1 < j + 1 /\ i + 1 \in 1..n /\ j + 1 \in 1..n
    BY <1>9
  <2>2. Follows(rd[i + 1].op, rd[j + 1].op)
    BY <1>5, <2>1
  <2> QED
    BY <1>4, <2>2
<1>10. ASSUME NEW i \in 1..(n - 1), NEW j \in 1..m PROVE Follows(t[i].op, rs[j])
  <2>1. Follows(rd[i + 1].op, rs[j])
    BY <1>5, <1>6
  <2> QED
    BY <1>4, <2>1
<1>11. InLine(t, rs)
  BY <1>1, <1>2, <1>4, <1>5, <1>9, <1>10 DEF InLine
<1>12. ASSUME NEW op, \A a : Follows(x.op, a) => a # op PROVE None(t, rs, op)
  <2>1. \A i \in 1..Len(t) : t[i].op # op
    BY <1>4, <1>7, <1>12
  <2>2. \A j \in 1..Len(rs) : rs[j] # op
    BY <1>2, <1>8, <1>12
  <2> QED
    BY <1>4, <2>1, <2>2, HeldEmpty DEF None, Waits
<1>13. x.op \in {"until", "some"} => None(t, rs, x.op)
  BY <1>12 DEF Follows
<1>14. x.op = "some" => None(t, rs, "until")
  BY <1>12 DEF Follows
<1> QED
  BY <1>3, <1>11, <1>13, <1>14

\* read_frame() and read_frames(), when no read is under way.
LEMMA StartKeeps ==
  ASSUME NEW rd, NEW rs, InLine(rd, rs), None(rd, rs, "until"), None(rd, rs, "some")
  PROVE  /\ rs = <<>>
         /\ InLine(rd, rs \o <<"until", "some">>)
         /\ Waits(rs \o <<"until", "some">>, "until") /\ Waits(rs \o <<"until", "some">>, "some")
         /\ InLine(rd, Append(rs, "some"))
         /\ ~ Waits(Append(rs, "some"), "until")
         /\ InLine(Append(rd, UntilDone(0, 0)), Append(rs, "some"))
<1>1. rd \in Seq(Completion) /\ rs \in Seq({"until", "some"})
  BY DEF InLine
<1>2. rs = <<>>
  <2>1. SUFFICES ASSUME rs # <<>> PROVE FALSE
    OBVIOUS
  <2>2. 1 \in 1..Len(rs)
    BY <1>1, <2>1, EmptySeq
  <2>3. rs[1] \in {"until", "some"}
    BY <1>1, <2>2, ElementOfSeq
  <2> QED
    BY <2>2, <2>3 DEF None, Waits
<1>3. PICK n \in Nat : n = Len(rd)
  BY <1>1, LenProperties
<1>4. /\ rs \o <<"until", "some">> = <<"until", "some">>
      /\ Append(rs, "some") = <<"some">>
  BY <1>2
<1>5. /\ \A i, j \in 1..n : i < j => Follows(rd[i].op, rd[j].op)
      /\ \A i \in 1..n : rd[i] \in Completion /\ rd[i].op \notin {"until", "some"}
  <2>1. \A i \in 1..n : rd[i] \in Completion
    BY <1>1, <1>3, ElementOfSeq
  <2> QED
    BY <1>1, <1>3, <2>1, HeldEmpty DEF InLine, None
<1>6. \A i \in 1..n : \A a : Follows(rd[i].op, a)
  BY <1>5 DEF Follows
<1>7. InLine(rd, <<"until", "some">>)
  <2>1. <<"until", "some">> \in Seq({"until", "some"}) /\ Len(<<"until", "some">>) = 2
    OBVIOUS
  <2>2. \A i, j \in 1..2 : i < j => i = 1 /\ j = 2
    OBVIOUS
  <2>3. \A i, j \in 1..2 : i < j => Follows(<<"until", "some">>[i], <<"until", "some">>[j])
    BY <2>2 DEF Follows
  <2> QED
    BY <1>1, <1>3, <1>5, <1>6, <2>1, <2>3 DEF InLine
<1>8. InLine(rd, <<"some">>)
  <2>1. <<"some">> \in Seq({"until", "some"}) /\ Len(<<"some">>) = 1
    OBVIOUS
  <2>2. \A i, j \in 1..1 : ~ (i < j)
    OBVIOUS
  <2> QED
    BY <1>1, <1>3, <1>5, <1>6, <2>1, <2>2 DEF InLine
<1>9. InLine(Append(rd, UntilDone(0, 0)), <<"some">>)
  <2>1. PICK x \in Completion : x = UntilDone(0, 0) /\ x.op = "until"
    BY CompletionType
  <2>2. PICK t : t = Append(rd, x)
    OBVIOUS
  <2>3. t \in Seq(Completion) /\ Len(t) = n + 1 /\ (\A i \in 1..n : t[i] = rd[i]) /\ t[n + 1] = x
    BY <1>1, <1>3, <2>2, HeldAppend
  <2>4. ASSUME NEW i \in 1..(n + 1), NEW j \in 1..(n + 1), i < j
        PROVE  Follows(t[i].op, t[j].op)
    <3>1. i \in 1..n
      BY <2>4
    <3> QED
      BY <1>6, <2>3, <3>1
  <2>5. ASSUME NEW i \in 1..(n + 1) PROVE Follows(t[i].op, "some")
    <3>1. CASE i = n + 1
      BY <2>1, <2>3, <3>1 DEF Follows
    <3>2. CASE i \in 1..n
      BY <1>6, <2>3, <3>2
    <3> QED
      BY <3>1, <3>2
  <2>6. <<"some">> \in Seq({"until", "some"}) /\ Len(<<"some">>) = 1 /\ <<"some">>[1] = "some"
    OBVIOUS
  <2>7. \A j \in 1..1 : j = 1
    OBVIOUS
  <2> QED
    BY <2>1, <2>2, <2>3, <2>4, <2>5, <2>6, <2>7 DEF InLine
<1>10. Waits(<<"until", "some">>, "until") /\ Waits(<<"until", "some">>, "some") /\ ~ Waits(<<"some">>, "until")
  <2>1. /\ Len(<<"until", "some">>) = 2 /\ Len(<<"some">>) = 1 /\ 1 \in 1..2 /\ 2 \in 1..2
        /\ \A j \in 1..1 : j = 1
    OBVIOUS
  <2> QED
    BY <2>1 DEF Waits
<1> QED
  BY <1>2, <1>4, <1>7, <1>8, <1>9, <1>10

(***************************************************************************)
(* Where everything on the wire is.                                        *)
(***************************************************************************)
\* What read_buf_ holds is the wire from a up to p: while a read into it waits
\* there is only the room it was given; a completed one has filled the first n
\* units of that.
Here(w, rb, rd, rs, a, p) ==
  /\ rb \in Seq(UnitSet)
  /\ Waits(rs, "until") => rb = Grown /\ p = a
  /\ \A c \in Held(rd, "until") :
       \/ c.grown = 0 /\ c.n = 0 /\ rb = SubSeq(w, a + 1, p)
       \/ /\ c.grown = Grow /\ c.n <= Grow /\ p = a + c.n /\ Len(rb) = Grow
          /\ \A j \in 1..c.n : rb[j] = w[a + j]
          /\ \A j \in (c.n + 1)..Grow : rb[j] = Filler
  /\ None(rd, rs, "until") => rb = SubSeq(w, a + 1, p)

\* What raw_buf_ holds is the wire from p up to q.
There(w, rd, p, q) ==
  /\ \A c \in Held(rd, "some") : c.got = SubSeq(w, p + 1, q)
  /\ Held(rd, "some") = {} => q = p

\* What the socket holds is the wire from q up to n, unless a reset lost it.
Beyond(w, ib, lk, q, n) == ib = SubSeq(w, q + 1, n) \/ (lk = "reset" /\ ib = <<>>)

Between(w, a, p, q, n) ==
  /\ w \in Seq(UnitSet) /\ Len(w) \in Nat
  /\ a \in Nat /\ p \in Nat /\ q \in Nat /\ n \in Nat
  /\ a <= p /\ p <= q /\ q <= n /\ n <= Len(w)

Placed(w, a, p, q, n, rb, rd, rs, ib, lk) ==
  /\ Between(w, a, p, q, n)
  /\ Here(w, rb, rd, rs, a, p)
  /\ There(w, rd, p, q)
  /\ Beyond(w, ib, lk, q, n)

\* The room that an empty read_buf_ is given.
LEMMA GrownIs ==
  /\ Grow \in Nat /\ Grow > 0
  /\ Grown \in Seq(UnitSet) /\ Len(Grown) = Grow /\ DOMAIN Grown = 1..Grow
  /\ \A j \in 1..Grow : Grown[j] = Filler
<1>1. Grow \in Nat /\ Grow > 0
  BY WebSocketAssumption
<1>2. Filler \in UnitSet
  BY DEF Filler, Unit, UnitSet
<1>3. [j \in 1..Grow |-> Filler] \in [1..Grow -> UnitSet]
  BY <1>2
<1> QED
  BY <1>1, <1>3 DEF Grown

\* The socket holds at least n units.
Offers(w, a, p, q, s, ib, lk, n) ==
  /\ Between(w, a, p, q, s) /\ Beyond(w, ib, lk, q, s)
  /\ n \in Nat /\ n <= Len(ib)

\* They are the next n of the wire.
Gives(w, a, p, q, s, ib, lk, n) ==
  /\ q + n \in Nat
  /\ Between(w, a, p, q + n, s)
  /\ ib \in Seq(UnitSet)
  /\ SubSeq(ib, 1, n) = SubSeq(w, q + 1, q + n)
  /\ \A j \in 1..n : ib[j] = w[q + j]
  /\ Beyond(w, SubSeq(ib, n + 1, Len(ib)), lk, q + n, s)

\* What is taken from the socket is the next part of the wire.
LEMMA FromSocket ==
  ASSUME NEW w, NEW a, NEW p, NEW q, NEW s, NEW ib, NEW lk, NEW n,
         Offers(w, a, p, q, s, ib, lk, n)
  PROVE  Gives(w, a, p, q, s, ib, lk, n)
<1>0. /\ Between(w, a, p, q, s) /\ Beyond(w, ib, lk, q, s)
      /\ n \in Nat /\ n <= Len(ib)
  BY DEF Offers
<1>1. /\ w \in Seq(UnitSet) /\ Len(w) \in Nat /\ q \in Nat /\ s \in Nat /\ q <= s /\ s <= Len(w)
      /\ a \in Nat /\ p \in Nat /\ a <= p /\ p <= q
  BY <1>0 DEF Between
<1>2. CASE ib = SubSeq(w, q + 1, s)
  <2>1. ib \in Seq(UnitSet) /\ Len(ib) = s - q /\ \A j \in 1..(s - q) : ib[j] = w[q + j]
    BY <1>1, <1>2, Cut
  <2>2. n <= s - q /\ q + n \in Nat /\ q + n <= s /\ p <= q + n /\ s - q \in Nat /\ n \in Nat
    BY <1>0, <1>1, <2>1
  <2>3. SubSeq(ib, 1, n) = SubSeq(w, q + 1, q + n)
    BY <1>1, <1>2, <2>2, PrefixOfCut
  <2>4. SubSeq(ib, n + 1, s - q) = SubSeq(w, q + n + 1, q + (s - q))
    BY <1>1, <1>2, <2>2, CutOfCut
  <2>5. q + (s - q) = s
    BY <1>1
  <2>6. \A j \in 1..n : j \in 1..(s - q)
    BY <2>2
  <2> QED
    BY <1>1, <2>1, <2>2, <2>3, <2>4, <2>5, <2>6 DEF Gives, Between, Beyond
<1>3. CASE lk = "reset" /\ ib = <<>>
  <2>1. ib \in Seq(UnitSet) /\ Len(ib) = 0
    BY <1>3, EmptySeq
  <2>2. n = 0 /\ q + n = q
    BY <1>0, <1>1, <2>1
  <2>3. /\ SubSeq(ib, 1, n) = <<>> /\ SubSeq(w, q + 1, q + n) = <<>>
        /\ SubSeq(ib, n + 1, Len(ib)) = <<>>
    BY <1>1, <2>1, <2>2, SubSeqEmpty
  <2> QED
    BY <1>1, <1>3, <2>1, <2>2, <2>3 DEF Gives, Between, Beyond
<1> QED
  BY <1>0, <1>2, <1>3 DEF Beyond

\* A write of ours goes on.
LEMMA PushPlaced ==
  ASSUME NEW w, NEW a, NEW p, NEW q, NEW s, NEW rb, NEW rd, NEW rs, NEW ib, NEW lk, NEW rd2,
         Placed(w, a, p, q, s, rb, rd, rs, ib, lk), InLine(rd, rs), Pushes(rd, rd2)
  PROVE  Placed(w, a, p, q, s, rb, rd2, rs, ib, lk)
<1>1. Held(rd2, "until") = Held(rd, "until") /\ Held(rd2, "some") = Held(rd, "some")
  BY PushKeeps
<1>2. Here(w, rb, rd2, rs, a, p)
  BY <1>1 DEF Placed, Here, None
<1>3. There(w, rd2, p, q)
  BY <1>1 DEF Placed, There
<1> QED
  BY <1>2, <1>3 DEF Placed

\* The next step of a write.
LEMMA WritePlaced ==
  ASSUME NEW w, NEW a, NEW p, NEW q, NEW s, NEW rb, NEW rd, NEW rs, NEW ib, NEW lk,
         Placed(w, a, p, q, s, rb, rd, rs, ib, lk), InLine(rd, rs),
         rd # <<>>, Head(rd).op = "write"
  PROVE  Placed(w, a, p, q, s, rb, Tail(rd), rs, ib, lk)
<1>1. \A op \in {"until", "some"} : Held(Tail(rd), op) = Held(rd, op)
  <2>1. rd \in Seq(Completion)
    BY DEF InLine
  <2>2. \A op : Held(rd, op) = Held(Tail(rd), op) \cup {y \in {Head(rd)} : y.op = op}
    BY <2>1, HeldTail
  <2>3. \A op \in {"until", "some"} : {y \in {Head(rd)} : y.op = op} = {}
    OBVIOUS
  <2> QED
    BY <2>2, <2>3
<1>2. Here(w, rb, Tail(rd), rs, a, p)
  BY <1>1 DEF Placed, Here, None
<1>3. There(w, Tail(rd), p, q)
  BY <1>1 DEF Placed, There
<1> QED
  BY <1>2, <1>3 DEF Placed

\* async_read_until gets n units.
LEMMA UntilServed ==
  ASSUME NEW w, NEW a, NEW p, NEW q, NEW s, NEW rb, NEW rd, NEW rs, NEW ib, NEW lk, NEW n \in Nat, NEW rb2,
         Placed(w, a, p, q, s, rb, rd, rs, ib, lk), InLine(rd, rs),
         rs # <<>>, Head(rs) = "until", n <= Len(ib), n <= Grow,
         rb2 = [j \in DOMAIN rb |-> IF j <= n THEN ib[j] ELSE rb[j]]
  PROVE  Placed(w, a, p + n, q + n, s, rb2,
                Append(rd, UntilDone(Grow, n)), Tail(rs),
                SubSeq(ib, n + 1, Len(ib)), lk)
<1>1. rd \in Seq(Completion) /\ rs \in Seq({"until", "some"})
  BY DEF InLine
<1>2. PICK x \in Completion : /\ x = UntilDone(Grow, n) /\ x.op = "until"
                              /\ x.grown = Grow /\ x.n = n
  BY GrownIs, CompletionType
<1>3. /\ InLine(Append(rd, x), Tail(rs)) /\ None(rd, Tail(rs), "until") /\ Held(rd, "some") = {}
  BY <1>2, ServeKeeps
<1>4. Waits(rs, "until")
  <2>1. 1 \in 1..Len(rs) /\ rs[1] = "until"
    BY <1>1, EmptySeq, HeadTailProperties
  <2> QED
    BY <2>1 DEF Waits
<1>5a. Between(w, a, p, q, s) /\ Beyond(w, ib, lk, q, s)
  BY DEF Placed
<1>5. /\ Between(w, a, p, q, s) /\ Beyond(w, ib, lk, q, s)
      /\ rb = Grown /\ p = a /\ q = p
  BY <1>3, <1>4 DEF Placed, Here, There
<1>6. /\ a \in Nat /\ Len(w) \in Nat /\ s \in Nat
  BY <1>5 DEF Between
<1>7. /\ q + n \in Nat /\ Between(w, a, p, q + n, s)
      /\ ib \in Seq(UnitSet)
      /\ \A j \in 1..n : ib[j] = w[q + j]
      /\ Beyond(w, SubSeq(ib, n + 1, Len(ib)), lk, q + n, s)
  <2>1. Offers(w, a, p, q, s, ib, lk, n)
    BY <1>5a DEF Offers
  <2>2. Gives(w, a, p, q, s, ib, lk, n)
    BY ONLY <2>1, FromSocket
  <2> QED
    BY ONLY <2>2 DEF Gives
<1>8. Between(w, a, p + n, q + n, s)
  BY <1>5, <1>6, <1>7 DEF Between
<1>9. rb2 = [j \in DOMAIN rb |-> IF j <= n THEN ib[j] ELSE rb[j]]
  OBVIOUS
<1>10. /\ rb2 \in Seq(UnitSet) /\ Len(rb2) = Grow
       /\ \A j \in 1..n : rb2[j] = w[a + j]
       /\ \A j \in (n + 1)..Grow : rb2[j] = Filler
  <2>1. rb2 = [j \in 1..Grow |-> IF j <= n THEN ib[j] ELSE Grown[j]]
    BY <1>5, <1>9, GrownIs
  <2>2. Len(ib) \in Nat /\ \A j \in 1..Len(ib) : ib[j] \in UnitSet
    BY <1>7, ElementOfSeq, LenProperties
  <2>3. \A j \in 1..Grow : Grown[j] \in UnitSet
    BY GrownIs, ElementOfSeq
  <2>4. \A j \in 1..Grow : (IF j <= n THEN ib[j] ELSE Grown[j]) \in UnitSet
    BY <2>2, <2>3, GrownIs
  <2>5. rb2 \in [1..Grow -> UnitSet]
    BY <2>1, <2>4
  <2>6. rb2 \in Seq(UnitSet) /\ Len(rb2) = Grow
    BY <2>5, GrownIs
  <2>7. \A j \in 1..n : j \in 1..Grow /\ rb2[j] = w[a + j]
    BY <1>5, <1>7, <2>1, GrownIs
  <2>8. \A j \in (n + 1)..Grow : rb2[j] = Filler
    BY <2>1, GrownIs
  <2> QED
    BY <2>6, <2>7, <2>8
<1>11. PICK t : t = Append(rd, x)
  OBVIOUS
<1>12. Held(t, "until") = {x} /\ Held(t, "some") = {}
  <2>1. \A op : Held(t, op) = Held(rd, op) \cup {y \in {x} : y.op = op}
    BY <1>1, <1>11, HeldAppend
  <2> QED
    BY <1>2, <1>3, <2>1 DEF None
<1>13. Here(w, rb2, t, Tail(rs), a, p + n)
  BY <1>2, <1>3, <1>5, <1>10, <1>12 DEF Here, None
<1>14. There(w, t, p + n, q + n)
  BY <1>5, <1>12 DEF There
<1>15. PICK ib2 : ib2 = SubSeq(ib, n + 1, Len(ib))
  OBVIOUS
<1>16. Beyond(w, ib2, lk, q + n, s)
  BY ONLY <1>7, <1>15
<1>17. Placed(w, a, p + n, q + n, s, rb2, t, Tail(rs), ib2, lk)
  BY ONLY <1>8, <1>13, <1>14, <1>16 DEF Placed
<1> QED
  BY ONLY <1>2, <1>9, <1>11, <1>15, <1>17

\* async_read_some gets n units, or an error.
LEMMA SomeServed ==
  ASSUME NEW w, NEW a, NEW p, NEW q, NEW s, NEW rb, NEW rd, NEW rs, NEW ib, NEW lk, NEW n \in Nat,
         Placed(w, a, p, q, s, rb, rd, rs, ib, lk), InLine(rd, rs),
         rs # <<>>, Head(rs) = "some", n <= Len(ib)
  PROVE  Placed(w, a, p, q + n, s, rb,
                Append(rd, SomeDone(SubSeq(ib, 1, n))), Tail(rs),
                SubSeq(ib, n + 1, Len(ib)), lk)
<1>1. rd \in Seq(Completion) /\ rs \in Seq({"until", "some"})
  BY DEF InLine
<1>2. /\ Between(w, a, p, q, s) /\ Beyond(w, ib, lk, q, s)
      /\ Here(w, rb, rd, rs, a, p) /\ There(w, rd, p, q)
  BY DEF Placed
<1>2a. Between(w, a, p, q, s) /\ Beyond(w, ib, lk, q, s)
  BY DEF Placed
<1>3. /\ q + n \in Nat /\ Between(w, a, p, q + n, s)
      /\ ib \in Seq(UnitSet)
      /\ SubSeq(ib, 1, n) = SubSeq(w, q + 1, q + n)
      /\ Beyond(w, SubSeq(ib, n + 1, Len(ib)), lk, q + n, s)
  <2>1. Offers(w, a, p, q, s, ib, lk, n)
    BY <1>2a DEF Offers
  <2>2. Gives(w, a, p, q, s, ib, lk, n)
    BY ONLY <2>1, FromSocket
  <2> QED
    BY ONLY <2>2 DEF Gives
<1>4. PICK g \in Seq(UnitSet) : g = SubSeq(ib, 1, n)
  BY <1>3, FrontCut
<1>5. PICK x \in Completion : x = SomeDone(g) /\ x.op = "some" /\ x.got = g
  BY CompletionType
<1>6. /\ Held(rd, "some") = {}
      /\ Waits(rs, "until") <=> Waits(Tail(rs), "until")
  BY <1>5, ServeKeeps DEF None
<1>7. q = p
  BY <1>2, <1>6 DEF There
<1>8. PICK t : t = Append(rd, x)
  OBVIOUS
<1>9. Held(t, "some") = {x} /\ Held(t, "until") = Held(rd, "until")
  <2>1. \A op : Held(t, op) = Held(rd, op) \cup {y \in {x} : y.op = op}
    BY <1>1, <1>8, HeldAppend
  <2> QED
    BY <1>5, <1>6, <2>1
<1>10. Here(w, rb, t, Tail(rs), a, p)
  BY <1>2, <1>6, <1>9 DEF Here, None
<1>11. There(w, t, p, q + n)
  BY <1>3, <1>4, <1>5, <1>7, <1>9 DEF There
<1>12. PICK ib2 : ib2 = SubSeq(ib, n + 1, Len(ib))
  OBVIOUS
<1>13. Beyond(w, ib2, lk, q + n, s)
  BY ONLY <1>3, <1>12
<1>14. Placed(w, a, p, q + n, s, rb, t, Tail(rs), ib2, lk)
  BY ONLY <1>3, <1>10, <1>11, <1>13 DEF Placed
<1> QED
  BY ONLY <1>4, <1>5, <1>8, <1>12, <1>14

\* The handler of async_read_until cuts read_buf_ down to what was read.
LEMMA UntilHandled ==
  ASSUME NEW w, NEW a, NEW p, NEW q, NEW s, NEW rb, NEW rd, NEW rs, NEW ib, NEW lk, NEW m,
         Placed(w, a, p, q, s, rb, rd, rs, ib, lk), InLine(rd, rs),
         rd # <<>>, Head(rd).op = "until", m = Len(rb) - (Head(rd).grown - Head(rd).n)
  PROVE  Placed(w, a, p, q, s, SubSeq(rb, 1, m), Tail(rd), rs, ib, lk)
<1>1. rd \in Seq(Completion)
  BY DEF InLine
<1>2. PICK c \in Completion : c = Head(rd)
  BY <1>1, HeldTail
<1>2t. PICK t : t = Tail(rd)
  OBVIOUS
<1>3. /\ Held(rd, "until") = Held(t, "until") \cup {y \in {c} : y.op = "until"}
      /\ Held(rd, "some") = Held(t, "some") \cup {y \in {c} : y.op = "some"}
  BY <1>1, <1>2, <1>2t, HeldTail
<1>4. c \in Held(rd, "until") /\ Held(rd, "some") = Held(t, "some")
  BY <1>2, <1>3
<1>5. None(t, rs, "until")
  BY <1>2, <1>2t, RunKeeps
<1>6. /\ Between(w, a, p, q, s) /\ There(w, rd, p, q) /\ Beyond(w, ib, lk, q, s)
      /\ rb \in Seq(UnitSet) /\ Len(rb) \in Nat
      /\ \/ c.grown = 0 /\ c.n = 0 /\ rb = SubSeq(w, a + 1, p)
         \/ /\ c.grown = Grow /\ c.n <= Grow /\ p = a + c.n /\ Len(rb) = Grow
            /\ \A j \in 1..c.n : rb[j] = w[a + j]
  BY <1>4, LenProperties DEF Placed, Here
<1>7. SubSeq(rb, 1, m) = SubSeq(w, a + 1, p) /\ SubSeq(rb, 1, m) \in Seq(UnitSet)
  <2>1. CASE c.grown = 0 /\ c.n = 0 /\ rb = SubSeq(w, a + 1, p)
    <3>1. m = Len(rb)
      BY <1>2, <1>6, <2>1
    <3> QED
      BY <1>6, <2>1, <3>1, SubSeqFull
  <2>2. CASE /\ c.grown = Grow /\ c.n <= Grow /\ p = a + c.n /\ Len(rb) = Grow
             /\ \A j \in 1..c.n : rb[j] = w[a + j]
    <3>1. PICK n \in Nat : n = c.n
      BY <1>2, CompletionType
    <3>2. m = n /\ n <= Len(rb)
      BY <1>2, <2>2, <3>1, GrownIs
    <3>3. /\ SubSeq(rb, 1, n) \in Seq(UnitSet) /\ Len(SubSeq(rb, 1, n)) = n
          /\ \A k \in 1..n : SubSeq(rb, 1, n)[k] = rb[k]
      BY <1>6, <3>2, FrontCut
    <3>4. a \in Nat /\ a <= p /\ p \in Nat /\ p <= Len(w) /\ w \in Seq(UnitSet) /\ p - a = n
      BY <1>6, <2>2, <3>1 DEF Between
    <3>5. /\ SubSeq(w, a + 1, p) \in Seq(UnitSet) /\ Len(SubSeq(w, a + 1, p)) = n
          /\ \A k \in 1..n : SubSeq(w, a + 1, p)[k] = w[a + k]
      BY <3>4, Cut
    <3>6. PICK x, y : x = SubSeq(rb, 1, n) /\ y = SubSeq(w, a + 1, p)
      OBVIOUS
    <3>7. x \in Seq(UnitSet) /\ y \in Seq(UnitSet) /\ Len(x) = Len(y) /\ \A k \in 1..Len(x) : x[k] = y[k]
      BY <2>2, <3>1, <3>3, <3>5, <3>6
    <3>8. x = y
      BY ONLY <3>7, SeqEqual
    <3> QED
      BY <3>2, <3>3, <3>6, <3>8
  <2> QED
    BY <1>6, <2>1, <2>2
<1>8. PICK rb2 : rb2 = SubSeq(rb, 1, m)
  OBVIOUS
<1>9. Here(w, rb2, t, rs, a, p)
  BY <1>5, <1>7, <1>8 DEF Here, None
<1>10. There(w, t, p, q)
  BY <1>4, <1>6 DEF There
<1>11. Placed(w, a, p, q, s, rb2, t, rs, ib, lk)
  BY ONLY <1>6, <1>9, <1>10 DEF Placed
<1> QED
  BY ONLY <1>2t, <1>8, <1>11

\* The handler of async_read_some moves what raw_buf_ holds to read_buf_.
LEMMA SomeHandled ==
  ASSUME NEW w, NEW a, NEW p, NEW q, NEW s, NEW rb, NEW rd, NEW rs, NEW ib, NEW lk,
         Placed(w, a, p, q, s, rb, rd, rs, ib, lk), InLine(rd, rs),
         rd # <<>>, Head(rd).op = "some"
  PROVE  /\ Placed(w, a, q, q, s, rb \o Head(rd).got, Tail(rd), rs, ib, lk)
         /\ rb \in Seq(UnitSet)
<1>1. rd \in Seq(Completion)
  BY DEF InLine
<1>2. PICK c \in Completion : c = Head(rd)
  BY <1>1, HeldTail
<1>2t. PICK t : t = Tail(rd)
  OBVIOUS
<1>3. /\ Held(rd, "until") = Held(t, "until") \cup {y \in {c} : y.op = "until"}
      /\ Held(rd, "some") = Held(t, "some") \cup {y \in {c} : y.op = "some"}
  BY <1>1, <1>2, <1>2t, HeldTail
<1>4. c \in Held(rd, "some") /\ Held(rd, "until") = Held(t, "until")
  BY <1>2, <1>3
<1>5. None(t, rs, "until") /\ None(t, rs, "some")
  BY <1>2, <1>2t, RunKeeps
<1>6. /\ Between(w, a, p, q, s) /\ Beyond(w, ib, lk, q, s)
      /\ rb = SubSeq(w, a + 1, p) /\ c.got = SubSeq(w, p + 1, q) /\ rb \in Seq(UnitSet)
  BY <1>4, <1>5 DEF Placed, Here, There, None
<1>7. /\ a \in Nat /\ p \in Nat /\ q \in Nat /\ a <= p /\ p <= q /\ q <= Len(w)
      /\ w \in Seq(UnitSet) /\ a <= q
  BY <1>6 DEF Between
<1>8. PICK rb2 : rb2 = rb \o c.got
  OBVIOUS
<1>9. rb2 = SubSeq(w, a + 1, q) /\ rb2 \in Seq(UnitSet)
  <2>1. SubSeq(w, a + 1, p) \o SubSeq(w, p + 1, q) = SubSeq(w, a + 1, q)
    BY ONLY <1>7, Join
  <2>2. SubSeq(w, a + 1, q) \in Seq(UnitSet)
    BY ONLY <1>7, Cut
  <2>3. rb2 = SubSeq(w, a + 1, q)
    BY ONLY <1>6, <1>8, <2>1
  <2> QED
    BY ONLY <2>2, <2>3
<1>10. Between(w, a, q, q, s)
  BY <1>6, <1>7 DEF Between
<1>11. Here(w, rb2, t, rs, a, q)
  BY <1>5, <1>9 DEF Here, None
<1>12. There(w, t, q, q)
  BY <1>5 DEF There, None
<1>13. Placed(w, a, q, q, s, rb2, t, rs, ib, lk)
  BY ONLY <1>6, <1>10, <1>11, <1>12 DEF Placed
<1> QED
  BY ONLY <1>2, <1>2t, <1>6, <1>8, <1>13

\* m units at the front of read_buf_ are erased.
LEMMA Erased ==
  ASSUME NEW w, NEW a, NEW p, NEW q, NEW s, NEW rb, NEW rd, NEW rs, NEW ib, NEW lk,
         NEW m \in Nat, NEW a2,
         Placed(w, a, p, q, s, rb, rd, rs, ib, lk), None(rd, rs, "until"), m <= Len(rb),
         a2 = a + m
  PROVE  Placed(w, a2, p, q, s, SubSeq(rb, m + 1, Len(rb)), rd, rs, ib, lk)
<1>1. /\ Between(w, a, p, q, s) /\ There(w, rd, p, q) /\ Beyond(w, ib, lk, q, s)
      /\ rb = SubSeq(w, a + 1, p) /\ rb \in Seq(UnitSet)
  BY DEF Placed, Here
<1>2. /\ a \in Nat /\ p \in Nat /\ a <= p /\ p <= Len(w) /\ w \in Seq(UnitSet)
  BY <1>1 DEF Between
<1>3. Len(rb) = p - a
  BY <1>1, <1>2, Cut
<1>4. a2 \in Nat /\ a2 <= p /\ p - a \in Nat /\ m <= p - a /\ a + (p - a) = p
  BY <1>2, <1>3
<1>5. PICK rb2 : rb2 = SubSeq(rb, m + 1, Len(rb))
  OBVIOUS
<1>6. rb2 = SubSeq(w, a2 + 1, p)
  <2>1. SubSeq(SubSeq(w, a + 1, p), m + 1, p - a) = SubSeq(w, a + m + 1, a + (p - a))
    BY <1>2, <1>4, CutOfCut
  <2> QED
    BY <1>1, <1>3, <1>4, <1>5, <2>1
<1>7. rb2 \in Seq(UnitSet)
  BY <1>2, <1>4, <1>6, Cut
<1>8. Between(w, a2, p, q, s)
  BY <1>1, <1>4 DEF Between
<1>9. Here(w, rb2, rd, rs, a2, p)
  BY <1>6, <1>7 DEF Here, None
<1>10. Placed(w, a2, p, q, s, rb2, rd, rs, ib, lk)
  BY ONLY <1>1, <1>8, <1>9 DEF Placed
<1> QED
  BY ONLY <1>5, <1>10

\* The reads start again.
LEMMA StartPlaced ==
  ASSUME NEW w, NEW a, NEW p, NEW q, NEW s, NEW rb, NEW rd, NEW rs, NEW ib, NEW lk,
         Placed(w, a, p, q, s, rb, rd, rs, ib, lk), InLine(rd, rs),
         None(rd, rs, "until"), None(rd, rs, "some")
  PROVE  /\ rb = <<>> => Placed(w, a, p, q, s, Grown, rd, rs \o <<"until", "some">>, ib, lk)
         /\ Placed(w, a, p, q, s, rb, Append(rd, UntilDone(0, 0)), Append(rs, "some"), ib, lk)
         /\ Placed(w, a, p, q, s, rb, rd, Append(rs, "some"), ib, lk)
<1>1. /\ Between(w, a, p, q, s) /\ There(w, rd, p, q) /\ Beyond(w, ib, lk, q, s)
      /\ rb = SubSeq(w, a + 1, p) /\ rb \in Seq(UnitSet)
  BY DEF Placed, Here
<1>2. /\ a \in Nat /\ p \in Nat /\ a <= p /\ p <= Len(w) /\ w \in Seq(UnitSet)
  BY <1>1 DEF Between
<1>3. rb = <<>> => p = a
  BY <1>1, <1>2, Cut, EmptySeq
<1>4. PICK u, v : u = rs \o <<"until", "some">> /\ v = Append(rs, "some")
  OBVIOUS
<1>5. Waits(u, "until") /\ ~ Waits(v, "until")
  BY <1>4, StartKeeps
<1>6. Held(rd, "until") = {} /\ Held(rd, "some") = {} /\ q = p
  BY <1>1 DEF None, There
<1>7. ASSUME rb = <<>> PROVE Placed(w, a, p, q, s, Grown, rd, u, ib, lk)
  <2>1. Here(w, Grown, rd, u, a, p)
    BY <1>3, <1>5, <1>6, <1>7, GrownIs DEF Here, None
  <2> QED
    BY ONLY <1>1, <2>1 DEF Placed
<1>8. Placed(w, a, p, q, s, rb, rd, v, ib, lk)
  <2>1. Here(w, rb, rd, v, a, p)
    BY <1>1, <1>5, <1>6 DEF Here, None
  <2> QED
    BY ONLY <1>1, <2>1 DEF Placed
<1>9. Placed(w, a, p, q, s, rb, Append(rd, UntilDone(0, 0)), v, ib, lk)
  <2>1. rd \in Seq(Completion)
    BY DEF InLine
  <2>2a. /\ UntilDone(0, 0) \in Completion /\ UntilDone(0, 0).op = "until"
         /\ UntilDone(0, 0).grown = 0 /\ UntilDone(0, 0).n = 0
    BY ONLY CompletionType, 0 \in Nat
  <2>2. PICK x \in Completion : /\ x = UntilDone(0, 0) /\ x.op = "until"
                                /\ x.grown = 0 /\ x.n = 0
    BY ONLY <2>2a
  <2>3. PICK t : t = Append(rd, x)
    OBVIOUS
  <2>4. \A op : Held(t, op) = Held(rd, op) \cup {y \in {x} : y.op = op}
    BY <2>1, <2>3, HeldAppend
  <2>5. Held(t, "until") = {x} /\ Held(t, "some") = {}
    BY <1>6, <2>2, <2>4
  <2>6. Here(w, rb, t, v, a, p)
    BY <1>1, <1>5, <2>2, <2>5 DEF Here, None
  <2>7. There(w, t, p, q)
    BY <1>6, <2>5 DEF There
  <2>8. Placed(w, a, p, q, s, rb, t, v, ib, lk)
    BY ONLY <1>1, <2>6, <2>7 DEF Placed
  <2> QED
    BY ONLY <2>2, <2>3, <2>8
<1> QED
  BY ONLY <1>4, <1>7, <1>8, <1>9

\* The peer sends one more unit.
LEMMA SendPlaced ==
  ASSUME NEW w, NEW a, NEW p, NEW q, NEW s, NEW rb, NEW rd, NEW rs, NEW ib, NEW s2,
         Placed(w, a, p, q, s, rb, rd, rs, ib, "up"), s < Len(w), s2 = s + 1
  PROVE  Placed(w, a, p, q, s2, rb, rd, rs, Append(ib, w[s2]), "up")
<1>1. /\ Between(w, a, p, q, s) /\ ib = SubSeq(w, q + 1, s)
      /\ Here(w, rb, rd, rs, a, p) /\ There(w, rd, p, q)
  BY DEF Placed, Beyond
<1>2. w \in Seq(UnitSet) /\ q \in Nat /\ s \in Nat /\ q <= s /\ Len(w) \in Nat
  BY <1>1 DEF Between
<1>3. Between(w, a, p, q, s2)
  BY <1>1 DEF Between
<1>4. PICK ib2 : ib2 = Append(ib, w[s2])
  OBVIOUS
<1>5. ib2 = SubSeq(w, q + 1, s2)
  <2>1. q + 1 \in 1..Len(w) /\ s2 \in (q + 1)..Len(w) /\ s2 - 1 = s /\ s2 \in 1..Len(w)
    BY <1>2
  <2>2. SubSeq(w, q + 1, s2) = SubSeq(w, q + 1, s) \o <<w[s2]>>
    BY <1>2, <2>1, SubSeqRecursiveSecond
  <2>3. ib \in Seq(UnitSet) /\ w[s2] \in UnitSet
    BY <1>1, <1>2, <2>1, Cut, ElementOfSeq
  <2>4. Append(ib, w[s2]) = ib \o <<w[s2]>>
    BY ONLY <2>3, AppendIsConcat
  <2> QED
    BY <1>1, <1>4, <2>2, <2>4
<1>6. Beyond(w, ib2, "up", q, s2)
  BY <1>5 DEF Beyond
<1>7. Placed(w, a, p, q, s2, rb, rd, rs, ib2, "up")
  BY ONLY <1>1, <1>3, <1>6 DEF Placed
<1> QED
  BY ONLY <1>4, <1>7

\* The peer closes, or resets the connection.
LEMMA ClosePlaced ==
  ASSUME NEW w, NEW a, NEW p, NEW q, NEW s, NEW rb, NEW rd, NEW rs, NEW ib, NEW ib2, NEW lk,
         Placed(w, a, p, q, s, rb, rd, rs, ib, "up"),
         ib2 = ib \/ (lk = "reset" /\ ib2 = <<>>)
  PROVE  Placed(w, a, p, q, s, rb, rd, rs, ib2, lk)
  BY DEF Placed, Beyond

\* The client reads a part of the response to its handshake.
LEMMA ResponsePlaced ==
  ASSUME NEW w, NEW a, NEW p, NEW q, NEW s, NEW rb, NEW ib, NEW lk, NEW n \in Nat,
         Placed(w, a, p, q, s, rb, <<>>, <<>>, ib, lk), n <= Len(ib)
  PROVE  Placed(w, a, q + n, q + n, s, rb \o SubSeq(ib, 1, n), <<>>, <<>>,
                SubSeq(ib, n + 1, Len(ib)), lk)
<1>1. (\A op : Held(<<>>, op) = {}) /\ (\A op : ~ Waits(<<>>, op))
  BY EmptySeq DEF Held, Waits
<1>2. /\ Between(w, a, p, q, s) /\ Beyond(w, ib, lk, q, s)
      /\ rb = SubSeq(w, a + 1, p) /\ q = p
  BY <1>1 DEF Placed, Here, There, None
<1>3. Gives(w, a, p, q, s, ib, lk, n)
  <2>1. Offers(w, a, p, q, s, ib, lk, n)
    BY <1>2 DEF Offers
  <2> QED
    BY ONLY <2>1, FromSocket
<1>4. PICK r \in Nat : r = q + n
  BY <1>3 DEF Gives
<1>5. /\ Between(w, a, p, r, s)
      /\ SubSeq(ib, 1, n) = SubSeq(w, q + 1, r)
      /\ Beyond(w, SubSeq(ib, n + 1, Len(ib)), lk, r, s)
  BY <1>3, <1>4 DEF Gives
<1>6. Between(w, a, r, r, s)
  BY <1>5 DEF Between
<1>7. PICK rb2, ib2 : rb2 = rb \o SubSeq(ib, 1, n) /\ ib2 = SubSeq(ib, n + 1, Len(ib))
  OBVIOUS
<1>8. rb2 = SubSeq(w, a + 1, r) /\ rb2 \in Seq(UnitSet)
  <2>1. /\ w \in Seq(UnitSet) /\ a \in Nat /\ p \in Nat /\ a <= p /\ p <= r /\ r <= Len(w) /\ a <= r
    BY <1>5, <1>6 DEF Between
  <2>2. SubSeq(w, a + 1, p) \o SubSeq(w, p + 1, r) = SubSeq(w, a + 1, r)
    BY <2>1, Join
  <2>3. SubSeq(w, a + 1, r) \in Seq(UnitSet)
    BY ONLY <2>1, <1>4, Cut
  <2>4. rb2 = SubSeq(w, a + 1, p) \o SubSeq(w, p + 1, r)
    BY ONLY <1>2, <1>5, <1>7
  <2> QED
    BY ONLY <2>2, <2>3, <2>4
<1>9. Here(w, rb2, <<>>, <<>>, a, r) /\ There(w, <<>>, r, r)
  BY <1>1, <1>8 DEF Here, There, None
<1>10. Beyond(w, ib2, lk, r, s)
  BY ONLY <1>5, <1>7
<1>11. Placed(w, a, r, r, s, rb2, <<>>, <<>>, ib2, lk)
  BY ONLY <1>6, <1>9, <1>10 DEF Placed
<1> QED
  BY ONLY <1>4, <1>7, <1>11

(***************************************************************************)
(* The output.                                                             *)
(***************************************************************************)
\* The frames that send() was called with.
AllUnits(n) == FlattenSeq([k \in 1..n |-> OutUnits(k)])

\* y is what is left of the frames when the socket has accepted the others: it
\* waits for the socket, or for the event loop, if there is any.
Sole(rd, y) ==
  \E i \in 1..Len(rd) :
    /\ rd[i] = Partial(y)
    /\ \A j \in 1..Len(rd) : rd[j].op = "write" => j = i

Left(rd, ws, y) ==
  \/ ws = <<>> /\ Held(rd, "write") = {} /\ y = <<>>
  \/ ws = <<y>> /\ Held(rd, "write") = {}
  \/ ws = <<>> /\ Sole(rd, y)

GoesOut(fails, n, rd, ws, o) ==
  \E y \in Seq(UnitSet) : o \o y = AllUnits(n) /\ (fails \/ Left(rd, ws, y))

\* Write(wire, queue).
Writes(fails, wire, queue, ws, o, rd2, ws2, o2) ==
  \/ fails /\ rd2 = queue /\ ws2 = ws /\ o2 = o
  \/ ~ fails /\ ws # <<>> /\ ws2 = Append(ws, wire) /\ rd2 = queue /\ o2 = o
  \/ /\ ~ fails /\ ws = <<>>
     /\ \E n \in 0..Len(wire) :
          LET rest == SubSeq(wire, n + 1, Len(wire))
          IN  /\ o2 = o \o SubSeq(wire, 1, n)
              /\ ws2 = IF n = 0 THEN <<wire>> ELSE <<>>
              /\ rd2 = IF n = 0 \/ rest = <<>> THEN queue ELSE Append(queue, Partial(rest))

\* What the action Write does, as a relation.
LEMMA WriteIs ==
  ASSUME NEW wire, NEW queue, Write(wire, queue)
  PROVE  Writes(WriteFails, wire, queue, writers, out, ready', writers', out')
  BY DEF Write, Writes, writing

\* The units of an outgoing frame.
LEMMA OutUnitsType == \A n \in Nat : OutUnits(n) \in Seq(UnitSet) /\ Len(OutUnits(n)) = 2
  BY FrameUnitsType DEF OutUnits

\* One more send().
LEMMA AllUnitsNext ==
  ASSUME NEW n \in Nat
  PROVE  AllUnits(n) \in Seq(UnitSet) /\ AllUnits(n + 1) = AllUnits(n) \o OutUnits(n + 1)
<1> DEFINE h == [k \in 1..(n + 1) |-> OutUnits(k)]
<1>1. \A k \in 1..(n + 1) : h[k] \in Seq(UnitSet)
  BY OutUnitsType
<1>2. /\ FlattenSeq([k \in 1..n |-> h[k]]) \in Seq(UnitSet)
      /\ FlattenSeq([k \in 1..(n + 1) |-> h[k]]) = FlattenSeq([k \in 1..n |-> h[k]]) \o h[n + 1]
  <2> HIDE DEF h
  <2> QED
    BY <1>1, FlattenNext
<1>3. [k \in 1..n |-> h[k]] = [k \in 1..n |-> OutUnits(k)]
  OBVIOUS
<1>4. [k \in 1..(n + 1) |-> h[k]] = [k \in 1..(n + 1) |-> OutUnits(k)]
  OBVIOUS
<1>5. h[n + 1] = OutUnits(n + 1)
  OBVIOUS
<1> QED
  BY <1>2, <1>3, <1>4, <1>5 DEF AllUnits

\* What a write does to its surroundings.
LEMMA WriteKeeps ==
  ASSUME NEW fails, NEW wire \in Seq(UnitSet), NEW queue, NEW ws \in Seq(Seq(UnitSet)),
         NEW o \in Seq(UnitSet), NEW rd2, NEW ws2, NEW o2,
         Writes(fails, wire, queue, ws, o, rd2, ws2, o2)
  PROVE  Pushes(queue, rd2) /\ ws2 \in Seq(Seq(UnitSet)) /\ o2 \in Seq(UnitSet)
<1>1. CASE fails /\ rd2 = queue /\ ws2 = ws /\ o2 = o
  BY <1>1 DEF Pushes
<1>2. CASE ws2 = Append(ws, wire) /\ rd2 = queue /\ o2 = o
  BY <1>2, AppendProperties DEF Pushes
<1>3. ASSUME NEW n \in 0..Len(wire),
             o2 = o \o SubSeq(wire, 1, n),
             ws2 = IF n = 0 THEN <<wire>> ELSE <<>>,
             rd2 = IF n = 0 \/ SubSeq(wire, n + 1, Len(wire)) = <<>> THEN queue
                   ELSE Append(queue, Partial(SubSeq(wire, n + 1, Len(wire))))
      PROVE  Pushes(queue, rd2) /\ ws2 \in Seq(Seq(UnitSet)) /\ o2 \in Seq(UnitSet)
  <2>1. Len(wire) \in Nat /\ n \in Nat /\ n <= Len(wire)
    BY LenProperties
  <2>2. SubSeq(wire, 1, n) \in Seq(UnitSet)
    BY <2>1, FrontCut
  <2>3. SubSeq(wire, n + 1, Len(wire)) \in Seq(UnitSet)
    BY <2>1, Cut
  <2>4. o2 \in Seq(UnitSet)
    BY <1>3, <2>2, ConcatProperties
  <2>5. ws2 \in Seq(Seq(UnitSet))
    BY <1>3, EmptySeq
  <2>6. Pushes(queue, rd2)
    BY ONLY <1>3, <2>3 DEF Pushes
  <2> QED
    BY <2>4, <2>5, <2>6
<1> QED
  BY <1>1, <1>2, <1>3 DEF Writes

\* A write goes on at the end of the queue, or is started there.
LEMMA PartialIsSole ==
  ASSUME NEW rd \in Seq(Completion), NEW y \in Seq(UnitSet), Held(rd, "write") = {}
  PROVE  Sole(Append(rd, Partial(y)), y)
<1>1. PICK x \in Completion : x = Partial(y)
  BY CompletionType
<1>2. PICK t : t = Append(rd, x)
  OBVIOUS
<1>3. PICK n \in Nat : n = Len(rd)
  BY LenProperties
<1>4. Len(t) = n + 1 /\ (\A i \in 1..n : t[i] = rd[i]) /\ t[n + 1] = x
  BY <1>2, <1>3, HeldAppend
<1>5. \A i \in 1..n : rd[i].op # "write"
  BY <1>3, HeldEmpty
<1>6. n + 1 \in 1..(n + 1) /\ \A j \in 1..(n + 1) : j \in 1..n \/ j = n + 1
  OBVIOUS
<1>7. Sole(t, y)
  BY <1>1, <1>4, <1>5, <1>6 DEF Sole
<1> QED
  BY <1>1, <1>2, <1>7

\* The one that the event loop goes on with is not among those left.
LEMMA HeadIsSole ==
  ASSUME NEW rd \in Seq(Completion), NEW y \in Seq(UnitSet), Sole(rd, y),
         rd # <<>>, Head(rd).op = "write"
  PROVE  Head(rd).rest = y /\ Held(Tail(rd), "write") = {}
<1>1. PICK t : t = Tail(rd)
  OBVIOUS
<1>2. PICK n \in Nat : n = Len(rd) /\ n >= 1
  BY HeldTail
<1>3. /\ Head(rd) = rd[1] /\ t \in Seq(Completion) /\ Len(t) = n - 1
      /\ \A i \in 1..(n - 1) : t[i] = rd[i + 1]
  BY <1>1, <1>2, HeldTail
<1>4. PICK i \in 1..n : rd[i] = Partial(y) /\ \A j \in 1..n : rd[j].op = "write" => j = i
  BY <1>2 DEF Sole
<1>5. i = 1
  BY <1>2, <1>3, <1>4
<1>6. Head(rd).rest = y
  BY <1>3, <1>4, <1>5, CompletionType
<1>7. ASSUME NEW j \in 1..(n - 1) PROVE t[j].op # "write"
  <2>1. j + 1 \in 1..n /\ j + 1 # 1
    BY <1>2
  <2>2. rd[j + 1].op # "write"
    BY <1>4, <1>5, <2>1
  <2> QED
    BY <1>3, <2>2
<1>8. Held(t, "write") = {}
  BY <1>3, <1>7, HeldEmpty
<1> QED
  BY <1>1, <1>6, <1>8

\* What the event loop and the socket do to the reads is of no account to the
\* output.
LEMMA LeftAppend ==
  ASSUME NEW rd \in Seq(Completion), NEW ws, NEW y, Left(rd, ws, y),
         NEW x \in Completion, x.op # "write"
  PROVE  Left(Append(rd, x), ws, y)
<1>1. PICK t : t = Append(rd, x)
  OBVIOUS
<1>2. PICK n \in Nat : n = Len(rd)
  BY LenProperties
<1>3. /\ Len(t) = n + 1 /\ (\A i \in 1..n : t[i] = rd[i]) /\ t[n + 1] = x
      /\ \A op : Held(t, op) = Held(rd, op) \cup {z \in {x} : z.op = op}
  BY <1>1, <1>2, HeldAppend
<1>4. Held(rd, "write") = {} => Held(t, "write") = {}
  BY <1>3
<1>5. ASSUME Sole(rd, y) PROVE Sole(t, y)
  <2>1. PICK i \in 1..n : rd[i] = Partial(y) /\ \A j \in 1..n : rd[j].op = "write" => j = i
    BY <1>2, <1>5 DEF Sole
  <2>2. i \in 1..(n + 1) /\ \A j \in 1..(n + 1) : j \in 1..n \/ j = n + 1
    OBVIOUS
  <2> QED
    BY <1>3, <2>1, <2>2 DEF Sole
<1>6. Left(t, ws, y)
  BY <1>4, <1>5 DEF Left
<1> QED
  BY <1>1, <1>6

\* The handler of a read takes nothing of the output away.
LEMMA LeftTail ==
  ASSUME NEW rd \in Seq(Completion), NEW ws, NEW y \in Seq(UnitSet), Left(rd, ws, y),
         rd # <<>>, Head(rd).op # "write"
  PROVE  Left(Tail(rd), ws, y)
<1>1. PICK t : t = Tail(rd)
  OBVIOUS
<1>2. PICK n \in Nat : n = Len(rd) /\ n >= 1
  BY HeldTail
<1>3. /\ Head(rd) = rd[1] /\ t \in Seq(Completion) /\ Len(t) = n - 1
      /\ \A i \in 1..(n - 1) : t[i] = rd[i + 1]
      /\ \A op : Held(rd, op) = Held(t, op) \cup {z \in {Head(rd)} : z.op = op}
  BY <1>1, <1>2, HeldTail
<1>4. Held(rd, "write") = {} => Held(t, "write") = {}
  BY <1>3
<1>5. ASSUME Sole(rd, y) PROVE Sole(t, y)
  <2>1. PICK i \in 1..n : rd[i] = Partial(y) /\ \A j \in 1..n : rd[j].op = "write" => j = i
    BY <1>2, <1>5 DEF Sole
  <2>2. i # 1
    BY <1>3, <2>1, CompletionType
  <2>3. i - 1 \in 1..(n - 1) /\ (i - 1) + 1 = i
    BY <2>2
  <2>4. t[i - 1] = Partial(y)
    BY <1>3, <2>1, <2>3
  <2>5. ASSUME NEW j \in 1..(n - 1), t[j].op = "write" PROVE j = i - 1
    <3>1. j + 1 \in 1..n /\ rd[j + 1].op = "write"
      BY <1>2, <1>3, <2>5
    <3>2. j + 1 = i
      BY <2>1, <3>1
    <3> QED
      BY <3>2
  <2> QED
    BY <1>3, <2>3, <2>4, <2>5 DEF Sole
<1>6. Left(t, ws, y)
  BY <1>4, <1>5 DEF Left
<1> QED
  BY <1>1, <1>6

\* A write takes over all that is left.
LEMMA WriteGoes ==
  ASSUME NEW fails, NEW n, NEW wire \in Seq(UnitSet), NEW queue \in Seq(Completion), NEW ws,
         NEW o \in Seq(UnitSet), NEW rd2, NEW ws2, NEW o2,
         Writes(fails, wire, queue, ws, o, rd2, ws2, o2),
         o \o wire = AllUnits(n),
         fails \/ (ws = <<>> /\ Held(queue, "write") = {})
  PROVE  GoesOut(fails, n, rd2, ws2, o2)
<1>1. CASE fails
  <2>1. o2 = o
    BY <1>1 DEF Writes
  <2> QED
    BY <1>1, <2>1 DEF GoesOut
<1>2. CASE ~ fails
  <2>1. PICK m \in 0..Len(wire) :
          /\ o2 = o \o SubSeq(wire, 1, m)
          /\ ws2 = IF m = 0 THEN <<wire>> ELSE <<>>
          /\ rd2 = IF m = 0 \/ SubSeq(wire, m + 1, Len(wire)) = <<>> THEN queue
                   ELSE Append(queue, Partial(SubSeq(wire, m + 1, Len(wire))))
    BY <1>2 DEF Writes
  <2>2. Len(wire) \in Nat /\ m \in Nat /\ m <= Len(wire)
    BY LenProperties
  <2>3. PICK x \in Seq(UnitSet) : x = SubSeq(wire, 1, m)
    BY <2>2, FrontCut
  <2>3a. PICK l \in Nat : l = Len(wire) /\ m <= l /\ l <= Len(wire)
    BY <2>2
  <2>3b. SubSeq(wire, m + 1, l) \in Seq(UnitSet)
    BY ONLY <2>2, <2>3a, wire \in Seq(UnitSet), Cut
  <2>4. PICK y \in Seq(UnitSet) : y = SubSeq(wire, m + 1, Len(wire))
    BY ONLY <2>3a, <2>3b
  <2>5. x \o y = wire
    <3>1. SubSeq(wire, 0 + 1, m) \o SubSeq(wire, m + 1, l) = SubSeq(wire, 0 + 1, l)
      <4>1. 0 \in Nat /\ 0 <= m
        BY ONLY <2>2
      <4> QED
        BY ONLY <2>2, <2>3a, <4>1, wire \in Seq(UnitSet), Join
    <3>2. SubSeq(wire, 1, l) = wire
      BY <2>3a, SubSeqFull
    <3>3. 0 + 1 = 1
      OBVIOUS
    <3> QED
      BY ONLY <2>3, <2>3a, <2>4, <3>1, <3>2, <3>3
  <2>6. o2 \o y = AllUnits(n)
    <3>1. (o \o x) \o y = o \o (x \o y)
      OBVIOUS
    <3> QED
      BY ONLY <2>1, <2>3, <2>5, <3>1, o \o wire = AllUnits(n)
  <2>7. Held(queue, "write") = {}
    BY <1>2
  <2>8. CASE m = 0
    <3>1. y = wire
      BY <2>4, <2>8, SubSeqFull
    <3>2. rd2 = queue /\ ws2 = <<y>>
      BY ONLY <2>1, <2>8, <3>1
    <3>3. Left(rd2, ws2, y)
      BY ONLY <2>7, <3>2 DEF Left
    <3> QED
      BY <2>6, <3>3 DEF GoesOut
  <2>9. CASE m # 0 /\ y = <<>>
    <3>1. rd2 = queue /\ ws2 = <<>>
      BY ONLY <2>1, <2>4, <2>9
    <3>2. Left(rd2, ws2, y)
      BY ONLY <2>7, <2>9, <3>1 DEF Left
    <3> QED
      BY <2>6, <3>2 DEF GoesOut
  <2>10. CASE m # 0 /\ y # <<>>
    <3>1. rd2 = Append(queue, Partial(y)) /\ ws2 = <<>>
      BY ONLY <2>1, <2>4, <2>10
    <3>2. Sole(rd2, y)
      BY <2>7, <3>1, PartialIsSole
    <3>3. Left(rd2, ws2, y)
      BY ONLY <3>1, <3>2 DEF Left
    <3> QED
      BY <2>6, <3>3 DEF GoesOut
  <2> QED
    BY <2>8, <2>9, <2>10
<1> QED
  BY <1>1, <1>2

\* send(), when no write is under way.
LEMMA SendGoes ==
  ASSUME NEW fails, NEW n \in Nat, NEW n2, n2 = n + 1, NEW rd \in Seq(Completion), NEW ws, NEW o \in Seq(UnitSet),
         GoesOut(fails, n, rd, ws, o), ws = <<>>, Held(rd, "write") = {},
         NEW rd2, NEW ws2, NEW o2,
         Writes(fails, OutUnits(n2), rd, ws, o, rd2, ws2, o2)
  PROVE  GoesOut(fails, n2, rd2, ws2, o2)
<1>1. PICK y \in Seq(UnitSet) : o \o y = AllUnits(n) /\ (fails \/ Left(rd, ws, y))
  BY DEF GoesOut
<1>2. PICK u \in Seq(UnitSet) : u = OutUnits(n2)
  BY OutUnitsType
<1>3. (o \o y) \o u = AllUnits(n2)
  BY <1>1, <1>2, AllUnitsNext
<1>4. (o \o y) \o u = o \o (y \o u)
  OBVIOUS
<1>5. CASE fails
  <2>1. o2 = o
    BY <1>5 DEF Writes
  <2>2. PICK z \in Seq(UnitSet) : z = y \o u
    BY ConcatProperties
  <2>3. o2 \o z = AllUnits(n2)
    BY ONLY <1>3, <1>4, <2>1, <2>2
  <2> QED
    BY <1>5, <2>3 DEF GoesOut
<1>6. CASE ~ fails
  <2>1. y = <<>>
    <3>1. ~ Sole(rd, y)
      <4>1. SUFFICES ASSUME NEW i \in 1..Len(rd), rd[i] = Partial(y) PROVE FALSE
        BY DEF Sole
      <4>2. rd[i].op # "write"
        BY HeldEmpty
      <4> QED
        BY <4>1, <4>2, CompletionType
    <3>2. <<>> # <<y>>
      <4>1. Len(<<y>>) = 1 /\ Len(<<>>) = 0
        OBVIOUS
      <4> QED
        BY <4>1
    <3> QED
      BY <1>1, <1>6, <3>1, <3>2 DEF Left
  <2>2. o \o u = AllUnits(n2)
    BY <1>3, <2>1, ConcatEmptySeq
  <2>3. Writes(fails, u, rd, ws, o, rd2, ws2, o2)
    BY ONLY <1>2, Writes(fails, OutUnits(n2), rd, ws, o, rd2, ws2, o2)
  <2> QED
    BY <2>2, <2>3, WriteGoes
<1> QED
  BY <1>5, <1>6

\* The next step of a write.
LEMMA NextGoes ==
  ASSUME NEW fails, NEW n, NEW rd \in Seq(Completion), NEW ws, NEW o \in Seq(UnitSet),
         GoesOut(fails, n, rd, ws, o), rd # <<>>, Head(rd).op = "write",
         NEW rd2, NEW ws2, NEW o2,
         Writes(fails, Head(rd).rest, Tail(rd), ws, o, rd2, ws2, o2)
  PROVE  GoesOut(fails, n, rd2, ws2, o2)
<1>1. PICK y \in Seq(UnitSet) : o \o y = AllUnits(n) /\ (fails \/ Left(rd, ws, y))
  BY DEF GoesOut
<1>2. CASE fails
  <2>1. o2 = o
    BY <1>2 DEF Writes
  <2> QED
    BY <1>1, <1>2, <2>1 DEF GoesOut
<1>3. CASE ~ fails
  <2>1. Held(rd, "write") # {}
    <3>1. 1 \in 1..Len(rd) /\ rd[1].op = "write"
      BY HeldTail
    <3> QED
      BY <3>1, HeldEmpty
  <2>2. ws = <<>> /\ Sole(rd, y)
    BY <1>1, <1>3, <2>1 DEF Left
  <2>3. Head(rd).rest = y /\ Held(Tail(rd), "write") = {}
    BY <2>2, HeadIsSole
  <2>4. PICK t \in Seq(Completion) : t = Tail(rd)
    BY HeldTail
  <2>5. Writes(fails, y, t, ws, o, rd2, ws2, o2) /\ Held(t, "write") = {}
    BY ONLY <2>3, <2>4, Writes(fails, Head(rd).rest, Tail(rd), ws, o, rd2, ws2, o2)
  <2> QED
    BY <1>1, <2>2, <2>5, WriteGoes
<1> QED
  BY <1>2, <1>3

\* Transmit: the socket accepts a part of what waits for it.
Accepts(fails, rd, ws, o, rd2, ws2, o2) ==
  /\ ws # <<>> /\ ws2 = Tail(ws)
  /\ \/ fails /\ o2 = o /\ rd2 = rd
     \/ \E n \in 1..Len(Head(ws)) :
          LET rest == SubSeq(Head(ws), n + 1, Len(Head(ws)))
          IN  /\ ~ fails
              /\ o2 = o \o SubSeq(Head(ws), 1, n)
              /\ rd2 = IF rest = <<>> THEN rd ELSE Append(rd, Partial(rest))

\* What Transmit leaves is of the right type.
LEMMA AcceptKeeps ==
  ASSUME NEW fails, NEW rd, NEW ws \in Seq(Seq(UnitSet)), NEW o \in Seq(UnitSet),
         NEW rd2, NEW ws2, NEW o2,
         Accepts(fails, rd, ws, o, rd2, ws2, o2)
  PROVE  Pushes(rd, rd2) /\ ws2 \in Seq(Seq(UnitSet)) /\ o2 \in Seq(UnitSet)
<1>1. Head(ws) \in Seq(UnitSet) /\ ws2 \in Seq(Seq(UnitSet))
  BY HeadTailProperties DEF Accepts
<1>2. PICK h \in Seq(UnitSet) : h = Head(ws)
  BY <1>1
<1>3. CASE o2 = o /\ rd2 = rd
  BY <1>1, <1>3 DEF Pushes
<1>4. ASSUME NEW n \in 1..Len(h), o2 = o \o SubSeq(h, 1, n),
             rd2 = IF SubSeq(h, n + 1, Len(h)) = <<>> THEN rd ELSE Append(rd, Partial(SubSeq(h, n + 1, Len(h))))
      PROVE  Pushes(rd, rd2) /\ o2 \in Seq(UnitSet)
  <2>1. Len(h) \in Nat /\ n \in Nat /\ n <= Len(h)
    BY LenProperties
  <2>2. SubSeq(h, 1, n) \in Seq(UnitSet)
    BY <2>1, FrontCut
  <2>3. SubSeq(h, n + 1, Len(h)) \in Seq(UnitSet)
    BY <2>1, Cut
  <2>4. o2 \in Seq(UnitSet)
    BY <1>4, <2>2, ConcatProperties
  <2>5. Pushes(rd, rd2)
    BY ONLY <1>4, <2>3 DEF Pushes
  <2> QED
    BY <2>4, <2>5
<1> QED
  BY <1>1, <1>2, <1>3, <1>4 DEF Accepts

\* The output still goes out after Transmit.
LEMMA AcceptGoes ==
  ASSUME NEW fails, NEW n, NEW rd \in Seq(Completion), NEW ws, NEW o \in Seq(UnitSet),
         NEW rd2, NEW ws2, NEW o2,
         GoesOut(fails, n, rd, ws, o), Accepts(fails, rd, ws, o, rd2, ws2, o2)
  PROVE  GoesOut(fails, n, rd2, ws2, o2)
<1>1. PICK y \in Seq(UnitSet) : o \o y = AllUnits(n) /\ (fails \/ Left(rd, ws, y))
  BY DEF GoesOut
<1>2. CASE fails
  <2>1. o2 = o
    BY <1>2 DEF Accepts
  <2> QED
    BY <1>1, <1>2, <2>1 DEF GoesOut
<1>3. CASE ~ fails
  <2>1. ws = <<y>> /\ Held(rd, "write") = {}
    BY <1>1, <1>3 DEF Left, Accepts
  <2>2. Head(ws) = y /\ Tail(ws) = <<>>
    BY <2>1
  <2>3. PICK m \in 1..Len(y) :
          /\ o2 = o \o SubSeq(y, 1, m)
          /\ rd2 = IF SubSeq(y, m + 1, Len(y)) = <<>> THEN rd
                   ELSE Append(rd, Partial(SubSeq(y, m + 1, Len(y))))
    BY <1>3, <2>2 DEF Accepts
  <2>4. Writes(fails, y, rd, <<>>, o, rd2, ws2, o2)
    <3>1. m \in 0..Len(y) /\ m # 0
      OBVIOUS
    <3>2. ws2 = <<>>
      BY <2>2 DEF Accepts
    <3> QED
      BY <1>3, <2>3, <3>1, <3>2 DEF Writes
  <2> QED
    BY <1>1, <2>1, <2>4, WriteGoes
<1> QED
  BY <1>2, <1>3

(***************************************************************************)
(* The inductive invariant.                                                *)
(***************************************************************************)
Types ==
  /\ stream \in Streams
  /\ role \in {"server", "client", "refused"}
  /\ stage \in {"resolve", "connect", "write", "head", "open", "over"}
  /\ link \in {"up", "closed", "reset"}
  /\ shut \in BOOLEAN /\ rearm \in BOOLEAN /\ overlapped \in BOOLEAN
  /\ at \in {"idle", "open", "frames", "leave"}
  /\ sent \in Nat /\ early \in Nat /\ early <= sent
  /\ handled \in Seq(Nat) /\ gone \in 0..1 /\ sends \in Nat
  /\ writers \in Seq(Seq(UnitSet)) /\ out \in Seq(UnitSet)

\* What a client is before it is open.
Quiet ==
  /\ readers = <<>> /\ ready = <<>> /\ writers = <<>> /\ out = <<>>
  /\ handled = <<>> /\ gone = 0 /\ sends = 0
  /\ at = "idle" /\ rearm = FALSE /\ shut = FALSE /\ overlapped = FALSE

\* Which reads may be under way where.
Lines ==
  /\ InLine(ready, readers)
  /\ at # "idle" => None(ready, readers, "until")
  /\ rearm => at \in {"frames", "leave"} /\ None(ready, readers, "some")
  /\ at = "open" => None(ready, readers, "some")
  /\ gone = 1 => at = "idle" /\ None(ready, readers, "until") /\ None(ready, readers, "some")
  /\ stage # "open" => Quiet

\* A read fails only when there is nothing more to read.
Ends == \A c \in Held(ready, "some") : c.got = <<>> => link # "up" \/ shut

\* A frame is sent from on_open, for a frame handled, or by close().
Counted == sends <= Greetings + Len(handled) + (IF shut THEN 1 ELSE 0)

Numbered ==
  /\ Len(handled) <= Len(stream)
  /\ \A i \in 1..Len(handled) : handled[i] = i

\* How much of the wire is decoded.
Start == IF stage = "open" THEN Bounds(Preface, stream)[Len(handled)] ELSE 0

Places ==
  \E p, q \in Nat :
    Placed(Wire, Start, p, q, sent, read_buf, ready, readers, inbound, link)

Outs == ~ overlapped => GoesOut(WriteFails, sends, ready, writers, out)

IInv == Types /\ Lines /\ Ends /\ Counted /\ Numbered /\ Places /\ Outs

\* The wire of this connection.
LEMMA ThisWire ==
  ASSUME stream \in Streams
  PROVE  /\ stream \in Seq(FrameSet)
         /\ Preface \in Seq(UnitSet)
         /\ Wire = WireOf(Preface, stream)
         /\ Laid(Wire, Bounds(Preface, stream), stream, Preface)
<1>1. stream \in Seq(FrameSet)
  BY WebSocketAssumption
<1>2. PICK l \in Nat : l = Len(stream)
  BY <1>1, LenProperties
<1>3. PICK pre \in Seq(UnitSet) : pre = Preface /\ \A k \in 1..Len(pre) : pre[k] # Filler
  <2>1. CASE role = "server"
    <3>1. Preface = <<>>
      BY <2>1 DEF Preface
    <3>2. <<>> \in Seq(UnitSet) /\ Len(<<>>) = 0
      BY EmptySeq
    <3>3. \A k \in 1..0 : <<>>[k] # Filler
      OBVIOUS
    <3> QED
      BY <3>1, <3>2, <3>3
  <2>2. CASE role # "server"
    <3>1. PICK m \in Nat : m = l + 1
      OBVIOUS
    <3>2. Preface = FrameUnits(m, 2)
      BY <1>2, <2>2, <3>1 DEF Preface
    <3>3. /\ FrameUnits(m, 2) \in Seq(UnitSet) /\ Len(FrameUnits(m, 2)) = 2
          /\ \A k \in 1..2 : FrameUnits(m, 2)[k] = Unit(m, k)
      BY FrameUnitsType
    <3>4. \A k : Unit(m, k) # Filler
      BY <3>1 DEF Unit, Filler
    <3> QED
      BY <3>2, <3>3, <3>4
  <2> QED
    BY <2>1, <2>2
<1>4. Wire = WireOf(Preface, stream)
  BY DEF Wire, WireOf, FramesUpTo, UpToFrame, Frames
<1>5. Laid(WireOf(pre, stream), Bounds(pre, stream), stream, pre)
  BY <1>1, <1>3, WireLaid
<1> QED
  BY <1>1, <1>3, <1>4, <1>5

\* It stays the same.
LEMMA SameWire ==
  ASSUME UNCHANGED <<role, stream>>
  PROVE  /\ Wire' = Wire /\ Preface' = Preface
         /\ (stage' = stage /\ handled' = handled) => Start' = Start
  BY DEF Wire, Preface, FramesUpTo, Start

\* The invariant is kept by every action: the peer sends.
LEMMA PeerSendKeeps ==
  ASSUME IInv, PeerSend
  PROVE  IInv'
<1>1. Wire' = Wire /\ Start' = Start
  BY SameWire DEF PeerSend
<1>2. Types'
  BY DEF IInv, Types, PeerSend, writing, history
<1>3. Lines' /\ Ends' /\ Counted' /\ Numbered'
  BY DEF IInv, Lines, Quiet, Ends, Counted, Numbered, PeerSend, writing, history
<1>4. Outs'
  BY DEF IInv, Outs, WriteFails, PeerSend, writing, history
<1>5. Places'
  <2>1. PICK p \in Nat, q \in Nat :
          Placed(Wire, Start, p, q, sent, read_buf, ready, readers, inbound, "up")
    BY DEF IInv, Places, PeerSend
  <2>2. PICK s2 : s2 = sent + 1
    OBVIOUS
  <2>3. Placed(Wire, Start, p, q, s2, read_buf, ready, readers, Append(inbound, Wire[s2]), "up")
    BY <2>1, <2>2, SendPlaced DEF PeerSend
  <2>4. sent' = s2 /\ inbound' = Append(inbound, Wire[s2])
        /\ UNCHANGED <<read_buf, readers, ready>> /\ link' = "up"
    BY <2>2 DEF PeerSend
  <2> QED
    BY <1>1, <2>3, <2>4 DEF Places
<1> QED
  BY <1>2, <1>3, <1>4, <1>5 DEF IInv

\* The peer closes or resets the connection.
LEMMA PeerCloseKeeps ==
  ASSUME IInv, PeerClose
  PROVE  IInv'
<1>1. Wire' = Wire /\ Start' = Start
  BY SameWire DEF PeerClose
<1>2. Types'
  BY DEF IInv, Types, PeerClose, writing, history
<1>3. Lines' /\ Ends' /\ Counted' /\ Numbered'
  BY DEF IInv, Lines, Quiet, Ends, Counted, Numbered, PeerClose, writing, history
<1>4. Outs'
  <2>1. WriteFails => WriteFails'
    BY DEF WriteFails, PeerClose
  <2>2. UNCHANGED <<overlapped, sends, ready, writers, out>>
    BY DEF PeerClose, writing, history
  <2> QED
    BY <2>1, <2>2 DEF IInv, Outs, GoesOut
<1>5. Places'
  <2>1. PICK p \in Nat, q \in Nat :
          Placed(Wire, Start, p, q, sent, read_buf, ready, readers, inbound, "up")
    BY DEF IInv, Places, PeerClose
  <2>2. inbound' = inbound \/ (link' = "reset" /\ inbound' = <<>>)
    BY DEF PeerClose
  <2>3. Placed(Wire, Start, p, q, sent, read_buf, ready, readers, inbound', link')
    BY ONLY <2>1, <2>2, ClosePlaced
  <2>4. UNCHANGED <<sent, read_buf, ready, readers>>
    BY DEF PeerClose
  <2> QED
    BY <1>1, <2>3, <2>4 DEF Places
<1> QED
  BY <1>2, <1>3, <1>4, <1>5 DEF IInv

\* A read is served.
LEMMA ReceiveKeeps ==
  ASSUME IInv, Receive
  PROVE  IInv'
<1>1. Wire' = Wire /\ Start' = Start
  BY SameWire DEF Receive, session
<1>2. Types'
  BY DEF IInv, Types, Receive, session, writing, history
<1>3. Counted' /\ Numbered'
  BY DEF IInv, Counted, Numbered, Receive, session, history
<1>4. InLine(ready, readers) /\ ready \in Seq(Completion)
      /\ readers \in Seq({"until", "some"}) /\ readers # <<>>
  BY DEF IInv, Lines, InLine, Receive
<1>5. PICK p \in Nat, q \in Nat :
        Placed(Wire, Start, p, q, sent, read_buf, ready, readers, inbound, link)
  BY DEF IInv, Places
<1>6. /\ Wire \in Seq(UnitSet) /\ inbound \in Seq(UnitSet) /\ Len(inbound) \in Nat
  <2>1. Offers(Wire, Start, p, q, sent, inbound, link, 0)
    <3>1. Between(Wire, Start, p, q, sent) /\ Beyond(Wire, inbound, link, q, sent)
      BY <1>5 DEF Placed
    <3>2. 0 <= Len(inbound)
      <4>1. inbound \in Seq(UnitSet)
        <5>1. /\ Wire \in Seq(UnitSet) /\ q \in Nat /\ sent \in Nat /\ q <= sent /\ sent <= Len(Wire)
          BY <3>1 DEF Between
        <5>2. SubSeq(Wire, q + 1, sent) \in Seq(UnitSet)
          BY ONLY <5>1, Cut
        <5> QED
          BY <3>1, <5>2, EmptySeq DEF Beyond
      <4> QED
        BY <4>1, LenProperties
    <3> QED
      BY <3>1, <3>2 DEF Offers
  <2>2. Gives(Wire, Start, p, q, sent, inbound, link, 0)
    BY ONLY <2>1, FromSocket
  <2> QED
    BY <2>2, LenProperties DEF Gives, Between
<1>7. Head(readers) \in {"until", "some"}
  BY <1>4, HeadTailProperties
<1>8. PICK n \in Nat :
        /\ n <= Len(inbound) /\ Take(n)
        /\ Head(readers) = "until" => n <= Grow
        /\ n = 0 => link # "up" \/ shut
  <2>1. CASE \E n \in 1..Len(inbound) :
               n <= (IF Head(readers) = "until" THEN Grow ELSE Raw) /\ Take(n)
    <3>1. PICK n \in 1..Len(inbound) :
            n <= (IF Head(readers) = "until" THEN Grow ELSE Raw) /\ Take(n)
      BY <2>1
    <3>2. n \in Nat /\ n <= Len(inbound) /\ n # 0
      BY <1>6
    <3> QED
      BY <3>1, <3>2
  <2>2. CASE inbound = <<>> /\ (link # "up" \/ shut) /\ Take(0)
    <3>1. 0 <= Len(inbound) /\ 0 <= Grow
      BY <1>6, GrownIs
    <3> QED
      BY <2>2, <3>1
  <2> QED
    BY <2>1, <2>2 DEF Receive
<1>9. /\ readers' = Tail(readers) /\ inbound' = SubSeq(inbound, n + 1, Len(inbound))
      /\ UNCHANGED <<sent, link, stage, shut, at, rearm, gone>>
      /\ UNCHANGED <<writers, out, sends, overlapped>>
  BY <1>8 DEF Receive, Take, session, writing, history
<1>10. PICK got \in Seq(UnitSet) : got = SubSeq(inbound, 1, n) /\ Len(got) = n
  BY <1>6, <1>8, FrontCut
<1>11. PICK x \in Completion :
         /\ ready' = Append(ready, x) /\ x.op = Head(readers)
         /\ x = IF Head(readers) = "until" THEN UntilDone(Grow, n) ELSE SomeDone(got)
         /\ x.op = "some" => x.got = got
  <2>1. CASE Head(readers) = "until"
    <3>1. ready' = Append(ready, UntilDone(Grow, n))
      BY <1>8, <2>1 DEF Take
    <3> QED
      BY <2>1, <3>1, CompletionType, GrownIs
  <2>2. CASE Head(readers) = "some"
    <3>1. ready' = Append(ready, SomeDone(got))
      BY <1>8, <1>10, <2>2 DEF Take
    <3> QED
      BY <2>2, <3>1, CompletionType
  <2> QED
    BY <1>7, <2>1, <2>2
<1>12. \A op : Held(ready', op) = Held(ready, op) \cup {y \in {x} : y.op = op}
  BY <1>4, <1>11, HeldAppend
<1>13. /\ InLine(ready', readers')
       /\ \A op : op # x.op => (Waits(readers, op) <=> Waits(readers', op))
       /\ None(ready, readers', x.op)
  <2>1. PICK t : t = Append(ready, x)
    OBVIOUS
  <2>2. InLine(t, Tail(readers)) /\ None(ready, Tail(readers), x.op)
    BY <1>4, <1>11, <2>1, ServeKeeps
  <2>3. \A op : op # x.op => (Waits(readers, op) <=> Waits(Tail(readers), op))
    BY <1>4, <1>11, ServeKeeps
  <2> QED
    BY <1>9, <1>11, <2>1, <2>2, <2>3
<1>14. Lines'
  <2>1. ~ None(ready, readers, x.op)
    <3>1. Waits(readers, Head(readers))
      <4>1. 1 \in 1..Len(readers) /\ Head(readers) = readers[1]
        BY <1>4, HeadTailProperties, EmptySeq
      <4> QED
        BY <4>1 DEF Waits
    <3> QED
      BY <1>11, <3>1 DEF None
  <2>2. ASSUME NEW op, None(ready, readers, op) PROVE None(ready', readers', op)
    BY <1>12, <1>13, <2>1, <2>2 DEF None
  <2>3. stage = "open"
    BY <1>4 DEF IInv, Lines, Quiet
  <2>4. x.op \in {"until", "some"}
    BY <1>7, <1>11
  <2> QED
    BY <1>9, <1>13, <2>1, <2>2, <2>3, <2>4 DEF IInv, Lines
<1>15. Ends'
  <2>1. ASSUME NEW c \in Held(ready', "some"), c.got = <<>> PROVE link # "up" \/ shut
    <3>1. CASE c \in Held(ready, "some")
      BY <2>1, <3>1 DEF IInv, Ends
    <3>2. CASE c \notin Held(ready, "some")
      <4>1. c = x /\ x.op = "some"
        BY <1>12, <3>2
      <4>2. got = <<>>
        BY <1>11, <2>1, <4>1
      <4>3. n = 0
        BY <1>10, <4>2, EmptySeq
      <4> QED
        BY <1>8, <4>3
    <3> QED
      BY <3>1, <3>2
  <2> QED
    BY <1>9, <2>1 DEF Ends
<1>16. Outs'
  <2>1. ASSUME NEW y, Left(ready, writers, y) PROVE Left(ready', writers, y)
    BY <1>4, <1>7, <1>11, <2>1, LeftAppend
  <2> QED
    BY <1>9, <2>1 DEF IInv, Outs, GoesOut, WriteFails
<1>17. Places'
  <2>1. CASE Head(readers) = "until"
    <3>1. PICK rb : rb = [j \in DOMAIN read_buf |-> IF j <= n THEN inbound[j] ELSE read_buf[j]]
      OBVIOUS
    <3>2. read_buf' = rb
      BY <1>8, <2>1, <3>1 DEF Take
    <3>3. Placed(Wire, Start, p + n, q + n, sent, rb,
                 Append(ready, UntilDone(Grow, n)), Tail(readers),
                 SubSeq(inbound, n + 1, Len(inbound)), link)
      BY <1>4, <1>5, <1>8, <2>1, <3>1, UntilServed
    <3>4. Append(ready, UntilDone(Grow, n)) = ready'
      BY <1>11, <2>1
    <3>5. Placed(Wire, Start, p + n, q + n, sent, read_buf', ready', readers', inbound', link)
      BY ONLY <3>2, <3>3, <3>4, <1>9
    <3>6. p + n \in Nat /\ q + n \in Nat
      OBVIOUS
    <3> QED
      BY <1>1, <1>9, <3>5, <3>6 DEF Places
  <2>2. CASE Head(readers) = "some"
    <3>1. read_buf' = read_buf
      BY <1>8, <2>2 DEF Take
    <3>2. Placed(Wire, Start, p, q + n, sent, read_buf,
                 Append(ready, SomeDone(SubSeq(inbound, 1, n))), Tail(readers),
                 SubSeq(inbound, n + 1, Len(inbound)), link)
      BY <1>4, <1>5, <1>8, <2>2, SomeServed
    <3>3. Append(ready, SomeDone(SubSeq(inbound, 1, n))) = ready'
      BY <1>10, <1>11, <2>2
    <3>4. Placed(Wire, Start, p, q + n, sent, read_buf', ready', readers', inbound', link)
      BY ONLY <3>1, <3>2, <3>3, <1>9
    <3>5. q + n \in Nat
      OBVIOUS
    <3> QED
      BY <1>1, <1>9, <3>4, <3>5 DEF Places
  <2> QED
    BY <1>7, <2>1, <2>2
<1> QED
  BY <1>2, <1>3, <1>14, <1>15, <1>16, <1>17 DEF IInv

\* A write that goes on is of no account to what is known of the reads.
LEMMA PushSame ==
  ASSUME NEW rd, NEW rd2, NEW rs, InLine(rd, rs), Pushes(rd, rd2)
  PROVE  /\ InLine(rd2, rs)
         /\ Held(rd2, "some") = Held(rd, "some")
         /\ None(rd2, rs, "until") <=> None(rd, rs, "until")
         /\ None(rd2, rs, "some") <=> None(rd, rs, "some")
  BY PushKeeps DEF None

\* What a write, or the next step of one, does, if the rest stays as it is.
LEMMA PushedKeeps ==
  ASSUME IInv, Pushes(ready, ready'), stage = "open",
         UNCHANGED <<session, reading, at, rearm, handled, gone>>,
         shut => shut'
  PROVE  Lines' /\ Ends' /\ Numbered' /\ Places'
<1>1. /\ InLine(ready, readers) /\ InLine(ready', readers)
      /\ Held(ready', "some") = Held(ready, "some")
      /\ None(ready', readers, "until") <=> None(ready, readers, "until")
      /\ None(ready', readers, "some") <=> None(ready, readers, "some")
  BY PushSame DEF IInv, Lines
<1>2. Lines'
  BY <1>1 DEF IInv, Lines, session, reading
<1>3. Ends'
  BY <1>1 DEF IInv, Ends, session
<1>4. Numbered'
  BY DEF IInv, Numbered, session
<1>5. Places'
  <2>1. PICK p \in Nat, q \in Nat :
          Placed(Wire, Start, p, q, sent, read_buf, ready, readers, inbound, link)
    BY DEF IInv, Places
  <2>2. Placed(Wire, Start, p, q, sent, read_buf, ready', readers, inbound, link)
    BY <1>1, <2>1, PushPlaced
  <2>3. Wire' = Wire /\ Start' = Start
    BY SameWire DEF session
  <2> QED
    BY <2>2, <2>3 DEF Places, session, reading
<1> QED
  BY <1>2, <1>3, <1>4, <1>5

\* send().
LEMMA SendKeeps ==
  ASSUME IInv, send, link' = link, shut => shut'
  PROVE  /\ Pushes(ready, ready')
         /\ writers' \in Seq(Seq(UnitSet)) /\ out' \in Seq(UnitSet)
         /\ sends \in Nat /\ sends' = sends + 1 /\ overlapped' \in BOOLEAN
         /\ Outs'
<1>1. sends \in Nat /\ sends' = sends + 1 /\ overlapped' \in BOOLEAN
  BY DEF IInv, Types, send
<1>2. PICK n2 \in Nat : n2 = sends'
  BY <1>1
<1>3. OutUnits(n2) \in Seq(UnitSet)
  BY OutUnitsType
<1>4. Writes(WriteFails, OutUnits(n2), ready, writers, out, ready', writers', out')
  <2>1. Write(OutUnits(n2), ready)
    BY <1>2 DEF send
  <2> QED
    BY <2>1, WriteIs
<1>5. writers \in Seq(Seq(UnitSet)) /\ out \in Seq(UnitSet) /\ ready \in Seq(Completion)
  BY DEF IInv, Types, Lines, InLine
<1>6. Pushes(ready, ready') /\ writers' \in Seq(Seq(UnitSet)) /\ out' \in Seq(UnitSet)
  BY <1>3, <1>4, <1>5, WriteKeeps
<1>7. Outs'
  <2>1. SUFFICES ASSUME ~ overlapped' PROVE GoesOut(WriteFails', sends', ready', writers', out')
    BY DEF Outs
  <2>2. ~ overlapped /\ ~ WriteUnderWay
    BY <2>1 DEF send
  <2>3. writers = <<>> /\ Held(ready, "write") = {}
    <3>1. \A i \in 1..Len(ready) : ready[i].op # "write"
      BY <1>5, <2>2 DEF WriteUnderWay
    <3> QED
      BY <1>5, <2>2, <3>1, HeldEmpty DEF WriteUnderWay
  <2>4. GoesOut(WriteFails, sends, ready, writers, out)
    BY <2>2 DEF IInv, Outs
  <2>5. GoesOut(WriteFails, n2, ready', writers', out')
    BY <1>1, <1>2, <1>4, <1>5, <2>3, <2>4, SendGoes
  <2>6. WriteFails => WriteFails'
    BY DEF WriteFails
  <2> QED
    BY <1>2, <2>5, <2>6 DEF GoesOut
<1> QED
  BY <1>1, <1>6, <1>7

\* The socket accepts output.
LEMMA TransmitKeeps ==
  ASSUME IInv, Transmit
  PROVE  IInv'
<1>1. Accepts(WriteFails, ready, writers, out, ready', writers', out')
  BY DEF Transmit, Accepts
<1>2. writers \in Seq(Seq(UnitSet)) /\ out \in Seq(UnitSet) /\ ready \in Seq(Completion)
  BY DEF IInv, Types, Lines, InLine
<1>3. Pushes(ready, ready') /\ writers' \in Seq(Seq(UnitSet)) /\ out' \in Seq(UnitSet)
  BY <1>1, <1>2, AcceptKeeps
<1>4. UNCHANGED <<session, reading, shut, at, rearm, handled, gone, history>>
  BY DEF Transmit
<1>5. Types'
  BY <1>3, <1>4 DEF IInv, Types, session, history
<1>6. stage = "open"
  BY <1>1 DEF IInv, Lines, Quiet, Accepts
<1>7. Lines' /\ Ends' /\ Numbered' /\ Places'
  BY <1>3, <1>4, <1>6, PushedKeeps
<1>8. Counted'
  BY <1>4 DEF IInv, Counted, history
<1>9. Outs'
  <2>1. SUFFICES ASSUME ~ overlapped PROVE GoesOut(WriteFails, sends, ready', writers', out')
    BY <1>4 DEF Outs, WriteFails, session, history
  <2> QED
    BY <1>1, <1>2, <2>1, AcceptGoes DEF IInv, Outs
<1> QED
  BY <1>5, <1>7, <1>8, <1>9 DEF IInv

\* A write goes on.
LEMMA OnWriteKeeps ==
  ASSUME IInv, OnWrite
  PROVE  IInv'
<1>1. /\ at = "idle" /\ ready # <<>> /\ Head(ready).op = "write"
      /\ UNCHANGED <<session, reading, shut, at, rearm, handled, gone, history>>
  BY DEF OnWrite, Completed
<1>2. /\ writers \in Seq(Seq(UnitSet)) /\ out \in Seq(UnitSet) /\ ready \in Seq(Completion)
      /\ InLine(ready, readers)
  BY DEF IInv, Types, Lines, InLine
<1>3. Writes(WriteFails, Head(ready).rest, Tail(ready), writers, out, ready', writers', out')
  BY WriteIs DEF OnWrite
<1>4. Head(ready) \in Completion /\ Head(ready).rest \in Seq(UnitSet) /\ Tail(ready) \in Seq(Completion)
  <2>1. Head(ready) \in Completion /\ Tail(ready) \in Seq(Completion)
    BY <1>1, <1>2, HeldTail
  <2>2. PICK c \in Completion : c = Head(ready)
    BY <2>1
  <2>3. c.op = "write"
    BY <1>1, <2>2
  <2>4. c.rest \in Seq(UnitSet)
    BY ONLY <2>3, c \in Completion, CompletionType
  <2> QED
    BY <2>1, <2>2, <2>4
<1>5. Pushes(Tail(ready), ready') /\ writers' \in Seq(Seq(UnitSet)) /\ out' \in Seq(UnitSet)
  BY <1>2, <1>3, <1>4, WriteKeeps
<1>6. Types'
  BY <1>1, <1>5 DEF IInv, Types, session, history
<1>7. PICK t : t = Tail(ready)
  OBVIOUS
<1>8. /\ InLine(t, readers)
      /\ Held(t, "some") = Held(ready, "some")
      /\ None(t, readers, "until") <=> None(ready, readers, "until")
      /\ None(t, readers, "some") <=> None(ready, readers, "some")
  <2>1. InLine(t, readers)
    BY <1>1, <1>2, <1>7, RunKeeps
  <2>2. Held(ready, "some") = Held(t, "some") /\ Held(ready, "until") = Held(t, "until")
    <3>1. \A op : Held(ready, op) = Held(t, op) \cup {y \in {Head(ready)} : y.op = op}
      BY <1>1, <1>2, <1>7, HeldTail
    <3>2. \A op \in {"until", "some"} : {y \in {Head(ready)} : y.op = op} = {}
      BY <1>1
    <3> QED
      BY <3>1, <3>2
  <2> QED
    BY <2>1, <2>2 DEF None
<1>9. /\ InLine(ready', readers)
      /\ Held(ready', "some") = Held(ready, "some")
      /\ None(ready', readers, "until") <=> None(ready, readers, "until")
      /\ None(ready', readers, "some") <=> None(ready, readers, "some")
  <2>1. Pushes(t, ready')
    BY ONLY <1>5, <1>7
  <2> QED
    BY <1>8, <2>1, PushSame
<1>10. stage = "open"
  BY <1>1 DEF IInv, Lines, Quiet
<1>11. Lines'
  BY <1>1, <1>9, <1>10 DEF IInv, Lines, session, reading
<1>12. Ends'
  BY <1>1, <1>9 DEF IInv, Ends, session
<1>13. Counted' /\ Numbered'
  BY <1>1 DEF IInv, Counted, Numbered, session, history
<1>14. Places'
  <2>1. PICK p \in Nat, q \in Nat :
          Placed(Wire, Start, p, q, sent, read_buf, ready, readers, inbound, link)
    BY DEF IInv, Places
  <2>2. Placed(Wire, Start, p, q, sent, read_buf, t, readers, inbound, link)
    BY <1>1, <1>2, <1>7, <2>1, WritePlaced
  <2>3. Placed(Wire, Start, p, q, sent, read_buf, ready', readers, inbound, link)
    <3>1. Pushes(t, ready')
      BY ONLY <1>5, <1>7
    <3> QED
      BY <1>8, <2>2, <3>1, PushPlaced
  <2>4. Wire' = Wire /\ Start' = Start
    BY <1>1, SameWire DEF session
  <2> QED
    BY <1>1, <2>3, <2>4 DEF Places, session, reading
<1>15. Outs'
  <2>1. SUFFICES ASSUME ~ overlapped PROVE GoesOut(WriteFails, sends, ready', writers', out')
    BY <1>1 DEF Outs, WriteFails, session, history
  <2>2. GoesOut(WriteFails, sends, ready, writers, out)
    BY <2>1 DEF IInv, Outs
  <2> QED
    BY <1>1, <1>2, <1>3, <2>2, NextGoes
<1> QED
  BY <1>6, <1>11, <1>12, <1>13, <1>14, <1>15 DEF IInv

\* A client gets on with its handshake.
LEMMA HandshakeKeeps ==
  ASSUME IInv, Handshake
  PROVE  IInv'
<1>1. /\ stage \in {"resolve", "connect", "write"}
      /\ stage' \in {"connect", "write", "head", "over"}
      /\ UNCHANGED <<role, stream, sent, early, link, shut, ready, rearm, handled, gone>>
      /\ UNCHANGED <<reading, at, writing, history>>
  <2>1. /\ DOMAIN NextStage = {"resolve", "connect", "write"}
        /\ NextStage["resolve"] = "connect" /\ NextStage["connect"] = "write"
        /\ NextStage["write"] = "head"
    BY DEF NextStage
  <2> QED
    BY <2>1 DEF Handshake, Over
<1>2. Wire' = Wire /\ Start' = Start
  <2>1. Start = 0 /\ Start' = 0
    BY <1>1 DEF Start
  <2> QED
    BY <1>1, <2>1, SameWire
<1>3. Types'
  BY <1>1 DEF IInv, Types, writing, history
<1>4. Lines'
  BY <1>1 DEF IInv, Lines, Quiet, reading, writing, history
<1>5. Ends' /\ Counted' /\ Numbered'
  BY <1>1 DEF IInv, Ends, Counted, Numbered, history
<1>6. Places'
  BY <1>1, <1>2 DEF IInv, Places, reading
<1>7. Outs'
  BY <1>1 DEF IInv, Outs, WriteFails, writing, history
<1> QED
  BY <1>3, <1>4, <1>5, <1>6, <1>7 DEF IInv

\* A client reads the response to its handshake.
LEMMA ReadResponseKeeps ==
  ASSUME IInv, ReadResponse
  PROVE  IInv'
<1>1. /\ stage = "head" /\ Quiet
      /\ UNCHANGED <<role, stream, sent, link, shut, ready, rearm, handled, gone, writing, history>>
  BY DEF ReadResponse, IInv, Lines
<1>2. /\ UNCHANGED readers /\ stage' \in {"head", "over", "open"}
      /\ stage' # "open" => at' = at
      /\ stage' = "open" => at' = "open"
  <2>1. CASE Over
    BY <2>1 DEF Over, reading
  <2>2. CASE ~ Over
    BY <1>1, <2>2 DEF ReadResponse
  <2> QED
    BY <2>1, <2>2
<1>3. Lines'
  <2>1. readers' = <<>> /\ ready' = <<>>
    BY <1>1, <1>2 DEF Quiet
  <2>2. \A op : None(<<>>, <<>>, op)
    BY EmptySeq DEF None, Held, Waits
  <2>3. InLine(ready', readers')
    BY <1>1, <1>2 DEF IInv, Lines
  <2>4. at' \in {"idle", "open"} /\ rearm' = FALSE /\ gone' = 0
    BY <1>1, <1>2 DEF Quiet
  <2>5. stage' # "open" => Quiet'
    BY <1>1, <1>2 DEF Quiet, writing, history
  <2> QED
    BY <2>1, <2>2, <2>3, <2>4, <2>5 DEF Lines
<1>4. Ends' /\ Counted' /\ Numbered'
  BY <1>1 DEF IInv, Ends, Counted, Numbered, history
<1>5. Outs'
  BY <1>1 DEF IInv, Outs, WriteFails, writing, history
<1>6. Wire' = Wire /\ Preface' = Preface /\ Start = 0
  BY <1>1, SameWire DEF Start
<1>7. PICK p \in Nat, q \in Nat :
        Placed(Wire, 0, p, q, sent, read_buf, <<>>, <<>>, inbound, link)
  BY <1>1, <1>6 DEF IInv, Places, Quiet
<1>8. CASE Over
  <2>1. UNCHANGED <<reading, at, early>> /\ stage' = "over"
    BY <1>8 DEF Over
  <2>2. Types'
    BY <1>1, <2>1 DEF IInv, Types, writing, history
  <2>3. Start' = 0
    BY <2>1 DEF Start
  <2>4. Places'
    BY <1>1, <1>6, <2>1, <2>3 DEF IInv, Places, reading
  <2> QED
    BY <1>3, <1>4, <1>5, <2>2, <2>4 DEF IInv
<1>9. ASSUME NEW n \in 1..Len(inbound), NEW buf,
             buf = read_buf \o SubSeq(inbound, 1, n),
             inbound' = SubSeq(inbound, n + 1, Len(inbound)),
             \/ /\ read_buf' = buf /\ stage' \in {"head", "over"} /\ UNCHANGED <<at, early>>
             \/ /\ Len(buf) >= Len(Preface)
                /\ read_buf' = SubSeq(buf, Len(Preface) + 1, Len(buf))
                /\ stage' = "open"
                /\ early' = sent - Len(inbound')
      PROVE  IInv'
  <2>1. Between(Wire, 0, p, q, sent) /\ Beyond(Wire, inbound, link, q, sent)
    BY <1>7 DEF Placed
  <2>2. inbound \in Seq(UnitSet) /\ Len(inbound) \in Nat
    <3>1. /\ Wire \in Seq(UnitSet) /\ q \in Nat /\ sent \in Nat /\ q <= sent /\ sent <= Len(Wire)
      BY <2>1 DEF Between
    <3>2. SubSeq(Wire, q + 1, sent) \in Seq(UnitSet)
      BY ONLY <3>1, Cut
    <3> QED
      BY <2>1, <3>2, EmptySeq, LenProperties DEF Beyond
  <2>3. n \in Nat /\ n <= Len(inbound)
    BY <2>2
  <2>4. PICK ib : ib = SubSeq(inbound, n + 1, Len(inbound))
    OBVIOUS
  <2>5. Placed(Wire, 0, q + n, q + n, sent, buf, <<>>, <<>>, ib, link)
    <3>1. Placed(Wire, 0, q + n, q + n, sent, read_buf \o SubSeq(inbound, 1, n), <<>>, <<>>,
                 SubSeq(inbound, n + 1, Len(inbound)), link)
      BY <1>7, <2>3, ResponsePlaced
    <3> QED
      BY ONLY <1>9, <2>4, <3>1
  <2>6. PICK r \in Nat : r = q + n
    BY <2>3
  <2>7. Placed(Wire, 0, r, r, sent, buf, <<>>, <<>>, ib, link)
    BY ONLY <2>5, <2>6
  <2>8. ready' = <<>> /\ readers' = <<>> /\ inbound' = ib /\ UNCHANGED <<sent, link>>
    BY <1>1, <1>2, <1>9, <2>4 DEF Quiet
  <2>9. CASE read_buf' = buf /\ stage' \in {"head", "over"} /\ UNCHANGED <<at, early>>
    <3>1. Types'
      BY <1>1, <2>9 DEF IInv, Types, writing, history
    <3>2. Start' = 0
      BY <2>9 DEF Start
    <3>3. Places'
      BY <1>6, <2>7, <2>8, <2>9, <3>2 DEF Places
    <3> QED
      BY <1>3, <1>4, <1>5, <3>1, <3>3 DEF IInv
  <2>10. CASE /\ Len(buf) >= Len(Preface)
              /\ read_buf' = SubSeq(buf, Len(Preface) + 1, Len(buf))
              /\ stage' = "open"
              /\ early' = sent - Len(inbound')
    <3>1. Between(Wire, 0, r, r, sent) /\ Beyond(Wire, ib, link, r, sent) /\ buf \in Seq(UnitSet)
      BY <2>7 DEF Placed, Here
    <3>2. ib \in Seq(UnitSet) /\ Len(ib) \in Nat /\ Len(ib) <= sent
      <4>1. /\ Wire \in Seq(UnitSet) /\ sent \in Nat /\ r <= sent /\ sent <= Len(Wire)
        BY <3>1 DEF Between
      <4>2. PICK c : c = SubSeq(Wire, r + 1, sent)
        OBVIOUS
      <4>3. c \in Seq(UnitSet) /\ Len(c) = sent - r
        BY ONLY <4>1, <4>2, r \in Nat, Cut
      <4>4. ib = c \/ ib = <<>>
        BY <3>1, <4>2 DEF Beyond
      <4>5. ib \in Seq(UnitSet) /\ (Len(ib) = sent - r \/ Len(ib) = 0)
        BY <4>3, <4>4, EmptySeq
      <4> QED
        BY <4>1, <4>5
    <3>3. Types'
      BY <1>1, <1>2, <2>8, <2>10, <3>2 DEF IInv, Types, writing, history
    <3>4. PICK m \in Nat : m = Len(Preface)
      BY ThisWire, LenProperties DEF IInv, Types
    <3>5. handled' = <<>> /\ Len(handled') = 0
      BY <1>1, EmptySeq DEF Quiet
    <3>6. Start' = m
      <4>1. stream' = stream
        BY <1>1
      <4>2. Start' = Bounds(Preface, stream)[0]
        BY <1>6, <2>10, <3>5, <4>1 DEF Start, Bounds
      <4>3. Laid(Wire, Bounds(Preface, stream), stream, Preface)
        BY ThisWire DEF IInv, Types
      <4> QED
        BY <3>4, <4>2, <4>3 DEF Laid
    <3>7. None(<<>>, <<>>, "until") /\ m <= Len(buf)
      BY <2>10, <3>4, EmptySeq DEF None, Held, Waits
    <3>8. Placed(Wire, m, r, r, sent, SubSeq(buf, m + 1, Len(buf)), <<>>, <<>>, ib, link)
      <4>1. m = 0 + m
        OBVIOUS
      <4> QED
        BY <2>7, <3>7, <4>1, Erased
    <3>9. read_buf' = SubSeq(buf, m + 1, Len(buf))
      BY <2>10, <3>4
    <3>10. Placed(Wire, m, r, r, sent, read_buf', <<>>, <<>>, ib, link)
      BY ONLY <3>8, <3>9
    <3>11. Places'
      BY <1>6, <2>8, <3>6, <3>10 DEF Places
    <3> QED
      BY <1>3, <1>4, <1>5, <3>3, <3>11 DEF IInv
  <2> QED
    BY <1>9, <2>9, <2>10
<1> QED
  BY <1>1, <1>8, <1>9 DEF ReadResponse

\* A client is open.
LEMMA OnOpenKeeps ==
  ASSUME IInv, OnOpen
  PROVE  IInv'
<1>1. at = "open" /\ UNCHANGED <<session, shut, rearm, handled, gone>>
  BY DEF OnOpen
<1>2. stage = "open" /\ rearm = FALSE /\ gone = 0
  BY <1>1 DEF IInv, Types, Lines, Quiet
<1>3. CASE sends < Greetings /\ send /\ UNCHANGED <<reading, at>>
  <2>1. /\ Pushes(ready, ready')
        /\ writers' \in Seq(Seq(UnitSet)) /\ out' \in Seq(UnitSet)
        /\ sends \in Nat /\ sends' = sends + 1 /\ overlapped' \in BOOLEAN
        /\ Outs'
    BY <1>1, <1>3, SendKeeps DEF session
  <2>2. Types'
    BY <1>1, <1>3, <2>1 DEF IInv, Types, session
  <2>3. Lines' /\ Ends' /\ Numbered' /\ Places'
    BY <1>1, <1>2, <1>3, <2>1, PushedKeeps
  <2>4. Counted'
    <3>1. Len(handled) \in Nat
      BY LenProperties DEF IInv, Types
    <3>2. sends' <= Greetings + Len(handled) + (IF shut THEN 1 ELSE 0)
      BY <1>3, <2>1, <3>1, WebSocketAssumption
    <3> QED
      BY <1>1, <3>2 DEF Counted
  <2> QED
    BY <2>1, <2>2, <2>3, <2>4 DEF IInv
<1>4. CASE read_frames /\ at' = "idle" /\ UNCHANGED <<inbound, writing, history>>
  <2>1. readers' = Append(readers, "some") /\ UNCHANGED <<read_buf, ready>>
    BY <1>4 DEF read_frames
  <2>2. InLine(ready, readers) /\ None(ready, readers, "until") /\ None(ready, readers, "some")
    BY <1>1 DEF IInv, Lines
  <2>3. InLine(ready', readers')
    BY <2>1, <2>2, StartKeeps
  <2>4. Types'
    BY <1>1, <1>4 DEF IInv, Types, session, writing, history
  <2>5. Lines'
    BY <1>1, <1>2, <1>4, <2>3 DEF Lines, session
  <2>6. Ends' /\ Counted' /\ Numbered'
    BY <1>1, <1>4, <2>1 DEF IInv, Ends, Counted, Numbered, session, history
  <2>7. Outs'
    BY <1>1, <1>4, <2>1 DEF IInv, Outs, WriteFails, session, writing, history
  <2>8. Places'
    <3>1. PICK p \in Nat, q \in Nat :
            Placed(Wire, Start, p, q, sent, read_buf, ready, readers, inbound, link)
      BY DEF IInv, Places
    <3>2. Placed(Wire, Start, p, q, sent, read_buf, ready, Append(readers, "some"), inbound, link)
      BY <2>2, <3>1, StartPlaced
    <3>3. Wire' = Wire /\ Start' = Start
      BY <1>1, SameWire DEF session
    <3> QED
      BY <1>1, <1>4, <2>1, <3>2, <3>3 DEF Places, session
  <2> QED
    BY <2>4, <2>5, <2>6, <2>7, <2>8 DEF IInv
<1> QED
  BY <1>3, <1>4 DEF OnOpen

\* The output is not touched by a handler of a read.
LEMMA HandlerOuts ==
  ASSUME IInv, ready # <<>>, Head(ready).op # "write", ready' = Tail(ready),
         UNCHANGED <<session, shut, writing, history>>
  PROVE  Outs'
<1>1. ready \in Seq(Completion)
  BY DEF IInv, Lines, InLine
<1>2. ASSUME NEW y \in Seq(UnitSet), Left(ready, writers, y) PROVE Left(ready', writers, y)
  <2>1. Left(Tail(ready), writers, y)
    BY <1>1, <1>2, LeftTail
  <2> QED
    BY <2>1
<1> QED
  BY <1>2 DEF IInv, Outs, GoesOut, WriteFails, session, writing, history

\* The handler of async_read_until runs.
LEMMA OnUntilKeeps ==
  ASSUME IInv, OnUntil
  PROVE  IInv'
<1>1. /\ at = "idle" /\ ready # <<>> /\ Head(ready).op = "until"
      /\ ready' = Tail(ready) /\ at' = "frames" /\ rearm' = FALSE
      /\ UNCHANGED <<session, inbound, readers, shut, handled, gone, writing, history>>
  BY DEF OnUntil, Completed
<1>2. PICK m : m = Len(read_buf) - (Head(ready).grown - Head(ready).n)
  OBVIOUS
<1>3. read_buf' = SubSeq(read_buf, 1, m)
  BY <1>2 DEF OnUntil
<1>4. stage = "open"
  BY <1>1 DEF IInv, Lines, Quiet
<1>5. InLine(ready, readers) /\ ready \in Seq(Completion)
  BY DEF IInv, Lines, InLine
<1>6. gone = 0
  <2>1. Head(ready) \in Held(ready, "until")
    BY <1>1, <1>5, HeldTail
  <2> QED
    BY <2>1 DEF IInv, Types, Lines, None
<1>7. PICK t : t = Tail(ready)
  OBVIOUS
<1>8. InLine(t, readers) /\ None(t, readers, "until")
  BY <1>1, <1>5, <1>7, RunKeeps
<1>9. Types'
  BY <1>1 DEF IInv, Types, session, writing, history
<1>10. Lines'
  BY <1>1, <1>4, <1>6, <1>7, <1>8 DEF Lines, session
<1>11. Ends'
  <2>1. Held(ready, "some") = Held(t, "some") \cup {y \in {Head(ready)} : y.op = "some"}
    BY <1>1, <1>5, <1>7, HeldTail
  <2> QED
    BY <1>1, <1>7, <2>1 DEF IInv, Ends, session
<1>12. Counted' /\ Numbered'
  BY <1>1 DEF IInv, Counted, Numbered, session, history
<1>13. Outs'
  BY <1>1, HandlerOuts
<1>14. Places'
  <2>1. PICK p \in Nat, q \in Nat :
          Placed(Wire, Start, p, q, sent, read_buf, ready, readers, inbound, link)
    BY DEF IInv, Places
  <2>2. Placed(Wire, Start, p, q, sent, SubSeq(read_buf, 1, m), Tail(ready), readers, inbound, link)
    BY <1>1, <1>2, <1>5, <2>1, UntilHandled
  <2>3. Wire' = Wire /\ Start' = Start
    BY <1>1, SameWire DEF session
  <2>4. Placed(Wire, Start, p, q, sent, read_buf', ready', readers, inbound, link)
    BY ONLY <1>1, <1>3, <2>2
  <2> QED
    BY <1>1, <2>3, <2>4 DEF Places, session
<1> QED
  BY <1>9, <1>10, <1>11, <1>12, <1>13, <1>14 DEF IInv

\* The handler of async_read_some runs.
LEMMA OnSomeKeeps ==
  ASSUME IInv, OnSome
  PROVE  IInv'
<1>1. /\ at = "idle" /\ ready # <<>> /\ Head(ready).op = "some" /\ ready' = Tail(ready)
      /\ UNCHANGED <<session, inbound, readers, shut, handled, writing, history>>
  BY DEF OnSome, Completed
<1>2. stage = "open"
  BY <1>1 DEF IInv, Lines, Quiet
<1>3. InLine(ready, readers) /\ ready \in Seq(Completion)
  BY DEF IInv, Lines, InLine
<1>4. gone = 0
  <2>1. Head(ready) \in Held(ready, "some")
    BY <1>1, <1>3, HeldTail
  <2> QED
    BY <2>1 DEF IInv, Types, Lines, None
<1>5. PICK t : t = Tail(ready)
  OBVIOUS
<1>6. InLine(t, readers) /\ None(t, readers, "until") /\ None(t, readers, "some")
  BY <1>1, <1>3, <1>5, RunKeeps
<1>7. Ends'
  <2>1. Held(t, "some") = {}
    BY <1>6 DEF None
  <2> QED
    BY <1>1, <1>5, <2>1 DEF Ends
<1>8. Counted' /\ Numbered'
  BY <1>1 DEF IInv, Counted, Numbered, session, history
<1>9. Outs'
  BY <1>1, HandlerOuts
<1>10. PICK p \in Nat, q \in Nat :
         Placed(Wire, Start, p, q, sent, read_buf, ready, readers, inbound, link)
  BY DEF IInv, Places
<1>11. /\ Placed(Wire, Start, q, q, sent, read_buf \o Head(ready).got, t, readers, inbound, link)
       /\ read_buf \in Seq(UnitSet)
  BY <1>1, <1>3, <1>5, <1>10, SomeHandled
<1>12. Wire' = Wire /\ Start' = Start
  BY <1>1, SameWire DEF session
<1>13. ASSUME read_buf' = read_buf \o Head(ready).got PROVE Places'
  <2>1. Placed(Wire, Start, q, q, sent, read_buf', ready', readers, inbound, link)
    BY ONLY <1>1, <1>5, <1>11, <1>13
  <2> QED
    BY <1>1, <1>12, <2>1 DEF Places, session
<1>14. CASE Head(ready).got = <<>>
  <2>1. gone' = 1 /\ UNCHANGED <<read_buf, at, rearm>>
    BY <1>4, <1>14 DEF OnSome
  <2>2. read_buf' = read_buf \o Head(ready).got
    BY <1>11, <1>14, <2>1, ConcatEmptySeq
  <2>3. Types'
    BY <1>1, <2>1 DEF IInv, Types, session, writing, history
  <2>4. rearm = FALSE
    BY <1>1 DEF IInv, Types, Lines
  <2>5. Lines'
    BY <1>1, <1>2, <1>5, <1>6, <2>1, <2>4 DEF Lines, session
  <2> QED
    BY <1>7, <1>8, <1>9, <1>13, <2>2, <2>3, <2>5 DEF IInv
<1>15. CASE Head(ready).got # <<>>
  <2>1. /\ read_buf' = read_buf \o Head(ready).got /\ at' = "frames" /\ rearm' = TRUE
        /\ UNCHANGED gone
    BY <1>15 DEF OnSome
  <2>2. Types'
    BY <1>1, <2>1 DEF IInv, Types, session, writing, history
  <2>3. Lines'
    BY <1>1, <1>2, <1>4, <1>5, <1>6, <2>1 DEF Lines, session
  <2> QED
    BY <1>7, <1>8, <1>9, <1>13, <2>1, <2>2, <2>3 DEF IInv
<1> QED
  BY <1>14, <1>15

\* The application calls close().
LEMMA AppCloseKeeps ==
  ASSUME IInv, AppClose
  PROVE  IInv'
<1>1. /\ stage = "open" /\ at = "idle" /\ ~ shut /\ send /\ shut' = TRUE
      /\ UNCHANGED <<session, reading, at, rearm, handled, gone>>
  BY DEF AppClose, close
<1>2. /\ Pushes(ready, ready')
      /\ writers' \in Seq(Seq(UnitSet)) /\ out' \in Seq(UnitSet)
      /\ sends \in Nat /\ sends' = sends + 1 /\ overlapped' \in BOOLEAN
      /\ Outs'
  BY <1>1, SendKeeps DEF session
<1>3. Types'
  BY <1>1, <1>2 DEF IInv, Types, session
<1>4. Lines' /\ Ends' /\ Numbered' /\ Places'
  BY <1>1, <1>2, PushedKeeps
<1>5. Counted'
  <2>1. Len(handled) \in Nat /\ sends <= Greetings + Len(handled) + 0
    BY <1>1, LenProperties DEF IInv, Types, Counted
  <2>2. sends' <= Greetings + Len(handled) + 1
    BY <1>2, <2>1, WebSocketAssumption
  <2> QED
    BY <1>1, <2>2 DEF Counted
<1> QED
  BY <1>2, <1>3, <1>4, <1>5 DEF IInv

\* A frame that is whole is the next one of the stream.
LEMMA WholeFrame ==
  ASSUME IInv, at = "frames", Consumed > 0
  PROVE  \E k \in Nat, m \in Nat, p \in Nat, q \in Nat :
           /\ k = Len(handled) /\ k + 1 \in 1..Len(stream)
           /\ m = Consumed /\ m = stream[k + 1].size /\ m <= Len(read_buf)
           /\ Head(read_buf).of = k + 1
           /\ stage = "open" /\ None(ready, readers, "until")
           /\ Placed(Wire, Start, p, q, sent, read_buf, ready, readers, inbound, link)
           /\ Bounds(Preface, stream)[k + 1] = Start + m
           /\ Start + m <= p
<1>1. stage = "open" /\ None(ready, readers, "until")
  BY DEF IInv, Lines, Quiet
<1>2. PICK p \in Nat, q \in Nat :
        Placed(Wire, Start, p, q, sent, read_buf, ready, readers, inbound, link)
  BY DEF IInv, Places
<1>3. /\ stream \in Seq(FrameSet)
      /\ Laid(Wire, Bounds(Preface, stream), stream, Preface)
  BY ThisWire DEF IInv, Types
<1>4. PICK w, b : w = Wire /\ b = Bounds(Preface, stream)
  OBVIOUS
<1>5. PICK k \in Nat, l \in Nat : k = Len(handled) /\ l = Len(stream) /\ k <= l
  BY <1>3, LenProperties DEF IInv, Types, Numbered
<1>6. /\ w \in Seq(UnitSet) /\ Len(w) \in Nat
      /\ b \in [0..l -> Nat] /\ b[l] = Len(w)
      /\ \A n \in 1..l : b[n] = b[n - 1] + stream[n].size /\ w[b[n - 1] + 1] = Unit(n, 1)
  BY <1>3, <1>4, <1>5 DEF Laid
<1>7. PICK a \in Nat : a = Start /\ a = b[k]
  <2>1. Start = b[k]
    BY <1>1, <1>4, <1>5 DEF Start
  <2>2. b[k] \in Nat
    BY <1>5, <1>6
  <2> QED
    BY <2>1, <2>2
<1>8. a <= p /\ p <= Len(w) /\ read_buf = SubSeq(w, a + 1, p) /\ read_buf \in Seq(UnitSet)
  <2>1. Between(w, a, p, q, sent) /\ Here(w, read_buf, ready, readers, a, p)
    BY <1>2, <1>4, <1>7 DEF Placed
  <2>2. read_buf = SubSeq(w, a + 1, p) /\ read_buf \in Seq(UnitSet)
    BY <1>1, <2>1 DEF Here
  <2>3. a <= p /\ p <= Len(w)
    BY <2>1 DEF Between
  <2> QED
    BY <2>2, <2>3
<1>9. PICK r \in Seq(UnitSet) : r = read_buf
  BY <1>8
<1>10. Len(r) = p - a /\ \A j \in 1..(p - a) : r[j] = w[a + j]
  <2>1. PICK c : c = SubSeq(w, a + 1, p)
    OBVIOUS
  <2>2. Len(c) = p - a /\ \A j \in 1..(p - a) : c[j] = w[a + j]
    BY ONLY <1>6, <1>8, <2>1, a \in Nat, p \in Nat, Cut
  <2> QED
    BY ONLY <1>8, <1>9, <2>1, <2>2
<1>11. r # <<>>
  BY <1>9 DEF Consumed
<1>12. Len(r) >= 1 /\ Head(r) = r[1]
  BY <1>11, EmptySeq, HeadTailProperties
<1>13. a + 1 <= p /\ 1 \in 1..(p - a)
  BY <1>10, <1>12
<1>14. k < l
  <2>1. k # l
    BY <1>6, <1>7, <1>8, <1>13
  <2> QED
    BY <1>5, <2>1
<1>15. PICK i \in 1..l : i = k + 1 /\ i - 1 = k
  BY <1>14
<1>16. PICK m \in Nat \ {0} : m = stream[i].size
  BY <1>3, <1>5, SizeType
<1>17. b[i] = a + m /\ w[a + 1] = Unit(i, 1)
  BY <1>6, <1>7, <1>15, <1>16
<1>18. Head(r) = Unit(i, 1)
  BY <1>10, <1>12, <1>13, <1>17
<1>19. Head(r).of = i /\ Head(r).at = 1 /\ i # 0
  BY <1>15, <1>18 DEF Unit
<1>20. Consumed = m /\ m <= Len(r)
  <2>1. Consumed = IF m <= Len(r) THEN m ELSE 0
    BY <1>9, <1>11, <1>16, <1>19 DEF Consumed
  <2> QED
    BY <2>1
<1>21. a + m <= p
  BY <1>8, <1>10, <1>20
<1>22. /\ k = Len(handled) /\ k + 1 \in 1..Len(stream)
       /\ m = Consumed /\ m = stream[k + 1].size /\ m <= Len(read_buf)
       /\ Head(read_buf).of = k + 1
       /\ Bounds(Preface, stream)[k + 1] = Start + m
       /\ Start + m <= p
  BY <1>4, <1>5, <1>7, <1>9, <1>14, <1>15, <1>16, <1>17, <1>19, <1>20, <1>21
<1> QED
  BY <1>1, <1>2, <1>22

\* A frame is decoded and handled.
LEMMA process_framesKeeps ==
  ASSUME IInv, process_frames
  PROVE  IInv'
<1>1. at = "frames" /\ Consumed > 0 /\ UNCHANGED <<session, inbound, readers, rearm, gone>>
  BY DEF process_frames
<1>2. PICK k \in Nat, m \in Nat, p \in Nat, q \in Nat :
        /\ k = Len(handled) /\ k + 1 \in 1..Len(stream)
        /\ m = Consumed /\ m = stream[k + 1].size /\ m <= Len(read_buf)
        /\ Head(read_buf).of = k + 1
        /\ stage = "open" /\ None(ready, readers, "until")
        /\ Placed(Wire, Start, p, q, sent, read_buf, ready, readers, inbound, link)
        /\ Bounds(Preface, stream)[k + 1] = Start + m
        /\ Start + m <= p
  BY <1>1, WholeFrame
<1>3. /\ read_buf' = SubSeq(read_buf, m + 1, Len(read_buf))
      /\ handled' = Append(handled, k + 1)
  BY <1>2 DEF process_frames
<1>4. /\ (send /\ (shut' = shut \/ shut' = TRUE)) \/ (NoSend /\ shut' = shut)
      /\ at' \in {"frames", "leave"}
  BY <1>1 DEF process_frames, close
<1>5. /\ Pushes(ready, ready')
      /\ writers' \in Seq(Seq(UnitSet)) /\ out' \in Seq(UnitSet)
      /\ sends' \in Nat /\ sends' <= sends + 1 /\ overlapped' \in BOOLEAN
      /\ Outs'
  <2>1. CASE send /\ (shut' = shut \/ shut' = TRUE)
    <3>1. link' = link /\ (shut => shut')
      BY <1>1, <2>1 DEF session
    <3> QED
      BY <2>1, <3>1, SendKeeps
  <2>2. CASE NoSend /\ shut' = shut
    <3>1. UNCHANGED <<ready, writing, history, shut, link>>
      BY <1>1, <2>2 DEF NoSend, session
    <3>2. sends \in Nat /\ sends <= sends + 1
      BY DEF IInv, Types
    <3> QED
      BY <3>1, <3>2 DEF Pushes, IInv, Types, Outs, WriteFails, writing, history
  <2> QED
    BY <1>4, <2>1, <2>2
<1>6. /\ handled \in Seq(Nat) /\ handled' \in Seq(Nat) /\ Len(handled') = k + 1
      /\ \A i \in 1..k : handled'[i] = handled[i]
      /\ handled'[k + 1] = k + 1
  <2>1. PICK h, h2 : h = handled /\ h2 = handled'
    OBVIOUS
  <2>2. h \in Seq(Nat) /\ Len(h) = k /\ h2 = Append(h, k + 1)
    BY <1>2, <1>3, <2>1 DEF IInv, Types
  <2>3. h2 \in Seq(Nat) /\ Len(h2) = k + 1 /\ (\A i \in 1..k : h2[i] = h[i]) /\ h2[k + 1] = k + 1
    BY ONLY <2>2, k \in Nat, k + 1 \in Nat, AppendProperties
  <2> QED
    BY ONLY <2>1, <2>2, <2>3
<1>7. Types'
  BY <1>1, <1>4, <1>5, <1>6 DEF IInv, Types, session
<1>8. InLine(ready, readers)
  BY DEF IInv, Lines
<1>9. /\ InLine(ready', readers)
      /\ Held(ready', "some") = Held(ready, "some")
      /\ None(ready', readers, "until") <=> None(ready, readers, "until")
      /\ None(ready', readers, "some") <=> None(ready, readers, "some")
  BY <1>5, <1>8, PushSame
<1>10. Lines'
  <2>1. gone # 1
    BY <1>1 DEF IInv, Lines
  <2> QED
    BY <1>1, <1>2, <1>4, <1>9, <2>1 DEF IInv, Lines, session
<1>11. Ends'
  BY <1>1, <1>4, <1>9 DEF IInv, Ends, session
<1>12. Counted'
  <2>1. sends \in Nat /\ sends <= Greetings + k + (IF shut THEN 1 ELSE 0) /\ shut \in BOOLEAN
    BY <1>2 DEF IInv, Types, Counted
  <2>2. sends' <= Greetings + (k + 1) + (IF shut THEN 1 ELSE 0)
    BY <1>5, <2>1, WebSocketAssumption
  <2>3. sends' <= Greetings + (k + 1) + (IF shut' THEN 1 ELSE 0)
    <3>1. shut => shut'
      BY <1>4
    <3> QED
      BY <1>5, <2>1, <2>2, <3>1, WebSocketAssumption
  <2> QED
    BY <1>6, <2>3 DEF Counted
<1>13. Numbered'
  <2>1. stream' = stream
    BY <1>1 DEF session
  <2>2. \A i \in 1..(k + 1) : i \in 1..k \/ i = k + 1
    OBVIOUS
  <2>3. \A i \in 1..k : handled[i] = i
    BY <1>2 DEF IInv, Numbered
  <2>4. k + 1 <= Len(stream)
    BY <1>2
  <2> QED
    BY <1>6, <2>1, <2>2, <2>3, <2>4 DEF Numbered
<1>14. Places'
  <2>1. PICK a2 : a2 = Start + m
    OBVIOUS
  <2>2. Placed(Wire, a2, p, q, sent, SubSeq(read_buf, m + 1, Len(read_buf)), ready, readers, inbound, link)
    BY <1>2, <2>1, Erased
  <2>3. PICK rb : rb = read_buf'
    OBVIOUS
  <2>4. Placed(Wire, a2, p, q, sent, rb, ready, readers, inbound, link)
    BY ONLY <1>3, <2>2, <2>3
  <2>5. Placed(Wire, a2, p, q, sent, rb, ready', readers, inbound, link)
    BY <1>5, <1>8, <2>4, PushPlaced
  <2>6. Wire' = Wire /\ Preface' = Preface
    BY <1>1, SameWire DEF session
  <2>7. Start' = a2
    BY <1>1, <1>2, <1>6, <2>1, <2>6 DEF Start, session
  <2> QED
    BY <1>1, <2>3, <2>5, <2>6, <2>7 DEF Places, session
<1> QED
  BY <1>5, <1>7, <1>10, <1>11, <1>12, <1>13, <1>14 DEF IInv

\* process_frames returns, and the reads start again or do not.
LEMMA LeaveKeeps ==
  ASSUME IInv, Leave
  PROVE  IInv'
<1>1. /\ at \in {"leave", "frames"} /\ at' = "idle" /\ rearm' = FALSE
      /\ UNCHANGED <<session, inbound, shut, handled, gone, writing, history>>
  BY DEF Leave
<1>2. stage = "open" /\ gone = 0 /\ InLine(ready, readers) /\ None(ready, readers, "until")
  BY <1>1 DEF IInv, Types, Lines, Quiet
<1>3. ready \in Seq(Completion)
  BY <1>2 DEF InLine
<1>4. Types'
  BY <1>1 DEF IInv, Types, session, writing, history
<1>5. Counted' /\ Numbered'
  BY <1>1 DEF IInv, Counted, Numbered, session, history
<1>6. PICK p \in Nat, q \in Nat :
        Placed(Wire, Start, p, q, sent, read_buf, ready, readers, inbound, link)
  BY DEF IInv, Places
<1>7. Wire' = Wire /\ Start' = Start
  BY <1>1, SameWire DEF session
<1>8. ASSUME InLine(ready', readers') PROVE Lines'
  BY <1>1, <1>2, <1>8 DEF Lines, session
<1>9. ASSUME UNCHANGED ready PROVE Ends' /\ Outs'
  BY <1>1, <1>9 DEF IInv, Ends, Outs, WriteFails, session, writing, history
<1>10. ASSUME Placed(Wire, Start, p, q, sent, read_buf', ready', readers', inbound, link)
       PROVE  Places'
  BY <1>1, <1>7, <1>10 DEF Places, session
<1>11. CASE UNCHANGED <<read_buf, readers, ready>>
  BY <1>2, <1>4, <1>5, <1>6, <1>8, <1>9, <1>10, <1>11 DEF IInv
<1>12. CASE rearm /\ read_frames
  <2>1. readers' = Append(readers, "some") /\ UNCHANGED <<read_buf, ready>>
    BY <1>12 DEF read_frames
  <2>2. None(ready, readers, "some")
    BY <1>12 DEF IInv, Lines
  <2>3. InLine(ready', readers')
    BY <1>2, <2>1, <2>2, StartKeeps
  <2>4. Placed(Wire, Start, p, q, sent, read_buf, ready, Append(readers, "some"), inbound, link)
    BY <1>2, <1>6, <2>2, StartPlaced
  <2>5. Placed(Wire, Start, p, q, sent, read_buf', ready', readers', inbound, link)
    BY ONLY <2>1, <2>4
  <2> QED
    BY <1>4, <1>5, <1>8, <1>9, <1>10, <2>1, <2>3, <2>5 DEF IInv
<1>13. CASE rearm /\ read_frame /\ read_buf = <<>>
  <2>1. read_buf' = Grown /\ readers' = readers \o <<"until", "some">> /\ UNCHANGED ready
    BY <1>13 DEF read_frame
  <2>2. None(ready, readers, "some")
    BY <1>13 DEF IInv, Lines
  <2>3. InLine(ready', readers')
    BY <1>2, <2>1, <2>2, StartKeeps
  <2>4. Placed(Wire, Start, p, q, sent, Grown, ready, readers \o <<"until", "some">>, inbound, link)
    BY <1>2, <1>6, <1>13, <2>2, StartPlaced
  <2>5. Placed(Wire, Start, p, q, sent, read_buf', ready', readers', inbound, link)
    BY ONLY <2>1, <2>4
  <2> QED
    BY <1>4, <1>5, <1>8, <1>9, <1>10, <2>1, <2>3, <2>5 DEF IInv
<1>14. CASE rearm /\ read_frame /\ read_buf # <<>>
  <2>1. /\ readers' = Append(readers, "some") /\ ready' = Append(ready, UntilDone(0, 0))
        /\ UNCHANGED read_buf
    BY <1>14 DEF read_frame
  <2>2. None(ready, readers, "some")
    BY <1>14 DEF IInv, Lines
  <2>3. InLine(ready', readers')
    BY <1>2, <2>1, <2>2, StartKeeps
  <2>4. Placed(Wire, Start, p, q, sent, read_buf, Append(ready, UntilDone(0, 0)),
               Append(readers, "some"), inbound, link)
    BY <1>2, <1>6, <2>2, StartPlaced
  <2>5. Placed(Wire, Start, p, q, sent, read_buf', ready', readers', inbound, link)
    BY ONLY <2>1, <2>4
  <2>6. PICK x \in Completion : x = UntilDone(0, 0) /\ x.op = "until"
    <3>1. UntilDone(0, 0) \in Completion /\ UntilDone(0, 0).op = "until"
      BY ONLY CompletionType, 0 \in Nat
    <3> QED
      BY ONLY <3>1
  <2>7. Ends'
    <3>1. Held(ready', "some") = Held(ready, "some") \cup {y \in {x} : y.op = "some"}
      BY <1>3, <2>1, <2>6, HeldAppend
    <3> QED
      BY <1>1, <2>6, <3>1 DEF IInv, Ends, session
  <2>8. Outs'
    <3>1. ASSUME NEW y, Left(ready, writers, y) PROVE Left(ready', writers, y)
      BY <1>3, <2>1, <2>6, <3>1, LeftAppend
    <3> QED
      BY <1>1, <3>1 DEF IInv, Outs, GoesOut, WriteFails, session, writing, history
  <2> QED
    BY <1>4, <1>5, <1>8, <1>10, <2>3, <2>5, <2>7, <2>8 DEF IInv
<1> QED
  BY <1>11, <1>12, <1>13, <1>14 DEF Leave

\* The invariant holds at the start.
LEMMA InitHolds == Init => IInv
<1> SUFFICES ASSUME Init PROVE IInv
  OBVIOUS
<1>1. Types
  <2>1. handled \in Seq(Nat) /\ writers \in Seq(Seq(UnitSet)) /\ out \in Seq(UnitSet)
    BY EmptySeq DEF Init
  <2>2. sent = 0 /\ early = 0 /\ gone = 0 /\ sends = 0 /\ stream \in Streams
    BY DEF Init
  <2>3. sent \in Nat /\ early \in Nat /\ early <= sent /\ gone \in 0..1 /\ sends \in Nat
    BY ONLY <2>2
  <2>4. /\ role \in {"server", "client", "refused"}
        /\ stage \in {"resolve", "connect", "write", "head", "open", "over"}
        /\ link \in {"up", "closed", "reset"} /\ at \in {"idle", "open", "frames", "leave"}
    BY DEF Init
  <2>5. shut \in BOOLEAN /\ rearm \in BOOLEAN /\ overlapped \in BOOLEAN
    BY DEF Init
  <2> QED
    BY ONLY <2>1, <2>2, <2>3, <2>4, <2>5 DEF Types
<1>2. /\ ready = <<>> /\ InLine(<<>>, <<>>) /\ (\A op : None(<<>>, <<>>, op))
      /\ InLine(<<>>, <<>> \o <<"until", "some">>)
      /\ <<>> \o <<"until", "some">> = <<"until", "some">>
  <2>1. Len(<<>>) = 0 /\ <<>> \in Seq(Completion) /\ <<>> \in Seq({"until", "some"})
    BY EmptySeq
  <2>2. InLine(<<>>, <<>>)
    BY <2>1 DEF InLine
  <2>3. \A op : None(<<>>, <<>>, op)
    BY <2>1 DEF None, Held, Waits
  <2>4. InLine(<<>>, <<>> \o <<"until", "some">>)
    BY <2>2, <2>3, StartKeeps
  <2> QED
    BY <2>2, <2>3, <2>4 DEF Init
<1>3. Lines
  <2>1. InLine(ready, readers)
    BY <1>2 DEF Init
  <2>2. stage # "open" => Quiet
    BY DEF Init, Quiet
  <2> QED
    BY <2>1, <2>2 DEF Init, Lines
<1>4. Ends
  BY <1>2 DEF Ends, None
<1>5. Counted /\ Numbered
  <2>1. Len(handled) = 0 /\ sends = 0 /\ shut = FALSE
    BY EmptySeq DEF Init
  <2>2. Len(stream) \in Nat
    BY <1>1, ThisWire, LenProperties DEF Types
  <2> QED
    BY <2>1, <2>2, WebSocketAssumption DEF Counted, Numbered
<1>6. Outs
  <2>1. AllUnits(0) = <<>>
    <3>1. [k \in 1..0 |-> OutUnits(k)] = <<>>
      OBVIOUS
    <3> QED
      BY <3>1, EmptySeq DEF AllUnits, FlattenSeq
  <2>2. <<>> \in Seq(UnitSet) /\ <<>> \o <<>> = <<>>
    BY EmptySeq
  <2>3. Held(<<>>, "write") = {}
    BY <1>2 DEF None
  <2>4. Left(<<>>, <<>>, <<>>)
    BY <2>3 DEF Left
  <2> QED
    BY <2>1, <2>2, <2>4 DEF Init, Outs, GoesOut
<1>7. Places
  <2>1. PICK w, b : w = Wire /\ b = Bounds(Preface, stream)
    OBVIOUS
  <2>2. w \in Seq(UnitSet) /\ Len(w) \in Nat /\ b[0] = Len(Preface)
    BY <1>1, <2>1, ThisWire DEF Types, Laid
  <2>3. Start = 0
    <3>1. CASE role = "server"
      <4>1. Preface = <<>> /\ Len(handled) = 0
        BY <3>1, EmptySeq DEF Init, Preface
      <4>2. b[0] = 0
        BY <2>2, <4>1, EmptySeq
      <4> QED
        BY <2>1, <4>1, <4>2 DEF Start
    <3>2. CASE role # "server"
      BY <3>2 DEF Init, Start
    <3> QED
      BY <3>1, <3>2
  <2>4. Placed(w, 0, 0, 0, 0, <<>>, <<>>, <<>>, <<>>, "up")
    <3>1. SubSeq(w, 0 + 1, 0) = <<>> /\ <<>> \in Seq(UnitSet)
      BY EmptyCut, EmptySeq
    <3>2. Between(w, 0, 0, 0, 0)
      BY <2>2 DEF Between
    <3>3. Here(w, <<>>, <<>>, <<>>, 0, 0) /\ There(w, <<>>, 0, 0)
      BY <1>2, <3>1 DEF Here, There, None
    <3>4. Beyond(w, <<>>, "up", 0, 0)
      BY <3>1 DEF Beyond
    <3> QED
      BY <3>2, <3>3, <3>4 DEF Placed
  <2>5. Placed(w, 0, 0, 0, 0, Grown, <<>>, <<>> \o <<"until", "some">>, <<>>, "up")
    BY <1>2, <2>4, StartPlaced
  <2>6. Placed(w, 0, 0, 0, 0, read_buf, ready, readers, inbound, link)
    <3>1. CASE role = "server"
      BY <1>2, <2>5, <3>1 DEF Init
    <3>2. CASE role # "server"
      BY <2>4, <3>2 DEF Init
    <3> QED
      BY <3>1, <3>2
  <2>7. sent = 0 /\ 0 \in Nat
    BY DEF Init
  <2>8. Placed(Wire, Start, 0, 0, sent, read_buf, ready, readers, inbound, link)
    BY ONLY <2>1, <2>3, <2>6, <2>7
  <2> QED
    BY <2>7, <2>8 DEF Places
<1> QED
  BY <1>1, <1>3, <1>4, <1>5, <1>6, <1>7 DEF IInv

\* Nothing happens.
LEMMA StutterKeeps ==
  ASSUME IInv, UNCHANGED vars
  PROVE  IInv'
<1>1. UNCHANGED <<session, reading, shut, ready, at, rearm, handled, gone, writing, history>>
  BY DEF vars
<1>2. Wire' = Wire /\ Start' = Start
  BY <1>1, SameWire DEF session
<1>3. Types' /\ Ends' /\ Counted' /\ Numbered'
  BY <1>1 DEF IInv, Types, Ends, Counted, Numbered, session, reading, writing, history
<1>4. Lines'
  BY <1>1 DEF IInv, Lines, Quiet, session, reading, writing, history
<1>5. Places' /\ Outs'
  BY <1>1, <1>2 DEF IInv, Places, Outs, WriteFails, session, reading, writing, history
<1> QED
  BY <1>3, <1>4, <1>5 DEF IInv

\* The invariant holds in every state of the connection.
THEOREM Invariance == Spec => []IInv
<1>1. Init => IInv
  BY InitHolds
<1>2. IInv /\ [Next]_vars => IInv'
  <2> SUFFICES ASSUME IInv, [Next]_vars PROVE IInv'
    OBVIOUS
  <2>1. CASE PeerSend
    BY <2>1, PeerSendKeeps
  <2>2. CASE PeerClose
    BY <2>2, PeerCloseKeeps
  <2>3. CASE Receive
    BY <2>3, ReceiveKeeps
  <2>4. CASE Transmit
    BY <2>4, TransmitKeeps
  <2>5. CASE Handshake
    BY <2>5, HandshakeKeeps
  <2>6. CASE ReadResponse
    BY <2>6, ReadResponseKeeps
  <2>7. CASE OnOpen
    BY <2>7, OnOpenKeeps
  <2>8. CASE OnUntil
    BY <2>8, OnUntilKeeps
  <2>9. CASE OnSome
    BY <2>9, OnSomeKeeps
  <2>10. CASE OnWrite
    BY <2>10, OnWriteKeeps
  <2>11. CASE process_frames
    BY <2>11, process_framesKeeps
  <2>12. CASE Leave
    BY <2>12, LeaveKeeps
  <2>13. CASE AppClose
    BY <2>13, AppCloseKeeps
  <2>14. CASE UNCHANGED vars
    BY <2>14, StutterKeeps
  <2> QED
    BY <2>1, <2>2, <2>3, <2>4, <2>5, <2>6, <2>7, <2>8, <2>9, <2>10, <2>11, <2>12, <2>13, <2>14
       DEF Next, EventLoop
<1> QED
  BY <1>1, <1>2, PTL DEF Spec

\* What is in front of something is a prefix of both.
LEMMA PrefixIs ==
  ASSUME NEW S, NEW s \in Seq(S), NEW t \in Seq(S)
  PROVE  IsPrefix(s, s \o t)
<1>0. PICK c : c = s \o t
  OBVIOUS
<1>1. PICK n \in Nat : c = s \o t /\ n = Len(s)
  BY <1>0, LenProperties
<1>2. c \in Seq(S) /\ n <= Len(c) /\ \A k \in 1..n : c[k] = s[k]
  <2>1. /\ c \in Seq(S) /\ Len(c) = Len(s) + Len(t)
        /\ \A i \in 1..(Len(s) + Len(t)) : c[i] = IF i <= Len(s) THEN s[i] ELSE t[i - Len(s)]
    BY <1>1, ConcatProperties
  <2>2. Len(t) \in Nat
    BY LenProperties
  <2> QED
    BY <1>1, <2>1, <2>2
<1>3. PICK d : d = SubSeq(c, 1, n)
  OBVIOUS
<1>4. d \in Seq(S) /\ Len(d) = n /\ \A k \in 1..n : d[k] = c[k]
  BY ONLY <1>2, <1>3, n \in Nat, FrontCut
<1>5. d = s
  <2>1. Len(d) = Len(s) /\ \A k \in 1..Len(d) : d[k] = s[k]
    BY <1>1, <1>2, <1>4
  <2> QED
    BY ONLY <1>4, <2>1, s \in Seq(S), SeqEqual
<1>6. SubSeq(s, 1, n) = s
  BY <1>1, SubSeqFull
<1> QED
  BY <1>1, <1>2, <1>3, <1>5, <1>6 DEF IsPrefix

\* Every variable has its type.
THEOREM TypeCorrect == Spec => []TypeOK
<1>1. IInv => TypeOK
  <2> SUFFICES ASSUME IInv PROVE TypeOK
    OBVIOUS
  <2>1. sent \in 0..Len(Wire) /\ early \in 0..sent
    <3>1. PICK p \in Nat, q \in Nat :
            Placed(Wire, Start, p, q, sent, read_buf, ready, readers, inbound, link)
      BY DEF IInv, Places
    <3>2. sent \in Nat /\ sent <= Len(Wire) /\ Len(Wire) \in Nat
      BY <3>1 DEF Placed, Between
    <3> QED
      BY <3>2 DEF IInv, Types
  <2>2. \A i \in DOMAIN readers : readers[i] \in {"until", "some"}
    BY ElementOfSeq DEF IInv, Lines, InLine
  <2>3. \A i \in DOMAIN ready : ready[i].op \in {"until", "some", "write"}
    <3>1. ready \in Seq(Completion)
      BY DEF IInv, Lines, InLine
    <3>2. \A i \in DOMAIN ready : ready[i] \in Completion
      BY <3>1, ElementOfSeq
    <3> QED
      BY <3>2, CompletionType
  <2>4. sends \in 0..(Greetings + Len(stream) + 1)
    <3>1. /\ Len(handled) \in Nat /\ Len(stream) \in Nat /\ Len(handled) <= Len(stream)
          /\ sends \in Nat
      BY ThisWire, LenProperties DEF IInv, Types, Numbered
    <3>2. sends <= Greetings + Len(handled) + (IF shut THEN 1 ELSE 0)
      BY DEF IInv, Counted
    <3> QED
      BY <3>1, <3>2, WebSocketAssumption
  <2> QED
    BY <2>1, <2>2, <2>3, <2>4 DEF IInv, Types, Numbered, TypeOK
<1> QED
  BY <1>1, Invariance, PTL

\* However reads, handlers and a burst of frames interleave, the read that
\* read_frame() starts into read_buf_ is over before it starts another, and so
\* is the one into raw_buf_; process_frames never works on a read_buf_ that the
\* kernel may still write into.
THEOREM OneReadHolds == Spec => []OneReadPerBuffer
<1>1. IInv => OneReadPerBuffer
  <2> SUFFICES ASSUME IInv PROVE OneReadPerBuffer
    OBVIOUS
  <2>1. /\ ready \in Seq(Completion) /\ readers \in Seq({"until", "some"})
        /\ \A i, j \in 1..Len(ready) : i < j => Follows(ready[i].op, ready[j].op)
        /\ \A i \in 1..Len(ready), j \in 1..Len(readers) : Follows(ready[i].op, readers[j])
        /\ \A i, j \in 1..Len(readers) : i < j => Follows(readers[i], readers[j])
    BY DEF IInv, Lines, InLine
  <2>2. DOMAIN ready = 1..Len(ready) /\ DOMAIN readers = 1..Len(readers)
    BY <2>1
  <2>3. ASSUME NEW op \in {"until", "some"} PROVE ~ Follows(op, op)
    BY DEF Follows
  <2>4. ASSUME NEW op \in {"until", "some"}, NEW x \in UnderWay(op), NEW y \in UnderWay(op)
        PROVE  x = y
    <3>1. ASSUME NEW i \in 1..Len(readers), NEW j \in 1..Len(readers),
                 readers[i] = op, readers[j] = op
          PROVE  i = j
      BY <2>1, <2>3, <3>1
    <3>2. ASSUME NEW i \in 1..Len(ready), NEW j \in 1..Len(ready),
                 ready[i].op = op, ready[j].op = op
          PROVE  i = j
      BY <2>1, <2>3, <3>2
    <3>3. ASSUME NEW i \in 1..Len(ready), NEW j \in 1..Len(readers),
                 ready[i].op = op, readers[j] = op
          PROVE  FALSE
      BY <2>1, <2>3, <3>3
    <3>4. \A z \in UnderWay(op) :
            \/ \E i \in 1..Len(readers) : z = <<"socket", i>> /\ readers[i] = op
            \/ \E i \in 1..Len(ready) : z = <<"loop", i>> /\ ready[i].op = op
      BY <2>2 DEF UnderWay
    <3> QED
      BY <3>1, <3>2, <3>3, <3>4
  <2>5. ASSUME at # "idle" PROVE UnderWay("until") = {}
    <3>1. Held(ready, "until") = {} /\ ~ Waits(readers, "until")
      BY <2>5 DEF IInv, Lines, None
    <3>2. \A i \in 1..Len(ready) : ready[i].op # "until"
      BY <2>1, <3>1, HeldEmpty
    <3>3. \A i \in 1..Len(readers) : readers[i] # "until"
      BY <3>1 DEF Waits
    <3> QED
      BY <2>2, <3>2, <3>3 DEF UnderWay
  <2> QED
    BY <2>4, <2>5 DEF OneReadPerBuffer
<1> QED
  BY <1>1, Invariance, PTL

\* What the socket has accepted is the frames that send() was called with, in
\* order, whole but for the last one, however short its writes are, as long as
\* no send() was called while a write was under way.
THEOREM OutFramesHold == Spec => []OutFramesWhole
<1>1. IInv => OutFramesWhole
  <2> SUFFICES ASSUME IInv, ~ overlapped
               PROVE  IsPrefix(out, FlattenSeq([n \in 1..sends |-> OutUnits(n)]))
    BY DEF OutFramesWhole
  <2>1. PICK y \in Seq(UnitSet) : out \o y = AllUnits(sends)
    BY DEF IInv, Outs, GoesOut
  <2>2. IsPrefix(out, out \o y)
    BY PrefixIs DEF IInv, Types
  <2> QED
    BY <2>1, <2>2 DEF AllUnits
<1> QED
  BY <1>1, Invariance, PTL

\* The first n of the indices.
LEMMA CountFirst ==
  ASSUME NEW r \in Seq(UnitSet), NEW n \in Nat, n <= Len(r),
         \A j \in 1..n : r[j] # Filler, \A j \in (n + 1)..Len(r) : r[j] = Filler
  PROVE  Cardinality({j \in DOMAIN r : r[j] # Filler}) = n
<1>1. PICK l \in Nat : l = Len(r)
  BY LenProperties
<1>2. DOMAIN r = 1..l
  BY <1>1
<1>3. \A j \in 1..l : j \in 1..n \/ j \in (n + 1)..l
  OBVIOUS
<1>4. {j \in DOMAIN r : r[j] # Filler} = 1..n
  BY <1>1, <1>2, <1>3
<1>5. Cardinality(1..n) = n
  <2>1. 1 \in Int /\ n \in Int
    OBVIOUS
  <2>2. Cardinality(1..n) = IF 1 > n THEN 0 ELSE n - 1 + 1
    BY <2>1, FS_Interval
  <2> QED
    BY <2>2
<1> QED
  BY <1>4, <1>5

\* What read_buf_ holds.
LEMMA BufferedIs ==
  ASSUME NEW p \in Nat, NEW q \in Nat, NEW w \in Seq(UnitSet), NEW a \in Nat,
         \A k \in 1..Len(w) : w[k] # Filler, a <= p, p <= Len(w),
         Here(w, read_buf, ready, readers, a, p), ready \in Seq(Completion)
  PROVE  Buffered = SubSeq(w, a + 1, p)
<1>1. PICK l \in Nat : l = Len(w)
  BY LenProperties
<1>2. PICK r \in Seq(UnitSet) : r = read_buf
  BY DEF Here
<1>3. PICK c : c = SubSeq(w, a + 1, p)
  OBVIOUS
<1>4. c \in Seq(UnitSet) /\ Len(c) = p - a /\ \A j \in 1..(p - a) : c[j] = w[a + j]
  BY <1>3, Cut
<1>5. \A j \in 1..(p - a) : a + j \in 1..Len(w) /\ w[a + j] # Filler
  BY <1>1
<1>6. PICK n \in Nat : n = p - a
  OBVIOUS
<1>7. ASSUME n <= Len(r), \A j \in 1..n : r[j] = w[a + j],
             \A j \in (n + 1)..Len(r) : r[j] = Filler
      PROVE  Buffered = c
  <2>1. \A j \in 1..n : r[j] # Filler
    BY <1>5, <1>6, <1>7
  <2>2. Cardinality({j \in DOMAIN r : r[j] # Filler}) = n
    BY <1>7, <2>1, CountFirst
  <2>3. Buffered = SubSeq(r, 1, n)
    BY <1>2, <2>2 DEF Buffered
  <2>4. PICK d : d = SubSeq(r, 1, n)
    OBVIOUS
  <2>5. d \in Seq(UnitSet) /\ Len(d) = n /\ \A j \in 1..n : d[j] = r[j]
    BY <1>7, <2>4, FrontCut
  <2>6. Len(d) = Len(c) /\ \A j \in 1..Len(d) : d[j] = c[j]
    BY <1>4, <1>6, <1>7, <2>5
  <2>7. d = c
    BY ONLY <1>4, <2>5, <2>6, SeqEqual
  <2> QED
    BY <2>3, <2>4, <2>7
<1>8. ASSUME r = c PROVE Buffered = c
  <2>1. n <= Len(r) /\ (\A j \in 1..n : r[j] = w[a + j]) /\ Len(r) = n
    BY <1>4, <1>6, <1>8
  <2>2. \A j \in (n + 1)..Len(r) : r[j] = Filler
    BY <2>1
  <2> QED
    BY <1>7, <2>1, <2>2
<1>9. CASE Waits(readers, "until")
  <2>1. r = Grown /\ p = a
    BY <1>2, <1>9 DEF Here
  <2>2. n = 0 /\ Len(r) = Grow /\ \A j \in 1..Grow : r[j] = Filler
    BY <1>6, <2>1, GrownIs
  <2>3. n <= Len(r) /\ (\A j \in 1..n : r[j] = w[a + j])
        /\ \A j \in (n + 1)..Len(r) : r[j] = Filler
    BY <2>2, GrownIs
  <2> QED
    BY <1>3, <1>7, <2>3
<1>10. ASSUME NEW d \in Held(ready, "until") PROVE Buffered = c
  <2>1. \/ d.grown = 0 /\ d.n = 0 /\ r = SubSeq(w, a + 1, p)
        \/ /\ d.grown = Grow /\ d.n <= Grow /\ p = a + d.n /\ Len(r) = Grow
           /\ \A j \in 1..d.n : r[j] = w[a + j]
           /\ \A j \in (d.n + 1)..Grow : r[j] = Filler
    BY <1>2, <1>10 DEF Here
  <2>2. CASE r = SubSeq(w, a + 1, p)
    BY <1>3, <1>8, <2>2
  <2>3. CASE /\ d.n <= Grow /\ p = a + d.n /\ Len(r) = Grow
             /\ \A j \in 1..d.n : r[j] = w[a + j]
             /\ \A j \in (d.n + 1)..Grow : r[j] = Filler
    <3>1. d \in Completion /\ d.op = "until"
      <4>1. PICK i \in 1..Len(ready) : d = ready[i] /\ ready[i].op = "until"
        BY <1>10 DEF Held
      <4> QED
        BY <4>1, ElementOfSeq
    <3>2. PICK m \in Nat : m = d.n
      BY <3>1, CompletionType
    <3>3. m = n
      BY <1>6, <2>3, <3>2
    <3> QED
      BY <1>7, <2>3, <3>2, <3>3
  <2> QED
    BY <2>1, <2>2, <2>3
<1>11. CASE None(ready, readers, "until")
  BY <1>2, <1>3, <1>8, <1>11 DEF Here
<1> QED
  BY <1>3, <1>9, <1>10, <1>11 DEF None

\* What raw_buf_ holds.
LEMMA InRawIs ==
  ASSUME NEW p \in Nat, NEW q \in Nat, NEW w,
         There(w, ready, p, q), ready \in Seq(Completion)
  PROVE  InRaw = SubSeq(w, p + 1, q)
<1>1. PICK done : done = {i \in DOMAIN ready : ready[i].op = "some"}
  OBVIOUS
<1>2. InRaw = IF done = {} THEN <<>> ELSE ready[CHOOSE i \in done : TRUE].got
  BY <1>1 DEF InRaw
<1>3. DOMAIN ready = 1..Len(ready)
  OBVIOUS
<1>4. CASE done = {}
  <2>1. Held(ready, "some") = {}
    BY <1>1, <1>3, <1>4 DEF Held
  <2>2. q = p
    BY <2>1 DEF There
  <2>3. SubSeq(w, p + 1, p) = <<>>
    BY EmptyCut
  <2> QED
    BY <1>2, <1>4, <2>2, <2>3
<1>5. CASE done # {}
  <2>1. PICK i : i = CHOOSE j \in done : TRUE
    OBVIOUS
  <2>2. i \in done
    BY <1>5, <2>1
  <2>3. ready[i] \in Held(ready, "some")
    BY <1>1, <1>3, <2>2 DEF Held
  <2> QED
    BY <1>2, <1>5, <2>1, <2>3 DEF There
<1> QED
  BY <1>4, <1>5

\* What was decoded, with the response a client has read before.
LEMMA DecodedIs ==
  ASSUME IInv
  PROVE  (IF stage = "open" THEN Preface ELSE <<>>) \o
           FlattenSeq([k \in DOMAIN handled |->
             IF handled[k] = 0 THEN <<Filler>>
             ELSE FrameUnits(handled[k], stream[handled[k]].size)])
           = SubSeq(Wire, 1, Start)
<1>1. PICK h \in Seq(Nat) : h = handled
  BY DEF IInv, Types
<1>2. PICK n \in Nat : n = Len(h) /\ DOMAIN h = 1..n
  BY LenProperties
<1>3. n <= Len(stream) /\ \A k \in 1..n : h[k] = k /\ h[k] # 0
  <2>1. n <= Len(stream) /\ \A k \in 1..n : h[k] = k
    BY <1>1, <1>2 DEF IInv, Numbered
  <2> QED
    BY <2>1
<1>4. [k \in DOMAIN h |-> IF h[k] = 0 THEN <<Filler>> ELSE FrameUnits(h[k], stream[h[k]].size)]
        = [i \in 1..n |-> FrameUnits(i, stream[i].size)]
  BY <1>2, <1>3
<1>5. FlattenSeq([k \in DOMAIN h |-> IF h[k] = 0 THEN <<Filler>>
                                      ELSE FrameUnits(h[k], stream[h[k]].size)]) = Frames(stream, n)
  BY <1>4 DEF Frames
<1>6. CASE stage = "open"
  <2>1. Laid(Wire, Bounds(Preface, stream), stream, Preface) /\ stream \in Seq(FrameSet)
    BY ThisWire DEF IInv, Types
  <2>2. n \in 0..Len(stream)
    BY <1>3, <2>1, LenProperties
  <2>3. SubSeq(Wire, 1, Bounds(Preface, stream)[n]) = UpToFrame(Preface, stream, n)
    BY <2>1, <2>2 DEF Laid
  <2>4. Start = Bounds(Preface, stream)[n]
    BY <1>1, <1>2, <1>6 DEF Start
  <2> QED
    BY <1>1, <1>5, <1>6, <2>3, <2>4 DEF UpToFrame
<1>7. CASE stage # "open"
  <2>1. h = <<>> /\ Start = 0
    BY <1>1, <1>7 DEF IInv, Lines, Quiet, Start
  <2>2. Frames(stream, n) = <<>>
    BY <1>2, <2>1, NoFrame, EmptySeq
  <2>3. SubSeq(Wire, 1, 0) = <<>> /\ <<>> \o <<>> = <<>>
    <3>1. SubSeq(Wire, 0 + 1, 0) = <<>> /\ 0 + 1 = 1
      BY EmptyCut
    <3> QED
      BY <3>1
  <2> QED
    BY <1>1, <1>5, <1>7, <2>1, <2>2, <2>3
<1> QED
  BY <1>6, <1>7

\* Two reads into two buffers, one of which is also what process_frames works
\* on, never reorder, lose or repeat a unit of the peer's stream: what was
\* decoded, what the two buffers hold and what the socket holds are together
\* what the peer has sent.
THEOREM StreamHolds == Spec => []StreamInOrder
<1>1. IInv => StreamInOrder
  <2> SUFFICES ASSUME IInv PROVE StreamInOrder
    OBVIOUS
  <2>1. PICK p \in Nat, q \in Nat :
          Placed(Wire, Start, p, q, sent, read_buf, ready, readers, inbound, link)
    BY DEF IInv, Places
  <2>2. PICK w, a : w = Wire /\ a = Start
    OBVIOUS
  <2>3. /\ Between(w, a, p, q, sent) /\ Here(w, read_buf, ready, readers, a, p)
        /\ There(w, ready, p, q) /\ Beyond(w, inbound, link, q, sent)
    BY <2>1, <2>2 DEF Placed
  <2>4. /\ w \in Seq(UnitSet) /\ Len(w) \in Nat /\ a \in Nat /\ sent \in Nat
        /\ a <= p /\ p <= q /\ q <= sent /\ sent <= Len(w) /\ p <= Len(w) /\ q <= Len(w)
        /\ 0 <= a /\ 0 <= p /\ 0 <= q
    BY <2>3 DEF Between
  <2>5. \A k \in 1..Len(w) : w[k] # Filler
    BY <2>2, ThisWire DEF IInv, Types, Laid
  <2>6. ready \in Seq(Completion)
    BY DEF IInv, Lines, InLine
  <2>7. Buffered = SubSeq(w, a + 1, p)
    BY <2>3, <2>4, <2>5, <2>6, BufferedIs
  <2>8. InRaw = SubSeq(w, p + 1, q)
    BY <2>3, <2>6, InRawIs
  <2>9. PICK taken :
          taken = ((IF stage = "open" THEN Preface ELSE <<>>) \o
                   FlattenSeq([k \in DOMAIN handled |->
                     IF handled[k] = 0 THEN <<Filler>>
                     ELSE FrameUnits(handled[k], stream[handled[k]].size)])) \o Buffered \o InRaw
    OBVIOUS
  <2>10. taken = SubSeq(w, 1, q)
    <3>1. taken = SubSeq(w, 1, a) \o Buffered \o InRaw
      BY ONLY <2>2, <2>9, DecodedIs, IInv
    <3>2. SubSeq(w, 0 + 1, a) \o SubSeq(w, a + 1, p) = SubSeq(w, 0 + 1, p)
      BY ONLY <2>4, p \in Nat, 0 \in Nat, Join
    <3>3. SubSeq(w, 0 + 1, p) \o SubSeq(w, p + 1, q) = SubSeq(w, 0 + 1, q)
      BY ONLY <2>4, p \in Nat, q \in Nat, 0 \in Nat, Join
    <3>4. 0 + 1 = 1
      OBVIOUS
    <3> QED
      BY ONLY <2>7, <2>8, <3>1, <3>2, <3>3, <3>4
  <2>11. CASE link = "reset"
    <3>1. PICK rest \in Seq(UnitSet) : rest = SubSeq(w, q + 1, Len(w))
      <4>1. PICK z \in Nat : z = Len(w) /\ q <= z /\ z <= Len(w)
        BY <2>4
      <4>2. SubSeq(w, q + 1, z) \in Seq(UnitSet)
        BY ONLY <2>4, <4>1, q \in Nat, Cut
      <4> QED
        BY ONLY <4>1, <4>2
    <3>2. taken \in Seq(UnitSet)
      BY <2>4, <2>10, FrontCut
    <3>3. taken \o rest = w
      <4>1. PICK z \in Nat : z = Len(w) /\ q <= z /\ z <= Len(w)
        BY <2>4
      <4>2. SubSeq(w, 0 + 1, q) \o SubSeq(w, q + 1, z) = SubSeq(w, 0 + 1, z)
        <5>1. w \in Seq(UnitSet) /\ 0 <= q /\ q <= z /\ z <= Len(w)
          BY ONLY <2>4, <4>1
        <5> QED
          BY ONLY <5>1, q \in Nat, z \in Nat, 0 \in Nat, Join
      <4>3. SubSeq(w, 1, z) = w
        BY ONLY <2>4, <4>1, SubSeqFull
      <4>4. 0 + 1 = 1
        OBVIOUS
      <4> QED
        BY ONLY <2>10, <3>1, <4>1, <4>2, <4>3, <4>4
    <3>4. IsPrefix(taken, taken \o rest)
      BY <3>1, <3>2, PrefixIs
    <3>5. IsPrefix(taken, Wire)
      BY ONLY <2>2, <3>3, <3>4
    <3> QED
      BY <2>9, <2>11, <3>5 DEF StreamInOrder
  <2>12. CASE link # "reset"
    <3>1. inbound = SubSeq(w, q + 1, sent)
      BY <2>3, <2>12 DEF Beyond
    <3>2. SubSeq(w, 0 + 1, q) \o SubSeq(w, q + 1, sent) = SubSeq(w, 0 + 1, sent)
      BY ONLY <2>4, q \in Nat, 0 \in Nat, Join
    <3>3. 0 + 1 = 1
      OBVIOUS
    <3>4. taken \o inbound = SubSeq(Wire, 1, sent)
      BY ONLY <2>2, <2>10, <3>1, <3>2, <3>3
    <3> QED
      BY <2>9, <2>12, <3>4 DEF StreamInOrder
  <2> QED
    BY <2>11, <2>12
<1> QED
  BY <1>1, Invariance, PTL

(***************************************************************************)
(* The steps of the channel.                                               *)
(***************************************************************************)
\* The frames, of l, that end within the first s units.
Within(b, l, s) == {i \in 1..l : s >= b[i]}

Rises(b, l) == b \in [0..l -> Nat] /\ \A m, n \in 0..l : m < n => b[m] < b[n]

\* The frames that have arrived can be counted.
LEMMA WithinFinite ==
  ASSUME NEW b, NEW l \in Nat, NEW s
  PROVE  /\ IsFiniteSet(Within(b, l, s)) /\ Cardinality(Within(b, l, s)) \in Nat
<1>1. IsFiniteSet(1..l)
  <2>1. 1 \in Int /\ l \in Int
    OBVIOUS
  <2> QED
    BY <2>1, FS_Interval
<1>2. Within(b, l, s) \in SUBSET (1..l)
  BY DEF Within
<1>3. IsFiniteSet(Within(b, l, s))
  BY <1>1, <1>2, FS_Subset
<1> QED
  BY <1>3, FS_CardinalityType

\* One more unit completes one frame at most.
LEMMA OneUnit ==
  ASSUME NEW b, NEW l \in Nat, Rises(b, l), NEW s \in Nat, NEW s2, s2 = s + 1
  PROVE  \/ Cardinality(Within(b, l, s2)) = Cardinality(Within(b, l, s))
         \/ Cardinality(Within(b, l, s2)) = Cardinality(Within(b, l, s)) + 1
<1>1. \A i \in 1..l : i \in 0..l /\ b[i] \in Nat
  BY DEF Rises
<1>2. \A i \in 1..l : s2 >= b[i] <=> (s >= b[i] \/ b[i] = s2)
  BY <1>1
<1>3. CASE \A i \in 1..l : b[i] # s2
  <2>1. Within(b, l, s2) = Within(b, l, s)
    BY <1>2, <1>3 DEF Within
  <2> QED
    BY <2>1
<1>4. ASSUME NEW j \in 1..l, b[j] = s2
      PROVE  \/ Cardinality(Within(b, l, s2)) = Cardinality(Within(b, l, s))
             \/ Cardinality(Within(b, l, s2)) = Cardinality(Within(b, l, s)) + 1
  <2>1. \A i \in 1..l : b[i] = s2 => i = j
    <3>1. ASSUME NEW i \in 1..l, b[i] = s2 PROVE i = j
      <4>1. ~ (i < j) /\ ~ (j < i)
        BY <1>1, <1>4, <3>1 DEF Rises
      <4> QED
        BY <4>1
    <3> QED
      BY <3>1
  <2>2. Within(b, l, s2) = Within(b, l, s) \cup {j}
    BY <1>2, <1>4, <2>1 DEF Within
  <2> QED
    BY <2>2, WithinFinite, FS_AddElement
<1> QED
  BY <1>3, <1>4

\* The first k frames are among those within the units up to the end of the k-th.
LEMMA FirstWithin ==
  ASSUME NEW b, NEW l \in Nat, Rises(b, l), NEW s \in Nat, NEW k \in 1..l, b[k] <= s
  PROVE  k <= Cardinality(Within(b, l, s))
<1>1. ASSUME NEW i \in 1..k PROVE i \in 1..l /\ s >= b[i]
  <2>1. i \in 0..l /\ k \in 0..l /\ (i = k \/ i < k)
    OBVIOUS
  <2>2. b[i] \in Nat /\ b[k] \in Nat /\ (i < k => b[i] < b[k])
    BY <2>1 DEF Rises
  <2> QED
    BY <2>1, <2>2
<1>2. 1..k \in SUBSET Within(b, l, s)
  BY <1>1 DEF Within
<1>3. Cardinality(1..k) <= Cardinality(Within(b, l, s))
  BY <1>2, WithinFinite, FS_Subset
<1>4. Cardinality(1..k) = k
  <2>1. 1 \in Int /\ k \in Int /\ ~ (1 > k) /\ k - 1 + 1 = k
    OBVIOUS
  <2> QED
    BY <2>1, FS_Interval
<1> QED
  BY <1>3, <1>4

\* None has arrived before anything was sent.
LEMMA NoneWithin ==
  ASSUME NEW b, NEW l \in Nat, Rises(b, l)
  PROVE  Cardinality(Within(b, l, 0)) = 0
<1>1. ASSUME NEW i \in 1..l PROVE ~ (0 >= b[i])
  <2>1. 0 \in 0..l /\ i \in 0..l /\ 0 < i
    OBVIOUS
  <2> QED
    BY <2>1 DEF Rises
<1>2. Within(b, l, 0) = {}
  BY <1>1 DEF Within
<1> QED
  BY <1>2, FS_EmptySet

Arrived == Cardinality({i \in 1..Len(stream) : sent >= Len(Preface \o FramesUpTo(i))})

Ended == stage = "open" /\ (link # "up" \/ shut)

\* What the channel calls arrived.
LEMMA ArrivedIs ==
  ASSUME stream \in Streams
  PROVE  /\ Arrived = Cardinality(Within(Bounds(Preface, stream), Len(stream), sent))
         /\ Rises(Bounds(Preface, stream), Len(stream)) /\ Len(stream) \in Nat
         /\ \A i \in 1..Len(stream) : Bounds(Preface, stream)[i] = Len(Preface \o FramesUpTo(i))
<1>1. Laid(Wire, Bounds(Preface, stream), stream, Preface) /\ stream \in Seq(FrameSet)
  BY ThisWire
<1>2. \A i \in 1..Len(stream) :
        Bounds(Preface, stream)[i] = Len(Preface \o FramesUpTo(i))
  <2>1. Len(stream) \in Nat
    BY <1>1, LenProperties
  <2>2. \A i \in 1..Len(stream) : i \in 0..Len(stream)
    BY <2>1
  <2> QED
    BY <2>2 DEF Bounds, Bound, UpToFrame, Frames, FramesUpTo
<1>3. {i \in 1..Len(stream) : sent >= Len(Preface \o FramesUpTo(i))}
        = Within(Bounds(Preface, stream), Len(stream), sent)
  BY <1>2 DEF Within
<1>4. Rises(Bounds(Preface, stream), Len(stream))
  BY <1>1 DEF Laid, Rises
<1> QED
  BY <1>1, <1>2, <1>3, <1>4, LenProperties DEF Arrived

\* A step that hands nothing over and does not undo the end is a step of the
\* channel.
LEMMA QuietStep ==
  ASSUME UNCHANGED <<role, stream, sent, handled, gone>>, Ended => Ended'
  PROVE  [Channel!Next]_(Channel!vars)
<1>1. Arrived' = Arrived
  BY DEF Arrived, Preface, FramesUpTo
<1>2. CASE Ended' <=> Ended
  <2>1. Ended' = Ended
    BY <1>2 DEF Ended
  <2> QED
    BY <1>1, <2>1 DEF Channel!vars, Arrived, Ended
<1>3. CASE ~ (Ended' <=> Ended)
  <2>1. Ended' = TRUE
    BY <1>3 DEF Ended
  <2>2. Channel!End
    BY <1>1, <2>1 DEF Channel!End, Arrived, Ended
  <2> QED
    BY <2>2 DEF Channel!Next
<1> QED
  BY <1>2, <1>3

\* A unit sent is an arrival or nothing to the channel.
LEMMA SendStep ==
  ASSUME IInv, PeerSend
  PROVE  [Channel!Next]_(Channel!vars)
<1>1. /\ UNCHANGED <<role, stream, handled, gone, stage, link, shut>> /\ sent' = sent + 1
      /\ sent \in Nat
  BY DEF PeerSend, IInv, Types
<1>2b. PICK b : b = Bounds(Preface, stream)
  OBVIOUS
<1>2. PICK l \in Nat :
        /\ b = Bounds(Preface, stream) /\ l = Len(stream) /\ Rises(b, l)
        /\ Arrived = Cardinality(Within(b, l, sent))
        /\ \A i \in 1..l : b[i] = Len(Preface \o FramesUpTo(i))
  BY <1>2b, ArrivedIs DEF IInv, Types
<1>3. Arrived' = Cardinality(Within(b, l, sent'))
  <2>1. Arrived' = Cardinality({i \in 1..Len(stream) : sent' >= Len(Preface \o FramesUpTo(i))})
    BY <1>1 DEF Arrived, Preface, FramesUpTo
  <2>2. {i \in 1..Len(stream) : sent' >= Len(Preface \o FramesUpTo(i))} = Within(b, l, sent')
    BY <1>2 DEF Within
  <2> QED
    BY <2>1, <2>2
<1>4. Arrived' = Arrived \/ Arrived' = Arrived + 1
  BY <1>1, <1>2, <1>3, OneUnit
<1>5. Ended' = Ended
  BY <1>1 DEF Ended
<1> QED
  BY <1>1, <1>4, <1>5 DEF Channel!Next, Channel!Arrive, Channel!vars, Arrived, Ended

\* What is neither a delivery nor a report.
LEMMA OtherSteps ==
  ASSUME IInv,
         \/ PeerClose \/ Receive \/ Transmit \/ Handshake \/ ReadResponse \/ OnOpen
         \/ OnUntil \/ OnWrite \/ Leave \/ AppClose \/ UNCHANGED vars
  PROVE  [Channel!Next]_(Channel!vars)
<1>1. CASE PeerClose
  <2>1. UNCHANGED <<role, stream, sent, handled, gone>> /\ (Ended => Ended')
    BY <1>1 DEF PeerClose, Ended
  <2> QED
    BY <2>1, QuietStep
<1>2. CASE Handshake
  <2>1. stage # "open"
    BY <1>2 DEF Handshake, NextStage
  <2>2. UNCHANGED <<role, stream, sent, handled, gone>> /\ (Ended => Ended')
    BY <1>2, <2>1 DEF Handshake, Ended
  <2> QED
    BY <2>2, QuietStep
<1>3. CASE ReadResponse
  <2>1. UNCHANGED <<role, stream, sent, handled, gone>> /\ (Ended => Ended')
    BY <1>3 DEF ReadResponse, Ended
  <2> QED
    BY <2>1, QuietStep
<1>4. CASE AppClose
  <2>1. UNCHANGED <<role, stream, sent, handled, gone>> /\ (Ended => Ended')
    BY <1>4 DEF AppClose, close, session, Ended
  <2> QED
    BY <2>1, QuietStep
<1>5. CASE \/ Receive \/ Transmit \/ OnOpen \/ OnUntil \/ OnWrite \/ Leave \/ UNCHANGED vars
  <2>1. UNCHANGED <<session, shut, handled, gone>>
    BY <1>5 DEF Receive, Transmit, OnOpen, OnUntil, OnWrite, Leave, vars
  <2>2. UNCHANGED <<role, stream, sent, handled, gone>> /\ (Ended => Ended')
    BY <2>1 DEF session, Ended
  <2> QED
    BY <2>2, QuietStep
<1> QED
  BY <1>1, <1>2, <1>3, <1>4, <1>5

\* A failed read is reported once, and only when the connection has ended.
LEMMA SomeStep ==
  ASSUME IInv, OnSome
  PROVE  [Channel!Next]_(Channel!vars)
<1>1. /\ at = "idle" /\ ready # <<>> /\ Head(ready).op = "some"
      /\ UNCHANGED <<session, shut, handled>>
  BY DEF OnSome, Completed
<1>2. UNCHANGED <<role, stream, sent, handled>> /\ Ended' = Ended /\ Arrived' = Arrived
  BY <1>1 DEF session, Ended, Arrived, Preface, FramesUpTo
<1>3. CASE Head(ready).got # <<>>
  <2>1. UNCHANGED gone
    BY <1>3 DEF OnSome
  <2> QED
    BY <1>2, <2>1, QuietStep
<1>4. CASE Head(ready).got = <<>>
  <2>1. Head(ready) \in Held(ready, "some")
    BY <1>1, HeldTail DEF IInv, Lines, InLine
  <2>2. gone = 0
    BY <2>1 DEF IInv, Types, Lines, None
  <2>3. Ended
    <3>1. stage = "open"
      BY <1>1 DEF IInv, Lines, Quiet
    <3> QED
      BY <1>4, <2>1, <3>1 DEF IInv, Ends, Ended
  <2>4. gone' = 1
    BY <1>4, <2>2 DEF OnSome
  <2>5. Channel!Report
    BY <1>2, <2>2, <2>3, <2>4 DEF Channel!Report, Arrived, Ended
  <2> QED
    BY <2>5 DEF Channel!Next
<1> QED
  BY <1>3, <1>4

\* A frame that is handed over is the next one, has arrived, and nothing was
\* reported before.
LEMMA FrameStep ==
  ASSUME IInv, process_frames
  PROVE  [Channel!Next]_(Channel!vars)
<1>1. at = "frames" /\ Consumed > 0 /\ UNCHANGED <<session, gone>>
      /\ (shut' = shut \/ shut' = TRUE)
  BY DEF process_frames, close
<1>2. PICK k \in Nat, m \in Nat, p \in Nat, q \in Nat :
        /\ k = Len(handled) /\ k + 1 \in 1..Len(stream)
        /\ m = Consumed /\ m = stream[k + 1].size /\ m <= Len(read_buf)
        /\ Head(read_buf).of = k + 1
        /\ stage = "open" /\ None(ready, readers, "until")
        /\ Placed(Wire, Start, p, q, sent, read_buf, ready, readers, inbound, link)
        /\ Bounds(Preface, stream)[k + 1] = Start + m
        /\ Start + m <= p
  BY <1>1, WholeFrame
<1>3. handled' = Append(handled, k + 1)
  BY <1>2 DEF process_frames
<1>4. gone = 0 /\ UNCHANGED <<role, stream, sent, stage, link>>
  BY <1>1 DEF IInv, Types, Lines, session
<1>5. Arrived' = Arrived
  BY <1>4 DEF Arrived, Preface, FramesUpTo
<1>6. k < Arrived
  <2>1b. PICK b : b = Bounds(Preface, stream)
    OBVIOUS
  <2>1. PICK l \in Nat :
          /\ b = Bounds(Preface, stream) /\ l = Len(stream) /\ Rises(b, l)
          /\ Arrived = Cardinality(Within(b, l, sent))
    BY <2>1b, ArrivedIs DEF IInv, Types
  <2>2. p <= sent /\ sent \in Nat
    BY <1>2 DEF Placed, Between
  <2>3. PICK i \in 1..l : i = k + 1
    BY <1>2, <2>1
  <2>4. b[i] <= sent
    <3>1. b[i] \in Nat /\ b[i] <= p
      <4>1. i \in 0..l
        OBVIOUS
      <4>2. b[i] \in Nat
        BY <2>1, <4>1 DEF Rises
      <4> QED
        BY <1>2, <2>1, <2>3, <4>2
    <3> QED
      BY <2>2, <3>1
  <2>5. i <= Cardinality(Within(b, l, sent))
    BY <2>1, <2>2, <2>4, FirstWithin
  <2>6. Cardinality(Within(b, l, sent)) \in Nat
    BY WithinFinite
  <2> QED
    BY <2>1, <2>3, <2>5, <2>6
<1>7. CASE Ended' = Ended
  <2>1. Channel!Deliver
    BY <1>1, <1>2, <1>3, <1>4, <1>5, <1>6, <1>7 DEF Channel!Deliver, Arrived, Ended
  <2> QED
    BY <2>1 DEF Channel!Next
<1>8. CASE Ended' # Ended
  <2>1. Ended' = TRUE
    BY <1>1, <1>4, <1>8 DEF Ended
  <2>2. Channel!DeliverLast
    BY <1>1, <1>2, <1>3, <1>4, <1>5, <1>6, <2>1 DEF Channel!DeliverLast, Arrived, Ended
  <2> QED
    BY <2>2 DEF Channel!Next
<1> QED
  BY <1>7, <1>8

\* Every step of the connection, with its two reads and its two buffers, is one
\* step of the channel or none of it: the frames are handed over whole, in the
\* order in which the peer sent them, after they have arrived, none after the
\* end was reported, and that is reported once at most and only when there was
\* one.  This is ImplementsChannel without its fairness.
THEOREM ImplementsChannelSteps == Spec => Channel!Init /\ [][Channel!Next]_(Channel!vars)
<1>1. Init => Channel!Init
  <2> SUFFICES ASSUME Init PROVE Channel!Init
    OBVIOUS
  <2>1. stream \in Streams /\ sent = 0 /\ link = "up" /\ shut = FALSE /\ handled = <<>> /\ gone = 0
    BY DEF Init
  <2>2. Arrived = 0
    BY <2>1, ArrivedIs, NoneWithin
  <2>3. Ended = FALSE
    BY <2>1 DEF Ended
  <2> QED
    BY <2>1, <2>2, <2>3 DEF Channel!Init, Arrived, Ended
<1>2. IInv /\ [Next]_vars => [Channel!Next]_(Channel!vars)
  <2> SUFFICES ASSUME IInv, [Next]_vars PROVE [Channel!Next]_(Channel!vars)
    OBVIOUS
  <2>1. CASE PeerSend
    BY <2>1, SendStep
  <2>2. CASE OnSome
    BY <2>2, SomeStep
  <2>3. CASE process_frames
    BY <2>3, FrameStep
  <2>4. CASE \/ PeerClose \/ Receive \/ Transmit \/ Handshake \/ ReadResponse \/ OnOpen
             \/ OnUntil \/ OnWrite \/ Leave \/ AppClose \/ UNCHANGED vars
    BY <2>4, OtherSteps
  <2> QED
    BY <2>1, <2>2, <2>3, <2>4 DEF Next, EventLoop
<1> QED
  BY <1>1, <1>2, Invariance, PTL DEF Spec
===============================================================================
