--------------------------- MODULE CoroSessionProofs ---------------------------
(***************************************************************************)
(* Proofs about CoroSession, for every set of streams, every limit on the  *)
(* requests of a connection and on the size of a body, with and without a  *)
(* WebSocket handler.                                                      *)
(***************************************************************************)
EXTENDS CoroSession, SliceLemmas

(***************************************************************************)
(* Facts about the operators of HttpWire: the types of heads and answers,  *)
(* and what a header block at the front of a piece of the stream is in a   *)
(* longer piece.                                                           *)
(***************************************************************************)
\* The head of a non-empty block is a request head and its length a number.
LEMMA HeadType ==
  ASSUME NEW block \in Seq(Unit), Len(block) >= 1
  PROVE  /\ HeadOf(block) \in RequestHead
         /\ ContentLen(HeadOf(block)) \in Nat
<1>1. Len(block) \in Nat /\ block[Len(block)] \in Unit
  BY LenProperties, ElementOfSeq
<1>2. block[Len(block)].h \in RequestHead
  BY <1>1, UnitAssumption
<1>3. HeadOf(block) \in RequestHead
  BY <1>1, <1>2 DEF HeadOf, RequestHead
<1> QED
  BY <1>3 DEF ContentLen, RequestHead

\* The three kinds of answers are answers.
LEMMA AnswerType ==
  ASSUME NEW h \in RequestHead, NEW raw \in Seq(Unit)
  PROVE  /\ Served(h, raw) \in AnswerSet
         /\ Refusal("badRequest", raw) \in AnswerSet
         /\ Refusal("tooLarge", raw) \in AnswerSet
         /\ Switching(raw) \in AnswerSet
         /\ ~ Refusal("badRequest", raw).keep
         /\ ~ Refusal("tooLarge", raw).keep
         /\ ~ Switching(raw).keep
<1>1. KeepAlive(h) \in BOOLEAN
  BY DEF KeepAlive, RequestHead, ConnectionValue
<1> QED
  BY <1>1 DEF Served, Refusal, Switching, AnswerSet, Status

\* The header block at the front of what lies between p and q is that of what
\* lies between p and r: what arrives later does not change it.
LEMMA HeaderOfPrefix ==
  ASSUME NEW s \in Seq(Unit), NEW p \in Nat, NEW q \in Nat, NEW r \in Nat,
         p <= q, q <= r, r <= Len(s), NEW i \in Nat, HeaderAt(SubSeq(s, p + 1, q), i)
  PROVE  /\ i >= 1 /\ i <= q - p
         /\ HeaderAt(SubSeq(s, p + 1, r), i)
         /\ SubSeq(SubSeq(s, p + 1, q), 1, i) = SubSeq(SubSeq(s, p + 1, r), 1, i)
<1>1. Len(s) \in Nat /\ q <= Len(s)
  BY LenProperties
<1> DEFINE a == SubSeq(s, p + 1, q)
           b == SubSeq(s, p + 1, r)
<1>2. Len(a) = q - p /\ \A k \in 1..(q - p) : a[k] = s[p + k]
  BY <1>1, Cut
<1>3. Len(b) = r - p /\ \A k \in 1..(r - p) : b[k] = s[p + k]
  BY <1>1, Cut
<1>4. i >= 1 /\ i <= q - p /\ i <= r - p
  BY <1>2 DEF HeaderAt
<1>5. SubSeq(a, 1, i) = SubSeq(s, p + 1, p + i) /\ SubSeq(b, 1, i) = SubSeq(s, p + 1, p + i)
  BY <1>1, <1>4, PrefixOfCut
<1>6. HeaderAt(a, i)
  OBVIOUS
<1> HIDE DEF a, b
<1>7. \A k \in 1..i : a[k] = b[k]
  BY <1>2, <1>3, <1>4
<1>8. HeaderAt(b, i)
  BY <1>3, <1>4, <1>7, <1>6 DEF HeaderAt
<1> QED
  BY <1>4, <1>5, <1>8 DEF a, b

(***************************************************************************)
(* The inductive invariant.                                                *)
(***************************************************************************)
\* Where the held header block and the buffer lie in the stream.
Slices ==
  /\ taken \in Nat
  /\ Adjacent(stream, taken, taken + Len(header_str), got, header_str, buf)

\* A header block is held while its body is awaited: it is the first block of
\* what was read and not yet taken, acceptable, and its body is not there yet.
BodyAwaited(t, i, g) ==
  LET h == HeadOf(SubSeq(stream, t + 1, t + i))
  IN  /\ HeaderAt(SubSeq(stream, t + 1, g), i)
      /\ h.parses /\ ContentLen(h) <= MaxBody
      /\ g < t + i + ContentLen(h)

Holding ==
  /\ header_str # <<>> => at \in {"readBody", "shutdown"}
  /\ at = "readBody" => BodyAwaited(taken, Len(header_str), got)

\* At most one response is being written, and what the coroutine does after
\* the write agrees with what that response announced.
Writing ==
  /\ at \in {"readHeader", "readBody"} => written = Len(answers)
  /\ at \in {"writeAnswer", "writeRefusal", "writeKeyless", "writeSwitching"} =>
       written + 1 = Len(answers)
  /\ at = "writeAnswer" =>
       /\ keep_alive = answers[Len(answers)].keep
       /\ answers[Len(answers)].status # "switching"
  /\ at \in {"writeRefusal", "writeKeyless"} =>
       /\ ~ answers[Len(answers)].keep
       /\ answers[Len(answers)].status # "switching"

\* f is the function AnswersTile computes: what the first k answers answer.
Tiling(as, f) ==
  f = [k \in 0..Len(as) |-> IF k = 0 THEN <<>> ELSE f[k - 1] \o as[k].raw]

\* There is such a function, and whichever it is it ends at what was taken.
Tiled ==
  /\ \E f : Tiling(answers, f)
  /\ at # "threw" => \A f : Tiling(answers, f) => f[Len(answers)] = SubSeq(stream, 1, taken)

IInv ==
  /\ TypeOK
  /\ Slices
  /\ Holding
  /\ Writing
  /\ ShutdownHasReason
  /\ Tiled

(***************************************************************************)
(* Tilings.                                                                *)
(***************************************************************************)
\* One more answer extends the tiling by its bytes.
LEMMA TilingGrows ==
  ASSUME NEW S, NEW as \in Seq(S), NEW a \in S
  PROVE  /\ (\E f : Tiling(as, f)) => \E f : Tiling(Append(as, a), f)
         /\ \A f : Tiling(Append(as, a), f) =>
              \E e : Tiling(as, e) /\ f[Len(Append(as, a))] = e[Len(as)] \o a.raw
<1> DEFINE n == Len(as)
           bs == Append(as, a)
<1>1. n \in Nat /\ Len(bs) = n + 1 /\ \A k \in 1..n : bs[k] = as[k]
  <2>1. Len(as) \in Nat
    BY LenProperties
  <2>2. Len(Append(as, a)) = Len(as) + 1 /\ \A k \in 1..Len(as) : Append(as, a)[k] = as[k]
    BY ONLY AppendProperties, as \in Seq(S), a \in S
  <2> QED
    BY <2>1, <2>2
<1>2. bs[n + 1] = a
  BY <1>1, AppendProperties
<1> HIDE DEF n, bs
<1>3. ASSUME NEW f, Tiling(as, f) PROVE \E g : Tiling(bs, g)
  <2> DEFINE g == [k \in 0..(n + 1) |-> IF k \in 0..n THEN f[k] ELSE f[n] \o a.raw]
  <2>1. f = [k \in 0..n |-> IF k = 0 THEN <<>> ELSE f[k - 1] \o as[k].raw]
    BY <1>3 DEF Tiling, n
  <2>2. ASSUME NEW k \in 0..(n + 1)
        PROVE  g[k] = IF k = 0 THEN <<>> ELSE g[k - 1] \o bs[k].raw
    <3>1. CASE k = 0
      BY <1>1, <2>1, <3>1
    <3>2. CASE k \in 1..n
      <4>1. g[k] = f[k] /\ g[k - 1] = f[k - 1] /\ k # 0
        BY <1>1, <3>2
      <4>2. f[k] = f[k - 1] \o as[k].raw
        BY <1>1, <2>1, <3>2
      <4> QED
        BY <1>1, <3>2, <4>1, <4>2
    <3>3. CASE k = n + 1
      <4>1. g[k] = f[n] \o a.raw /\ g[k - 1] = f[n] /\ k # 0
        BY <1>1, <3>3
      <4> QED
        BY <1>2, <3>3, <4>1
    <3> QED
      BY <1>1, <3>1, <3>2, <3>3
  <2>3. g = [k \in 0..(n + 1) |-> IF k = 0 THEN <<>> ELSE g[k - 1] \o bs[k].raw]
    <3>1. g = [k \in 0..(n + 1) |-> g[k]]
      OBVIOUS
    <3> HIDE DEF g
    <3> QED
      BY <2>2, <3>1
  <2> HIDE DEF g
  <2>4. Tiling(bs, g)
    BY <1>1, <2>3 DEF Tiling
  <2> QED
    BY <2>4
<1>4. ASSUME NEW f, Tiling(bs, f)
      PROVE  \E e : Tiling(as, e) /\ f[n + 1] = e[n] \o a.raw
  <2> DEFINE e == [k \in 0..n |-> f[k]]
  <2>1. f = [k \in 0..(n + 1) |-> IF k = 0 THEN <<>> ELSE f[k - 1] \o bs[k].raw]
    BY <1>1, <1>4 DEF Tiling
  <2>2. ASSUME NEW k \in 0..n
        PROVE  f[k] = IF k = 0 THEN <<>> ELSE e[k - 1] \o as[k].raw
    <3>1. f[k] = IF k = 0 THEN <<>> ELSE f[k - 1] \o bs[k].raw
      <4>1. k \in 0..(n + 1)
        BY <1>1
      <4> QED
        BY <2>1, <4>1
    <3>2. CASE k = 0
      BY <3>1, <3>2
    <3>3. CASE k # 0
      <4>1. k - 1 \in 0..n /\ k \in 1..n
        BY <1>1, <3>3
      <4>2. bs[k] = as[k] /\ e[k - 1] = f[k - 1]
        BY <1>1, <4>1
      <4> HIDE DEF e
      <4> QED
        BY <3>1, <3>3, <4>2
    <3> QED
      BY <3>2, <3>3
  <2>3. e = [k \in 0..n |-> IF k = 0 THEN <<>> ELSE e[k - 1] \o as[k].raw]
    <3>1. \A k \in 0..n : e[k] = IF k = 0 THEN <<>> ELSE e[k - 1] \o as[k].raw
      BY <2>2
    <3>2. e = [k \in 0..n |-> e[k]]
      OBVIOUS
    <3> HIDE DEF e
    <3> QED
      BY <3>1, <3>2
  <2>4. f[n + 1] = e[n] \o a.raw
    <3>1. n + 1 \in 0..(n + 1) /\ n + 1 # 0 /\ (n + 1) - 1 = n /\ n \in 0..n
      BY <1>1
    <3>2. f[n + 1] = f[n] \o bs[n + 1].raw
      BY <2>1, <3>1
    <3> QED
      BY <1>2, <3>1, <3>2
  <2> HIDE DEF e
  <2>5. Tiling(as, e)
    BY <2>3 DEF Tiling, n
  <2> QED
    BY <2>4, <2>5
<1> QED
  BY <1>1, <1>3, <1>4 DEF bs, n

\* A tiling of any answers is the one AnswersTile speaks of.
LEMMA TiledTiles == Tiled => AnswersTile
<1> SUFFICES ASSUME Tiled, at # "threw" PROVE AnswersTile
  BY DEF AnswersTile
<1> DEFINE tile == CHOOSE f : f = [k \in 0..Len(answers) |->
                     IF k = 0 THEN <<>> ELSE f[k - 1] \o answers[k].raw]
<1>1. Tiling(answers, tile)
  BY DEF Tiled, Tiling
<1>2. tile[Len(answers)] = SubSeq(stream, 1, taken)
  BY <1>1 DEF Tiled
<1> QED
  BY <1>2 DEF AnswersTile

(***************************************************************************)
(* What the two reads come to, in positions of the stream: everything up   *)
(* to t was taken before, everything up to g has been read.                *)
(***************************************************************************)
\* The request is not there in full; i units of header block are held.
Waits(t, i, g) ==
  /\ got' = g /\ Adjacent(stream, t, t + i, g, header_str', buf')
  /\ UNCHANGED <<keep_alive, served, answers>>
  /\ \/ at' = "readHeader" /\ i = 0
     \/ at' = "readBody" /\ BodyAwaited(t, i, g)

\* The header block of i units is refused, and it alone is taken.
Refuses(t, i, g) ==
  LET block == SubSeq(stream, t + 1, t + i)
      h     == HeadOf(block)
  IN  /\ HeaderAt(SubSeq(stream, t + 1, g), i)
      /\ got' = g /\ Adjacent(stream, t + i, t + i, g, header_str', buf')
      /\ at' = "writeRefusal" /\ UNCHANGED <<served, keep_alive>>
      /\ \/ ~ h.parses /\ answers' = Append(answers, Refusal("badRequest", block))
         \/ /\ h.parses /\ ContentLen(h) > MaxBody
            /\ answers' = Append(answers, Refusal("tooLarge", block))

\* The request that ends at e, with a header block of i units, is taken.
Responds(t, i, e, g) ==
  LET h   == HeadOf(SubSeq(stream, t + 1, t + i))
      raw == SubSeq(stream, t + 1, e)
  IN  /\ HeaderAt(SubSeq(stream, t + 1, g), i)
      /\ h.parses /\ ContentLen(h) <= MaxBody
      /\ e = t + i + ContentLen(h) /\ e <= g
      /\ got' = g /\ Adjacent(stream, e, e, g, header_str', buf')
      /\ keep_alive' = KeepAlive(h)
      /\ \/ /\ h.upgrade = "noKey" /\ served' = served /\ at' = "writeKeyless"
            /\ answers' = Append(answers, Refusal("badRequest", raw))
         \/ /\ h.upgrade = "key" /\ served' = served /\ at' = "writeSwitching"
            /\ answers' = Append(answers, Switching(raw))
         \/ /\ h.upgrade = "no" /\ ~ HandlerThrows(h)
            /\ served' = served + 1 /\ at' = "writeAnswer"
            /\ answers' = Append(answers, Served(h, raw))
         \/ /\ h.upgrade = "no" /\ HandlerThrows(h)
            /\ served' = served /\ at' = "threw" /\ answers' = answers

\* Where the invariant says the coroutine stands in the stream.
LEMMA Positions ==
  ASSUME IInv
  PROVE  /\ stream \in Seq(Unit) /\ Len(stream) \in Nat
         /\ sent \in Nat /\ sent <= Len(stream) /\ got \in Nat /\ got <= sent
         /\ taken \in Nat /\ Len(header_str) \in Nat /\ taken + Len(header_str) \in Nat
         /\ header_str \in Seq(Unit)
         /\ Adjacent(stream, taken, taken + Len(header_str), got, header_str, buf)
<1>1. /\ stream \in Seq(Unit) /\ Len(stream) \in Nat /\ Len(header_str) \in Nat
      /\ sent \in 0..Len(stream) /\ got \in 0..sent /\ header_str \in Seq(Unit)
  BY SessionAssumption, LenProperties DEF IInv, TypeOK
<1>2. taken \in Nat /\ Adjacent(stream, taken, taken + Len(header_str), got, header_str, buf)
  BY DEF IInv, Slices
<1> QED
  BY <1>1, <1>2

\* A read appends to the buffer what follows it in the stream.
LEMMA ReadExtends ==
  ASSUME IInv, NEW n \in 0..Arrived
  PROVE  /\ n \in Nat /\ got + n \in Nat /\ got + n <= sent
         /\ Adjacent(stream, taken, taken + Len(header_str), got + n, header_str,
                     buf \o Chunk(n))
<1>1. /\ stream \in Seq(Unit) /\ Len(stream) \in Nat
      /\ sent \in Nat /\ sent <= Len(stream) /\ got \in Nat /\ got <= sent
      /\ taken \in Nat /\ taken + Len(header_str) \in Nat
      /\ Adjacent(stream, taken, taken + Len(header_str), got, header_str, buf)
  BY Positions
<1>2. n \in Nat /\ got + n \in Nat /\ got + n <= sent /\ got + n <= Len(stream)
  BY <1>1 DEF Arrived
<1>3. Adjacent(stream, taken, taken + Len(header_str), got + n, header_str,
               buf \o SubSeq(stream, got + 1, got + n))
  BY <1>1, <1>2, GrowCut
<1> QED
  BY <1>2, <1>3 DEF Chunk

\* From "Build rich Request" on, when the request lies between t and e.
LEMMA RespondIs ==
  ASSUME NEW t \in Nat, NEW i \in Nat, NEW e \in Nat, NEW g \in Nat,
         stream \in Seq(Unit), g <= Len(stream),
         HeaderAt(SubSeq(stream, t + 1, g), i),
         NEW block, block = SubSeq(stream, t + 1, t + i),
         NEW body, body = SubSeq(stream, t + i + 1, e),
         HeadOf(block).parses, ContentLen(HeadOf(block)) <= MaxBody,
         e = t + i + ContentLen(HeadOf(block)), t + i <= e, e <= g,
         got' = g, buf' = SubSeq(stream, e + 1, g), Respond(block, body)
  PROVE  Responds(t, i, e, g)
<1>1. block \o body = SubSeq(stream, t + 1, e)
  <2>1. Len(stream) \in Nat /\ t + i \in Nat /\ t <= t + i /\ e <= Len(stream)
    BY LenProperties
  <2> QED
    BY ONLY <2>1, Join, t \in Nat, e \in Nat, t + i <= e, stream \in Seq(Unit),
            block = SubSeq(stream, t + 1, t + i), body = SubSeq(stream, t + i + 1, e)
<1>2. header_str' = <<>>
  BY DEF Respond, Write
<1>3. Adjacent(stream, e, e, g, header_str', buf')
  BY <1>2, EmptyCut DEF Adjacent
<1> DEFINE h   == HeadOf(block)
           raw == SubSeq(stream, t + 1, e)
<1>4. /\ keep_alive' = KeepAlive(h)
      /\ \/ /\ h.upgrade = "noKey" /\ served' = served /\ at' = "writeKeyless"
            /\ answers' = Append(answers, Refusal("badRequest", raw))
         \/ /\ h.upgrade = "key" /\ served' = served /\ at' = "writeSwitching"
            /\ answers' = Append(answers, Switching(raw))
         \/ /\ h.upgrade = "no" /\ ~ HandlerThrows(h)
            /\ served' = served + 1 /\ at' = "writeAnswer"
            /\ answers' = Append(answers, Served(h, raw))
         \/ /\ h.upgrade = "no" /\ HandlerThrows(h)
            /\ served' = served /\ at' = "threw" /\ answers' = answers
  BY <1>1 DEF Respond, Write
<1> QED
  BY <1>3, <1>4 DEF Responds

\* Once a header block of i units is at the front of what lies between t and g.
LEMMA AfterHeaderIs ==
  ASSUME NEW t \in Nat, NEW g \in Nat, t <= g, g <= Len(stream), stream \in Seq(Unit),
         NEW b, b = SubSeq(stream, t + 1, g), NEW i \in Nat, HeaderAt(b, i),
         got' = g, AfterHeader(b, i)
  PROVE  Waits(t, i, g) \/ Refuses(t, i, g) \/ \E e \in Nat : Responds(t, i, e, g)
<1> DEFINE block == SubSeq(b, 1, i)
           rest  == SubSeq(b, i + 1, Len(b))
           h     == HeadOf(block)
           n     == ContentLen(h)
<1>1. b \in Seq(Unit) /\ Len(b) = g - t /\ Len(stream) \in Nat
  BY Cut, LenProperties
<1>2. i >= 1 /\ i <= g - t
  BY <1>1 DEF HeaderAt
<1>3. block = SubSeq(stream, t + 1, t + i)
  BY <1>2, PrefixOfCut
<1>4. PICK q \in Nat : q = t + i /\ t <= q /\ q <= g /\ q <= Len(stream)
  BY <1>1, <1>2
<1>5. rest = SubSeq(stream, q + 1, g)
  <2>1. g - t \in Nat /\ i <= g - t /\ t + (g - t) = g
    BY <1>2
  <2>2. SubSeq(SubSeq(stream, t + 1, g), i + 1, g - t) = SubSeq(stream, t + i + 1, t + (g - t))
    BY ONLY <2>1, CutOfCut, stream \in Seq(Unit), t \in Nat, g \in Nat, t <= g,
            g <= Len(stream), i \in Nat
  <2> QED
    BY <1>1, <1>4, <2>1, <2>2
<1>6. Len(rest) = g - q
  BY <1>4, <1>5, Cut
<1>7. block \in Seq(Unit) /\ Len(block) = i
  <2>1. SubSeq(stream, t + 1, q) \in Seq(Unit) /\ Len(SubSeq(stream, t + 1, q)) = q - t
    BY <1>4, Cut
  <2>2. q - t = i
    BY <1>4
  <2> HIDE DEF block
  <2> QED
    BY <1>3, <1>4, <2>1, <2>2
<1>8. n \in Nat
  <2> HIDE DEF block
  <2> QED
    BY <1>2, <1>7, HeadType
<1> HIDE DEF block, rest, n
<1>9. ASSUME buf' = rest, header_str' = <<>> PROVE Adjacent(stream, q, q, g, header_str', buf')
  BY <1>4, <1>5, <1>9, EmptyCut DEF Adjacent
<1>10. CASE /\ ~ h.parses /\ buf' = rest
            /\ Write(Refusal("badRequest", block), "writeRefusal")
            /\ UNCHANGED <<served, keep_alive>>
  <2>1. Refuses(t, i, g)
    BY <1>3, <1>4, <1>9, <1>10 DEF Write, Refuses
  <2> QED
    BY <2>1
<1>11. CASE /\ h.parses /\ n > MaxBody /\ buf' = rest
            /\ Write(Refusal("tooLarge", block), "writeRefusal")
            /\ UNCHANGED <<served, keep_alive>>
  <2>1. Refuses(t, i, g)
    BY <1>3, <1>4, <1>9, <1>11 DEF Write, Refuses, n
  <2> QED
    BY <2>1
<1>12. CASE /\ h.parses /\ n <= MaxBody /\ n > Len(rest) /\ buf' = rest
            /\ header_str' = block /\ at' = "readBody"
            /\ UNCHANGED <<served, answers, keep_alive>>
  <2>1. Adjacent(stream, t, q, g, header_str', buf')
    BY <1>3, <1>4, <1>5, <1>12 DEF Adjacent
  <2>2. g < t + i + n
    BY <1>4, <1>6, <1>8, <1>12
  <2>3. BodyAwaited(t, i, g)
    BY <1>3, <1>12, <2>2 DEF BodyAwaited, n
  <2>4. Waits(t, i, g)
    BY <1>4, <1>12, <2>1, <2>3 DEF Waits
  <2> QED
    BY <2>4
<1>13. CASE /\ h.parses /\ n <= MaxBody /\ n <= Len(rest)
            /\ buf' = SubSeq(rest, n + 1, Len(rest))
            /\ Respond(block, SubSeq(rest, 1, n))
  <2>1. PICK e \in Nat : e = q + n /\ q <= e /\ e <= g /\ e = t + i + n
    BY <1>4, <1>6, <1>8, <1>13
  <2>2. n <= g - q /\ g - q \in Nat /\ q + (g - q) = g
    BY <1>4, <1>6, <1>13
  <2>3. SubSeq(SubSeq(stream, q + 1, g), 1, n) = SubSeq(stream, q + 1, q + n)
    BY ONLY <1>4, <1>8, <2>2, PrefixOfCut, stream \in Seq(Unit), g \in Nat, g <= Len(stream)
  <2>4. SubSeq(SubSeq(stream, q + 1, g), n + 1, g - q) = SubSeq(stream, q + n + 1, q + (g - q))
    BY ONLY <1>4, <1>8, <2>2, CutOfCut, stream \in Seq(Unit), g \in Nat, g <= Len(stream)
  <2>5. SubSeq(rest, 1, n) = SubSeq(stream, t + i + 1, e)
    BY <1>4, <1>5, <2>1, <2>3
  <2>6. buf' = SubSeq(stream, e + 1, g)
    BY <1>5, <1>6, <1>13, <2>1, <2>2, <2>4
  <2>7. n = ContentLen(HeadOf(block)) /\ t + i <= e
    BY <1>4, <2>1 DEF n
  <2>8. Responds(t, i, e, g)
    BY <1>3, <1>13, <2>1, <2>5, <2>6, <2>7, RespondIs
  <2> QED
    BY <2>8
<1> QED
  BY <1>10, <1>11, <1>12, <1>13 DEF AfterHeader, block, rest, n

\* The two reads: the request at the front of the stream is awaited, refused
\* or taken.
LEMMA Reads ==
  ASSUME IInv, ReadHeader \/ ReadBody
  PROVE  /\ at \in {"readHeader", "readBody"} /\ UNCHANGED <<stream, sent, peer, written>>
         /\ \E g \in Nat, i \in Nat :
              /\ taken <= g /\ g <= sent
              /\ \/ Waits(taken, i, g) \/ Refuses(taken, i, g)
                 \/ \E e \in Nat : Responds(taken, i, e, g)
<1>1. /\ stream \in Seq(Unit) /\ Len(stream) \in Nat
      /\ sent \in Nat /\ sent <= Len(stream) /\ got \in Nat /\ got <= sent
      /\ taken \in Nat /\ Len(header_str) \in Nat /\ taken + Len(header_str) \in Nat
      /\ header_str \in Seq(Unit)
      /\ Adjacent(stream, taken, taken + Len(header_str), got, header_str, buf)
  BY Positions
<1>2. PICK t \in Nat, i \in Nat, q \in Nat :
        t = taken /\ i = Len(header_str) /\ q = t + i /\ q = taken + Len(header_str)
  BY <1>1
<1>3. CASE ReadHeader
  <2>1. PICK n \in 0..Arrived :
          /\ got' = got + n
          /\ LET b == buf \o Chunk(n)
             IN  \/ /\ NoHeader(b)
                    /\ buf' = b
                    /\ UNCHANGED <<at, header_str, keep_alive, served, answers>>
                 \/ \E j \in 1..Len(b) : HeaderAt(b, j) /\ AfterHeader(b, j)
    BY <1>3 DEF ReadHeader
  <2> DEFINE b == buf \o Chunk(n)
  <2>2. at = "readHeader" /\ UNCHANGED <<stream, sent, peer, written>>
    BY <1>3 DEF ReadHeader
  <2>3. header_str = <<>> /\ i = 0 /\ q = t
    BY <1>2, <2>2, EmptySeq DEF IInv, Holding
  <2>4. PICK g \in Nat : g = got + n /\ g <= sent /\ Adjacent(stream, t, q, g, header_str, b)
    BY <1>2, ReadExtends
  <2>5. got' = g
    BY <2>1, <2>4
  <2> HIDE DEF b
  <2>6. t <= g /\ g <= Len(stream) /\ b = SubSeq(stream, t + 1, g)
        /\ b \in Seq(Unit) /\ Len(b) = g - t
    BY <1>1, <2>3, <2>4, AdjacentLengths DEF Adjacent
  <2>7. CASE /\ buf' = b
             /\ UNCHANGED <<at, header_str, keep_alive, served, answers>>
    <3>1. t + 0 = t
      OBVIOUS
    <3>2. Waits(t, 0, g)
      BY <2>2, <2>3, <2>4, <2>5, <2>7, <3>1 DEF Waits
    <3> QED
      BY <1>2, <2>2, <2>4, <2>6, <3>2
  <2>8. ASSUME NEW j \in 1..Len(b), HeaderAt(b, j), AfterHeader(b, j)
        PROVE  \/ Waits(t, j, g) \/ Refuses(t, j, g)
               \/ \E e \in Nat : Responds(t, j, e, g)
    <3>1. j \in Nat
      BY <2>6
    <3> QED
      BY <1>1, <2>5, <2>6, <2>8, <3>1, AfterHeaderIs
  <2>9. \A j \in 1..Len(b) : j \in Nat
    BY <2>6
  <2> QED
    BY <1>2, <2>1, <2>2, <2>4, <2>6, <2>7, <2>8, <2>9 DEF b
<1>4. CASE ReadBody
  <2> DEFINE len == ContentLen(HeadOf(header_str))
  <2>1. PICK n \in 1..Arrived :
          LET b == buf \o Chunk(n)
          IN  /\ got' = got + n
              /\ \/ /\ Len(b) < len
                    /\ buf' = b
                    /\ UNCHANGED <<at, header_str, keep_alive, served, answers>>
                 \/ /\ Len(b) = len
                    /\ buf' = SubSeq(b, len + 1, Len(b))
                    /\ Respond(header_str, SubSeq(b, 1, len))
    BY <1>4 DEF ReadBody
  <2> DEFINE b == buf \o Chunk(n)
  <2>2. at = "readBody" /\ UNCHANGED <<stream, sent, peer, written>>
    BY <1>4 DEF ReadBody
  <2>3. n \in 0..Arrived
    BY <1>1 DEF Arrived
  <2>4. PICK g \in Nat : g = got + n /\ g <= sent /\ Adjacent(stream, t, q, g, header_str, b)
    BY <1>2, <2>3, ReadExtends
  <2>5. got' = g /\ got <= g
    BY <1>1, <2>1, <2>3, <2>4 DEF Arrived
  <2> HIDE DEF b
  <2>6. /\ t <= q /\ q <= g /\ g <= Len(stream)
        /\ header_str = SubSeq(stream, t + 1, q) /\ b = SubSeq(stream, q + 1, g)
        /\ b \in Seq(Unit) /\ Len(b) = g - q
    BY <1>1, <2>4, AdjacentLengths DEF Adjacent
  <2>7. /\ HeaderAt(SubSeq(stream, t + 1, got), i)
        /\ HeadOf(header_str).parses /\ len <= MaxBody
    BY <1>2, <2>2, <2>6 DEF IInv, Holding, BodyAwaited
  <2>8. i >= 1 /\ HeaderAt(SubSeq(stream, t + 1, g), i)
    <3>1. t <= got
      BY <1>1, <1>2 DEF Adjacent
    <3> QED
      BY <1>1, <2>5, <2>6, <2>7, <3>1, HeaderOfPrefix
  <2>9. len \in Nat
    BY <1>1, <1>2, <2>8, HeadType
  <2>10. CASE /\ Len(b) < len
              /\ buf' = b
              /\ UNCHANGED <<at, header_str, keep_alive, served, answers>>
    <3>1. g < t + i + len
      BY <1>2, <2>6, <2>9, <2>10
    <3>2. BodyAwaited(t, i, g)
      BY <1>2, <2>6, <2>7, <2>8, <3>1 DEF BodyAwaited
    <3>3. Waits(t, i, g)
      BY <1>2, <2>2, <2>4, <2>5, <2>10, <3>2 DEF Waits
    <3> QED
      BY <1>2, <2>2, <2>4, <2>6, <3>3
  <2>11. CASE /\ Len(b) = len
              /\ buf' = SubSeq(b, len + 1, Len(b))
              /\ Respond(header_str, SubSeq(b, 1, len))
    <3>1. SubSeq(b, 1, len) = b /\ buf' = <<>>
      BY <2>6, <2>9, <2>11, SubSeqFull, EmptyCut
    <3>2. buf' = SubSeq(stream, g + 1, g)
      BY <3>1, EmptyCut
    <3>3. g = t + i + len /\ t + i <= g /\ g <= g
      <4>1. len = g - q /\ q <= g /\ q = t + i
        BY <1>2, <2>6, <2>11
      <4> QED
        BY ONLY <4>1, q \in Nat, t \in Nat, i \in Nat, g \in Nat
    <3>4. header_str = SubSeq(stream, t + 1, t + i) /\ b = SubSeq(stream, t + i + 1, g)
      BY <1>2, <2>6
    <3>5. Responds(t, i, g, g)
      BY <1>1, <2>5, <2>6, <2>7, <2>8, <2>11, <3>1, <3>2, <3>3, <3>4, RespondIs
    <3> QED
      BY <1>2, <2>2, <2>4, <2>6, <3>5
  <2> QED
    BY <2>1, <2>10, <2>11 DEF b
<1> QED
  BY <1>3, <1>4

(***************************************************************************)
(* Invariance.                                                             *)
(***************************************************************************)
\* The slices, and with them the types, after a step that leaves the held
\* block between t and q and the buffer between q and g.
LEMMA SlicesAfter ==
  ASSUME stream \in Seq(Unit), stream' = stream,
         NEW t \in Nat, NEW q \in Nat, NEW g \in Nat, got' = g,
         Adjacent(stream, t, q, g, header_str', buf')
  PROVE  /\ Slices' /\ taken' = t /\ Len(header_str') = q - t
         /\ header_str' \in Seq(Unit) /\ buf' \in Seq(Unit)
<1>1. /\ header_str' \in Seq(Unit) /\ buf' \in Seq(Unit)
      /\ Len(header_str') = q - t
      /\ t + Len(header_str') = q /\ (g - Len(buf')) - Len(header_str') = t
  BY AdjacentLengths
<1>2. taken' = t
  BY <1>1 DEF taken
<1>3. Slices'
  BY <1>1, <1>2 DEF Slices
<1> QED
  BY <1>1, <1>2, <1>3

\* An answer that takes the stream from t to e extends the tiling.
LEMMA TiledAfter ==
  ASSUME Tiled, at # "threw", answers \in Seq(AnswerSet), NEW a \in AnswerSet,
         answers' = Append(answers, a), stream' = stream, stream \in Seq(Unit),
         NEW e \in Nat, taken \in Nat, taken <= e, e <= Len(stream), taken' = e,
         a.raw = SubSeq(stream, taken + 1, e)
  PROVE  Tiled'
<1>1. SubSeq(stream, 1, taken) \o SubSeq(stream, taken + 1, e) = SubSeq(stream, 1, e)
  <2>1. 0 \in Nat /\ 0 <= taken /\ 0 + 1 = 1
    BY taken \in Nat
  <2>2. SubSeq(stream, 0 + 1, taken) \o SubSeq(stream, taken + 1, e) = SubSeq(stream, 0 + 1, e)
    BY ONLY <2>1, Join, taken \in Nat, e \in Nat, taken <= e, e <= Len(stream),
            stream \in Seq(Unit)
  <2> QED
    BY <2>1, <2>2
<1>2. /\ \E f : Tiling(Append(answers, a), f)
      /\ \A f : Tiling(Append(answers, a), f) =>
           \E d : /\ Tiling(answers, d)
                  /\ f[Len(Append(answers, a))] = d[Len(answers)] \o a.raw
  BY TilingGrows DEF Tiled
<1>3. \A d : Tiling(answers, d) => d[Len(answers)] = SubSeq(stream, 1, taken)
  BY DEF Tiled
<1>4. \A f : Tiling(Append(answers, a), f) =>
        f[Len(Append(answers, a))] = SubSeq(stream, 1, e)
  BY <1>1, <1>2, <1>3
<1> QED
  BY <1>2, <1>4 DEF Tiled

\* What Tiled depends on.
LEMMA TiledKept ==
  ASSUME Tiled, UNCHANGED <<stream, answers>>,
         \/ at' = "threw"
         \/ at # "threw" /\ taken' = taken
         \/ at' = at /\ taken' = taken
  PROVE  Tiled'
  BY DEF Tiled

\* One more answer is given: the last of answers' is a.
LEMMA LastAppended ==
  ASSUME NEW as \in Seq(AnswerSet), NEW a \in AnswerSet
  PROVE  /\ Append(as, a) \in Seq(AnswerSet)
         /\ Len(as) \in Nat /\ Len(Append(as, a)) = Len(as) + 1
         /\ Append(as, a)[Len(Append(as, a))] = a
<1>1. Len(as) \in Nat
  BY LenProperties
<1>2. /\ Append(as, a) \in Seq(AnswerSet)
      /\ Len(Append(as, a)) = Len(as) + 1
      /\ Append(as, a)[Len(as) + 1] = a
  BY ONLY AppendProperties, as \in Seq(AnswerSet), a \in AnswerSet
<1> QED
  BY <1>1, <1>2

\* The initial state satisfies the invariant.
LEMMA InitInv == Init => IInv
<1> SUFFICES ASSUME Init PROVE IInv
  OBVIOUS
<1>1. /\ stream \in Seq(Unit) /\ Len(stream) \in Nat
      /\ <<>> \in Seq(Unit) /\ <<>> \in Seq(AnswerSet) /\ Len(<<>>) = 0
  BY SessionAssumption, EmptySeq, LenProperties DEF Init
<1>2. taken = 0
  <2>1. got = 0 /\ Len(buf) = 0 /\ Len(header_str) = 0
    BY <1>1 DEF Init
  <2> QED
    BY <2>1 DEF taken
<1>3. TypeOK
  <2>1. at \in Suspended \cup Ended
    BY DEF Init, Ended, Suspended
  <2>2. sent \in 0..Len(stream) /\ got \in 0..sent
    BY <1>1 DEF Init
  <2> QED
    BY <1>1, <2>1, <2>2 DEF Init, TypeOK
<1>4. Slices
  <2>1. SubSeq(stream, 0 + 1, 0) = <<>>
    BY SubSeqEmpty
  <2>2. taken + Len(header_str) = 0 /\ 0 <= Len(stream)
    BY <1>1, <1>2 DEF Init
  <2>3. Adjacent(stream, 0, 0, 0, header_str, buf)
    BY <1>1, <2>1, <2>2 DEF Init, Adjacent
  <2> QED
    BY <1>2, <2>2, <2>3 DEF Init, Slices
<1>5. Tiled
  <2>1. Len(answers) = 0
    BY <1>1 DEF Init
  <2> DEFINE e == [k \in 0..0 |-> <<>>]
  <2>2. Tiling(answers, e)
    BY <2>1 DEF Tiling
  <2>3. ASSUME NEW f, Tiling(answers, f) PROVE f[Len(answers)] = <<>>
    BY <2>1, <2>3 DEF Tiling
  <2>4. SubSeq(stream, 1, taken) = <<>>
    BY <1>2, SubSeqEmpty
  <2> QED
    BY <2>2, <2>3, <2>4 DEF Tiled
<1>6. Holding /\ Writing /\ ShutdownHasReason
  BY <1>1, SessionAssumption DEF Init, Holding, Writing, ShutdownHasReason
<1> QED
  BY <1>3, <1>4, <1>5, <1>6 DEF IInv

\* The reads preserve the invariant.
LEMMA ReadStep == IInv /\ (ReadHeader \/ ReadBody) => IInv'
<1> SUFFICES ASSUME IInv, ReadHeader \/ ReadBody PROVE IInv'
  OBVIOUS
<1>1. PICK g \in Nat, i \in Nat :
        /\ at \in {"readHeader", "readBody"} /\ UNCHANGED <<stream, sent, peer, written>>
        /\ taken <= g /\ g <= sent
        /\ \/ Waits(taken, i, g) \/ Refuses(taken, i, g)
           \/ \E e \in Nat : Responds(taken, i, e, g)
  BY Reads
<1>2. /\ stream \in Streams /\ stream \in Seq(Unit) /\ Len(stream) \in Nat
      /\ sent \in 0..Len(stream) /\ sent \in Nat
      /\ peer \in {"open", "eof", "reset"} /\ keep_alive \in BOOLEAN
      /\ served \in Nat /\ answers \in Seq(AnswerSet) /\ written \in Nat
      /\ written = Len(answers) /\ taken \in Nat
  BY <1>1, Positions DEF IInv, TypeOK, Writing
<1>3. PICK t \in Nat : t = taken
  BY <1>2
<1>4. g \in 0..sent /\ g <= Len(stream) /\ t <= g
  BY <1>1, <1>2, <1>3
<1>5. Tiled /\ at # "threw" /\ stream' = stream
  BY <1>1 DEF IInv
<1>6. CASE Waits(t, i, g)
  <2>1. /\ got' = g /\ Adjacent(stream, t, t + i, g, header_str', buf') /\ t + i \in Nat
        /\ UNCHANGED <<keep_alive, served, answers>>
        /\ \/ at' = "readHeader" /\ i = 0
           \/ at' = "readBody" /\ BodyAwaited(t, i, g)
    BY <1>6 DEF Waits
  <2>2. /\ Slices' /\ taken' = t /\ Len(header_str') = (t + i) - t
        /\ header_str' \in Seq(Unit) /\ buf' \in Seq(Unit)
    BY <1>2, <1>5, <2>1, SlicesAfter
  <2>3. Len(header_str') = i
    BY <2>2
  <2>4. TypeOK'
    BY <1>1, <1>2, <1>4, <2>1, <2>2 DEF TypeOK, Suspended
  <2>5. Holding'
    <3>1. i = 0 => header_str' = <<>>
      BY <2>2, <2>3, EmptySeq
    <3>2. at' = "readBody" => BodyAwaited(t, i, g)
      BY <2>1
    <3>3. BodyAwaited(t, i, g)' <=> BodyAwaited(t, i, g)
      BY <1>5 DEF BodyAwaited
    <3>4. at' = "readBody" => BodyAwaited(taken', Len(header_str'), got')
      BY <2>1, <2>2, <2>3, <3>2
    <3>5. header_str' # <<>> => at' \in {"readBody", "shutdown"}
      BY <2>1, <3>1
    <3> QED
      BY <1>5, <3>4, <3>5 DEF Holding, BodyAwaited
  <2>6. Writing' /\ ShutdownHasReason'
    BY <1>1, <1>2, <2>1 DEF Writing, ShutdownHasReason
  <2>7. Tiled'
    BY <1>3, <1>5, <2>1, <2>2, TiledKept
  <2> QED
    BY <2>2, <2>4, <2>5, <2>6, <2>7 DEF IInv
<1>7. ASSUME NEW a \in AnswerSet, NEW e \in Nat, t <= e, e <= g, got' = g,
             Adjacent(stream, e, e, g, header_str', buf'),
             \/ answers' = answers /\ at' = "threw"
             \/ /\ answers' = Append(answers, a) /\ a.raw = SubSeq(stream, t + 1, e)
                /\ \/ at' = "writeAnswer" /\ keep_alive' = a.keep /\ a.status # "switching"
                   \/ at' \in {"writeRefusal", "writeKeyless"} /\ ~ a.keep /\ a.status # "switching"
                   \/ at' = "writeSwitching",
             served' \in Nat, keep_alive' \in BOOLEAN
      PROVE  IInv'
  <2>1. /\ Slices' /\ taken' = e /\ Len(header_str') = e - e
        /\ header_str' \in Seq(Unit) /\ buf' \in Seq(Unit)
    BY <1>2, <1>5, <1>7, SlicesAfter
  <2>2. header_str' = <<>>
    BY <2>1, EmptySeq
  <2>3. /\ Append(answers, a) \in Seq(AnswerSet)
        /\ Len(answers) \in Nat /\ Len(Append(answers, a)) = Len(answers) + 1
        /\ Append(answers, a)[Len(Append(answers, a))] = a
    BY <1>2, LastAppended
  <2>4. TypeOK'
    BY <1>1, <1>2, <1>4, <1>7, <2>1, <2>3 DEF TypeOK, Suspended, Ended
  <2>5. Holding'
    BY <1>7, <2>2 DEF Holding
  <2>6. Writing' /\ ShutdownHasReason'
    BY <1>1, <1>2, <1>7, <2>3 DEF Writing, ShutdownHasReason
  <2>7. Tiled'
    <3>1. CASE answers' = answers /\ at' = "threw"
      BY <1>5, <3>1, TiledKept
    <3>2. CASE answers' = Append(answers, a) /\ a.raw = SubSeq(stream, t + 1, e)
      <4>1. e <= Len(stream) /\ taken <= e /\ taken' = e /\ a.raw = SubSeq(stream, taken + 1, e)
        BY <1>2, <1>3, <1>4, <1>7, <2>1, <3>2
      <4> QED
        BY <1>2, <1>5, <3>2, <4>1, TiledAfter
    <3> QED
      BY <1>7, <3>1, <3>2
  <2> QED
    BY <2>1, <2>4, <2>5, <2>6, <2>7 DEF IInv
<1>8. CASE Refuses(t, i, g)
  <2> DEFINE block == SubSeq(stream, t + 1, t + i)
             h     == HeadOf(block)
  <2>1. HeaderAt(SubSeq(stream, t + 1, g), i)
    BY <1>8 DEF Refuses
  <2>2. i >= 1 /\ i <= g - t /\ t + i \in Nat /\ t <= t + i /\ t + i <= g /\ t + i <= Len(stream)
        /\ g <= g
    <3>1. i >= 1 /\ i <= g - t
      BY <1>2, <1>4, <2>1, HeaderOfPrefix
    <3> QED
      BY <1>2, <1>4, <3>1
  <2>3. block \in Seq(Unit) /\ Len(block) >= 1
    BY <1>2, <2>2, Cut
  <2>4. h \in RequestHead
    BY <2>3, HeadType
  <2> HIDE DEF block
  <2>5. PICK a \in AnswerSet : answers' = Append(answers, a) /\ a.raw = block
                               /\ ~ a.keep /\ a.status # "switching"
    <3>1. /\ Refusal("badRequest", block) \in AnswerSet
          /\ Refusal("tooLarge", block) \in AnswerSet
      BY <2>3, <2>4, AnswerType
    <3>2. \/ answers' = Append(answers, Refusal("badRequest", block))
          \/ answers' = Append(answers, Refusal("tooLarge", block))
      BY <1>8 DEF Refuses, block
    <3> QED
      BY <3>1, <3>2 DEF Refusal
  <2>6. /\ got' = g /\ Adjacent(stream, t + i, t + i, g, header_str', buf')
        /\ at' = "writeRefusal" /\ UNCHANGED <<served, keep_alive>>
    BY <1>8 DEF Refuses
  <2> QED
    BY <1>2, <1>7, <2>2, <2>5, <2>6 DEF block
<1>9. ASSUME NEW e \in Nat, Responds(t, i, e, g) PROVE IInv'
  <2> DEFINE block == SubSeq(stream, t + 1, t + i)
             h     == HeadOf(block)
             raw   == SubSeq(stream, t + 1, e)
  <2>1. HeaderAt(SubSeq(stream, t + 1, g), i)
    BY <1>9 DEF Responds
  <2>2. i >= 1 /\ i <= g - t /\ t + i \in Nat /\ t <= t + i /\ t + i <= g /\ t + i <= Len(stream)
    <3>1. i >= 1 /\ i <= g - t
      BY <1>2, <1>4, <2>1, HeaderOfPrefix
    <3> QED
      BY <1>2, <1>4, <3>1
  <2>3. block \in Seq(Unit) /\ Len(block) >= 1
    BY <1>2, <2>2, Cut
  <2>4. h \in RequestHead /\ ContentLen(h) \in Nat
    BY <2>3, HeadType
  <2> HIDE DEF block, h
  <2>5. e <= g /\ e = t + i + ContentLen(h)
    BY <1>9 DEF Responds, h, block
  <2>6. t <= e /\ e <= Len(stream)
    BY <1>4, <2>2, <2>4, <2>5
  <2>7. raw \in Seq(Unit)
    BY <1>2, <2>6, Cut
  <2> HIDE DEF raw
  <2>8. /\ Refusal("badRequest", raw) \in AnswerSet /\ Switching(raw) \in AnswerSet
        /\ Served(h, raw) \in AnswerSet /\ Served(h, raw).keep = KeepAlive(h)
        /\ Served(h, raw).status # "switching" /\ Served(h, raw).raw = raw
        /\ KeepAlive(h) \in BOOLEAN
    <3>1. Served(h, raw).keep = KeepAlive(h) /\ Served(h, raw).status # "switching"
          /\ Served(h, raw).raw = raw
      BY DEF Served
    <3>2. KeepAlive(h) \in BOOLEAN
      BY <2>4 DEF KeepAlive, RequestHead
    <3> QED
      BY <2>4, <2>7, <3>1, <3>2, AnswerType
  <2>9. \/ /\ served' = served /\ at' = "writeKeyless"
           /\ answers' = Append(answers, Refusal("badRequest", raw))
        \/ /\ served' = served /\ at' = "writeSwitching"
           /\ answers' = Append(answers, Switching(raw))
        \/ /\ served' = served + 1 /\ at' = "writeAnswer"
           /\ answers' = Append(answers, Served(h, raw))
        \/ served' = served /\ at' = "threw" /\ answers' = answers
    BY <1>9 DEF Responds, h, block, raw
  <2>10. /\ got' = g /\ Adjacent(stream, e, e, g, header_str', buf')
         /\ keep_alive' = KeepAlive(h) /\ served' \in Nat
    BY <1>2, <1>9, <2>9 DEF Responds, h, block
  <2>11. PICK a \in AnswerSet :
           \/ answers' = answers /\ at' = "threw"
           \/ /\ answers' = Append(answers, a) /\ a.raw = raw
              /\ \/ at' = "writeAnswer" /\ keep_alive' = a.keep /\ a.status # "switching"
                 \/ at' \in {"writeRefusal", "writeKeyless"} /\ ~ a.keep /\ a.status # "switching"
                 \/ at' = "writeSwitching"
    BY <2>8, <2>9, <2>10 DEF Refusal, Switching
  <2> QED
    BY <1>7, <2>5, <2>6, <2>8, <2>10, <2>11 DEF raw
<1> QED
  BY <1>1, <1>3, <1>6, <1>8, <1>9

\* The peer and the remaining resumptions preserve the invariant.
LEMMA OtherSteps ==
  ASSUME IInv,
         \/ PeerSend \/ PeerClose \/ ReadFails
         \/ AnswerWritten \/ RefusalWritten \/ SwitchingWritten \/ WriteFails
  PROVE  IInv'
<1>0. UNCHANGED <<stream, got, buf, header_str, answers>>
  BY DEF PeerSend, PeerClose, ReadFails, AnswerWritten, RefusalWritten, SwitchingWritten, WriteFails
<1>1. taken' = taken
  BY <1>0 DEF taken
<1>2. Slices'
  BY <1>0, <1>1 DEF IInv, Slices
<1>3. /\ stream \in Seq(Unit) /\ Len(stream) \in Nat /\ Len(answers) \in Nat
      /\ TypeOK /\ Holding /\ Writing /\ ShutdownHasReason /\ Tiled
  BY Positions, LenProperties DEF IInv, TypeOK
<1>4. at # "threw" \/ at' = at
  BY DEF PeerSend, PeerClose, ReadFails, AnswerWritten, RefusalWritten, SwitchingWritten, WriteFails
<1>5. Tiled'
  BY <1>0, <1>1, <1>3, <1>4, TiledKept
<1>6. SUFFICES TypeOK' /\ Holding' /\ Writing' /\ ShutdownHasReason'
  BY <1>2, <1>5 DEF IInv
<1>7. ASSUME at' \notin {"readBody"}, at' = "shutdown" \/ header_str = <<>> PROVE Holding'
  BY <1>0, <1>7 DEF Holding
<1>8. CASE PeerSend
  <2>1. TypeOK'
    BY <1>0, <1>3, <1>8 DEF PeerSend, TypeOK
  <2>2. Holding' /\ Writing' /\ ShutdownHasReason'
    BY <1>1, <1>3, <1>8 DEF PeerSend, Holding, BodyAwaited, Writing, ShutdownHasReason
  <2> QED
    BY <2>1, <2>2
<1>9. CASE PeerClose
  <2>1. TypeOK'
    BY <1>0, <1>3, <1>9 DEF PeerClose, TypeOK
  <2>2. Holding' /\ Writing' /\ ShutdownHasReason'
    BY <1>1, <1>3, <1>9 DEF PeerClose, Holding, BodyAwaited, Writing, ShutdownHasReason
  <2> QED
    BY <2>1, <2>2
<1>10. CASE ReadFails
  <2>1. TypeOK'
    BY <1>0, <1>3, <1>10 DEF ReadFails, TypeOK, Ended
  <2>2. Holding'
    BY <1>7, <1>10 DEF ReadFails
  <2>3. Writing' /\ ShutdownHasReason'
    BY <1>3, <1>10 DEF ReadFails, Writing, ShutdownHasReason
  <2> QED
    BY <2>1, <2>2, <2>3
<1>11. ASSUME at \notin {"readBody", "shutdown"} PROVE header_str = <<>>
  BY <1>3, <1>11 DEF Holding
<1>12. CASE WriteFails
  <2>1. TypeOK'
    BY <1>0, <1>3, <1>12 DEF WriteFails, TypeOK, Ended
  <2>2. Holding'
    BY <1>7, <1>11, <1>12 DEF WriteFails
  <2>3. Writing' /\ ShutdownHasReason'
    BY <1>3, <1>12 DEF WriteFails, Writing, ShutdownHasReason
  <2> QED
    BY <2>1, <2>2, <2>3
<1>13. CASE AnswerWritten
  <2>1. /\ at = "writeAnswer" /\ written' = written + 1
        /\ \/ at' = "readHeader"
           \/ at' = "shutdown" /\ (~ keep_alive \/ ~ (served < MaxKeepAlive))
        /\ UNCHANGED <<sent, peer, keep_alive, served>>
    BY <1>13 DEF AnswerWritten, Loop
  <2>2. TypeOK'
    BY <1>0, <1>3, <2>1 DEF TypeOK, Suspended, Ended
  <2>3. Holding'
    BY <1>7, <1>11, <2>1
  <2>4. /\ written + 1 = Len(answers) /\ answers # <<>>
        /\ keep_alive = answers[Len(answers)].keep
        /\ answers[Len(answers)].status # "switching"
        /\ served \in Nat /\ MaxKeepAlive \in Nat /\ written \in Nat
    BY <1>3, <2>1, EmptySeq, SessionAssumption DEF Writing, TypeOK
  <2>5. Writing' /\ ShutdownHasReason'
    BY <1>0, <2>1, <2>4 DEF Writing, ShutdownHasReason
  <2> QED
    BY <2>2, <2>3, <2>5
<1>14. CASE RefusalWritten
  <2>1. /\ at \in {"writeRefusal", "writeKeyless"} /\ written' = written + 1
        /\ at' \in {"shutdown", "destroyed"}
        /\ UNCHANGED <<sent, peer, keep_alive, served>>
    BY <1>14 DEF RefusalWritten
  <2>2. TypeOK'
    BY <1>0, <1>3, <2>1 DEF TypeOK, Ended
  <2>3. Holding'
    BY <1>7, <1>11, <2>1
  <2>4. /\ written + 1 = Len(answers) /\ answers # <<>> /\ written \in Nat
        /\ ~ answers[Len(answers)].keep
        /\ answers[Len(answers)].status # "switching"
    BY <1>3, <2>1, EmptySeq DEF Writing, TypeOK
  <2>5. Writing' /\ ShutdownHasReason'
    BY <1>0, <2>1, <2>4 DEF Writing, ShutdownHasReason
  <2> QED
    BY <2>2, <2>3, <2>5
<1>15. CASE SwitchingWritten
  <2>1. /\ at = "writeSwitching" /\ written' = written + 1
        /\ at' \in {"upgraded", "destroyed"}
        /\ UNCHANGED <<sent, peer, keep_alive, served>>
    BY <1>15 DEF SwitchingWritten
  <2>2. TypeOK'
    BY <1>0, <1>3, <2>1 DEF TypeOK, Ended
  <2>3. Holding'
    BY <1>7, <1>11, <2>1
  <2>4. Writing' /\ ShutdownHasReason'
    BY <2>1 DEF Writing, ShutdownHasReason
  <2> QED
    BY <2>2, <2>3, <2>4
<1> QED
  BY <1>8, <1>9, <1>10, <1>12, <1>13, <1>14, <1>15

\* The inductive invariant holds in every reachable state.
THEOREM Invariance == Spec => []IInv
<1>1. IInv /\ [Next]_vars => IInv'
  <2> SUFFICES ASSUME IInv, [Next]_vars PROVE IInv'
    OBVIOUS
  <2>1. CASE UNCHANGED vars
    <3>1. taken' = taken
      BY <2>1 DEF vars, taken
    <3> QED
      BY <2>1, <3>1
      DEF IInv, vars, TypeOK, Slices, Holding, BodyAwaited, Writing, ShutdownHasReason, Tiled
  <2> QED
    BY <2>1, ReadStep, OtherSteps DEF Next, Resume
<1> QED
  BY <1>1, InitInv, PTL DEF Spec

\* Type correctness.
THEOREM TypeCorrect == Spec => []TypeOK
<1>1. IInv => TypeOK
  BY DEF IInv
<1> QED
  BY <1>1, Invariance, PTL

\* The answers account for the stream from its first byte, each byte at most
\* once and in order, whatever the stream and however it was cut.
THEOREM AnswersTileStream == Spec => []AnswersTile
<1>1. IInv => AnswersTile
  BY TiledTiles DEF IInv
<1> QED
  BY <1>1, Invariance, PTL

\* Towards a peer that is still there the session sends FIN only when all its
\* responses are written, at the limit or after a response that closes.
THEOREM ShutdownIsJustified == Spec => []ShutdownHasReason
<1>1. IInv => ShutdownHasReason
  BY DEF IInv
<1> QED
  BY <1>1, Invariance, PTL

(***************************************************************************)
(* The coroutine implements the abstract session.                          *)
(***************************************************************************)
\* The session reads requests with the same operators.
LEMMA SameWire ==
  /\ \A s, i : HeaderAt(s, i) => Session!HeaderAt(s, i)
  /\ \A s, i : Session!HeaderAt(s, i) => HeaderAt(s, i)
  /\ \A b : Session!HeadOf(b) = HeadOf(b)
  /\ \A h : Session!ContentLen(h) = ContentLen(h)
  /\ \A h : Session!HandlerThrows(h) = HandlerThrows(h)
  /\ \A h, r : Session!Served(h, r) = Served(h, r)
  /\ \A h, r : Session!Refusal(h, r) = Refusal(h, r)
  /\ \A r : Session!Switching(r) = Switching(r)
<1>1. /\ \A s, i : HeaderAt(s, i) => Session!HeaderAt(s, i)
      /\ \A s, i : Session!HeaderAt(s, i) => HeaderAt(s, i)
  BY DEF Session!HeaderAt, HeaderAt
<1>2. \A b : Session!HeadOf(b) = HeadOf(b)
  BY DEF Session!HeadOf, HeadOf
<1>3. /\ \A h : Session!ContentLen(h) = ContentLen(h)
      /\ \A h : Session!HandlerThrows(h) = HandlerThrows(h)
  BY DEF Session!ContentLen, Session!HandlerThrows, ContentLen, HandlerThrows
<1>4. /\ \A h, r : Session!Served(h, r) = Served(h, r)
      /\ \A h, r : Session!Refusal(h, r) = Refusal(h, r)
      /\ \A r : Session!Switching(r) = Switching(r)
  BY DEF Session!Served, Session!KeepAlive, Session!Refusal, Session!Switching,
         Served, KeepAlive, Refusal, Switching
<1> QED
  BY <1>1, <1>2, <1>3, <1>4

\* What the coroutine is doing, suspension by suspension.
LEMMA StatusOf ==
  /\ at \in {"readHeader", "readBody"} => status = "idle"
  /\ at \in {"writeAnswer", "writeRefusal", "writeKeyless"} => status = "writing"
  /\ at = "writeSwitching" => status = "switching"
  BY DEF status

LEMMA StatusAfter ==
  /\ at' \in {"readHeader", "readBody"} => status' = "idle"
  /\ at' \in {"writeAnswer", "writeRefusal", "writeKeyless"} => status' = "writing"
  /\ at' = "writeSwitching" => status' = "switching"
  /\ at' = "upgraded" => status' = "upgraded"
  /\ at' = "threw" => status' = "failed"
  /\ at' \in {"shutdown", "destroyed"} => status' = "closed"
  BY DEF status

\* What the session has before it: a header block found in the part that has
\* been read is the one the session finds in all that was sent.
LEMMA RestOf ==
  ASSUME IInv, NEW t \in Nat, t = taken, NEW g \in Nat, t <= g, g <= sent
  PROVE  /\ Session!Rest \in Seq(Unit) /\ Len(Session!Rest) = sent - t /\ t <= sent
         /\ \A i \in Nat : HeaderAt(SubSeq(stream, t + 1, g), i) =>
              /\ i \in 1..Len(Session!Rest) /\ i <= g - t /\ HeaderAt(Session!Rest, i)
         /\ \A n \in Nat : n <= sent - t =>
              SubSeq(Session!Rest, 1, n) = SubSeq(stream, t + 1, t + n)
<1>1. /\ stream \in Seq(Unit) /\ Len(stream) \in Nat /\ sent \in Nat /\ sent <= Len(stream)
      /\ t <= sent
  BY Positions
<1>2. Session!Rest = SubSeq(stream, t + 1, sent)
  BY DEF Session!Rest
<1>3. SubSeq(stream, t + 1, sent) \in Seq(Unit) /\ Len(SubSeq(stream, t + 1, sent)) = sent - t
  BY <1>1, Cut
<1>4. ASSUME NEW i \in Nat, HeaderAt(SubSeq(stream, t + 1, g), i)
      PROVE  i >= 1 /\ i <= g - t /\ HeaderAt(SubSeq(stream, t + 1, sent), i)
  BY <1>1, <1>4, HeaderOfPrefix
<1>5. ASSUME NEW n \in Nat, n <= sent - t
      PROVE  SubSeq(SubSeq(stream, t + 1, sent), 1, n) = SubSeq(stream, t + 1, t + n)
  BY <1>1, <1>5, PrefixOfCut
<1>6. ASSUME NEW i \in Nat, HeaderAt(SubSeq(stream, t + 1, g), i)
      PROVE  i \in 1..Len(Session!Rest)
  BY <1>1, <1>2, <1>3, <1>4, <1>6
<1> QED
  BY <1>1, <1>2, <1>3, <1>4, <1>5, <1>6

\* A read is a step of the session exactly when it ends a request.
LEMMA ReadImplements ==
  ASSUME IInv, ReadHeader \/ ReadBody
  PROVE  Session!Next \/ UNCHANGED Session!vars
<1>1. PICK g \in Nat, i \in Nat :
        /\ at \in {"readHeader", "readBody"} /\ UNCHANGED <<stream, sent, peer, written>>
        /\ taken <= g /\ g <= sent
        /\ \/ Waits(taken, i, g) \/ Refuses(taken, i, g)
           \/ \E e \in Nat : Responds(taken, i, e, g)
  BY Reads
<1>2. PICK t \in Nat : t = taken /\ t <= g
  BY <1>1, Positions
<1> DEFINE rest == Session!Rest
<1>3. /\ stream \in Seq(Unit) /\ stream' = stream /\ sent \in Nat /\ sent <= Len(stream)
      /\ Len(stream) \in Nat /\ status = "idle"
  BY <1>1, Positions, StatusOf
<1>4. /\ rest \in Seq(Unit) /\ Len(rest) = sent - t /\ t <= sent
      /\ \A j \in Nat : HeaderAt(SubSeq(stream, t + 1, g), j) =>
           /\ j \in 1..Len(rest) /\ j <= g - t /\ HeaderAt(rest, j)
      /\ \A n \in Nat : n <= sent - t => SubSeq(rest, 1, n) = SubSeq(stream, t + 1, t + n)
  BY <1>1, <1>2, RestOf
<1> HIDE DEF rest
<1> DEFINE block == SubSeq(stream, t + 1, t + i)
           h     == HeadOf(block)
<1>5. ASSUME HeaderAt(SubSeq(stream, t + 1, g), i)
      PROVE  /\ i \in 1..Len(rest) /\ i >= 1 /\ i <= g - t /\ t + i \in Nat
             /\ Session!HeaderAt(rest, i)
             /\ SubSeq(rest, 1, i) = block /\ Session!HeadOf(SubSeq(rest, 1, i)) = h
             /\ Session!ContentLen(h) = ContentLen(h) /\ ContentLen(h) \in Nat
  <2>1. i \in 1..Len(rest) /\ i >= 1 /\ i <= g - t /\ HeaderAt(rest, i)
    BY <1>4, <1>5
  <2>2. i <= sent - t /\ t + i \in Nat /\ t <= t + i /\ t + i <= Len(stream)
    BY <1>1, <1>2, <1>3, <2>1
  <2>3. SubSeq(rest, 1, i) = block
    BY <1>4, <2>2
  <2>4. block \in Seq(Unit) /\ Len(block) >= 1
    BY <1>3, <2>1, <2>2, Cut
  <2> HIDE DEF block
  <2>5. ContentLen(h) \in Nat
    BY <2>4, HeadType
  <2> QED
    BY <2>1, <2>2, <2>3, <2>5, SameWire
<1>6. CASE Waits(t, i, g)
  <2>1. taken' = t
    <3>1. got' = g /\ Adjacent(stream, t, t + i, g, header_str', buf') /\ t + i \in Nat
      BY <1>6 DEF Waits
    <3> QED
      BY <1>3, <3>1, SlicesAfter
  <2>2. status' = "idle" /\ UNCHANGED <<served, answers>>
    BY <1>6, StatusAfter DEF Waits
  <2> QED
    BY <1>1, <1>2, <1>3, <2>1, <2>2 DEF Session!vars
<1>7. CASE Refuses(t, i, g)
  <2>1. HeaderAt(SubSeq(stream, t + 1, g), i)
    BY <1>7 DEF Refuses
  <2>2. taken' = t + i
    <3>1. got' = g /\ Adjacent(stream, t + i, t + i, g, header_str', buf') /\ t + i \in Nat
      BY <1>7 DEF Refuses
    <3> QED
      BY <1>3, <3>1, SlicesAfter
  <2>3. taken' \in (taken + i)..sent
    BY <1>1, <1>2, <1>3, <1>5, <2>1, <2>2
  <2>4. status' = "writing" /\ served' = served
    BY <1>7, StatusAfter DEF Refuses
  <2> HIDE DEF block
  <2>5. \/ ~ h.parses /\ answers' = Append(answers, Refusal("badRequest", block))
        \/ /\ h.parses /\ ContentLen(h) > MaxBody
           /\ answers' = Append(answers, Refusal("tooLarge", block))
    BY <1>7 DEF Refuses, block
  <2>6. \/ ~ h.parses /\ Session!Give(Session!Refusal("badRequest", block), "writing")
        \/ /\ h.parses /\ ContentLen(h) > MaxBody
           /\ Session!Give(Session!Refusal("tooLarge", block), "writing")
    BY <1>1, <2>4, <2>5, SameWire DEF Session!Give
  <2> HIDE DEF h
  <2>7. Session!Refuse
    BY <1>3, <1>5, <2>1, <2>3, <2>4, <2>6 DEF Session!Refuse, rest
  <2> QED
    BY <2>7 DEF Session!Next, Session!Work
<1>8. ASSUME NEW e \in Nat, Responds(t, i, e, g) PROVE Session!Next
  <2> DEFINE raw == SubSeq(stream, t + 1, e)
  <2>1. /\ HeaderAt(SubSeq(stream, t + 1, g), i) /\ h.parses /\ ContentLen(h) <= MaxBody
        /\ e = t + i + ContentLen(h) /\ e <= g
    BY <1>8 DEF Responds
  <2>2. taken' = e
    <3>1. got' = g /\ Adjacent(stream, e, e, g, header_str', buf')
      BY <1>8 DEF Responds
    <3> QED
      BY <1>3, <3>1, SlicesAfter
  <2>3. \/ /\ h.upgrade = "noKey" /\ served' = served /\ at' = "writeKeyless"
           /\ answers' = Append(answers, Refusal("badRequest", raw))
        \/ /\ h.upgrade = "key" /\ served' = served /\ at' = "writeSwitching"
           /\ answers' = Append(answers, Switching(raw))
        \/ /\ h.upgrade = "no" /\ ~ HandlerThrows(h)
           /\ served' = served + 1 /\ at' = "writeAnswer"
           /\ answers' = Append(answers, Served(h, raw))
        \/ /\ h.upgrade = "no" /\ HandlerThrows(h)
           /\ served' = served /\ at' = "threw" /\ answers' = answers
    BY <1>8 DEF Responds
  <2> HIDE DEF block, h
  <2>4. PICK n \in Nat : /\ n = i + ContentLen(h) /\ n \in 1..Len(rest) /\ n <= sent - t
                         /\ e = t + n /\ taken' = taken + n /\ taken' \in taken..(taken + n)
    <3>1. /\ i \in Nat /\ i >= 1 /\ ContentLen(h) \in Nat /\ i + ContentLen(h) \in Nat
      BY <1>5, <2>1
    <3>2. PICK c \in Nat : c = ContentLen(h)
      BY <3>1
    <3>3. e = t + (i + c) /\ e <= g /\ g <= sent /\ Len(rest) = sent - t
      BY <1>1, <1>4, <2>1, <3>2
    <3>4. i + c \in 1..Len(rest) /\ i + c <= sent - t
      BY <1>3, <3>1, <3>3
    <3>5. taken' = taken + (i + c)
      BY <1>2, <2>2, <3>3
    <3> QED
      BY <1>2, <3>1, <3>2, <3>3, <3>4, <3>5
  <2>5. SubSeq(rest, 1, n) = raw
    BY <1>4, <2>4
  <2> HIDE DEF raw
  <2>6. Session!Request(i, n)
    BY <1>5, <2>1, <2>4 DEF Session!Request, rest
  <2>7. CASE h.upgrade = "no" /\ HandlerThrows(h) /\ served' = served
             /\ at' = "threw" /\ answers' = answers
    <3>1. status' = "failed"
      BY <2>7, StatusAfter
    <3>2. Session!HandlerThrows(h)
      BY <2>7, SameWire
    <3>3. Session!Fail
      BY <1>1, <1>3, <1>5, <2>1, <2>4, <2>6, <2>7, <3>1, <3>2 DEF Session!Fail, rest
    <3> QED
      BY <3>3 DEF Session!Next, Session!Work
  <2>8. CASE ~ (h.upgrade = "no" /\ HandlerThrows(h))
    <3>1. \/ /\ h.upgrade = "no" /\ ~ Session!HandlerThrows(h)
             /\ served' = served + 1
             /\ Session!Give(Session!Served(h, raw), "writing")
          \/ /\ h.upgrade = "noKey" /\ served' = served
             /\ Session!Give(Session!Refusal("badRequest", raw), "writing")
          \/ /\ h.upgrade = "key" /\ served' = served
             /\ Session!Give(Session!Switching(raw), "switching")
      BY <1>1, <2>3, <2>8, StatusAfter, SameWire DEF Session!Give
    <3>2. Session!Answer
      BY <1>3, <1>5, <2>1, <2>4, <2>5, <2>6, <3>1 DEF Session!Answer, rest
    <3> QED
      BY <3>2 DEF Session!Next, Session!Work
  <2> QED
    BY <2>3, <2>7, <2>8
<1> QED
  BY <1>1, <1>2, <1>6, <1>7, <1>8

\* A session whose peer has closed its side gives up only when nothing it sent
\* can be answered: the read that fails waits for bytes that cannot come.
LEMMA NothingAnswerable ==
  ASSUME IInv, got = sent, (at = "readHeader" /\ NoHeader(buf)) \/ at = "readBody"
  PROVE  ~ Session!Answerable
<1> DEFINE rest == Session!Rest
<1>1. /\ stream \in Seq(Unit) /\ Len(stream) \in Nat /\ sent \in Nat /\ sent <= Len(stream)
      /\ Len(header_str) \in Nat /\ taken \in Nat /\ taken + Len(header_str) \in Nat
      /\ Adjacent(stream, taken, taken + Len(header_str), sent, header_str, buf)
  BY Positions
<1>2. PICK t \in Nat, i \in Nat, q \in Nat :
        t = taken /\ i = Len(header_str) /\ q = t + i /\ q = taken + Len(header_str)
  BY <1>1
<1>3. /\ t <= q /\ q <= sent /\ t <= sent
      /\ header_str = SubSeq(stream, t + 1, q) /\ buf = SubSeq(stream, q + 1, sent)
  BY <1>1, <1>2 DEF Adjacent
<1>4. rest = SubSeq(stream, t + 1, sent)
  BY <1>2 DEF Session!Rest
<1>5. /\ Len(rest) = sent - t /\ Len(rest) \in Nat
      /\ \A j \in Nat : HeaderAt(SubSeq(stream, t + 1, sent), j) => j \in 1..Len(rest)
      /\ \A n \in Nat : n <= sent - t => SubSeq(rest, 1, n) = SubSeq(stream, t + 1, t + n)
  <2>1. sent <= sent
    BY <1>1
  <2>2. /\ Len(rest) = sent - t
        /\ \A j \in Nat : HeaderAt(SubSeq(stream, t + 1, sent), j) => j \in 1..Len(rest)
        /\ \A n \in Nat : n <= sent - t => SubSeq(rest, 1, n) = SubSeq(stream, t + 1, t + n)
    BY <1>1, <1>2, <1>3, <2>1, RestOf
  <2> HIDE DEF rest
  <2>3. sent - t \in Nat
    BY <1>1, <1>3
  <2> QED
    BY <2>2, <2>3
<1> HIDE DEF rest
<1>6. SUFFICES ASSUME NEW j \in 1..Len(rest), HeaderAt(rest, j),
                      LET h == HeadOf(SubSeq(rest, 1, j))
                      IN  \/ ~ h.parses \/ ContentLen(h) > MaxBody
                          \/ j + ContentLen(h) <= Len(rest)
               PROVE  FALSE
  BY SameWire DEF Session!Answerable, rest
<1>7. CASE at = "readHeader" /\ NoHeader(buf)
  <2>1. header_str = <<>> /\ i = 0
    BY <1>2, <1>7, EmptySeq DEF IInv, Holding
  <2>2. buf = rest
    <3>1. q = t
      BY <1>2, <2>1
    <3> QED
      BY <1>3, <1>4, <3>1
  <2> QED
    BY <1>6, <1>7, <2>2 DEF NoHeader, HeaderAt
<1>8. CASE at = "readBody"
  <2>1. /\ HeaderAt(rest, i) /\ HeadOf(header_str).parses
        /\ ContentLen(HeadOf(header_str)) <= MaxBody
        /\ sent < t + i + ContentLen(HeadOf(header_str))
    BY <1>2, <1>3, <1>4, <1>8 DEF IInv, Holding, BodyAwaited
  <2>2. j = i
    <3>1. j \in Nat /\ j >= 1 /\ rest[j].head /\ \A k \in 1..(j - 1) : ~ rest[k].head
      BY <1>5, <1>6 DEF HeaderAt
    <3>2. i >= 1 /\ rest[i].head /\ \A k \in 1..(i - 1) : ~ rest[k].head
      BY <1>5, <2>1 DEF HeaderAt
    <3> QED
      BY ONLY <3>1, <3>2, i \in Nat
  <2>3. SubSeq(rest, 1, i) = header_str
    <3>1. i <= sent - t
      BY <1>1, <1>2, <1>3
    <3> QED
      BY <1>2, <1>3, <1>5, <3>1
  <2>4. ContentLen(HeadOf(header_str)) \in Nat
    <3>1. Len(header_str) >= 1 /\ header_str \in Seq(Unit)
      BY <1>2, <2>1, Positions DEF HeaderAt
    <3> QED
      BY <3>1, HeadType
  <2>5. PICK c \in Nat : c = ContentLen(HeadOf(header_str))
    BY <2>4
  <2>6. ~ (i + c <= Len(rest)) /\ ~ (c > MaxBody)
    <3>1. sent < t + i + c /\ c <= MaxBody /\ Len(rest) = sent - t
      BY <1>5, <2>1, <2>5
    <3> QED
      BY <1>1, <3>1, MaxBodyAssumption
  <2> QED
    BY <1>6, <2>1, <2>2, <2>3, <2>5, <2>6
<1> QED
  BY <1>7, <1>8

\* The remaining resumptions and the peer: each is one step of the session.
LEMMA OtherImplements ==
  ASSUME IInv,
         \/ PeerSend \/ PeerClose \/ ReadFails
         \/ AnswerWritten \/ RefusalWritten \/ SwitchingWritten \/ WriteFails
  PROVE  Session!Next
<1>1. taken' = taken /\ UNCHANGED <<stream, answers>>
  BY DEF PeerSend, PeerClose, ReadFails, AnswerWritten, RefusalWritten, SwitchingWritten,
         WriteFails, taken
<1>2. ASSUME UNCHANGED at PROVE status' = status
  BY <1>2 DEF status
<1>3. CASE PeerSend
  <2>1. Session!PeerSend
    BY <1>1, <1>2, <1>3 DEF PeerSend, Session!PeerSend
  <2> QED
    BY <2>1 DEF Session!Next
<1>4. CASE PeerClose
  <2>1. Session!PeerClose
    BY <1>1, <1>2, <1>4 DEF PeerClose, Session!PeerClose
  <2> QED
    BY <2>1 DEF Session!Next
<1>5. CASE ReadFails
  <2>1. /\ at \in {"readHeader", "readBody"} /\ at' = "shutdown"
        /\ \/ peer = "reset"
           \/ peer = "eof" /\ got = sent
        /\ (at = "readHeader" /\ NoHeader(buf)) \/ at = "readBody"
    BY <1>5 DEF ReadFails
  <2>2. peer = "reset" \/ (peer = "eof" /\ ~ Session!Answerable)
    BY <2>1, NothingAnswerable
  <2>3. Session!Abandon
    BY <1>1, <1>5, <2>1, <2>2, StatusOf, StatusAfter DEF ReadFails, Session!Abandon
  <2> QED
    BY <2>3 DEF Session!Next, Session!Work
<1>6. CASE WriteFails
  <2>1. Session!Abandon
    BY <1>1, <1>6, StatusOf, StatusAfter DEF WriteFails, Session!Abandon
  <2> QED
    BY <2>1 DEF Session!Next, Session!Work
<1>7. CASE AnswerWritten
  <2>1. at = "writeAnswer" /\ keep_alive = answers[Len(answers)].keep
    BY <1>7 DEF AnswerWritten, IInv, Writing
  <2>2. at' = IF keep_alive /\ served < MaxKeepAlive THEN "readHeader" ELSE "shutdown"
    BY <1>7 DEF AnswerWritten, Loop
  <2>3. status' = IF keep_alive /\ served < MaxKeepAlive THEN "idle" ELSE "closed"
    BY <2>2, StatusAfter
  <2>4. Session!Written
    BY <1>1, <1>7, <2>1, <2>3, StatusOf DEF AnswerWritten, Session!Written
  <2> QED
    BY <2>4 DEF Session!Next, Session!Work
<1>8. CASE RefusalWritten
  <2>1. /\ at \in {"writeRefusal", "writeKeyless"} /\ at' \in {"shutdown", "destroyed"}
        /\ ~ answers[Len(answers)].keep
    BY <1>8 DEF RefusalWritten, IInv, Writing
  <2>2. Session!Written
    BY <1>1, <1>8, <2>1, StatusOf, StatusAfter DEF RefusalWritten, Session!Written
  <2> QED
    BY <2>2 DEF Session!Next, Session!Work
<1>9. CASE SwitchingWritten
  <2>1. at = "writeSwitching" /\ at' \in {"upgraded", "destroyed"}
    BY <1>9 DEF SwitchingWritten
  <2>2. Session!Written
    BY <1>1, <1>9, <2>1, StatusOf, StatusAfter DEF SwitchingWritten, Session!Written
  <2> QED
    BY <2>2 DEF Session!Next, Session!Work
<1> QED
  BY <1>3, <1>4, <1>5, <1>6, <1>7, <1>8, <1>9

\* Every step of the coroutine is one step of the session or none of it: the
\* coroutine and the callback server, which buffer, refuse and give up in
\* different ways, keep the same promise.  This is ImplementsSession without
\* its fairness.
THEOREM ImplementsSessionSteps == Spec => Session!Init /\ [][Session!Next]_(Session!vars)
<1>1. Init => Session!Init
  <2> SUFFICES ASSUME Init PROVE Session!Init
    OBVIOUS
  <2>1. taken = 0
    <3>1. got = 0 /\ Len(buf) = 0 /\ Len(header_str) = 0
      BY EmptySeq DEF Init
    <3> QED
      BY <3>1 DEF taken
  <2>2. status = IF MaxKeepAlive = 0 THEN "closed" ELSE "idle"
    BY SessionAssumption DEF Init, status
  <2> QED
    BY <2>1, <2>2 DEF Init, Session!Init
<1>2. IInv /\ [Next]_vars => [Session!Next]_(Session!vars)
  <2> SUFFICES ASSUME IInv, [Next]_vars PROVE Session!Next \/ UNCHANGED Session!vars
    OBVIOUS
  <2>1. CASE UNCHANGED vars
    BY <2>1 DEF vars, Session!vars, taken, status
  <2>2. CASE ReadHeader \/ ReadBody
    BY <2>2, ReadImplements
  <2>3. CASE \/ PeerSend \/ PeerClose \/ ReadFails
             \/ AnswerWritten \/ RefusalWritten \/ SwitchingWritten \/ WriteFails
    BY <2>3, OtherImplements
  <2> QED
    BY <2>1, <2>2, <2>3 DEF Next, Resume
<1>3. Spec => []IInv
  BY Invariance
<1> QED
  BY <1>1, <1>2, <1>3, PTL DEF Spec
================================================================================
