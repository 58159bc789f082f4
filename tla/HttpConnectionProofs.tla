------------------------ MODULE HttpConnectionProofs ------------------------
(***************************************************************************)
(* Proofs about HttpConnection, for every set of streams, every limit on   *)
(* the requests of a connection and every limit on the size of a body.     *)
(***************************************************************************)
EXTENDS HttpConnection, SliceLemmas

(***************************************************************************)
(* Facts about the operators of HttpWire: the types of heads and answers,  *)
(* and what a header block at the front of a piece of the stream is in a   *)
(* longer piece.                                                           *)
(***************************************************************************)
\* The head of a non-empty block is a request head and its length a number.
LEMMA HeadType ==
  ASSUME NEW block \in Seq(Unit), Len(block) >= 1
  PROVE  /\ HeadOf(block) \in RequestHead
         /\ ContentLen(HeadOf(block)) \in Nat
<1>1. Len(block) \in Nat /\ block[Len(block)] \in Unit
  BY LenProperties, ElementOfSeq
<1>2. block[Len(block)].h \in RequestHead
  BY <1>1, UnitAssumption
<1>3. HeadOf(block) \in RequestHead
  BY <1>1, <1>2 DEF HeadOf, RequestHead
<1> QED
  BY <1>3 DEF ContentLen, RequestHead

\* The three kinds of answers are answers.
LEMMA AnswerType ==
  ASSUME NEW h \in RequestHead, NEW raw \in Seq(Unit)
  PROVE  /\ Served(h, raw) \in AnswerSet
         /\ Refusal("badRequest", raw) \in AnswerSet
         /\ Refusal("tooLarge", raw) \in AnswerSet
         /\ Switching(raw) \in AnswerSet
         /\ ~ Refusal("badRequest", raw).keep
         /\ ~ Refusal("tooLarge", raw).keep
         /\ ~ Switching(raw).keep
<1>1. KeepAlive(h) \in BOOLEAN
  BY DEF KeepAlive, RequestHead, ConnectionValue
<1> QED
  BY <1>1 DEF Served, Refusal, Switching, AnswerSet, Status

\* The header block at the front of what lies between p and q is that of what
\* lies between p and r: what arrives later does not change it.
LEMMA HeaderOfPrefix ==
  ASSUME NEW s \in Seq(Unit), NEW p \in Nat, NEW q \in Nat, NEW r \in Nat,
         p <= q, q <= r, r <= Len(s), NEW i \in Nat, HeaderAt(SubSeq(s, p + 1, q), i)
  PROVE  /\ i >= 1 /\ i <= q - p
         /\ HeaderAt(SubSeq(s, p + 1, r), i)
         /\ SubSeq(SubSeq(s, p + 1, q), 1, i) = SubSeq(SubSeq(s, p + 1, r), 1, i)
<1>1. Len(s) \in Nat /\ q <= Len(s)
  BY LenProperties
<1> DEFINE a == SubSeq(s, p + 1, q)
           b == SubSeq(s, p + 1, r)
<1>2. Len(a) = q - p /\ \A k \in 1..(q - p) : a[k] = s[p + k]
  BY <1>1, Cut
<1>3. Len(b) = r - p /\ \A k \in 1..(r - p) : b[k] = s[p + k]
  BY <1>1, Cut
<1>4. i >= 1 /\ i <= q - p /\ i <= r - p
  BY <1>2 DEF HeaderAt
<1>5. SubSeq(a, 1, i) = SubSeq(s, p + 1, p + i) /\ SubSeq(b, 1, i) = SubSeq(s, p + 1, p + i)
  BY <1>1, <1>4, PrefixOfCut
<1>6. HeaderAt(a, i)
  OBVIOUS
<1> HIDE DEF a, b
<1>7. \A k \in 1..i : a[k] = b[k]
  BY <1>2, <1>3, <1>4
<1>8. HeaderAt(b, i)
  BY <1>3, <1>4, <1>7, <1>6 DEF HeaderAt
<1> QED
  BY <1>4, <1>5, <1>8 DEF a, b

(***************************************************************************)
(* Framing.                                                                *)
(***************************************************************************)
\* The units of the first k requests are the first t of s.
Upto(s, k, t) == \A j \in 1..Len(s) : s[j].owner <= k <=> j <= t

AllClear(s, k) == \A j \in 1..k : Unambiguous(s, j)

LEMMA ClearPrefix ==
  ASSUME NEW s, NEW k \in Nat, AllClear(s, k + 1)
  PROVE  AllClear(s, k) /\ Unambiguous(s, k + 1)
<1>1. \A j \in 1..(k + 1) : Unambiguous(s, j)
  BY DEF AllClear
<1>2. k + 1 \in 1..(k + 1) /\ \A j \in 1..k : j \in 1..(k + 1)
  OBVIOUS
<1>3. Unambiguous(s, k + 1)
  BY <1>1, <1>2
<1>4. \A j \in 1..k : Unambiguous(s, j)
  BY <1>1, <1>2
<1> QED
  BY <1>3, <1>4 DEF AllClear

\* If the session stands at the end of request k, and request k + 1 states its
\* length, then the header block it finds is the head of that request alone,
\* is acceptable, and ends with its body where the request does.
LEMMA OwnIsNext ==
  ASSUME NEW s \in Seq(Unit), InOrder(s), NEW k \in Nat,
         NEW t \in Nat, NEW e \in Nat, t <= e, e <= Len(s),
         Upto(s, k, t), Unambiguous(s, k + 1),
         NEW i \in Nat, HeaderAt(SubSeq(s, t + 1, e), i),
         NEW h, h = HeadOf(SubSeq(SubSeq(s, t + 1, e), 1, i))
  PROVE  /\ i = 1 /\ h.parses /\ ContentLen(h) \in Nat /\ ContentLen(h) <= MaxBody
         /\ \E q \in 1..Len(s) : /\ q = t + 1 + ContentLen(h)
                                /\ Spans(s, k + 1, t + 1, q) /\ Upto(s, k + 1, q)
<1>1. Len(s) \in Nat /\ \A j \in 1..Len(s) : s[j] \in Unit
  BY LenProperties, ElementOfSeq
<1>2. \A j \in 1..Len(s) : s[j].owner \in Nat /\ s[j].h \in RequestHead
  BY <1>1, UnitAssumption
<1>3. PICK p \in Nat, q \in Nat :
        /\ p >= 1 /\ q <= Len(s)
        /\ p <= q /\ Spans(s, k + 1, p, q)
        /\ s[p].head /\ s[p].h.parses
        /\ ContentLen(s[p].h) = q - p
        /\ ContentLen(s[p].h) <= MaxBody
  BY <1>1 DEF Unambiguous
<1>4. \A j \in 1..Len(s) : s[j].owner = k + 1 <=> (p <= j /\ j <= q)
  BY <1>1, <1>3 DEF Spans
<1>5. \A j \in 1..Len(s) : s[j].owner <= k <=> j <= t
  BY DEF Upto
<1>6. \A j, l \in 1..Len(s) : j <= l => s[j].owner <= s[l].owner
  BY DEF InOrder
<1>7. SubSeq(SubSeq(s, t + 1, e), 1, i) = SubSeq(s, t + 1, t + i) /\ i >= 1 /\ i <= e - t
  <2>1. i >= 1 /\ i <= e - t
    BY <1>1, Cut DEF HeaderAt
  <2> QED
    BY <1>1, <2>1, PrefixOfCut
<1>8. p = t + 1
  <2>1. p \in 1..Len(s) /\ s[p].owner = k + 1
    BY <1>1, <1>3, <1>4
  <2>2. p > t
    BY <1>5, <2>1
  <2>3. t + 1 \in 1..Len(s)
    BY <1>1, <1>7
  <2>4. ~ (s[t + 1].owner <= k)
    BY <1>5, <2>3
  <2>5. s[t + 1].owner <= k + 1
    BY <1>6, <2>1, <2>2, <2>3
  <2>6. s[t + 1].owner = k + 1
    BY <1>2, <2>3, <2>4, <2>5
  <2>7. p <= t + 1
    BY <1>4, <2>3, <2>6
  <2> QED
    BY <2>2, <2>7
<1>9. i = 1
  <2> DEFINE rest == SubSeq(s, t + 1, e)
  <2>1. rest[1] = s[t + 1]
    <3>1. \A j \in 1..(e - t) : rest[j] = s[t + j]
      BY <1>1, Cut
    <3> QED
      BY <1>7, <3>1
  <2>2. \A j \in 1..(i - 1) : ~ rest[j].head
    BY DEF HeaderAt
  <2>3. i = 1 \/ 1 \in 1..(i - 1)
    BY <1>7
  <2>4. s[t + 1].head
    BY <1>3, <1>8
  <2> QED
    BY ONLY <2>1, <2>2, <2>3, <2>4
<1>10. h = s[p].h
  <2>1. SubSeq(s, t + 1, t + 1)[1] = s[t + 1] /\ Len(SubSeq(s, t + 1, t + 1)) = 1
    <3> DEFINE m == t + 1
    <3>1. m \in Nat /\ t <= m /\ m <= Len(s) /\ m - t = 1
      BY <1>1, <1>7
    <3> HIDE DEF m
    <3>2. Len(SubSeq(s, t + 1, m)) = m - t /\ \A j \in 1..(m - t) : SubSeq(s, t + 1, m)[j] = s[t + j]
      <4>1. s \in Seq(Unit) /\ t \in Nat
        OBVIOUS
      <4> QED
        BY ONLY <3>1, <4>1, Cut
    <3>3. Len(SubSeq(s, t + 1, m)) = 1 /\ SubSeq(s, t + 1, m)[1] = s[t + 1]
      BY <3>1, <3>2
    <3> QED
      BY <3>3 DEF m
  <2> QED
    BY <1>7, <1>8, <1>9, <2>1 DEF HeadOf
<1>11. q = t + 1 + ContentLen(h) /\ ContentLen(h) \in Nat
  BY <1>3, <1>8, <1>10
<1>12. Upto(s, k + 1, q)
  <2>1. ASSUME NEW j \in 1..Len(s) PROVE s[j].owner <= k + 1 <=> j <= q
    BY <1>2, <1>3, <1>4, <1>5, <1>8, <2>1
  <2> QED
    BY <2>1 DEF Upto
<1> QED
  BY <1>1, <1>3, <1>8, <1>9, <1>10, <1>11, <1>12

\* One more answer keeps the framing if it is for the next request's bytes.
LEMMA FramedAppend ==
  ASSUME NEW s, NEW as \in Seq(AnswerSet), NEW a \in AnswerSet, Framed(s, as),
         NEW m \in Nat, m = Len(as), AllClear(s, m + 1) =>
           \E p, q \in 1..Len(s) : Spans(s, m + 1, p, q) /\ a.raw = SubSeq(s, p, q)
  PROVE  Framed(s, Append(as, a))
<1>1. Len(Append(as, a)) = m + 1 /\ Append(as, a)[m + 1] = a
  BY AppendProperties
<1>2. \A k \in 1..m : Append(as, a)[k] = as[k]
  BY AppendProperties
<1>3. SUFFICES ASSUME NEW k \in 1..(m + 1), AllClear(s, k)
               PROVE  \E p, q \in 1..Len(s) :
                        Spans(s, k, p, q) /\ Append(as, a)[k].raw = SubSeq(s, p, q)
  BY <1>1 DEF Framed, AllClear
<1>4. CASE k = m + 1
  BY <1>1, <1>3, <1>4
<1>5. CASE k # m + 1
  <2>1. k \in 1..m
    BY ONLY <1>5, k \in 1..(m + 1), m \in Nat
  <2> QED
    BY <1>2, <1>3, <2>1 DEF Framed, AllClear
<1> QED
  BY <1>4, <1>5

\* A request taken where the answers so far have led to is answered for its
\* own bytes, and leads to where they end.
LEMMA AnswerFramed ==
  ASSUME NEW s \in Seq(Unit), InOrder(s), NEW as \in Seq(AnswerSet), Framed(s, as),
         NEW m \in Nat, m = Len(as), NEW t \in Nat, NEW e \in Nat, t <= e, e <= Len(s),
         AllClear(s, m) => Upto(s, m, t),
         NEW i \in Nat, HeaderAt(SubSeq(s, t + 1, e), i),
         NEW h, h = HeadOf(SubSeq(SubSeq(s, t + 1, e), 1, i)),
         NEW n \in Nat, n = i + ContentLen(h), n <= e - t,
         NEW a \in AnswerSet, a.raw = SubSeq(SubSeq(s, t + 1, e), 1, n)
  PROVE  /\ Framed(s, Append(as, a))
         /\ AllClear(s, m + 1) => Upto(s, m + 1, t + n)
<1>1. Len(s) \in Nat
  BY LenProperties
<1>2. a.raw = SubSeq(s, t + 1, t + n)
  BY <1>1, PrefixOfCut
<1>3. ASSUME AllClear(s, m + 1)
      PROVE  /\ t + 1 \in 1..Len(s) /\ t + n \in 1..Len(s)
             /\ Spans(s, m + 1, t + 1, t + n)
             /\ Upto(s, m + 1, t + n)
  <2>1. AllClear(s, m) /\ Unambiguous(s, m + 1)
    BY ONLY <1>1, <1>3, ClearPrefix
  <2>2. Upto(s, m, t)
    BY <2>1
  <2>3. /\ i = 1 /\ ContentLen(h) \in Nat
        /\ \E q \in 1..Len(s) : /\ q = t + 1 + ContentLen(h)
                               /\ Spans(s, m + 1, t + 1, q) /\ Upto(s, m + 1, q)
    <3>1. /\ s \in Seq(Unit) /\ InOrder(s) /\ m \in Nat /\ t \in Nat /\ e \in Nat
          /\ t <= e /\ e <= Len(s) /\ i \in Nat /\ HeaderAt(SubSeq(s, t + 1, e), i)
          /\ h = HeadOf(SubSeq(SubSeq(s, t + 1, e), 1, i))
      OBVIOUS
    <3> QED
      BY ONLY <2>1, <2>2, <3>1, OwnIsNext
  <2>4. t + 1 + ContentLen(h) = t + n
    <3>1. PICK c \in Nat : c = ContentLen(h)
      BY <2>3
    <3>2. n = 1 + c
      BY <2>3, <3>1
    <3> QED
      BY ONLY <3>1, <3>2, t \in Nat, n \in Nat
  <2>5. PICK q \in 1..Len(s) : /\ q = t + 1 + ContentLen(h)
                               /\ Spans(s, m + 1, t + 1, q) /\ Upto(s, m + 1, q)
    BY <2>3
  <2>6. q = t + n
    BY ONLY <2>4, <2>5
  <2>7. n >= 1
    BY ONLY <2>3, n \in Nat, n = i + ContentLen(h)
  <2>8. t + 1 \in 1..Len(s)
    BY ONLY <1>1, <2>5, <2>6, <2>7, t \in Nat, n \in Nat
  <2> QED
    BY ONLY <2>5, <2>6, <2>8
<1>4. AllClear(s, m + 1) =>
        \E p, q \in 1..Len(s) : Spans(s, m + 1, p, q) /\ a.raw = SubSeq(s, p, q)
  BY <1>2, <1>3
<1> QED
  BY <1>3, <1>4, FramedAppend

\* A request that states its length is not refused there.
LEMMA RefusalFramed ==
  ASSUME NEW s \in Seq(Unit), InOrder(s), NEW as \in Seq(AnswerSet), Framed(s, as),
         NEW m \in Nat, m = Len(as), NEW t \in Nat, NEW e \in Nat, t <= e, e <= Len(s),
         AllClear(s, m) => Upto(s, m, t),
         NEW i \in Nat, HeaderAt(SubSeq(s, t + 1, e), i),
         NEW h, h = HeadOf(SubSeq(SubSeq(s, t + 1, e), 1, i)),
         ~ h.parses \/ ContentLen(h) > MaxBody,
         NEW a \in AnswerSet
  PROVE  /\ Framed(s, Append(as, a))
         /\ ~ AllClear(s, m + 1)
<1>1. Len(s) \in Nat
  BY LenProperties
<1>2. ASSUME AllClear(s, m + 1) PROVE FALSE
  <2>1. AllClear(s, m) /\ Unambiguous(s, m + 1)
    BY ONLY <1>1, <1>2, ClearPrefix
  <2>2. Upto(s, m, t)
    BY <2>1
  <2>3. h.parses /\ ContentLen(h) \in Nat /\ ContentLen(h) <= MaxBody
    BY <1>1, <2>1, <2>2, OwnIsNext
  <2> QED
    BY <2>3, MaxBodyAssumption
<1> QED
  BY <1>2, FramedAppend

(***************************************************************************)
(* The inductive invariant.                                                *)
(***************************************************************************)
\* Where the held header block and the buffer lie in the stream.
Slices ==
  /\ Len(read_buf) + Len(header_str) <= got
  /\ header_str = SubSeq(stream, taken + 1, taken + Len(header_str))
  /\ read_buf = SubSeq(stream, taken + Len(header_str) + 1, got)

\* A header block is held only while its body is awaited, and then it is one
\* block, acceptable, whose body is not there yet.
Holding ==
  /\ header_str # <<>> => pc \in {"body", "dropped"}
  /\ pc = "body" =>
       /\ header_str # <<>>
       /\ HeaderAt(header_str, Len(header_str))
       /\ HeadOf(header_str).parses
       /\ ContentLen(HeadOf(header_str)) <= MaxBody
       /\ Len(read_buf) < ContentLen(HeadOf(header_str))

\* While a response is written the flag its handler captured is the one the
\* response was made with, and only a 101 is written by the upgrade's handler.
Writing ==
  /\ pc \in {"write", "upgradeWrite"} => keep_alive = answers[Len(answers)].keep
  /\ pc = "write" => answers[Len(answers)].status # "switching"
  /\ pc = "upgradeWrite" => answers[Len(answers)].status = "switching"

IInv ==
  /\ TypeOK
  /\ Slices
  /\ Holding
  /\ OneWriteAtATime
  /\ ServesWithinLimit
  /\ Writing
  /\ ShutdownHasReason

\* The initial state satisfies the invariant.
LEMMA InitInv == Init => IInv
<1> SUFFICES ASSUME Init PROVE IInv
  OBVIOUS
<1>1. stream \in Seq(Unit) /\ Len(stream) \in Nat /\ <<>> \in Seq(Unit) /\ <<>> \in Seq(AnswerSet)
      /\ Len(<<>>) = 0
  BY ConnectionAssumption, EmptySeq, LenProperties DEF Init
<1>2. TypeOK
  <2>1. pc \in {"header", "body", "write", "upgradeWrite"} \cup Ended
    BY DEF Init, Ended
  <2>2. sent \in 0..Len(stream) /\ got \in 0..sent
    BY <1>1 DEF Init
  <2> QED
    BY <1>1, <2>1, <2>2 DEF Init, TypeOK
<1>3. Slices
  <2>1. SubSeq(stream, 1, 0) = <<>>
    BY SubSeqEmpty
  <2> QED
    BY <1>1, <2>1 DEF Init, Slices, taken
<1>4. Holding /\ OneWriteAtATime /\ ServesWithinLimit /\ Writing /\ ShutdownHasReason
  BY <1>1, ConnectionAssumption
  DEF Init, Holding, OneWriteAtATime, ServesWithinLimit, Writing, ShutdownHasReason
<1> QED
  BY <1>2, <1>3, <1>4 DEF IInv

(***************************************************************************)
(* What a handler that has a whole request or a refused one does: either   *)
(* it hands one more response to async_write, or it is unwound.            *)
(***************************************************************************)
Responds(a) ==
  /\ answers' = Append(answers, a)
  /\ keep_alive' = a.keep
  /\ header_str' = <<>>
  /\ \/ pc' = "write" /\ a.status # "switching"
     \/ pc' = "upgradeWrite" /\ a.status = "switching"
  /\ requests_served' \in {requests_served, requests_served + 1}

Unwinds ==
  /\ pc' = "threw"
  /\ header_str' = <<>>
  /\ UNCHANGED <<requests_served, answers, keep_alive>>

\* dispatchRequest responds once or unwinds.
LEMMA DispatchEffect ==
  ASSUME NEW block \in Seq(Unit), Len(block) >= 1, NEW body \in Seq(Unit),
         requests_served \in Nat, dispatchRequest(block, body)
  PROVE  Unwinds \/ \E a \in AnswerSet : Responds(a)
<1> DEFINE h == HeadOf(block)
           raw == block \o body
<1>1. h \in RequestHead
  BY HeadType
<1>2. raw \in Seq(Unit)
  BY ConcatProperties
<1> HIDE DEF h, raw
<1>3. /\ Served(h, raw) \in AnswerSet
      /\ Refusal("badRequest", raw) \in AnswerSet
      /\ Switching(raw) \in AnswerSet
  BY <1>1, <1>2, AnswerType
<1>4. CASE h.upgrade # "no" /\ handleWebSocketUpgrade(h, raw) /\ UNCHANGED requests_served
  <2>1. CASE sendRaw(Refusal("badRequest", raw), "write")
    <3>1. Responds(Refusal("badRequest", raw))
      BY <1>4, <2>1 DEF sendRaw, Responds, Refusal
    <3> QED
      BY <1>3, <3>1
  <2>2. CASE sendRaw(Switching(raw), "upgradeWrite")
    <3>1. Responds(Switching(raw))
      BY <1>4, <2>2 DEF sendRaw, Responds, Switching
    <3> QED
      BY <1>3, <3>1
  <2> QED
    BY <1>4, <2>1, <2>2 DEF handleWebSocketUpgrade
<1>5. CASE requests_served' = requests_served + 1 /\ sendRaw(Served(h, raw), "write")
  <2>1. Responds(Served(h, raw))
    BY <1>5 DEF sendRaw, Responds, Served
  <2> QED
    BY <1>3, <2>1
<1>6. CASE pc' = "threw" /\ header_str' = <<>> /\ UNCHANGED <<requests_served, answers, keep_alive>>
  BY <1>6 DEF Unwinds
<1> QED
  BY <1>4, <1>5, <1>6 DEF dispatchRequest, h, raw

\* A response given while a request was being read keeps the parts of the
\* invariant that concern the responses.
LEMMA ResponseStep ==
  ASSUME IInv, pc \in {"header", "body"}, UNCHANGED <<stream, sent, peer, written>>,
         Unwinds \/ \E a \in AnswerSet : Responds(a)
  PROVE  /\ header_str' = <<>> /\ pc' \notin {"header", "body"}
         /\ answers' \in Seq(AnswerSet) /\ keep_alive' \in BOOLEAN
         /\ requests_served' \in Nat
         /\ pc' \in {"header", "body", "write", "upgradeWrite"} \cup Ended
         /\ OneWriteAtATime' /\ ServesWithinLimit' /\ Writing' /\ ShutdownHasReason'
<1>1. /\ requests_served \in Nat /\ answers \in Seq(AnswerSet) /\ Len(answers) \in Nat
      /\ keep_alive \in BOOLEAN /\ requests_served < MaxKeepAlive
      /\ written = Len(answers) /\ written \in Nat
      /\ \A k \in 1..Len(answers) : answers[k].keep
      /\ MaxKeepAlive \in Nat
  BY ConnectionAssumption, LenProperties
  DEF IInv, TypeOK, OneWriteAtATime, ServesWithinLimit
<1>2. CASE Unwinds
  BY <1>1, <1>2 DEF Unwinds, OneWriteAtATime, ServesWithinLimit, Writing, ShutdownHasReason, Ended
<1>3. ASSUME NEW a \in AnswerSet, Responds(a)
      PROVE  /\ header_str' = <<>> /\ pc' \notin {"header", "body"}
             /\ answers' \in Seq(AnswerSet) /\ keep_alive' \in BOOLEAN
             /\ requests_served' \in Nat
             /\ pc' \in {"header", "body", "write", "upgradeWrite"} \cup Ended
             /\ OneWriteAtATime' /\ ServesWithinLimit' /\ Writing' /\ ShutdownHasReason'
  <2>1. /\ answers' \in Seq(AnswerSet) /\ Len(answers') = Len(answers) + 1
        /\ answers'[Len(answers')] = a
        /\ \A k \in 1..Len(answers) : answers'[k] = answers[k]
    BY <1>1, <1>3, AppendProperties DEF Responds
  <2>2. a.keep \in BOOLEAN
    BY DEF AnswerSet
  <2>3. requests_served' \in Nat /\ requests_served' <= MaxKeepAlive
    BY <1>1, <1>3 DEF Responds
  <2>4. \A k \in 1..Len(answers') : k < Len(answers') => answers'[k].keep
    BY <1>1, <2>1
  <2>5. OneWriteAtATime'
    BY <1>1, <1>3, <2>1 DEF Responds, OneWriteAtATime
  <2>6. ServesWithinLimit'
    BY <1>1, <1>3, <2>3, <2>4 DEF Responds, ServesWithinLimit
  <2>7. Writing' /\ ShutdownHasReason'
    BY <1>3, <2>1 DEF Responds, Writing, ShutdownHasReason
  <2> QED
    BY <1>3, <2>1, <2>2, <2>3, <2>5, <2>6, <2>7 DEF Responds, Ended
<1> QED
  BY <1>2, <1>3

(***************************************************************************)
(* The reads.                                                              *)
(***************************************************************************)
\* A read appends to the buffer what follows it in the stream.
LEMMA ReadExtends ==
  ASSUME IInv, pc \in {"header", "body"}, NEW n \in 0..Arrived
  PROVE  /\ got + n \in 0..sent /\ got + n \in Nat /\ sent <= Len(stream)
         /\ stream \in Seq(Unit) /\ Len(stream) \in Nat
         /\ taken \in Nat /\ taken + Len(header_str) <= got
         /\ Len(header_str) \in Nat /\ Len(read_buf) \in Nat
         /\ read_buf \o Chunk(n) = SubSeq(stream, taken + Len(header_str) + 1, got + n)
         /\ read_buf \o Chunk(n) \in Seq(Unit)
         /\ Len(read_buf \o Chunk(n)) = got + n - taken - Len(header_str)
         /\ Len(read_buf \o Chunk(n)) = Len(read_buf) + n
<1>1. /\ stream \in Seq(Unit) /\ Len(stream) \in Nat
      /\ sent \in 0..Len(stream) /\ got \in 0..sent
      /\ header_str \in Seq(Unit) /\ read_buf \in Seq(Unit)
      /\ Len(header_str) \in Nat /\ Len(read_buf) \in Nat
  BY ConnectionAssumption, LenProperties DEF IInv, TypeOK
<1>2. got + n \in 0..sent /\ n \in Nat
  BY <1>1 DEF Arrived
<1>3. taken \in Nat /\ taken + Len(header_str) <= got
      /\ taken + Len(header_str) = got - Len(read_buf)
  BY <1>1 DEF IInv, Slices, taken
<1> DEFINE p == taken + Len(header_str)
<1>4. p \in Nat /\ p <= got /\ Len(read_buf) = got - p
  BY <1>1, <1>3
<1>5. read_buf = SubSeq(stream, p + 1, got)
  BY DEF IInv, Slices
<1> HIDE DEF p
<1>6. SubSeq(stream, p + 1, got) \o SubSeq(stream, got + 1, got + n)
        = SubSeq(stream, p + 1, got + n)
  BY <1>1, <1>2, <1>4, Join
<1>7. read_buf \o Chunk(n) = SubSeq(stream, p + 1, got + n)
  BY <1>5, <1>6 DEF Chunk
<1>8. /\ SubSeq(stream, p + 1, got + n) \in Seq(Unit)
      /\ Len(SubSeq(stream, p + 1, got + n)) = got + n - p
  <2>1. got + n \in Nat /\ p <= got + n /\ got + n <= Len(stream)
    BY <1>1, <1>2, <1>4
  <2> QED
    BY <1>1, <1>4, <2>1, Cut
<1>9. got + n \in Nat /\ sent <= Len(stream)
  BY <1>1, <1>2
<1>10. got + n - p = got + n - taken - Len(header_str)
        /\ got + n - p = Len(read_buf) + n
  BY <1>1, <1>2, <1>3, <1>4 DEF p
<1> QED
  <2> USE DEF p
  <2>1. read_buf \o Chunk(n) = SubSeq(stream, taken + Len(header_str) + 1, got + n)
    BY <1>7
  <2>2. read_buf \o Chunk(n) \in Seq(Unit)
    BY <1>7, <1>8
  <2>3. Len(read_buf \o Chunk(n)) = got + n - taken - Len(header_str)
        /\ Len(read_buf \o Chunk(n)) = Len(read_buf) + n
    BY <1>7, <1>8, <1>10
  <2> QED
    BY <1>1, <1>2, <1>3, <1>9, <2>1, <2>2, <2>3

\* How the slices are established after a step: the held block lies between p
\* and q, the buffer between q and r.
LEMMA SlicesAfter ==
  ASSUME stream \in Seq(Unit), stream' = stream,
         NEW p \in Nat, NEW q \in Nat, NEW r \in Nat,
         p <= q, q <= r, r <= Len(stream), got' = r,
         header_str' = SubSeq(stream, p + 1, q),
         read_buf' = SubSeq(stream, q + 1, r)
  PROVE  /\ Slices' /\ taken' = p
         /\ header_str' \in Seq(Unit) /\ read_buf' \in Seq(Unit)
         /\ Len(header_str') = q - p /\ Len(read_buf') = r - q
<1>0. Len(stream) \in Nat /\ q <= Len(stream)
  BY LenProperties
<1>1. header_str' \in Seq(Unit) /\ Len(header_str') = q - p
  BY <1>0, Cut
<1>2. read_buf' \in Seq(Unit) /\ Len(read_buf') = r - q
  BY <1>0, Cut
<1>3. taken' = p /\ p + Len(header_str') = q
  BY <1>1, <1>2 DEF taken
<1>4. Len(read_buf') + Len(header_str') <= got'
  BY <1>1, <1>2
<1>5. Slices'
  BY <1>3, <1>4 DEF Slices
<1> QED
  BY <1>1, <1>2, <1>3, <1>5

\* The handler of the header read preserves the invariant.
LEMMA HeaderReadStep == IInv /\ OnHeaderRead => IInv'
<1> SUFFICES ASSUME IInv, OnHeaderRead PROVE IInv'
  OBVIOUS
<1>0. PICK n \in 0..Arrived :
        /\ n = 0 <=> ~ NoHeader(read_buf)
        /\ got' = got + n
        /\ LET buf == read_buf \o Chunk(n)
           IN  \/ /\ NoHeader(buf)
                  /\ read_buf' = buf
                  /\ UNCHANGED <<pc, header_str, keep_alive, requests_served, answers>>
               \/ \E i \in 1..Len(buf) : HeaderAt(buf, i) /\ handleRequest(buf, i)
  BY DEF OnHeaderRead
<1> DEFINE buf == read_buf \o Chunk(n)
           g == got + n
           t == taken
<1>1. /\ pc = "header" /\ stream' = stream /\ sent' = sent /\ peer' = peer
      /\ written' = written
  BY DEF OnHeaderRead
<1>2. header_str = <<>>
  BY <1>1 DEF IInv, Holding
<1>3. /\ stream \in Streams /\ stream \in Seq(Unit) /\ sent \in 0..Len(stream)
      /\ Len(stream) \in Nat
      /\ peer \in {"open", "eof", "reset"} /\ keep_alive \in BOOLEAN
      /\ requests_served \in Nat /\ answers \in Seq(AnswerSet) /\ written \in Nat
  BY ConnectionAssumption, LenProperties DEF IInv, TypeOK
<1>4. /\ g \in 0..sent /\ g \in Nat /\ g <= Len(stream)
      /\ t \in Nat /\ t <= g
      /\ buf \in Seq(Unit) /\ Len(buf) = g - t /\ Len(buf) \in Nat
      /\ buf = SubSeq(stream, t + 1, g)
  <2>1. /\ got + n \in 0..sent /\ got + n \in Nat /\ sent <= Len(stream)
        /\ Len(stream) \in Nat
        /\ taken \in Nat /\ taken + Len(header_str) <= got
        /\ read_buf \o Chunk(n) = SubSeq(stream, taken + Len(header_str) + 1, got + n)
        /\ read_buf \o Chunk(n) \in Seq(Unit)
        /\ Len(read_buf \o Chunk(n)) = got + n - taken - Len(header_str)
    BY <1>1, ReadExtends
  <2>2. got \in Nat
    BY <1>3 DEF IInv, TypeOK
  <2>3. Len(header_str) = 0 /\ n \in Nat
    BY <1>2, <2>1, <2>2 DEF Arrived
  <2>4. taken + Len(header_str) + 1 = taken + 1
        /\ got + n - taken - Len(header_str) = got + n - taken
    BY <2>1, <2>2, <2>3
  <2> QED
    BY <2>1, <2>2, <2>3, <2>4, LenProperties, <1>3
<1>5. got' = g
  BY <1>0
<1> HIDE DEF buf, g, t
<1>6. CASE /\ NoHeader(buf)
           /\ read_buf' = buf
           /\ UNCHANGED <<pc, header_str, keep_alive, requests_served, answers>>
  <2>1. header_str' = SubSeq(stream, t + 1, t)
    BY <1>2, <1>4, <1>6, EmptyCut
  <2>2. read_buf' = SubSeq(stream, t + 1, g) /\ t <= t /\ stream' = stream
    BY <1>1, <1>4, <1>6
  <2>a. Slices' /\ header_str' \in Seq(Unit) /\ read_buf' \in Seq(Unit)
    BY ONLY <1>3, <1>4, <1>5, <2>1, <2>2, SlicesAfter
  <2>3. TypeOK'
    BY <1>1, <1>3, <1>4, <1>5, <1>6, <2>a DEF IInv, TypeOK
  <2>4. Holding' /\ OneWriteAtATime' /\ ServesWithinLimit' /\ Writing' /\ ShutdownHasReason'
    BY <1>1, <1>2, <1>6
    DEF IInv, Holding, OneWriteAtATime, ServesWithinLimit, Writing, ShutdownHasReason
  <2> QED
    BY <2>a, <2>3, <2>4 DEF IInv
<1>7. ASSUME NEW i \in 1..Len(buf), HeaderAt(buf, i), handleRequest(buf, i)
      PROVE  IInv'
  <2> DEFINE block == SubSeq(buf, 1, i)
             m == ContentLen(HeadOf(block))
  <2>1. i \in Nat /\ 1 <= i /\ i <= g - t
    BY <1>4
  <2>2. block = SubSeq(stream, t + 1, t + i)
    BY <1>3, <1>4, <2>1, PrefixOfCut
  <2>3. block \in Seq(Unit) /\ Len(block) = i /\ \A j \in 1..i : block[j] = buf[j]
    <3>1. 1 \in 1..(Len(buf) + 1) /\ i \in (1 - 1)..Len(buf) /\ i - 1 + 1 = i
          /\ \A j \in 1..i : 1 + j - 1 = j
      BY <1>4, <2>1
    <3>2. /\ SubSeq(buf, 1, i) \in Seq(Unit) /\ Len(SubSeq(buf, 1, i)) = i - 1 + 1
          /\ \A j \in 1..(i - 1 + 1) : SubSeq(buf, 1, i)[j] = buf[1 + j - 1]
      BY <1>4, <3>1, Slice
    <3> QED
      BY <3>1, <3>2
  <2>4. HeadOf(block) \in RequestHead /\ m \in Nat
    BY <2>1, <2>3, HeadType
  <2>5. HeaderAt(block, Len(block))
    BY <1>7, <2>1, <2>3 DEF HeaderAt
  <2> HIDE DEF block, m
  <2>6. ASSUME header_str' = <<>>, read_buf' \in {<<>>},
               Unwinds \/ \E a \in AnswerSet : Responds(a)
        PROVE  IInv'
    <3>1. header_str' = SubSeq(stream, g + 1, g) /\ read_buf' = SubSeq(stream, g + 1, g)
      BY <1>4, <2>6, EmptyCut
    <3>2. Slices' /\ header_str' \in Seq(Unit) /\ read_buf' \in Seq(Unit)
      <4>1. g <= g /\ stream' = stream
        BY <1>1, <1>4
      <4> QED
        BY ONLY <1>3, <1>4, <1>5, <3>1, <4>1, SlicesAfter
    <3>3. /\ pc' \notin {"header", "body"}
          /\ answers' \in Seq(AnswerSet) /\ keep_alive' \in BOOLEAN
          /\ requests_served' \in Nat
          /\ pc' \in {"header", "body", "write", "upgradeWrite"} \cup Ended
          /\ OneWriteAtATime' /\ ServesWithinLimit' /\ Writing' /\ ShutdownHasReason'
      BY <1>1, <2>6, ResponseStep
    <3>4. TypeOK'
      BY <1>1, <1>3, <1>4, <1>5, <3>2, <3>3 DEF TypeOK
    <3>5. Holding'
      BY <2>6, <3>3 DEF Holding
    <3> QED
      BY <3>2, <3>3, <3>4, <3>5 DEF IInv
  <2>7. CASE BadRequest(buf, i)
    <3>1. Refusal("badRequest", block) \in AnswerSet
      BY <2>3, <2>4, AnswerType
    <3>2. Responds(Refusal("badRequest", block))
      BY <2>7, <1>3 DEF BadRequest, sendRaw, Responds, Refusal, block
    <3>3. header_str' = <<>> /\ read_buf' \in {<<>>}
      BY <2>7 DEF BadRequest, sendRaw
    <3> QED
      BY <2>6, <3>1, <3>2, <3>3
  <2>8. CASE TooLarge(buf, i)
    <3>1. Refusal("tooLarge", block) \in AnswerSet
      BY <2>3, <2>4, AnswerType
    <3>2. Responds(Refusal("tooLarge", block))
      BY <2>8, <1>3 DEF TooLarge, sendRaw, Responds, Refusal, block
    <3>3. header_str' = <<>> /\ read_buf' \in {<<>>}
      BY <2>8 DEF TooLarge, sendRaw
    <3> QED
      BY <2>6, <3>1, <3>2, <3>3
  <2>9. CASE NeedBody(buf, i)
    <3>1. /\ HeadOf(block).parses /\ m <= MaxBody /\ m > Len(buf) - i
          /\ read_buf' = SubSeq(buf, i + 1, Len(buf))
          /\ header_str' = block /\ pc' = "body"
          /\ UNCHANGED <<requests_served, answers, keep_alive>>
      BY <2>9 DEF NeedBody, block, m
    <3>2. t + i \in Nat /\ t <= t + i /\ t + i <= g /\ t + (g - t) = g /\ g - t \in Nat
      BY <1>4, <2>1
    <3>3. read_buf' = SubSeq(stream, t + i + 1, g)
      BY <1>3, <1>4, <2>1, <3>1, <3>2, CutOfCut
    <3>4. /\ Slices' /\ header_str' \in Seq(Unit) /\ read_buf' \in Seq(Unit)
          /\ Len(read_buf') = g - (t + i)
      BY <1>1, <1>3, <1>4, <1>5, <2>2, <3>1, <3>2, <3>3, SlicesAfter
    <3>5. TypeOK'
      BY <1>1, <1>3, <1>4, <1>5, <3>1, <3>4 DEF TypeOK
    <3>6. Len(read_buf') < m
      BY <1>4, <2>1, <2>4, <3>1, <3>4
    <3>7. Holding'
      <4>1. header_str' # <<>>
        BY <2>1, <2>3, <3>1, EmptySeq
      <4> QED
        BY <2>5, <3>1, <3>6, <4>1 DEF Holding, m
    <3>8. OneWriteAtATime' /\ ServesWithinLimit' /\ Writing' /\ ShutdownHasReason'
      BY <1>1, <3>1 DEF IInv, OneWriteAtATime, ServesWithinLimit, Writing, ShutdownHasReason
    <3> QED
      BY <3>4, <3>5, <3>7, <3>8 DEF IInv
  <2>10. CASE BodyThere(buf, i)
    <3> DEFINE body == SubSeq(buf, i + 1, i + m)
    <3>1. /\ m <= MaxBody /\ m <= Len(buf) - i
          /\ read_buf' = SubSeq(buf, i + m + 1, Len(buf))
          /\ dispatchRequest(block, body)
      BY <2>10 DEF BodyThere, block, m
    <3>2. i + m \in Nat /\ i + m <= g - t /\ i <= i + m /\ g - t \in Nat /\ t + (g - t) = g
          /\ t + (i + m) \in Nat /\ t + (i + m) <= g
      BY <1>4, <2>1, <2>4, <3>1
    <3>3. body \in Seq(Unit)
      BY <1>4, <2>1, <3>2, Cut
    <3> DEFINE d == i + m
               u == t + d
    <3>a. /\ d \in Nat /\ d <= g - t /\ g - t \in Nat /\ t + (g - t) = g
          /\ u \in Nat /\ u <= g /\ u <= u
          /\ read_buf' = SubSeq(buf, d + 1, g - t)
      BY <1>4, <2>1, <2>4, <3>1, <3>2
    <3> HIDE DEF d
    <3>4. read_buf' = SubSeq(stream, u + 1, g)
      <4>1. SubSeq(SubSeq(stream, t + 1, g), d + 1, g - t)
              = SubSeq(stream, t + d + 1, t + (g - t))
        BY ONLY <1>3, <1>4, <3>a, CutOfCut
      <4> QED
        BY <1>4, <3>a, <4>1
    <3> HIDE DEF u
    <3> HIDE DEF body
    <3>5. Unwinds \/ \E a \in AnswerSet : Responds(a)
      BY <1>3, <2>1, <2>3, <3>1, <3>3, DispatchEffect
    <3>6. /\ header_str' = <<>> /\ pc' \notin {"header", "body"}
          /\ answers' \in Seq(AnswerSet) /\ keep_alive' \in BOOLEAN
          /\ requests_served' \in Nat
          /\ pc' \in {"header", "body", "write", "upgradeWrite"} \cup Ended
          /\ OneWriteAtATime' /\ ServesWithinLimit' /\ Writing' /\ ShutdownHasReason'
      BY <1>1, <3>5, ResponseStep
    <3>7. header_str' = SubSeq(stream, u + 1, u)
      BY <3>a, <3>6, EmptyCut
    <3>8. Slices' /\ header_str' \in Seq(Unit) /\ read_buf' \in Seq(Unit)
      <4>1. stream' = stream
        BY <1>1
      <4> QED
        BY ONLY <1>3, <1>4, <1>5, <3>a, <3>4, <3>7, <4>1, SlicesAfter
    <3>9. TypeOK'
      BY <1>1, <1>3, <1>4, <1>5, <3>6, <3>8 DEF TypeOK
    <3>10. Holding'
      BY <3>6 DEF Holding
    <3> QED
      BY <3>6, <3>8, <3>9, <3>10 DEF IInv
  <2> QED
    BY <1>7, <2>7, <2>8, <2>9, <2>10 DEF handleRequest
<1> QED
  BY <1>0, <1>6, <1>7 DEF buf

\* The handler of the body read preserves the invariant.
LEMMA BodyReadStep == IInv /\ OnBodyRead => IInv'
<1> SUFFICES ASSUME IInv, OnBodyRead PROVE IInv'
  OBVIOUS
<1> DEFINE len == ContentLen(HeadOf(header_str))
<1>0. PICK n \in 1..Arrived :
        LET buf == read_buf \o Chunk(n)
        IN  /\ Len(buf) <= len
            /\ got' = got + n
            /\ \/ /\ Len(buf) < len
                  /\ read_buf' = buf
                  /\ UNCHANGED <<pc, header_str, keep_alive, requests_served, answers>>
               \/ /\ Len(buf) = len
                  /\ read_buf' = SubSeq(buf, len + 1, Len(buf))
                  /\ dispatchRequest(header_str, SubSeq(buf, 1, len))
  BY DEF OnBodyRead
<1> DEFINE buf == read_buf \o Chunk(n)
           g == got + n
           t == taken
           q == taken + Len(header_str)
<1>1. /\ pc = "body" /\ stream' = stream /\ sent' = sent /\ peer' = peer
      /\ written' = written
  BY DEF OnBodyRead
<1>2. /\ stream \in Streams /\ stream \in Seq(Unit) /\ sent \in 0..Len(stream)
      /\ Len(stream) \in Nat
      /\ peer \in {"open", "eof", "reset"} /\ keep_alive \in BOOLEAN
      /\ requests_served \in Nat /\ answers \in Seq(AnswerSet) /\ written \in Nat
      /\ header_str \in Seq(Unit) /\ got \in 0..sent
  BY ConnectionAssumption, LenProperties DEF IInv, TypeOK
<1>3. n \in 0..Arrived
  BY <1>2 DEF Arrived
<1>4. /\ g \in 0..sent /\ g \in Nat /\ g <= Len(stream)
      /\ t \in Nat /\ q \in Nat /\ t <= q /\ q <= g
      /\ buf \in Seq(Unit) /\ buf = SubSeq(stream, q + 1, g) /\ Len(buf) = g - q
  <2>1. /\ got + n \in 0..sent /\ got + n \in Nat /\ sent <= Len(stream)
        /\ taken \in Nat /\ taken + Len(header_str) <= got /\ Len(header_str) \in Nat
        /\ read_buf \o Chunk(n) = SubSeq(stream, taken + Len(header_str) + 1, got + n)
        /\ read_buf \o Chunk(n) \in Seq(Unit)
        /\ Len(read_buf \o Chunk(n)) = got + n - taken - Len(header_str)
    BY <1>1, <1>3, ReadExtends
  <2> QED
    BY <1>2, <1>3, <2>1 DEF Arrived
<1>5. header_str = SubSeq(stream, t + 1, q)
  BY DEF IInv, Slices
<1>6. header_str # <<>> /\ HeadOf(header_str).parses /\ len <= MaxBody
  BY <1>1 DEF IInv, Holding
<1>7. Len(header_str) \in Nat /\ Len(header_str) >= 1
  BY <1>2, <1>6, EmptySeq
<1>8. len \in Nat
  BY <1>2, <1>7, HeadType
<1>9. /\ Len(buf) <= len /\ got' = g
      /\ \/ /\ Len(buf) < len
            /\ read_buf' = buf
            /\ UNCHANGED <<pc, header_str, keep_alive, requests_served, answers>>
         \/ /\ Len(buf) = len
            /\ read_buf' = SubSeq(buf, len + 1, Len(buf))
            /\ dispatchRequest(header_str, SubSeq(buf, 1, len))
  BY <1>0
<1> HIDE DEF buf, g, t, q
<1>10. CASE /\ Len(buf) < len
            /\ read_buf' = buf
            /\ UNCHANGED <<pc, header_str, keep_alive, requests_served, answers>>
  <2>1. stream' = stream /\ header_str' = SubSeq(stream, t + 1, q)
        /\ read_buf' = SubSeq(stream, q + 1, g)
    BY <1>1, <1>4, <1>5, <1>10
  <2>2. Slices' /\ header_str' \in Seq(Unit) /\ read_buf' \in Seq(Unit)
    BY ONLY <1>2, <1>4, <1>9, <2>1, SlicesAfter
  <2>3. TypeOK'
    BY <1>1, <1>2, <1>4, <1>9, <1>10, <2>2 DEF TypeOK
  <2>4. Holding'
    BY <1>1, <1>10 DEF IInv, Holding
  <2>5. OneWriteAtATime' /\ ServesWithinLimit' /\ Writing' /\ ShutdownHasReason'
    BY <1>1, <1>10 DEF IInv, OneWriteAtATime, ServesWithinLimit, Writing, ShutdownHasReason
  <2> QED
    BY <2>2, <2>3, <2>4, <2>5 DEF IInv
<1>11. CASE /\ Len(buf) = len
            /\ read_buf' = SubSeq(buf, len + 1, Len(buf))
            /\ dispatchRequest(header_str, SubSeq(buf, 1, len))
  <2>1. SubSeq(buf, 1, len) \in Seq(Unit)
    BY <1>4, <1>11, SubSeqFull
  <2>2. Unwinds \/ \E a \in AnswerSet : Responds(a)
    BY <1>2, <1>7, <1>11, <2>1, DispatchEffect
  <2>3. /\ header_str' = <<>> /\ pc' \notin {"header", "body"}
        /\ answers' \in Seq(AnswerSet) /\ keep_alive' \in BOOLEAN
        /\ requests_served' \in Nat
        /\ pc' \in {"header", "body", "write", "upgradeWrite"} \cup Ended
        /\ OneWriteAtATime' /\ ServesWithinLimit' /\ Writing' /\ ShutdownHasReason'
    BY <1>1, <2>2, ResponseStep
  <2>4. read_buf' = <<>>
    BY <1>8, <1>11, EmptyCut
  <2>5. stream' = stream /\ g <= g /\ header_str' = SubSeq(stream, g + 1, g)
        /\ read_buf' = SubSeq(stream, g + 1, g)
    BY <1>1, <1>4, <2>3, <2>4, EmptyCut
  <2>6. Slices' /\ header_str' \in Seq(Unit) /\ read_buf' \in Seq(Unit)
    BY ONLY <1>2, <1>4, <1>9, <2>5, SlicesAfter
  <2>7. TypeOK'
    BY <1>1, <1>2, <1>4, <1>9, <2>3, <2>6 DEF TypeOK
  <2>8. Holding'
    BY <2>3 DEF Holding
  <2> QED
    BY <2>3, <2>6, <2>7, <2>8 DEF IInv
<1> QED
  BY <1>9, <1>10, <1>11

\* No other action touches the socket's bytes: the buffer, the held block and
\* the stream keep their places.
LEMMA SlicesUnchanged ==
  ASSUME Slices, UNCHANGED <<stream, got, read_buf, header_str>>
  PROVE  Slices'
  BY DEF Slices, taken

\* The peer and the remaining handlers preserve the invariant.
LEMMA OtherSteps ==
  ASSUME IInv,
         PeerSend \/ PeerClose \/ OnReadError \/ OnWritten \/ OnUpgradeWritten \/ OnWriteError
  PROVE  IInv'
<1> USE DEF IInv
<1>0. UNCHANGED <<stream, got, read_buf, header_str>> /\ Slices'
  <2>1. UNCHANGED <<stream, got, read_buf, header_str>>
    BY DEF PeerSend, PeerClose, OnReadError, OnWritten, OnUpgradeWritten, OnWriteError
  <2> QED
    BY <2>1, SlicesUnchanged
<1>1. stream \in Seq(Unit) /\ Len(stream) \in Nat /\ Len(answers) \in Nat /\ MaxKeepAlive \in Nat
  BY ConnectionAssumption, LenProperties DEF TypeOK
<1>2. CASE PeerSend
  <2>1. TypeOK'
    BY <1>0, <1>1, <1>2 DEF PeerSend, TypeOK
  <2>2. Holding' /\ OneWriteAtATime' /\ ServesWithinLimit' /\ Writing' /\ ShutdownHasReason'
    BY <1>2 DEF PeerSend, Holding, OneWriteAtATime, ServesWithinLimit, Writing, ShutdownHasReason
  <2> QED
    BY <1>0, <2>1, <2>2
<1>3. CASE PeerClose
  <2>1. TypeOK'
    BY <1>0, <1>1, <1>3 DEF PeerClose, TypeOK
  <2>2. Holding' /\ OneWriteAtATime' /\ ServesWithinLimit' /\ Writing' /\ ShutdownHasReason'
    BY <1>3 DEF PeerClose, Holding, OneWriteAtATime, ServesWithinLimit, Writing, ShutdownHasReason
  <2> QED
    BY <1>0, <2>1, <2>2
<1>4. CASE OnReadError
  <2>1. TypeOK'
    BY <1>0, <1>1, <1>4 DEF OnReadError, TypeOK, Ended
  <2>2. Holding' /\ OneWriteAtATime' /\ ServesWithinLimit' /\ Writing' /\ ShutdownHasReason'
    BY <1>4 DEF OnReadError, Holding, OneWriteAtATime, ServesWithinLimit, Writing, ShutdownHasReason
  <2> QED
    BY <1>0, <2>1, <2>2
<1>5. CASE OnWriteError
  <2>1. TypeOK'
    BY <1>0, <1>1, <1>5 DEF OnWriteError, TypeOK, Ended
  <2>2. Holding' /\ OneWriteAtATime' /\ ServesWithinLimit' /\ Writing' /\ ShutdownHasReason'
    BY <1>5 DEF OnWriteError, Holding, OneWriteAtATime, ServesWithinLimit, Writing, ShutdownHasReason
  <2> QED
    BY <1>0, <2>1, <2>2
<1>6. CASE OnUpgradeWritten
  <2>1. TypeOK'
    BY <1>0, <1>1, <1>6 DEF OnUpgradeWritten, TypeOK, Ended
  <2>2. Holding' /\ OneWriteAtATime' /\ ServesWithinLimit' /\ Writing' /\ ShutdownHasReason'
    BY <1>1, <1>6
    DEF OnUpgradeWritten, Holding, OneWriteAtATime, ServesWithinLimit, Writing,
        ShutdownHasReason, TypeOK
  <2> QED
    BY <1>0, <2>1, <2>2
<1>7. CASE OnWritten
  <2>1. /\ pc = "write" /\ written' = written + 1
        /\ UNCHANGED <<sent, peer, keep_alive, requests_served, answers>>
        /\ IF keep_alive THEN pc' = IF requests_served >= MaxKeepAlive THEN "shutdown" ELSE "header"
                         ELSE pc' = "shutdown"
    BY <1>7 DEF OnWritten, readRequest
  <2>2. keep_alive = answers[Len(answers)].keep /\ answers[Len(answers)].status # "switching"
        /\ keep_alive \in BOOLEAN
    BY <2>1 DEF Writing, TypeOK
  <2>3. written \in Nat /\ written + 1 = Len(answers) /\ answers # <<>>
    BY <1>1, <2>1, EmptySeq DEF OneWriteAtATime, TypeOK
  <2>4. requests_served \in Nat /\ pc' \in {"shutdown", "header"}
    BY <2>1 DEF TypeOK
  <2>5. TypeOK'
    BY <1>0, <2>1, <2>3, <2>4 DEF TypeOK, Ended
  <2>6. Holding' /\ OneWriteAtATime' /\ Writing'
    BY <1>0, <1>1, <2>1, <2>3, <2>4 DEF Holding, OneWriteAtATime, Writing
  <2>7. ServesWithinLimit'
    <3>1. pc' = "header" => keep_alive /\ requests_served < MaxKeepAlive
      BY <1>1, <2>1, <2>4
    <3>2. \A k \in 1..Len(answers) : k < Len(answers) => answers[k].keep
      BY DEF ServesWithinLimit
    <3>3. pc' = "header" => \A k \in 1..Len(answers) : answers[k].keep
      BY <1>1, <2>2, <3>1, <3>2
    <3> QED
      BY <2>1, <2>4, <3>1, <3>2, <3>3 DEF ServesWithinLimit
  <2>8. ShutdownHasReason'
    BY <2>1, <2>2, <2>3 DEF ShutdownHasReason
  <2> QED
    BY <1>0, <2>5, <2>6, <2>7, <2>8
<1> QED
  BY <1>2, <1>3, <1>4, <1>5, <1>6, <1>7

\* Every step preserves the invariant.
LEMMA NextInv == IInv /\ [Next]_vars => IInv'
<1> SUFFICES ASSUME IInv, [Next]_vars PROVE IInv'
  OBVIOUS
<1>1. CASE OnHeaderRead
  BY <1>1, HeaderReadStep
<1>2. CASE OnBodyRead
  BY <1>2, BodyReadStep
<1>3. CASE PeerSend \/ PeerClose \/ OnReadError \/ OnWritten \/ OnUpgradeWritten \/ OnWriteError
  BY <1>3, OtherSteps
<1>4. CASE UNCHANGED vars
  <2>1. Slices'
    BY <1>4, SlicesUnchanged DEF IInv, vars
  <2> QED
    BY <1>4, <2>1
    DEF IInv, vars, TypeOK, Holding, OneWriteAtATime, ServesWithinLimit, Writing,
        ShutdownHasReason
<1> QED
  BY <1>1, <1>2, <1>3, <1>4 DEF Next, Handler

(***************************************************************************)
(* Theorems.                                                               *)
(***************************************************************************)
\* The inductive invariant holds in every reachable state.
THEOREM Invariance == Spec => []IInv
  BY InitInv, NextInv, PTL DEF Spec

\* Type correctness.
THEOREM TypeCorrect == Spec => []TypeOK
<1>1. IInv => TypeOK
  BY DEF IInv
<1> QED
  BY <1>1, Invariance, PTL

\* However the stream is cut, what the connection has read and not yet used is
\* exactly the latest part of it: no byte is lost, repeated or reordered
\* between the socket and the parser.
THEOREM NoByteLost == Spec => []BufferIsTail
<1>1. ASSUME IInv PROVE BufferIsTail
  <2>1. /\ stream \in Seq(Unit) /\ Len(stream) \in Nat
        /\ sent \in 0..Len(stream) /\ got \in 0..sent
        /\ Len(header_str) \in Nat /\ Len(read_buf) \in Nat
    BY <1>1, ConnectionAssumption, LenProperties DEF IInv, TypeOK
  <2> DEFINE p == taken
             q == taken + Len(header_str)
  <2>2. p \in Nat /\ q \in Nat /\ got \in Nat /\ p <= q /\ q <= got /\ got <= Len(stream)
    BY <1>1, <2>1 DEF IInv, Slices, taken
  <2>3. header_str = SubSeq(stream, p + 1, q) /\ read_buf = SubSeq(stream, q + 1, got)
    BY <1>1 DEF IInv, Slices
  <2> HIDE DEF p, q
  <2>4. header_str \o read_buf = SubSeq(stream, p + 1, got)
    BY <2>1, <2>2, <2>3, Join
  <2> QED
    BY <1>1, <2>4 DEF IInv, Slices, BufferIsTail, p
<1> QED
  BY <1>1, Invariance, PTL

\* Responses are written one at a time and in the order of the requests.
THEOREM WritesNeverOverlap == Spec => []OneWriteAtATime
<1>1. IInv => OneWriteAtATime
  BY DEF IInv
<1> QED
  BY <1>1, Invariance, PTL

\* The keep-alive limit is never exceeded, and a connection that still reads
\* has given only responses that keep it open.
THEOREM LimitHolds == Spec => []ServesWithinLimit
<1>1. IInv => ServesWithinLimit
  BY DEF IInv
<1> QED
  BY <1>1, Invariance, PTL

\* do_shutdown is reached only at the limit or after a response that closes.
THEOREM ShutdownIsJustified == Spec => []ShutdownHasReason
<1>1. IInv => ShutdownHasReason
  BY DEF IInv
<1> QED
  BY <1>1, Invariance, PTL

\* After a response that closes nothing more is read, answered or served.
THEOREM NothingAfterLast == Spec => QuietAfterLast
<1> DEFINE Last == answers # <<>> /\ ~ answers[Len(answers)].keep
<1>1. ASSUME IInv, [Next]_vars, Last
      PROVE  UNCHANGED <<got, read_buf, answers, requests_served>>
  <2>1. Len(answers) \in 1..Len(answers)
    BY <1>1, EmptySeq DEF IInv, TypeOK
  <2>2. pc \notin {"header", "body"}
    BY <1>1, <2>1 DEF IInv, ServesWithinLimit
  <2>3. ~ OnHeaderRead /\ ~ OnBodyRead
    BY <2>2 DEF OnHeaderRead, OnBodyRead
  <2>4. CASE PeerSend \/ PeerClose
    BY <2>4 DEF PeerSend, PeerClose
  <2>5. CASE OnReadError \/ OnWritten \/ OnUpgradeWritten \/ OnWriteError
    BY <2>5 DEF OnReadError, OnWritten, OnUpgradeWritten, OnWriteError
  <2>6. CASE UNCHANGED vars
    BY <2>6 DEF vars
  <2> QED
    BY <1>1, <2>3, <2>4, <2>5, <2>6 DEF Next, Handler
<1>2. IInv /\ [Next]_vars
        => [Last => UNCHANGED <<got, read_buf, answers, requests_served>>]_vars
  BY <1>1
<1> QED
  BY <1>2, Invariance, PTL DEF Spec, QuietAfterLast

(***************************************************************************)
(* The connection implements the abstract session.                         *)
(***************************************************************************)
\* The session reads requests with the same operators.
LEMMA SameWire ==
  /\ \A s, i : HeaderAt(s, i) => Session!HeaderAt(s, i)
  /\ \A s, i : Session!HeaderAt(s, i) => HeaderAt(s, i)
  /\ \A b : Session!HeadOf(b) = HeadOf(b)
  /\ \A h : Session!ContentLen(h) = ContentLen(h)
  /\ \A h : Session!HandlerThrows(h) = HandlerThrows(h)
  /\ \A h, r : Session!Served(h, r) = Served(h, r)
  /\ \A h, r : Session!Refusal(h, r) = Refusal(h, r)
  /\ \A r : Session!Switching(r) = Switching(r)
<1>1. /\ \A s, i : HeaderAt(s, i) => Session!HeaderAt(s, i)
      /\ \A s, i : Session!HeaderAt(s, i) => HeaderAt(s, i)
  BY DEF Session!HeaderAt, HeaderAt
<1>2. \A b : Session!HeadOf(b) = HeadOf(b)
  BY DEF Session!HeadOf, HeadOf
<1>3. /\ \A h : Session!ContentLen(h) = ContentLen(h)
      /\ \A h : Session!HandlerThrows(h) = HandlerThrows(h)
  BY DEF Session!ContentLen, Session!HandlerThrows, ContentLen, HandlerThrows
<1>4. /\ \A h, r : Session!Served(h, r) = Served(h, r)
      /\ \A h, r : Session!Refusal(h, r) = Refusal(h, r)
      /\ \A r : Session!Switching(r) = Switching(r)
  BY DEF Session!Served, Session!KeepAlive, Session!Refusal, Session!Switching,
         Served, KeepAlive, Refusal, Switching
<1> QED
  BY <1>1, <1>2, <1>3, <1>4

\* What the connection is doing, operation by operation.
LEMMA StatusOf ==
  /\ pc \in {"header", "body"} => status = "idle"
  /\ pc = "write" => status = "writing"
  /\ pc = "upgradeWrite" => status = "switching"
  /\ pc = "upgraded" => status = "upgraded"
  /\ pc = "threw" => status = "failed"
  /\ pc \in {"shutdown", "dropped"} => status = "closed"
  BY DEF status

\* What the session has before it, as a cut of the stream.
LEMMA RestOf ==
  ASSUME IInv
  PROVE  /\ stream \in Seq(Unit) /\ Len(stream) \in Nat
         /\ sent \in Nat /\ sent <= Len(stream) /\ got \in Nat /\ got <= sent
         /\ taken \in Nat /\ taken + Len(header_str) <= got /\ taken <= sent
         /\ taken + Len(header_str) + Len(read_buf) = got
         /\ Len(header_str) \in Nat /\ Len(read_buf) \in Nat
         /\ Session!Rest = SubSeq(stream, taken + 1, sent)
         /\ Session!Rest \in Seq(Unit) /\ Len(Session!Rest) = sent - taken
<1>1. /\ stream \in Seq(Unit) /\ Len(stream) \in Nat
      /\ sent \in 0..Len(stream) /\ got \in 0..sent
      /\ Len(header_str) \in Nat /\ Len(read_buf) \in Nat
  BY ConnectionAssumption, LenProperties DEF IInv, TypeOK
<1>2. /\ sent \in Nat /\ sent <= Len(stream) /\ got \in Nat /\ got <= sent
      /\ taken \in Nat /\ taken + Len(header_str) <= got /\ taken <= sent
      /\ taken + Len(header_str) + Len(read_buf) = got
  BY <1>1 DEF IInv, Slices, taken
<1>3. Session!Rest = SubSeq(stream, taken + 1, sent)
  BY DEF Session!Rest
<1>4. /\ SubSeq(stream, taken + 1, sent) \in Seq(Unit)
      /\ Len(SubSeq(stream, taken + 1, sent)) = sent - taken
  BY <1>1, <1>2, Cut
<1> QED
  BY <1>1, <1>2, <1>3, <1>4

\* dispatchRequest, on a request that is there in full, is one answer of the
\* session, or the end of it when the handler throws.
LEMMA DispatchAnswers ==
  ASSUME IInv, pc \in {"header", "body"}, UNCHANGED <<stream, sent, peer, written>>,
         NEW block \in Seq(Unit), NEW body, NEW i \in Nat, NEW d \in Nat,
         HeaderAt(Session!Rest, i), block = SubSeq(Session!Rest, 1, i),
         HeadOf(block).parses, ContentLen(HeadOf(block)) <= MaxBody,
         d = i + ContentLen(HeadOf(block)), d >= 1, d <= sent - taken,
         block \o body = SubSeq(Session!Rest, 1, d),
         dispatchRequest(block, body), taken' = taken + d
  PROVE  Session!Next
<1> DEFINE rest == Session!Rest
           h    == HeadOf(block)
           raw  == SubSeq(rest, 1, d)
<1>1. /\ Len(rest) = sent - taken /\ Len(rest) \in Nat /\ taken \in Nat
      /\ status = "idle" /\ i \in 1..Len(rest) /\ d \in 1..Len(rest)
  <2>1. Len(rest) = sent - taken /\ taken \in Nat /\ sent \in Nat /\ taken <= sent
    BY RestOf
  <2> QED
    BY <2>1, StatusOf DEF HeaderAt
<1>2. Session!Request(i, d)
  BY <1>1, SameWire DEF Session!Request
<1>3. \/ /\ h.upgrade = "noKey" /\ UNCHANGED requests_served
         /\ answers' = Append(answers, Refusal("badRequest", raw)) /\ pc' = "write"
      \/ /\ h.upgrade = "key" /\ UNCHANGED requests_served
         /\ answers' = Append(answers, Switching(raw)) /\ pc' = "upgradeWrite"
      \/ /\ h.upgrade = "no" /\ ~ HandlerThrows(h)
         /\ requests_served' = requests_served + 1
         /\ answers' = Append(answers, Served(h, raw)) /\ pc' = "write"
      \/ /\ h.upgrade = "no" /\ HandlerThrows(h)
         /\ pc' = "threw" /\ UNCHANGED <<requests_served, answers>>
  BY DEF dispatchRequest, handleWebSocketUpgrade, sendRaw
<1> HIDE DEF h, raw, rest
<1>4. /\ Session!HeadOf(SubSeq(rest, 1, i)) = h /\ SubSeq(rest, 1, d) = raw
  BY SameWire DEF h, raw, rest
<1>5. /\ pc' = "write" => status' = "writing"
      /\ pc' = "upgradeWrite" => status' = "switching"
      /\ pc' = "threw" => status' = "failed"
  BY DEF status
<1>6. CASE /\ h.upgrade = "no" /\ HandlerThrows(h)
           /\ pc' = "threw" /\ UNCHANGED <<requests_served, answers>>
  <2>1. taken' \in taken..(taken + d)
    BY <1>1
  <2>2. Session!Fail
    BY <1>1, <1>2, <1>4, <1>5, <1>6, <2>1, SameWire DEF Session!Fail, rest
  <2> QED
    BY <2>2 DEF Session!Next, Session!Work
<1>7. CASE ~ (h.upgrade = "no" /\ HandlerThrows(h))
  <2>1. \/ /\ h.upgrade = "no" /\ ~ Session!HandlerThrows(h)
           /\ requests_served' = requests_served + 1
           /\ Session!Give(Session!Served(h, raw), "writing")
        \/ /\ h.upgrade = "noKey"
           /\ requests_served' = requests_served
           /\ Session!Give(Session!Refusal("badRequest", raw), "writing")
        \/ /\ h.upgrade = "key"
           /\ requests_served' = requests_served
           /\ Session!Give(Session!Switching(raw), "switching")
    BY <1>3, <1>5, <1>7, SameWire DEF Session!Give
  <2>2. Session!Answer
    BY <1>1, <1>2, <1>4, <2>1 DEF Session!Answer, rest
  <2> QED
    BY <2>2 DEF Session!Next, Session!Work
<1> QED
  BY <1>3, <1>6, <1>7

\* While a header is read the buffer begins where the session's rest begins.
LEMMA HeaderBuffer ==
  ASSUME IInv, pc = "header", NEW n \in 0..Arrived
  PROVE  /\ header_str = <<>>
         /\ got + n \in Nat /\ taken <= got + n /\ got + n <= sent
         /\ read_buf \o Chunk(n) = SubSeq(stream, taken + 1, got + n)
         /\ read_buf \o Chunk(n) \in Seq(Unit)
         /\ Len(read_buf \o Chunk(n)) = (got + n) - taken
<1>1. header_str = <<>> /\ Len(header_str) = 0
  BY EmptySeq DEF IInv, Holding
<1>2. /\ got + n \in 0..sent /\ got + n \in Nat
      /\ taken \in Nat /\ taken + Len(header_str) <= got
      /\ read_buf \o Chunk(n) = SubSeq(stream, taken + Len(header_str) + 1, got + n)
      /\ read_buf \o Chunk(n) \in Seq(Unit)
      /\ Len(read_buf \o Chunk(n)) = got + n - taken - Len(header_str)
  BY ReadExtends
<1>3. got \in Nat /\ n \in Nat /\ taken + Len(header_str) + 1 = taken + 1
  BY <1>1, <1>2, RestOf DEF Arrived
<1>4. taken <= got + n /\ got + n <= sent /\ got + n - taken - Len(header_str) = (got + n) - taken
  BY <1>1, <1>2, <1>3, RestOf
<1> QED
  BY <1>1, <1>2, <1>3, <1>4

\* A header read is a step of the session exactly when it ends a request.
LEMMA HeaderReadImplements ==
  ASSUME IInv, OnHeaderRead
  PROVE  Session!Next \/ UNCHANGED Session!vars
<1>1. /\ pc = "header" /\ status = "idle" /\ UNCHANGED <<stream, sent, peer, written>>
  BY StatusOf DEF OnHeaderRead
<1>2. PICK n \in 0..Arrived :
        /\ got' = got + n
        /\ LET buf == read_buf \o Chunk(n)
           IN  \/ /\ NoHeader(buf)
                  /\ read_buf' = buf
                  /\ UNCHANGED <<pc, header_str, keep_alive, requests_served, answers>>
               \/ \E i \in 1..Len(buf) : HeaderAt(buf, i) /\ handleRequest(buf, i)
  BY DEF OnHeaderRead
<1> DEFINE buf  == read_buf \o Chunk(n)
           g    == got + n
           rest == Session!Rest
<1>3. PICK t \in Nat :
        /\ t = taken
        /\ stream \in Seq(Unit) /\ Len(stream) \in Nat /\ sent \in Nat /\ sent <= Len(stream)
        /\ t <= sent
        /\ rest = SubSeq(stream, t + 1, sent) /\ rest \in Seq(Unit) /\ Len(rest) = sent - t
  BY RestOf
<1>4. /\ header_str = <<>> /\ g \in Nat /\ t <= g /\ g <= sent
      /\ buf = SubSeq(stream, t + 1, g) /\ buf \in Seq(Unit) /\ Len(buf) = g - t
  BY <1>1, <1>3, HeaderBuffer
<1>5. /\ got' = g
      /\ \/ /\ read_buf' = buf
            /\ UNCHANGED <<pc, header_str, keep_alive, requests_served, answers>>
         \/ \E i \in 1..Len(buf) : HeaderAt(buf, i) /\ handleRequest(buf, i)
  BY <1>2
<1> HIDE DEF buf, g, rest
<1>6. Len(<<>>) = 0
  BY EmptySeq
<1>7. CASE /\ read_buf' = buf
           /\ UNCHANGED <<pc, header_str, keep_alive, requests_served, answers>>
  <2>1. taken' = taken
    BY <1>3, <1>4, <1>5, <1>6, <1>7 DEF taken
  <2>2. status' = status
    BY <1>7 DEF status
  <2> QED
    BY <1>1, <1>7, <2>1, <2>2 DEF Session!vars
<1>8. ASSUME NEW i \in 1..Len(buf), HeaderAt(buf, i), handleRequest(buf, i)
      PROVE  Session!Next \/ UNCHANGED Session!vars
  <2> DEFINE block == SubSeq(buf, 1, i)
             m == ContentLen(HeadOf(block))
  <2>1. i \in Nat /\ 1 <= i /\ i <= g - t
    BY <1>3, <1>4
  <2>2. HeaderAt(rest, i) /\ block = SubSeq(rest, 1, i)
    BY <1>3, <1>4, <1>8, <2>1, HeaderOfPrefix
  <2>3. block = SubSeq(stream, t + 1, t + i) /\ block \in Seq(Unit) /\ Len(block) = i
    <3>1. block = SubSeq(stream, t + 1, t + i)
      BY <1>3, <1>4, <2>1, PrefixOfCut
    <3>2. t + i \in Nat /\ t <= t + i /\ t + i <= Len(stream) /\ (t + i) - t = i
      BY <1>3, <1>4, <2>1
    <3>3. SubSeq(stream, t + 1, t + i) \in Seq(Unit) /\ Len(SubSeq(stream, t + 1, t + i)) = (t + i) - t
      BY ONLY <1>3, <3>2, Cut
    <3> HIDE DEF block
    <3> QED
      BY <3>1, <3>2, <3>3
  <2>4. m \in Nat
    BY <2>1, <2>3, HeadType
  <2>5. i \in 1..Len(rest)
    BY <1>3, <1>4, <2>1
  <2> HIDE DEF block, m
  <2>6. ASSUME NEW what \in {"badRequest", "tooLarge"}, read_buf' = <<>>,
               requests_served' = requests_served, sendRaw(Refusal(what, block), "write"),
               \/ what = "badRequest" /\ ~ HeadOf(block).parses
               \/ what = "tooLarge" /\ HeadOf(block).parses /\ m > MaxBody
        PROVE  Session!Next
    <3>1. taken' = g
      BY <1>4, <1>5, <1>6, <2>6 DEF taken, sendRaw
    <3>2. taken' \in (taken + i)..sent
      BY <1>3, <1>4, <2>1, <3>1
    <3>3. answers' = Append(answers, Refusal(what, block)) /\ status' = "writing"
      BY <2>6 DEF sendRaw, status
    <3>4. Session!Give(Session!Refusal(what, block), "writing")
      BY <1>1, <3>3, SameWire DEF Session!Give
    <3>5. /\ Session!HeaderAt(rest, i) /\ SubSeq(rest, 1, i) = block
          /\ Session!HeadOf(block) = HeadOf(block)
          /\ Session!ContentLen(HeadOf(block)) = m
      BY <2>2, SameWire DEF m
    <3>6. Session!Refuse
      BY <1>1, <2>5, <2>6, <3>2, <3>4, <3>5 DEF Session!Refuse, rest
    <3> QED
      BY <3>6 DEF Session!Next, Session!Work
  <2>7. CASE BadRequest(buf, i)
    BY <2>6, <2>7 DEF BadRequest, block
  <2>8. CASE TooLarge(buf, i)
    BY <2>6, <2>8 DEF TooLarge, block, m
  <2>9. CASE NeedBody(buf, i)
    <3>1. /\ read_buf' = SubSeq(buf, i + 1, Len(buf)) /\ header_str' = block /\ pc' = "body"
          /\ UNCHANGED <<requests_served, answers>>
      BY <2>9 DEF NeedBody, block
    <3>2. Len(read_buf') = Len(buf) - i
      BY <1>4, <2>1, <3>1, Cut
    <3>3. taken' = t
      <4>1. taken' = got' - Len(read_buf') - Len(header_str') /\ Len(header_str') = i
        BY <2>3, <3>1 DEF taken
      <4> QED
        BY <1>3, <1>4, <1>5, <2>1, <3>2, <4>1
    <3>4. status' = "idle"
      BY <3>1 DEF status
    <3> QED
      BY <1>1, <1>3, <3>1, <3>3, <3>4 DEF Session!vars
  <2>10. CASE BodyThere(buf, i)
    <3> DEFINE body == SubSeq(buf, i + 1, i + m)
               d == i + m
    <3>1. /\ HeadOf(block).parses /\ m <= MaxBody /\ m <= Len(buf) - i
          /\ read_buf' = SubSeq(buf, d + 1, Len(buf))
          /\ dispatchRequest(block, body)
      BY <2>10 DEF BodyThere, block, m
    <3>2. d \in Nat /\ d >= 1 /\ d <= Len(buf) /\ i <= d /\ d <= sent - taken
          /\ Len(buf) \in Nat /\ Len(buf) <= Len(buf)
      BY <1>3, <1>4, <2>1, <2>4, <3>1
    <3> HIDE DEF d
    <3>3. Len(read_buf') = Len(buf) - d
      BY <1>4, <3>1, <3>2, Cut
    <3>4. header_str' = <<>>
      BY <3>1 DEF dispatchRequest, handleWebSocketUpgrade, sendRaw
    <3>5. taken' = taken + d
      <4>1. taken' = got' - Len(read_buf') - Len(header_str') /\ Len(header_str') = 0
        BY <1>6, <3>4 DEF taken
      <4> QED
        BY <1>3, <1>4, <1>5, <3>2, <3>3, <4>1
    <3>6. block \o body = SubSeq(rest, 1, d)
      <4>1. SubSeq(buf, 1, d) = SubSeq(stream, t + 1, t + d) /\ SubSeq(rest, 1, d) = SubSeq(stream, t + 1, t + d)
        BY <1>3, <1>4, <3>2, PrefixOfCut
      <4>2. SubSeq(buf, 0 + 1, i) \o SubSeq(buf, i + 1, d) = SubSeq(buf, 0 + 1, d)
        BY <1>4, <2>1, <3>2, Join
      <4>3. 0 + 1 = 1
        OBVIOUS
      <4> QED
        BY <4>1, <4>2, <4>3 DEF block, d
    <3> HIDE DEF body
    <3>7. d = i + m
      BY DEF d
    <3> QED
      BY <1>1, <2>1, <2>2, <2>3, <3>1, <3>2, <3>5, <3>6, <3>7, DispatchAnswers DEF rest, m
  <2> QED
    BY <1>8, <2>7, <2>8, <2>9, <2>10 DEF handleRequest
<1> QED
  BY <1>5, <1>7, <1>8

\* A body read is a step of the session exactly when it completes the body.
LEMMA BodyReadImplements ==
  ASSUME IInv, OnBodyRead
  PROVE  Session!Next \/ UNCHANGED Session!vars
<1> DEFINE len == ContentLen(HeadOf(header_str))
<1>1. /\ pc = "body" /\ status = "idle" /\ UNCHANGED <<stream, sent, peer, written>>
  BY StatusOf DEF OnBodyRead
<1>2. PICK n \in 1..Arrived :
        LET buf == read_buf \o Chunk(n)
        IN  /\ got' = got + n
            /\ \/ /\ read_buf' = buf
                  /\ UNCHANGED <<pc, header_str, keep_alive, requests_served, answers>>
               \/ /\ Len(buf) = len
                  /\ read_buf' = SubSeq(buf, len + 1, Len(buf))
                  /\ dispatchRequest(header_str, SubSeq(buf, 1, len))
  BY DEF OnBodyRead
<1> DEFINE rest == Session!Rest
           buf  == read_buf \o Chunk(n)
<1>3. PICK t \in Nat, i \in Nat :
        /\ t = taken /\ i = Len(header_str)
        /\ stream \in Seq(Unit) /\ Len(stream) \in Nat /\ sent \in Nat /\ sent <= Len(stream)
        /\ got \in Nat /\ got <= sent /\ t <= sent /\ t + i <= got
        /\ rest = SubSeq(stream, t + 1, sent) /\ rest \in Seq(Unit) /\ Len(rest) = sent - t
  BY RestOf
<1>4. n \in 0..Arrived /\ n \in Nat
  BY <1>3 DEF Arrived
<1>5. PICK g \in Nat, q \in Nat :
        /\ g = got + n /\ q = t + i /\ t <= q /\ q <= g /\ g <= sent /\ t <= g
        /\ header_str = SubSeq(stream, t + 1, q)
        /\ buf = SubSeq(stream, q + 1, g) /\ buf \in Seq(Unit) /\ Len(buf) = g - q
  <2>1. /\ got + n \in 0..sent /\ got + n \in Nat
        /\ buf = SubSeq(stream, taken + Len(header_str) + 1, got + n) /\ buf \in Seq(Unit)
        /\ Len(buf) = got + n - taken - Len(header_str)
    BY <1>1, <1>4, ReadExtends
  <2>2. header_str = SubSeq(stream, taken + 1, taken + Len(header_str))
    BY DEF IInv, Slices
  <2> HIDE DEF buf
  <2>3. got + n - taken - Len(header_str) = (got + n) - (t + i) /\ t + i \in Nat
        /\ t <= t + i /\ t + i <= got + n /\ t <= got + n /\ got + n <= sent
    BY <1>3, <1>4, <2>1
  <2>4. header_str = SubSeq(stream, t + 1, t + i) /\ buf = SubSeq(stream, t + i + 1, got + n)
    BY <1>3, <2>1, <2>2
  <2> QED
    BY <2>1, <2>3, <2>4
<1>6. /\ got' = g
      /\ \/ /\ read_buf' = buf
            /\ UNCHANGED <<pc, header_str, keep_alive, requests_served, answers>>
         \/ /\ Len(buf) = len
            /\ read_buf' = SubSeq(buf, len + 1, Len(buf))
            /\ dispatchRequest(header_str, SubSeq(buf, 1, len))
  BY <1>2, <1>5
<1> HIDE DEF buf, rest
<1>7. /\ header_str # <<>> /\ header_str \in Seq(Unit) /\ i >= 1
      /\ HeaderAt(header_str, i) /\ HeadOf(header_str).parses /\ len <= MaxBody /\ len \in Nat
  <2>1. /\ header_str # <<>> /\ HeaderAt(header_str, Len(header_str))
        /\ HeadOf(header_str).parses /\ len <= MaxBody /\ header_str \in Seq(Unit)
    BY <1>1 DEF IInv, Holding, TypeOK
  <2>2. Len(header_str) >= 1
    BY <2>1 DEF HeaderAt
  <2> QED
    BY <1>3, <2>1, <2>2, HeadType
<1>8. CASE /\ read_buf' = buf
           /\ UNCHANGED <<pc, header_str, keep_alive, requests_served, answers>>
  <2>1. taken' = taken
    <3>1. taken' = got' - Len(read_buf') - Len(header_str')
      BY DEF taken
    <3>2. got' = g /\ Len(read_buf') = g - q /\ Len(header_str') = i
      BY <1>3, <1>5, <1>6, <1>8
    <3>3. g - (g - q) - i = t
      BY ONLY <1>5, t \in Nat, i \in Nat, g \in Nat, q \in Nat
    <3> QED
      BY <1>3, <3>1, <3>2, <3>3
  <2>2. status' = status
    BY <1>8 DEF status
  <2> QED
    BY <1>1, <1>8, <2>1, <2>2 DEF Session!vars
<1>9. CASE /\ Len(buf) = len
           /\ read_buf' = SubSeq(buf, len + 1, Len(buf))
           /\ dispatchRequest(header_str, SubSeq(buf, 1, len))
  <2>1. HeaderAt(rest, i) /\ header_str = SubSeq(rest, 1, i)
    <3>1. HeaderAt(rest, i) /\ SubSeq(header_str, 1, i) = SubSeq(rest, 1, i)
      <4>1. q <= sent
        BY <1>3, <1>5
      <4> QED
        BY <1>3, <1>5, <1>7, <4>1, HeaderOfPrefix
    <3>2. SubSeq(header_str, 1, i) = header_str
      BY <1>3, <1>7, SubSeqFull
    <3> QED
      BY <3>1, <3>2
  <2> DEFINE d == i + len
  <2>2. d \in Nat /\ d >= 1 /\ d <= sent - t /\ t + d = g
    <3>1. len = g - q /\ q = t + i /\ i >= 1 /\ len \in Nat /\ g <= sent /\ sent \in Nat
      BY <1>3, <1>5, <1>7, <1>9
    <3> HIDE DEF len
    <3> QED
      BY ONLY <3>1, t \in Nat, i \in Nat, g \in Nat, q \in Nat
  <2>3. header_str \o SubSeq(buf, 1, len) = SubSeq(rest, 1, d)
    <3>1. SubSeq(buf, 1, len) = buf
      BY <1>5, <1>9, SubSeqFull
    <3>2. header_str \o buf = SubSeq(stream, t + 1, g)
      <4>1. g <= Len(stream) /\ t <= q /\ q <= g /\ stream \in Seq(Unit)
        BY <1>3, <1>5
      <4>2. SubSeq(stream, t + 1, q) \o SubSeq(stream, q + 1, g) = SubSeq(stream, t + 1, g)
        BY ONLY <4>1, Join, t \in Nat, q \in Nat, g \in Nat
      <4> QED
        BY <1>5, <4>2
    <3>3. SubSeq(rest, 1, d) = SubSeq(stream, t + 1, t + d)
      <4> HIDE DEF d
      <4> QED
        BY ONLY <1>3, <2>2, PrefixOfCut, t \in Nat
    <3> QED
      BY <2>2, <3>1, <3>2, <3>3
  <2>4. taken' = taken + d
    <3>1. header_str' = <<>> /\ Len(header_str') = 0
      BY <1>9, EmptySeq DEF dispatchRequest, handleWebSocketUpgrade, sendRaw
    <3>2. read_buf' = <<>> /\ Len(read_buf') = 0
      BY <1>7, <1>9, EmptyCut, EmptySeq
    <3>3. taken' = got' - Len(read_buf') - Len(header_str')
      BY DEF taken
    <3> QED
      BY <1>3, <1>5, <1>6, <2>2, <3>1, <3>2, <3>3
  <2>5. d = i + len
    OBVIOUS
  <2> HIDE DEF d
  <2>6. d <= sent - taken
    BY <1>3, <2>2
  <2> QED
    BY <1>1, <1>3, <1>7, <1>9, <2>1, <2>2, <2>3, <2>4, <2>5, <2>6, DispatchAnswers DEF rest
<1> QED
  BY <1>6, <1>8, <1>9

\* A session whose peer has closed its side gives up only when nothing it sent
\* can be answered: the read that fails waits for bytes that cannot come.
LEMMA NothingAnswerable ==
  ASSUME IInv, got = sent,
         (pc = "header" /\ NoHeader(read_buf)) \/ pc = "body"
  PROVE  ~ Session!Answerable
<1> DEFINE rest == Session!Rest
<1>1. PICK t \in Nat, i \in Nat :
        /\ t = taken /\ i = Len(header_str)
        /\ stream \in Seq(Unit) /\ Len(stream) \in Nat /\ sent \in Nat /\ sent <= Len(stream)
        /\ t <= sent /\ t + i <= sent /\ t + i + Len(read_buf) = sent /\ Len(read_buf) \in Nat
        /\ rest = SubSeq(stream, t + 1, sent) /\ rest \in Seq(Unit) /\ Len(rest) = sent - t
  BY RestOf
<1>2. /\ header_str = SubSeq(stream, t + 1, t + i)
      /\ read_buf = SubSeq(stream, t + i + 1, sent)
  BY <1>1 DEF IInv, Slices
<1>3. CASE pc = "header" /\ NoHeader(read_buf)
  <2>1. header_str = <<>> /\ i = 0
    BY <1>1, <1>3, EmptySeq DEF IInv, Holding
  <2>2. read_buf = rest
    BY <1>1, <1>2, <2>1
  <2>3. \A j \in 1..Len(rest) : ~ HeaderAt(rest, j)
    BY <1>3, <2>2 DEF NoHeader, HeaderAt
  <2> QED
    BY <2>3, SameWire DEF Session!Answerable, rest
<1>4. CASE pc = "body"
  <2> DEFINE len == ContentLen(HeadOf(header_str))
  <2>1. /\ header_str # <<>> /\ header_str \in Seq(Unit)
        /\ HeaderAt(header_str, i) /\ HeadOf(header_str).parses
        /\ len <= MaxBody /\ Len(read_buf) < len
    BY <1>1, <1>4 DEF IInv, Holding, TypeOK
  <2>2. len \in Nat /\ i >= 1
    BY <1>1, <2>1, HeadType DEF HeaderAt
  <2>3. PICK q \in Nat : q = t + i /\ t <= q /\ q <= sent
    BY <1>1
  <2>4. HeaderAt(rest, i) /\ header_str = SubSeq(rest, 1, i)
    <3>1. HeaderAt(rest, i) /\ SubSeq(header_str, 1, i) = SubSeq(rest, 1, i)
      BY <1>1, <1>2, <2>1, <2>3, HeaderOfPrefix
    <3>2. SubSeq(header_str, 1, i) = header_str
      BY <1>1, <2>1, SubSeqFull
    <3> QED
      BY <3>1, <3>2
  <2> HIDE DEF rest, len
  <2>5. ASSUME NEW j \in 1..Len(rest), HeaderAt(rest, j)
        PROVE  j = i
    <3>0. Len(rest) \in Nat
      BY <1>1, LenProperties
    <3>1. j \in Nat /\ j >= 1 /\ rest[j].head /\ \A k \in 1..(j - 1) : ~ rest[k].head
      BY <2>5, <3>0 DEF HeaderAt
    <3>2. i \in Nat /\ i >= 1 /\ rest[i].head /\ \A k \in 1..(i - 1) : ~ rest[k].head
      BY <1>1, <2>2, <2>4 DEF HeaderAt
    <3> QED
      BY ONLY <3>1, <3>2
  <2>6. ~ (i + len <= Len(rest)) /\ ~ (len > MaxBody)
    BY <1>1, <2>1, <2>2, MaxBodyAssumption
  <2>7. SUFFICES ASSUME Session!Answerable PROVE FALSE
    OBVIOUS
  <2>8. PICK j \in 1..Len(rest) :
          /\ HeaderAt(rest, j)
          /\ LET h == HeadOf(SubSeq(rest, 1, j))
             IN  ~ h.parses \/ ContentLen(h) > MaxBody \/ j + ContentLen(h) <= Len(rest)
    BY <2>7, SameWire DEF Session!Answerable, rest
  <2>9. j = i /\ SubSeq(rest, 1, j) = header_str
    BY <2>4, <2>5, <2>8
  <2> QED
    BY <2>1, <2>6, <2>8, <2>9 DEF len
<1> QED
  BY <1>3, <1>4

\* The remaining handlers and the peer: each is one step of the session.  A
\* read that fails ends the session only when nothing sent can be answered.
LEMMA OtherImplements ==
  ASSUME IInv,
         \/ PeerSend \/ PeerClose \/ OnReadError
         \/ OnWritten \/ OnUpgradeWritten \/ OnWriteError
  PROVE  Session!Next
<1>1. ASSUME UNCHANGED <<got, read_buf, header_str>> PROVE taken' = taken
  BY <1>1 DEF taken
<1>2. ASSUME UNCHANGED pc PROVE status' = status
  BY <1>2 DEF status
<1>3. CASE PeerSend
  <2>1. Session!PeerSend
    BY <1>1, <1>2, <1>3 DEF PeerSend, Session!PeerSend
  <2> QED
    BY <2>1 DEF Session!Next
<1>4. CASE PeerClose
  <2>1. Session!PeerClose
    BY <1>1, <1>2, <1>4 DEF PeerClose, Session!PeerClose
  <2> QED
    BY <2>1 DEF Session!Next
<1>5. ASSUME pc' \in {"dropped", "shutdown"} PROVE status' = "closed"
  BY <1>5 DEF status
<1>6. CASE OnReadError
  <2>1. pc \in {"header", "body"} /\ status = "idle"
    BY <1>6, StatusOf DEF OnReadError
  <2>2. status' = "closed" /\ taken' = taken
    BY <1>1, <1>5, <1>6 DEF OnReadError
  <2>3. peer = "reset" \/ (peer = "eof" /\ ~ Session!Answerable)
    BY <1>6, NothingAnswerable DEF OnReadError
  <2>4. Session!Abandon
    BY <1>6, <2>1, <2>2, <2>3 DEF OnReadError, Session!Abandon
  <2> QED
    BY <2>4 DEF Session!Next, Session!Work
<1>7. CASE OnWritten
  <2>1. /\ status = "writing" /\ taken' = taken
        /\ keep_alive = answers[Len(answers)].keep
        /\ requests_served \in Nat /\ MaxKeepAlive \in Nat
    BY <1>1, <1>7, StatusOf, ConnectionAssumption DEF OnWritten, IInv, TypeOK, Writing
  <2>2. pc' = IF keep_alive /\ requests_served < MaxKeepAlive THEN "header" ELSE "shutdown"
    BY <1>7, <2>1 DEF OnWritten, readRequest
  <2>3. status' = IF keep_alive /\ requests_served < MaxKeepAlive THEN "idle" ELSE "closed"
    BY <2>2 DEF status
  <2>4. Session!Written
    BY <1>7, <2>1, <2>3 DEF OnWritten, Session!Written
  <2> QED
    BY <2>4 DEF Session!Next, Session!Work
<1>8. CASE OnUpgradeWritten
  <2>1. status = "switching" /\ taken' = taken
    BY <1>1, <1>8, StatusOf DEF OnUpgradeWritten
  <2>2. status' = "upgraded"
    BY <1>8 DEF OnUpgradeWritten, status
  <2>3. Session!Written
    BY <1>8, <2>1, <2>2 DEF OnUpgradeWritten, Session!Written
  <2> QED
    BY <2>3 DEF Session!Next, Session!Work
<1>9. CASE OnWriteError
  <2>1. status \in {"writing", "switching"} /\ peer = "reset"
    BY <1>9, StatusOf DEF OnWriteError
  <2>2. status' = "closed" /\ taken' = taken
    BY <1>1, <1>5, <1>9 DEF OnWriteError
  <2>3. Session!Abandon
    BY <1>9, <2>1, <2>2 DEF OnWriteError, Session!Abandon
  <2> QED
    BY <2>3 DEF Session!Next, Session!Work
<1> QED
  BY <1>3, <1>4, <1>6, <1>7, <1>8, <1>9

\* Each step of the connection is one step of the session or none of it.
LEMMA NextImplements ==
  ASSUME IInv, [Next]_vars
  PROVE  [Session!Next]_(Session!vars)
<1>1. CASE UNCHANGED vars
  BY <1>1 DEF vars, Session!vars, taken, status
<1>2. CASE OnHeaderRead
  BY <1>2, HeaderReadImplements
<1>3. CASE OnBodyRead
  BY <1>3, BodyReadImplements
<1>4. CASE \/ PeerSend \/ PeerClose \/ OnReadError
           \/ OnWritten \/ OnUpgradeWritten \/ OnWriteError
  BY <1>4, OtherImplements
<1> QED
  BY <1>1, <1>2, <1>3, <1>4 DEF Next, Handler

\* Every step of the connection, with its buffer, its partial reads and its
\* separate read of the body, is one step of the session or none of it: what
\* the server answers, and when it gives up, does not depend on how the stream
\* was cut into reads.  This is ImplementsSession without its fairness.
THEOREM ImplementsSessionSteps == Spec => Session!Init /\ [][Session!Next]_(Session!vars)
<1>1. Init => Session!Init
  <2> SUFFICES ASSUME Init PROVE Session!Init
    OBVIOUS
  <2>1. Len(<<>>) = 0
    BY EmptySeq
  <2>2. taken = 0
    <3>1. got = 0 /\ Len(read_buf) = 0 /\ Len(header_str) = 0
      BY <2>1 DEF Init
    <3> QED
      BY <3>1 DEF taken
  <2>3. status = IF MaxKeepAlive = 0 THEN "closed" ELSE "idle"
    BY ConnectionAssumption DEF Init, status
  <2> QED
    BY <2>2, <2>3 DEF Init, Session!Init
<1>2. IInv /\ [Next]_vars => [Session!Next]_(Session!vars)
  BY NextImplements
<1>3. Spec => []IInv
  BY Invariance
<1> QED
  BY <1>1, <1>2, <1>3, PTL DEF Spec

(***************************************************************************)
(* Framing.  The step the invariant needs is one of the session: whatever  *)
(* the connection does with its buffer, it takes whole requests.           *)
(***************************************************************************)
\* While requests are read and answered, the answers so far have led to the
\* end of the last answered request.
Aligned ==
  status \in {"idle", "writing"} /\ AllClear(stream, Len(answers))
    => Upto(stream, Len(answers), taken)

\* The initial state is framed and aligned: no request has been answered, and
\* the first one begins with the first unit.
LEMMA FramingInit == Init => Framing /\ Aligned
<1> SUFFICES ASSUME Init PROVE Framing /\ Aligned
  OBVIOUS
<1>1. answers = <<>> /\ Len(answers) = 0 /\ taken = 0
  <2>1. Len(<<>>) = 0
    BY EmptySeq
  <2>2. got = 0 /\ Len(read_buf) = 0 /\ Len(header_str) = 0
    BY <2>1 DEF Init
  <2>3. taken = 0
    BY <2>2 DEF taken
  <2> QED
    BY <2>1, <2>3 DEF Init
<1>2. stream \in Seq(Unit) /\ InOrder(stream)
  BY ConnectionAssumption DEF Init
<1>3. Framing
  BY <1>1 DEF Framing, Framed
<1>4. Upto(stream, 0, 0)
  <2>1. Len(stream) \in Nat
    BY <1>2, LenProperties
  <2>2. ASSUME NEW j \in 1..Len(stream) PROVE ~ (stream[j].owner <= 0) /\ ~ (j <= 0)
    <3>1. stream[j] \in Unit /\ stream[j].owner >= 1
      BY <1>2, ElementOfSeq DEF InOrder
    <3>2. stream[j].owner \in Nat
      BY <3>1, UnitAssumption
    <3> QED
      BY <2>1, <3>1, <3>2
  <2> QED
    BY <2>2 DEF Upto
<1>5. Upto(stream, Len(answers), taken)
  BY <1>1, <1>4
<1> QED
  BY <1>3, <1>5 DEF Aligned

\* A step of the session keeps both.
LEMMA FramingStep ==
  ASSUME IInv, IInv', Framing, Aligned, [Session!Next]_(Session!vars)
  PROVE  Framing' /\ Aligned'
<1> DEFINE rest == Session!Rest
<1>1. PICK t \in Nat, e \in Nat, m \in Nat :
        /\ t = taken /\ e = sent /\ m = Len(answers)
        /\ stream \in Seq(Unit) /\ t <= e /\ e <= Len(stream)
        /\ rest = SubSeq(stream, t + 1, e) /\ Len(rest) = e - t
        /\ answers \in Seq(AnswerSet)
  BY RestOf, LenProperties DEF IInv, TypeOK
<1>2. InOrder(stream)
  BY ConnectionAssumption DEF IInv, TypeOK
<1>3. Framed(stream, answers)
  BY DEF Framing
<1>4. status \in {"idle", "writing"} /\ AllClear(stream, m) => Upto(stream, m, t)
  BY <1>1 DEF Aligned
<1>5. ASSUME UNCHANGED <<stream, answers>>,
             UNCHANGED taken \/ status' \notin {"idle", "writing"},
             status' \in {"idle", "writing"} => status \in {"idle", "writing"}
      PROVE  Framing' /\ Aligned'
  BY <1>5, <1>3 DEF Framing, Aligned
<1>6. CASE UNCHANGED Session!vars
  BY <1>5, <1>6 DEF Session!vars
<1>7. CASE Session!PeerSend \/ Session!PeerClose
  BY <1>5, <1>7 DEF Session!PeerSend, Session!PeerClose
<1>8. CASE Session!Fail \/ Session!Abandon
  <2>1. /\ UNCHANGED <<stream, answers>>
        /\ status' \in {"failed", "closed"}
    BY <1>8 DEF Session!Fail, Session!Abandon
  <2> QED
    BY <1>5, <2>1
<1>9. CASE Session!Written
  <2>1. /\ UNCHANGED <<stream, answers, taken>>
        /\ \/ status = "writing"
           \/ status' \in {"upgraded", "closed"}
    BY <1>9 DEF Session!Written
  <2> QED
    BY <1>5, <2>1
<1> HIDE DEF rest
<1>10. ASSUME NEW i \in Nat, HeaderAt(rest, i)
       PROVE  /\ i >= 1 /\ i <= Len(rest)
              /\ HeadOf(SubSeq(rest, 1, i)) \in RequestHead
              /\ ContentLen(HeadOf(SubSeq(rest, 1, i))) \in Nat
  <2>1. i >= 1 /\ i <= e - t
    BY <1>1, <1>10 DEF HeaderAt
  <2>2. SubSeq(rest, 1, i) \in Seq(Unit) /\ Len(SubSeq(rest, 1, i)) = i
    <3>1. i >= 1 /\ i <= Len(rest) /\ rest \in Seq(Unit)
      BY <1>1, <2>1, Cut
    <3>2. SubSeq(rest, 1, i) \in Seq(Unit) /\ Len(SubSeq(rest, 1, i)) = i
      BY ONLY <3>1, FrontCut, i \in Nat
    <3> QED
      BY <3>2
  <2> QED
    BY <1>1, <2>1, <2>2, HeadType
<1>11. ASSUME NEW n \in Nat, n <= Len(rest)
       PROVE  SubSeq(rest, 1, n) \in Seq(Unit)
  <2>1. rest \in Seq(Unit)
    BY <1>1, Cut
  <2> QED
    BY ONLY <1>11, <2>1, FrontCut
<1>12. CASE Session!Refuse
  <2>1. PICK i \in Nat :
          /\ status = "idle" /\ HeaderAt(rest, i)
          /\ LET h == HeadOf(SubSeq(rest, 1, i))
             IN  \/ ~ h.parses /\ answers' = Append(answers, Refusal("badRequest", SubSeq(rest, 1, i)))
                 \/ /\ ContentLen(h) > MaxBody
                    /\ answers' = Append(answers, Refusal("tooLarge", SubSeq(rest, 1, i)))
          /\ stream' = stream
    BY <1>1, <1>12, SameWire DEF Session!Refuse, Session!Give, rest
  <2>2. PICK h, a :
          /\ h = HeadOf(SubSeq(rest, 1, i)) /\ h \in RequestHead
          /\ ~ h.parses \/ ContentLen(h) > MaxBody
          /\ a \in AnswerSet /\ answers' = Append(answers, a)
    BY <1>10, <1>11, <2>1, AnswerType
  <2>3. AllClear(stream, m) => Upto(stream, m, t)
    BY <1>4, <2>1
  <2>4. Framed(stream, Append(answers, a)) /\ ~ AllClear(stream, m + 1)
    BY <1>1, <1>2, <1>3, <2>1, <2>2, <2>3, RefusalFramed
  <2>5. Len(answers') = m + 1
    BY <1>1, <2>2, AppendProperties
  <2> QED
    BY <2>1, <2>2, <2>4, <2>5 DEF Framing, Aligned
<1>13. CASE Session!Answer
  <2>1. PICK i \in Nat, n \in Nat :
          /\ status = "idle" /\ HeaderAt(rest, i) /\ n <= Len(rest)
          /\ n = i + ContentLen(HeadOf(SubSeq(rest, 1, i)))
          /\ taken' = taken + n /\ stream' = stream
          /\ LET h   == HeadOf(SubSeq(rest, 1, i))
                 raw == SubSeq(rest, 1, n)
             IN  \/ answers' = Append(answers, Served(h, raw))
                 \/ answers' = Append(answers, Refusal("badRequest", raw))
                 \/ answers' = Append(answers, Switching(raw))
    BY <1>1, <1>13, SameWire DEF Session!Answer, Session!Request, Session!Give, rest
  <2>2. PICK h, a :
          /\ h = HeadOf(SubSeq(rest, 1, i)) /\ h \in RequestHead
          /\ a \in AnswerSet /\ answers' = Append(answers, a)
          /\ a.raw = SubSeq(rest, 1, n)
    <3> DEFINE h == HeadOf(SubSeq(rest, 1, i))
               raw == SubSeq(rest, 1, n)
    <3>1. h \in RequestHead /\ raw \in Seq(Unit)
      BY <1>10, <1>11, <2>1
    <3>2. /\ Served(h, raw).raw = raw /\ Refusal("badRequest", raw).raw = raw
          /\ Switching(raw).raw = raw
      BY DEF Served, Refusal, Switching
    <3>3. \E a \in AnswerSet : answers' = Append(answers, a) /\ a.raw = raw
      <4> HIDE DEF raw, h
      <4> QED
        BY <2>1, <3>1, <3>2, AnswerType DEF raw, h
    <3> QED
      BY <3>1, <3>3
  <2>3. AllClear(stream, m) => Upto(stream, m, t)
    BY <1>4, <2>1
  <2>4. /\ Framed(stream, Append(answers, a))
        /\ AllClear(stream, m + 1) => Upto(stream, m + 1, t + n)
    <3>1. /\ stream \in Seq(Unit) /\ answers \in Seq(AnswerSet) /\ m = Len(answers)
          /\ t <= e /\ e <= Len(stream)
          /\ HeaderAt(SubSeq(stream, t + 1, e), i)
          /\ h = HeadOf(SubSeq(SubSeq(stream, t + 1, e), 1, i))
          /\ n = i + ContentLen(h) /\ n <= e - t
          /\ a \in AnswerSet /\ a.raw = SubSeq(SubSeq(stream, t + 1, e), 1, n)
      BY <1>1, <2>1, <2>2
    <3> QED
      BY ONLY <1>2, <1>3, <2>3, <3>1, AnswerFramed, t \in Nat, e \in Nat, m \in Nat,
              i \in Nat, n \in Nat
  <2>5. Len(answers') = m + 1 /\ taken' = t + n
    BY <1>1, <2>1, <2>2, AppendProperties
  <2>6. Framing'
    BY <2>1, <2>2, <2>4 DEF Framing
  <2>7. Aligned'
    BY <2>1, <2>4, <2>5 DEF Aligned
  <2> QED
    BY <2>6, <2>7
<1> QED
  BY <1>6, <1>7, <1>8, <1>9, <1>12, <1>13 DEF Session!Next, Session!Work

\* While requests state their lengths, the k-th answer is for exactly the
\* bytes of the k-th request, for every stream and every way it is cut.
THEOREM RequestsFramed == Spec => []Framing
<1>1. Init => Framing /\ Aligned
  BY FramingInit
<1>2. IInv /\ IInv' /\ Framing /\ Aligned /\ [Next]_vars => Framing' /\ Aligned'
  BY NextImplements, FramingStep
<1>3. Spec => []IInv
  BY Invariance
<1> QED
  BY <1>1, <1>2, <1>3, PTL DEF Spec
===============================================================================
