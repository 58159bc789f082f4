--------------------------- MODULE HttpClientProofs ---------------------------
(***************************************************************************)
(* Proofs about HttpClient, for every number of requests, every set of     *)
(* responses, with and without TLS.  The order of the callbacks is proved  *)
(* for any use of request(); that none is lost and that each gets its own  *)
(* response, for an application that waits for the callback (Overlap is    *)
(* FALSE): with overlapping requests neither is true.                      *)
(***************************************************************************)
EXTENDS HttpClient, SliceLemmas

(***************************************************************************)
(* The inductive invariant.                                                *)
(***************************************************************************)
Units == [of : 0..N, head : BOOLEAN, r : ResponseSet]

Before == {"resolve", "connect", "handshake"}
Reading == {"header", "body"}

ChainSet == [k : 0..N, at : Before \cup {"write"} \cup Reading, block : Seq(Units)]

\* A chain holds a header block exactly while it waits for the body.
ChainsOK ==
  /\ chains \subseteq ChainSet
  /\ \A c \in chains : (c.at = "body") = (c.block # <<>>)

ResultSet == [for : 1..N, with : 0..N]

Types ==
  /\ issued \in 0..N
  /\ connected \in BOOLEAN
  /\ pending_request \in 0..N
  /\ read_buf \in Seq(Units) /\ inbound \in Seq(Units) /\ queue \in Seq(Units)
  /\ ChainsOK
  /\ results \in Seq(ResultSet)
  /\ link \in {"none", "up", "eof", "reset"}
  /\ faults \subseteq 0..N

\* The pending callback is the latest request's, and those invoked are of
\* earlier requests.
Ordered ==
  /\ pending_callback \in {0, issued}
  /\ \A i \in 1..Len(results) : /\ results[i].for <= issued
                                /\ pending_callback # 0 => results[i].for < issued
  /\ CalledOnceInOrder

\* With one request at a time there is one chain as long as the callback of
\* the latest request is pending, and none otherwise.
Exclusive ==
  \/ /\ chains = {} /\ pending_callback = 0
     /\ \A k \in 1..issued : Called(k)
  \/ \E c \in chains :
       /\ chains = {c}
       /\ issued >= 1 /\ pending_callback = issued /\ c.k = issued
       /\ c.at \in Before => pending_request = issued
       /\ \A k \in 1..(issued - 1) : Called(k)

\* Nothing has gone wrong, and no length was left unstated, before request k.
Clean(k) == \A j \in 1..(k - 1) : j \notin faults \cup unframed

\* The response r to c's request lies in the buffer up to unit p, on the link
\* up to q and at the server up to e; the chain that waits for its body has
\* taken its head.
LiesAt(c, r, p, q, e, buf, link_, queue_) ==
  LET F == ResponseUnits(c.k, r)
      o == IF c.at = "body" THEN 1 ELSE 0
  IN  /\ o <= p /\ p <= q /\ q <= e /\ e <= r.n + 1
      /\ buf = SubSeq(F, o + 1, p)
      /\ link_ = SubSeq(F, p + 1, q)
      /\ queue_ = SubSeq(F, q + 1, e)
      /\ c.at = "body" => c.block = <<HeadUnit(c.k, r)>> /\ r.stated

\* All that is on its way is a piece of one response to c's request, whose
\* length is stated unless c's request is one of unstated.
Holds(c, buf, link_, queue_, unstated) ==
  \E r \in Responses \cup {Empty} :
    /\ r.stated \/ r.n = 0 \/ c.k \in unstated
    /\ \E p, q, e \in 0..(r.n + 1) : LiesAt(c, r, p, q, e, buf, link_, queue_)

Drained == read_buf = <<>> /\ inbound = <<>> /\ queue = <<>>

\* While nothing has gone wrong, whatever is on its way to the client is what
\* remains of the response to the request under way, and between two requests
\* nothing is.
OnlyOwn ==
  /\ chains = {} /\ Clean(issued + 1) => Drained
  /\ \A c \in chains :
       /\ c.k \notin faults
       /\ Clean(c.k) =>
            /\ c.at \in Before \cup {"write"} => Drained
            /\ c.at \in Reading => Holds(c, read_buf, inbound, queue, unframed)

\* Faults and unstated lengths are those of requests that were made.
Past ==
  /\ \A k \in faults : k <= issued
  /\ unframed \subseteq 1..issued

OInv == Types /\ Ordered
XInv == OInv /\ Exclusive /\ Past /\ OnlyOwn /\ OwnResponseWhileClean

(***************************************************************************)
(* Units, chains and callbacks.                                            *)
(***************************************************************************)
\* A response is its head followed by as many units as its body has.
LEMMA ResponseUnitsType ==
  ASSUME NEW k \in 0..N, NEW r \in Responses \cup {Empty}
  PROVE  /\ r \in ResponseSet /\ r.n \in Nat
         /\ HeadUnit(k, r) \in Units
         /\ ResponseUnits(k, r) \in Seq(Units)
         /\ Len(ResponseUnits(k, r)) = r.n + 1
         /\ ResponseUnits(k, r)[1] = HeadUnit(k, r)
<1>1. Empty \in ResponseSet
  BY DEF Empty, ResponseSet
<1>2. r \in ResponseSet /\ r.n \in Nat
  BY <1>1, ClientAssumption DEF ResponseSet
<1>3. HeadUnit(k, r) \in Units
  BY <1>2 DEF HeadUnit, Units
<1>4. \A j \in 1..r.n : BodyUnit(k, r, j) \in Units
  BY <1>1, <1>2 DEF BodyUnit, HeadUnit, Units
<1> DEFINE body == [j \in 1..r.n |-> BodyUnit(k, r, j)]
           head == <<HeadUnit(k, r)>>
<1>5. body \in Seq(Units) /\ Len(body) = r.n
  <2>1. body \in [1..r.n -> Units]
    BY <1>4
  <2>2. body \in Seq(Units)
    BY <1>2, <2>1, SeqDef
  <2>3. DOMAIN body = 1..r.n
    OBVIOUS
  <2> HIDE DEF body
  <2>4. 1..Len(body) = 1..r.n /\ Len(body) \in Nat
    BY <2>2, <2>3, LenProperties
  <2> QED
    BY <1>2, <2>2, <2>4
<1>6. head \in Seq(Units) /\ Len(head) = 1 /\ head[1] = HeadUnit(k, r)
  BY <1>3
<1> HIDE DEF body, head
<1>7. /\ head \o body \in Seq(Units) /\ Len(head \o body) = r.n + 1
      /\ (head \o body)[1] = HeadUnit(k, r)
  <2> DEFINE cat == head \o body
  <2>1. /\ cat \in Seq(Units) /\ Len(cat) = Len(head) + Len(body)
        /\ \A i \in 1..(Len(head) + Len(body)) :
             cat[i] = IF i <= Len(head) THEN head[i] ELSE body[i - Len(head)]
    BY <1>5, <1>6, ConcatProperties
  <2> HIDE DEF cat
  <2>2. 1 \in 1..(Len(head) + Len(body)) /\ 1 <= Len(head) /\ Len(head) + Len(body) = r.n + 1
    BY <1>2, <1>5, <1>6
  <2>3. cat[1] = HeadUnit(k, r)
    BY <1>6, <2>1, <2>2
  <2> QED
    BY <2>1, <2>2, <2>3 DEF cat
<1>8. ResponseUnits(k, r) = head \o body
  BY DEF ResponseUnits, head, body
<1> QED
  BY <1>2, <1>3, <1>7, <1>8

\* A chain that is replaced by a well-formed one, or that ends.
LEMMA ChainMoves ==
  ASSUME ChainsOK, NEW c, NEW d \in ChainSet, (d.at = "body") = (d.block # <<>>),
         chains' = (chains \ {c}) \cup {d}
  PROVE  ChainsOK'
  BY DEF ChainsOK

LEMMA ChainEnds ==
  ASSUME ChainsOK, NEW c, chains' = chains \ {c}
  PROVE  ChainsOK'
  BY DEF ChainsOK

\* A chain that goes on to another operation than the read of a body.
LEMMA ChainContinues ==
  ASSUME ChainsOK, NEW c \in chains, c.at # "body",
         NEW at \in Before \cup {"write", "header"}, Continue(c, at)
  PROVE  /\ ChainsOK'
         /\ [c EXCEPT !.at = at] \in ChainSet
         /\ chains' = (chains \ {c}) \cup {[c EXCEPT !.at = at]}
<1>1. c \in ChainSet /\ c.block = <<>>
  BY DEF ChainsOK
<1>2. [c EXCEPT !.at = at] \in ChainSet
  BY <1>1 DEF ChainSet, Reading
<1>3. [c EXCEPT !.at = at].at # "body" /\ [c EXCEPT !.at = at].block = <<>>
  BY <1>1 DEF ChainSet, Before
<1>4. chains' = (chains \ {c}) \cup {[c EXCEPT !.at = at]}
  BY DEF Continue
<1> QED
  BY <1>2, <1>3, <1>4, ChainMoves

\* The callback is moved out before it is called, so it is called once and the
\* order of the calls is the order of the requests.
LEMMA CallbackStep ==
  ASSUME OInv, NEW x \in 0..N, InvokeCallback(x), issued' = issued
  PROVE  results' \in Seq(ResultSet) /\ Ordered'
<1>1. /\ results \in Seq(ResultSet) /\ Len(results) \in Nat
      /\ issued \in 0..N /\ N \in Nat /\ pending_callback \in {0, issued}
  BY LenProperties, ClientAssumption DEF OInv, Types, Ordered
<1>2. CASE pending_callback = 0
  BY <1>2 DEF OInv, Types, Ordered, CalledOnceInOrder, InvokeCallback
<1>3. CASE pending_callback # 0
  <2> DEFINE new == [for |-> pending_callback, with |-> x]
  <2>1. new \in ResultSet /\ new.for = issued
    BY <1>1, <1>3 DEF ResultSet
  <2>2. results' = Append(results, new) /\ pending_callback' = 0
    BY <1>3 DEF InvokeCallback
  <2> HIDE DEF new
  <2>3. /\ results' \in Seq(ResultSet) /\ Len(results') = Len(results) + 1
        /\ \A i \in 1..Len(results) : results'[i] = results[i]
        /\ results'[Len(results) + 1] = new
    BY <1>1, <2>1, <2>2, AppendProperties
  <2>4. \A i \in 1..Len(results) : results[i].for < issued /\ results[i].for \in Nat
    <3>1. \A i \in 1..Len(results) : results[i] \in ResultSet
      BY <1>1, ElementOfSeq
    <3> QED
      BY <1>1, <1>3, <3>1 DEF OInv, Ordered, ResultSet
  <2>5. \A i \in 1..Len(results') : results'[i].for <= issued
    BY <1>1, <2>1, <2>3, <2>4
  <2>6. CalledOnceInOrder'
    <3>1. ASSUME NEW i \in 1..Len(results'), NEW j \in 1..Len(results'), i < j
          PROVE  results'[i].for < results'[j].for
      <4>1. i \in 1..Len(results)
        BY <1>1, <2>3, <3>1
      <4>2. CASE j \in 1..Len(results)
        BY <2>3, <3>1, <4>1, <4>2 DEF OInv, Ordered, CalledOnceInOrder
      <4>3. CASE j = Len(results) + 1
        BY <2>1, <2>3, <2>4, <4>1, <4>3
      <4> QED
        BY <1>1, <2>3, <4>2, <4>3
    <3> QED
      BY <3>1 DEF CalledOnceInOrder
  <2> QED
    BY <2>2, <2>3, <2>5, <2>6 DEF Ordered
<1> QED
  BY <1>2, <1>3

\* A step that neither makes a request nor invokes a callback.
LEMMA NoCallbackStep ==
  ASSUME OInv, UNCHANGED <<issued, pending_callback, results>>
  PROVE  results' \in Seq(ResultSet) /\ Ordered'
  BY DEF OInv, Types, Ordered, CalledOnceInOrder

\* A handler that was called with an error.
LEMMA FailedType ==
  ASSUME OInv, NEW c \in chains, Failed(c), issued' = issued
  PROVE  /\ results' \in Seq(ResultSet) /\ Ordered' /\ ChainsOK'
         /\ faults' \subseteq 0..N
<1>1. 0 \in 0..N
  BY ClientAssumption
<1>2. InvokeCallback(0) /\ chains' = chains \ {c} /\ faults' = faults \cup {c.k}
  BY DEF Failed
<1>3. c.k \in 0..N /\ faults \subseteq 0..N
  BY DEF OInv, Types, ChainsOK, ChainSet
<1> QED
  BY <1>1, <1>2, <1>3, CallbackStep, ChainEnds DEF OInv, Types

\* The write of the pending request.
LEMMA SendType ==
  ASSUME OInv, NEW c \in chains, SendRequest(c)
  PROVE  ChainsOK' /\ connected' \in BOOLEAN /\ pending_request' \in 0..N
<1>1. Chain(pending_request, "write") \in ChainSet
  BY EmptySeq DEF OInv, Types, Chain, ChainSet
<1>2. /\ Chain(pending_request, "write").at # "body"
      /\ Chain(pending_request, "write").block = <<>>
  BY DEF Chain
<1>3. 0 \in 0..N
  BY ClientAssumption
<1> QED
  BY <1>1, <1>2, <1>3, ChainMoves DEF OInv, Types, SendRequest

(***************************************************************************)
(* Every step keeps the types and the order of the callbacks.              *)
(***************************************************************************)
\* What a handler may find in the buffer and leave there.
LEMMA Bytes ==
  ASSUME OInv, NEW n \in 0..Len(inbound)
  PROVE  /\ Len(inbound) \in Nat /\ Len(read_buf) \in Nat /\ Len(queue) \in Nat
         /\ read_buf \o SubSeq(inbound, 1, n) \in Seq(Units)
         /\ SubSeq(inbound, n + 1, Len(inbound)) \in Seq(Units)
<1>1. /\ Len(inbound) \in Nat /\ Len(read_buf) \in Nat /\ Len(queue) \in Nat
      /\ inbound \in Seq(Units) /\ read_buf \in Seq(Units)
  BY LenProperties DEF OInv, Types
<1>2. SubSeq(inbound, 0 + 1, n) \in Seq(Units) /\ SubSeq(inbound, n + 1, Len(inbound)) \in Seq(Units)
  BY <1>1, Cut
<1>3. SubSeq(inbound, 1, n) \in Seq(Units)
  BY <1>2
<1> QED
  BY <1>1, <1>2, <1>3, ConcatProperties

\* What an exchange leaves in the buffer when it ends.
LEMMA RestType ==
  ASSUME NEW S, NEW s \in Seq(S), NEW n \in Nat, n <= Len(s)
  PROVE  SubSeq(s, n + 1, Len(s)) \in Seq(S) /\ Len(SubSeq(s, n + 1, Len(s))) = Len(s) - n
<1>1. Len(s) \in Nat
  BY LenProperties
<1> QED
  BY <1>1, Cut

LEMMA ContentLenType ==
  ASSUME NEW u \in Units
  PROVE  ContentLen(u) \in Nat /\ u.of \in 0..N /\ u.r.parses \in BOOLEAN
  BY DEF Units, ResponseSet, ContentLen

\* The end of an exchange.
LEMMA FinishType ==
  ASSUME OInv, NEW c \in chains, NEW head \in Units, NEW rest \in Seq(Units),
         Finish(c, head, rest), issued' = issued
  PROVE  /\ results' \in Seq(ResultSet) /\ Ordered' /\ ChainsOK'
         /\ read_buf' \in Seq(Units) /\ connected' \in BOOLEAN
<1>1. /\ connected' = (connected /\ ~ head.r.close) /\ InvokeCallback(head.of)
      /\ chains' = chains \ {c} /\ read_buf' = rest
  BY DEF Finish
<1>2. results' \in Seq(ResultSet) /\ Ordered'
  BY <1>1, ContentLenType, CallbackStep
<1>3. ChainsOK'
  BY <1>1, ChainEnds DEF OInv, Types
<1>4. connected' \in BOOLEAN
  BY <1>1
<1> QED
  BY <1>1, <1>2, <1>3, <1>4

\* processResponse.
LEMMA ProcessType ==
  ASSUME OInv, NEW c \in chains, c.at = "header", NEW buf \in Seq(Units),
         NEW i \in 1..Len(buf), ProcessResponse(c, buf, i), issued' = issued
  PROVE  /\ results' \in Seq(ResultSet) /\ Ordered' /\ ChainsOK'
         /\ read_buf' \in Seq(Units) /\ connected' \in BOOLEAN /\ faults' \subseteq 0..N
<1> DEFINE head == buf[i]
           rest == SubSeq(buf, i + 1, Len(buf))
           n    == ContentLen(head)
<1>1. head \in Units /\ n \in Nat
  BY ElementOfSeq, ContentLenType
<1>2. rest \in Seq(Units) /\ Len(rest) \in Nat
  BY LenProperties, RestType
<1>3. /\ connected \in BOOLEAN /\ faults \subseteq 0..N /\ c \in ChainSet /\ c.k \in 0..N
      /\ chains \subseteq ChainSet /\ ChainsOK
  BY DEF OInv, Types, ChainsOK, ChainSet
<1>4. \/ /\ InvokeCallback(0) /\ chains' = chains \ {c} /\ read_buf' = rest
         /\ faults' = faults \cup (IF head.r.parses THEN {} ELSE {c.k})
         /\ UNCHANGED connected
      \/ /\ n <= Len(rest) /\ Finish(c, head, SubSeq(rest, n + 1, Len(rest)))
         /\ UNCHANGED faults
      \/ /\ read_buf' = rest
         /\ chains' = (chains \ {c}) \cup {[c EXCEPT !.at = "body", !.block = <<head>>]}
         /\ UNCHANGED <<connected, results, pending_callback, faults>>
  BY DEF ProcessResponse
<1> HIDE DEF head, rest, n
<1>5. CASE /\ InvokeCallback(0) /\ chains' = chains \ {c} /\ read_buf' = rest
           /\ faults' = faults \cup (IF head.r.parses THEN {} ELSE {c.k})
           /\ UNCHANGED connected
  <2>1. 0 \in 0..N
    BY ClientAssumption
  <2>2. results' \in Seq(ResultSet) /\ Ordered'
    BY <1>5, <2>1, CallbackStep
  <2>3. ChainsOK'
    BY <1>3, <1>5, ChainEnds
  <2> QED
    BY <1>2, <1>3, <1>5, <2>2, <2>3
<1>6. CASE /\ n <= Len(rest) /\ Finish(c, head, SubSeq(rest, n + 1, Len(rest)))
           /\ UNCHANGED faults
  <2>1. SubSeq(rest, n + 1, Len(rest)) \in Seq(Units)
    BY <1>1, <1>2, <1>6, RestType
  <2> QED
    BY <1>1, <1>3, <1>6, <2>1, FinishType
<1>7. CASE /\ read_buf' = rest
           /\ chains' = (chains \ {c}) \cup {[c EXCEPT !.at = "body", !.block = <<head>>]}
           /\ UNCHANGED <<connected, results, pending_callback, faults>>
  <2> DEFINE d == [c EXCEPT !.at = "body", !.block = <<head>>]
  <2>1. <<head>> \in Seq(Units) /\ <<head>> # <<>>
    BY <1>1
  <2>2. d \in ChainSet /\ d.at = "body" /\ d.block # <<>>
    BY <1>3, <2>1 DEF ChainSet, Reading
  <2> HIDE DEF d
  <2>3. ChainsOK'
    BY <1>3, <1>7, <2>2, ChainMoves DEF d
  <2>4. results' \in Seq(ResultSet) /\ Ordered'
    BY <1>7, NoCallbackStep
  <2> QED
    BY <1>2, <1>3, <1>7, <2>3, <2>4
<1> QED
  BY <1>4, <1>5, <1>6, <1>7

\* The handlers of a chain.
LEMMA HandlerType ==
  ASSUME OInv, NEW c \in chains, Handle(c)
  PROVE  OInv'
<1> USE DEF OInv
<1>1. /\ issued \in 0..N /\ connected \in BOOLEAN /\ pending_request \in 0..N
      /\ read_buf \in Seq(Units) /\ inbound \in Seq(Units) /\ queue \in Seq(Units)
      /\ ChainsOK /\ results \in Seq(ResultSet)
      /\ link \in {"none", "up", "eof", "reset"} /\ faults \subseteq 0..N
      /\ c \in ChainSet /\ c.k \in 0..N /\ <<>> \in Seq(Units)
  BY EmptySeq DEF Types, ChainsOK, ChainSet
<1>2. issued' = issued
  BY DEF Handle, OnResolved, OnConnected, OnHandshake, OnError, OnWritten, Written,
         OnHeaderRead, OnBodyRead
<1>3. CASE OnResolved(c)
  <2>1. /\ c.at = "resolve"
        /\ UNCHANGED <<connected, read_buf, pending_request, link, queue, inbound>>
    BY <1>3 DEF OnResolved, server
  <2>2. CASE Failed(c)
    BY <1>1, <1>2, <2>1, <2>2, FailedType DEF Types
  <2>3. CASE Continue(c, "connect") /\ UNCHANGED <<results, pending_callback, faults>>
    BY <1>1, <1>2, <2>1, <2>3, ChainContinues, NoCallbackStep DEF Types, Before
  <2> QED
    BY <1>3, <2>2, <2>3 DEF OnResolved
<1>4. CASE OnConnected(c)
  <2>1. c.at = "connect" /\ queue' = <<>> /\ inbound' = <<>> /\ UNCHANGED read_buf
    BY <1>4 DEF OnConnected
  <2>2. CASE Failed(c) /\ link' = "none" /\ UNCHANGED <<connected, pending_request>>
    BY <1>1, <1>2, <2>1, <2>2, FailedType DEF Types
  <2>3. CASE /\ link' = "up" /\ Continue(c, "handshake")
             /\ UNCHANGED <<connected, pending_request, results, pending_callback, faults>>
    BY <1>1, <1>2, <2>1, <2>3, ChainContinues, NoCallbackStep DEF Types, Before
  <2>4. CASE /\ link' = "up" /\ SendRequest(c)
             /\ UNCHANGED <<results, pending_callback, faults>>
    BY <1>1, <1>2, <2>1, <2>4, SendType, NoCallbackStep DEF Types
  <2> QED
    BY <1>4, <2>2, <2>3, <2>4 DEF OnConnected
<1>5. CASE OnHandshake(c)
  <2>1. UNCHANGED <<read_buf, link, queue, inbound>>
    BY <1>5 DEF OnHandshake, server
  <2>2. CASE Failed(c) /\ UNCHANGED <<connected, pending_request>>
    BY <1>1, <1>2, <2>1, <2>2, FailedType DEF Types
  <2>3. CASE SendRequest(c) /\ UNCHANGED <<results, pending_callback, faults>>
    BY <1>1, <1>2, <2>1, <2>3, SendType, NoCallbackStep DEF Types
  <2> QED
    BY <1>5, <2>2, <2>3 DEF OnHandshake
<1>6. CASE OnError(c)
  <2>1. /\ connected' = FALSE /\ Failed(c)
        /\ UNCHANGED <<read_buf, pending_request, link, queue, inbound>>
    BY <1>6 DEF OnError, server
  <2> QED
    BY <1>1, <1>2, <2>1, FailedType DEF Types
<1>7. CASE OnWritten(c)
  <2>1. /\ c.at = "write" /\ Continue(c, "header")
        /\ UNCHANGED <<connected, read_buf, pending_request, pending_callback, results,
                       link, inbound, faults>>
    BY <1>7 DEF OnWritten, Written
  <2>2. queue' \in Seq(Units)
    <3>1. ASSUME NEW r \in Responses, queue' = queue \o ResponseUnits(c.k, r)
          PROVE  queue' \in Seq(Units)
      <4>1. ResponseUnits(c.k, r) \in Seq(Units)
        BY <1>1, ResponseUnitsType
      <4> QED
        BY <1>1, <3>1, <4>1, ConcatProperties
    <3> QED
      BY <1>1, <1>7, <3>1 DEF OnWritten
  <2> QED
    BY <1>1, <1>2, <2>1, <2>2, ChainContinues, NoCallbackStep DEF Types
<1>8. CASE OnHeaderRead(c)
  <2>1. c.at = "header" /\ UNCHANGED <<pending_request, link, queue>>
    BY <1>8 DEF OnHeaderRead
  <2>2. PICK n \in 0..Len(inbound) :
          LET buf == read_buf \o SubSeq(inbound, 1, n)
          IN  /\ Take(n)
              /\ \/ /\ read_buf' = buf
                    /\ UNCHANGED <<connected, pending_callback, chains, results, faults>>
                 \/ \E i \in 1..Len(buf) : ProcessResponse(c, buf, i)
    BY <1>8 DEF OnHeaderRead
  <2> DEFINE buf == read_buf \o SubSeq(inbound, 1, n)
  <2>3. buf \in Seq(Units) /\ inbound' \in Seq(Units)
    BY <2>2, Bytes DEF Take
  <2> HIDE DEF buf
  <2>4. CASE /\ read_buf' = buf
             /\ UNCHANGED <<connected, pending_callback, chains, results, faults>>
    BY <1>1, <1>2, <2>1, <2>3, <2>4, NoCallbackStep DEF Types, ChainsOK
  <2>5. CASE \E i \in 1..Len(buf) : ProcessResponse(c, buf, i)
    BY <1>1, <1>2, <2>1, <2>3, <2>5, ProcessType DEF Types
  <2> QED
    BY <2>2, <2>4, <2>5 DEF buf
<1>9. CASE OnBodyRead(c)
  <2>1. c.at = "body" /\ UNCHANGED <<pending_request, link, queue, faults>>
    BY <1>9 DEF OnBodyRead
  <2>2. PICK n \in 1..Len(inbound) :
          LET buf == read_buf \o SubSeq(inbound, 1, n)
              len == ContentLen(c.block[1])
          IN  /\ Take(n)
              /\ \/ /\ read_buf' = buf
                    /\ UNCHANGED <<connected, pending_callback, chains, results>>
                 \/ /\ Len(buf) = len
                    /\ Finish(c, c.block[1], SubSeq(buf, len + 1, Len(buf)))
    BY <1>9 DEF OnBodyRead
  <2> DEFINE buf == read_buf \o SubSeq(inbound, 1, n)
             len == ContentLen(c.block[1])
  <2>3. n \in 0..Len(inbound)
    OBVIOUS
  <2>4. buf \in Seq(Units) /\ inbound' \in Seq(Units)
    BY <2>2, <2>3, Bytes DEF Take
  <2>5. c.block[1] \in Units
    <3>1. c.block \in Seq(Units) /\ c.block # <<>>
      BY <1>1, <2>1 DEF ChainsOK, ChainSet
    <3>2. 1 \in 1..Len(c.block)
      BY <3>1, EmptySeq
    <3> QED
      BY <3>1, <3>2, ElementOfSeq
  <2>6. len \in Nat
    BY <2>5, ContentLenType
  <2> HIDE DEF buf, len
  <2>7. CASE /\ read_buf' = buf
             /\ UNCHANGED <<connected, pending_callback, chains, results>>
    BY <1>1, <1>2, <2>1, <2>4, <2>7, NoCallbackStep DEF Types, ChainsOK
  <2>8. CASE /\ Len(buf) = len
             /\ Finish(c, c.block[1], SubSeq(buf, len + 1, Len(buf)))
    <3>1. SubSeq(buf, len + 1, Len(buf)) \in Seq(Units)
      BY <2>4, <2>6, <2>8, RestType
    <3> QED
      BY <1>1, <1>2, <2>1, <2>4, <2>5, <2>8, <3>1, FinishType DEF Types
  <2> QED
    BY <2>2, <2>7, <2>8 DEF buf, len
<1> QED
  BY <1>3, <1>4, <1>5, <1>6, <1>7, <1>8, <1>9 DEF Handle

\* The application and the server.
LEMMA OtherType ==
  ASSUME OInv, Request \/ ServerSend \/ ServerClose
  PROVE  OInv'
<1> USE DEF OInv
<1>1. /\ issued \in 0..N /\ N \in Nat /\ inbound \in Seq(Units) /\ queue \in Seq(Units)
      /\ <<>> \in Seq(Units)
  BY EmptySeq, ClientAssumption DEF Types
<1>2. CASE Request
  <2>1. /\ issued < N /\ issued' = issued + 1 /\ pending_callback' = issued + 1
        /\ UNCHANGED <<connected, read_buf, results, link, queue, inbound, faults>>
    BY <1>2 DEF Request, server
  <2>2. issued + 1 \in 0..N /\ 0 \in 0..N
    BY <1>1, <2>1
  <2>3. PICK at \in {"write", "resolve"} : chains' = chains \cup {Chain(issued + 1, at)}
    BY <1>2 DEF Request
  <2>4. ChainsOK'
    <3> DEFINE d == Chain(issued + 1, at)
    <3>1. d \in ChainSet /\ d.at # "body" /\ d.block = <<>>
      BY <1>1, <2>2 DEF Chain, ChainSet, Before
    <3> HIDE DEF d
    <3> QED
      BY <2>3, <3>1 DEF Types, ChainsOK, d
  <2>5. pending_request' \in 0..N
    BY <1>2, <2>2 DEF Request
  <2>6. Ordered'
    <3>0. \A i \in 1..Len(results) : results[i] \in ResultSet
      BY ElementOfSeq DEF Types
    <3>1. \A i \in 1..Len(results) : results[i].for <= issued /\ results[i].for \in Nat
      BY <3>0, <1>1 DEF Ordered, ResultSet
    <3>2. \A i \in 1..Len(results) : results[i].for <= issued + 1 /\ results[i].for < issued + 1
      BY <1>1, <3>1
    <3> QED
      BY <2>1, <3>2 DEF Ordered, CalledOnceInOrder
  <2> QED
    BY <2>1, <2>2, <2>4, <2>5, <2>6 DEF Types
<1>3. CASE ServerSend
  <2>1. /\ queue # <<>> /\ inbound' = Append(inbound, Head(queue)) /\ queue' = Tail(queue)
        /\ UNCHANGED <<issued, connected, read_buf, pending_request, pending_callback,
                       chains, results, link, faults>>
    BY <1>3 DEF ServerSend
  <2>2. inbound' \in Seq(Units) /\ queue' \in Seq(Units)
    BY <1>1, <2>1, HeadTailProperties, AppendProperties
  <2> QED
    BY <2>1, <2>2, NoCallbackStep DEF Types, ChainsOK
<1>4. CASE ServerClose
  <2>1. /\ link' \in {"eof", "reset"} /\ queue' = <<>>
        /\ UNCHANGED <<issued, connected, read_buf, pending_request, pending_callback,
                       chains, results, inbound, faults>>
    BY <1>4 DEF ServerClose
  <2> QED
    BY <1>1, <2>1, NoCallbackStep DEF Types, ChainsOK
<1> QED
  BY <1>2, <1>3, <1>4

LEMMA OInvInit == Init => OInv
<1> SUFFICES ASSUME Init PROVE OInv
  OBVIOUS
<1>1. <<>> \in Seq(Units) /\ <<>> \in Seq(ResultSet) /\ Len(<<>>) = 0 /\ N \in Nat
  BY EmptySeq, ClientAssumption
<1>2. Types
  <2>1. 0 \in 0..N /\ ChainsOK
    BY <1>1, ClientAssumption DEF Init, ChainsOK
  <2> QED
    BY <1>1, <2>1 DEF Init, Types
<1>3. Ordered
  BY <1>1 DEF Init, Ordered, CalledOnceInOrder
<1> QED
  BY <1>2, <1>3 DEF OInv

LEMMA OInvNext == OInv /\ [Next]_vars => OInv'
<1> SUFFICES ASSUME OInv, [Next]_vars PROVE OInv'
  OBVIOUS
<1>1. ASSUME NEW c \in chains, Handle(c) PROVE OInv'
  BY <1>1, HandlerType
<1>2. CASE Request \/ ServerSend \/ ServerClose
  BY <1>2, OtherType
<1>3. CASE UNCHANGED vars
  BY <1>3 DEF vars, OInv, Types, ChainsOK, Ordered, CalledOnceInOrder
<1> QED
  BY <1>1, <1>2, <1>3 DEF Next

(***************************************************************************)
(* One request at a time.                                                  *)
(***************************************************************************)
\* The chain of the request under way is the only one, and its callback is the
\* one that is pending.
LEMMA Alone ==
  ASSUME XInv, NEW c \in chains
  PROVE  /\ chains = {c} /\ c \in ChainSet
         /\ issued \in 1..N /\ pending_callback = issued /\ c.k = issued
         /\ c.at \in Before => pending_request = issued
         /\ \A k \in 1..(issued - 1) : Called(k)
         /\ results \in Seq(ResultSet) /\ Len(results) \in Nat
         /\ \A i \in 1..Len(results) : results[i].for \in 1..(issued - 1)
<1>1. /\ issued \in 0..N /\ N \in Nat /\ chains \subseteq ChainSet
      /\ results \in Seq(ResultSet) /\ Len(results) \in Nat
  BY LenProperties, ClientAssumption DEF XInv, OInv, Types, ChainsOK
<1>2. PICK d \in chains :
        /\ chains = {d}
        /\ issued >= 1 /\ pending_callback = issued /\ d.k = issued
        /\ d.at \in Before => pending_request = issued
        /\ \A k \in 1..(issued - 1) : Called(k)
  BY DEF XInv, Exclusive
<1>3. d = c /\ issued \in 1..N
  BY <1>1, <1>2
<1>4. ASSUME NEW i \in 1..Len(results) PROVE results[i].for \in 1..(issued - 1)
  <2>1. results[i] \in ResultSet
    BY <1>1, ElementOfSeq
  <2>2. results[i].for < issued
    BY <1>2, <1>3 DEF XInv, OInv, Ordered
  <2> QED
    BY <1>1, <2>1, <2>2 DEF ResultSet
<1> QED
  BY <1>1, <1>2, <1>3, <1>4

\* An exchange that ends, with response x for its callback.
LEMMA ExchangeEnds ==
  ASSUME XInv, NEW c \in chains, NEW x \in 0..N, InvokeCallback(x),
         chains' = chains \ {c}, issued' = issued, unframed' = unframed,
         faults \subseteq faults', faults' \subseteq faults \cup {c.k},
         Clean(c.k) => x = IF c.k \in faults' THEN 0 ELSE c.k,
         (\A j \in 1..c.k : j \notin faults' \cup unframed) => Drained'
  PROVE  Exclusive' /\ Past' /\ OnlyOwn' /\ OwnResponseWhileClean'
<1> DEFINE new == [for |-> issued, with |-> x]
<1>1. /\ chains = {c} /\ issued \in 1..N /\ N \in Nat
      /\ pending_callback = issued /\ c.k = issued
      /\ \A k \in 1..(issued - 1) : Called(k)
      /\ results \in Seq(ResultSet) /\ Len(results) \in Nat
      /\ \A i \in 1..Len(results) : results[i].for \in 1..(issued - 1)
  BY Alone, ClientAssumption
<1>2. results' = Append(results, new) /\ pending_callback' = 0 /\ chains' = {}
  BY <1>1 DEF InvokeCallback
<1>3. new \in ResultSet /\ new.for = issued /\ new.with = x
  BY <1>1 DEF ResultSet
<1> HIDE DEF new
<1>4. /\ Len(results') = Len(results) + 1
      /\ \A i \in 1..Len(results) : results'[i] = results[i]
      /\ results'[Len(results) + 1] = new
  BY <1>1, <1>2, <1>3, AppendProperties
<1>5. Exclusive'
  <2>1. ASSUME NEW k \in 1..issued
        PROVE  \E i \in 1..Len(results') : results'[i].for = k
    <3>1. CASE k = issued
      <4>1. Len(results) + 1 \in 1..Len(results')
        BY <1>1, <1>4
      <4> QED
        BY <1>3, <1>4, <3>1, <4>1
    <3>2. CASE k # issued
      <4>1. PICK i \in 1..Len(results) : results[i].for = k
        BY <1>1, <3>2 DEF Called
      <4>2. i \in 1..Len(results') /\ results'[i].for = k
        BY <1>1, <1>4, <4>1
      <4> QED
        BY <4>2
    <3> QED
      BY <3>1, <3>2
  <2> QED
    BY <1>2, <2>1 DEF Exclusive, Called
<1>6. Past'
  BY <1>1 DEF XInv, Past
<1>7. OnlyOwn'
  BY <1>1, <1>2 DEF OnlyOwn, Clean
<1>8. OwnResponseWhileClean'
  <2>1. ASSUME NEW i \in 1..Len(results'),
               \A j \in 1..(results'[i].for - 1) : j \notin faults' \cup unframed'
        PROVE  results'[i].with = IF results'[i].for \in faults' THEN 0 ELSE results'[i].for
    <3>1. CASE i \in 1..Len(results)
      <4> DEFINE k == results[i].for
      <4>1. results'[i] = results[i] /\ k \in 1..(issued - 1)
        BY <1>1, <1>4, <3>1
      <4>2. \A j \in 1..(k - 1) : j \notin faults \cup unframed
        BY <2>1, <4>1
      <4>3. results[i].with = IF k \in faults THEN 0 ELSE k
        BY <3>1, <4>2 DEF XInv, OwnResponseWhileClean
      <4>4. k # c.k
        BY <1>1, <4>1
      <4>5. k \in faults' <=> k \in faults
        BY <4>4
      <4> QED
        BY <4>1, <4>3, <4>5
    <3>2. CASE i = Len(results) + 1
      <4>1. results'[i].for = c.k /\ results'[i].with = x
        BY <1>1, <1>3, <1>4, <3>2
      <4>2. Clean(c.k)
        BY <2>1, <4>1 DEF Clean
      <4> QED
        BY <4>1, <4>2
    <3> QED
      BY <1>1, <1>4, <3>1, <3>2
  <2> QED
    BY <2>1 DEF OwnResponseWhileClean
<1> QED
  BY <1>5, <1>6, <1>7, <1>8

\* An exchange that ends because a handler was called with an error.
LEMMA ExchangeFails ==
  ASSUME XInv, NEW c \in chains, Failed(c), issued' = issued, unframed' = unframed
  PROVE  Exclusive' /\ Past' /\ OnlyOwn' /\ OwnResponseWhileClean'
<1>1. InvokeCallback(0) /\ chains' = chains \ {c} /\ faults' = faults \cup {c.k}
  BY DEF Failed
<1>2. c.k \in 1..c.k /\ 0 \in 0..N
  BY Alone, ClientAssumption
<1> QED
  BY <1>1, <1>2, ExchangeEnds

\* An exchange that goes on: chain c becomes d.
LEMMA ExchangeGoesOn ==
  ASSUME XInv, NEW c \in chains, NEW d, d.k = c.k, chains' = (chains \ {c}) \cup {d},
         UNCHANGED <<issued, pending_callback, results, faults>>,
         unframed \subseteq unframed', unframed' \subseteq unframed \cup {c.k},
         d.at \in Before => pending_request' = issued,
         Clean(c.k) =>
           /\ d.at \in Before \cup {"write"} => Drained'
           /\ d.at \in Reading => Holds(d, read_buf', inbound', queue', unframed')
  PROVE  Exclusive' /\ Past' /\ OnlyOwn' /\ OwnResponseWhileClean'
<1>1. /\ chains = {c} /\ chains' = {d} /\ issued \in 1..N /\ N \in Nat
      /\ pending_callback = issued /\ c.k = issued
      /\ \A k \in 1..(issued - 1) : Called(k)
  BY Alone, ClientAssumption
<1>2. Exclusive'
  BY <1>1 DEF Exclusive, Called
<1>3. Past'
  BY <1>1 DEF XInv, Past
<1>4. OnlyOwn'
  <2>1. (\A j \in 1..(c.k - 1) : j \notin faults' \cup unframed') => Clean(c.k)
    BY DEF Clean
  <2>2. c.k \notin faults
    BY DEF XInv, OnlyOwn
  <2> QED
    BY <1>1, <2>1, <2>2 DEF OnlyOwn, Clean
<1>5. OwnResponseWhileClean'
  BY DEF XInv, OwnResponseWhileClean
<1> QED
  BY <1>2, <1>3, <1>4, <1>5

(***************************************************************************)
(* The reads, while nothing has gone wrong.                                *)
(***************************************************************************)
\* A read moves the cut between the buffer and the link.
LEMMA ReadMoves ==
  ASSUME OInv, NEW c \in chains, NEW r \in Responses \cup {Empty},
         NEW p \in 0..(r.n + 1), NEW q \in 0..(r.n + 1), NEW e \in 0..(r.n + 1),
         LiesAt(c, r, p, q, e, read_buf, inbound, queue),
         NEW n \in 0..Len(inbound)
  PROVE  /\ p + n \in 0..(r.n + 1) /\ r.n \in Nat
         /\ LiesAt(c, r, p + n, q, e, read_buf \o SubSeq(inbound, 1, n),
                   SubSeq(inbound, n + 1, Len(inbound)), queue)
         /\ Len(read_buf \o SubSeq(inbound, 1, n)) = (p + n) - (IF c.at = "body" THEN 1 ELSE 0)
<1> DEFINE F == ResponseUnits(c.k, r)
           o == IF c.at = "body" THEN 1 ELSE 0
<1>0. /\ o <= p /\ p <= q /\ q <= e /\ e <= r.n + 1 /\ o \in Nat
      /\ read_buf = SubSeq(F, o + 1, p) /\ inbound = SubSeq(F, p + 1, q)
      /\ queue = SubSeq(F, q + 1, e)
      /\ c.at = "body" => c.block = <<HeadUnit(c.k, r)>> /\ r.stated
  BY DEF LiesAt
<1>1. c.k \in 0..N
  BY DEF OInv, Types, ChainsOK, ChainSet
<1>2. /\ F \in Seq(Units) /\ Len(F) = r.n + 1 /\ r.n \in Nat
      /\ F[1] = HeadUnit(c.k, r)
  BY <1>1, ResponseUnitsType
<1> HIDE DEF F, o
<1>3. /\ p \in Nat /\ q \in Nat /\ e \in Nat /\ o \in Nat
      /\ o <= p /\ p <= q /\ q <= Len(F) /\ p <= Len(F)
  BY <1>0, <1>2
<1>4. Adjacent(F, o, p, q, read_buf, inbound)
  BY <1>0, <1>3 DEF Adjacent
<1> DEFINE buf == read_buf \o SubSeq(inbound, 1, n)
           new == SubSeq(inbound, n + 1, Len(inbound))
           m   == p + n
<1>5. m \in Nat /\ Adjacent(F, o, m, q, buf, new) /\ Len(buf) = m - o
  <2>1. n \in Nat /\ n <= Len(inbound) /\ F \in Seq(Units)
    BY <1>2, Bytes
  <2> QED
    BY ONLY <1>3, <1>4, <2>1, MoveCut
<1> HIDE DEF buf, new, m
<1>6. m \in 0..(r.n + 1)
  BY <1>2, <1>5 DEF Adjacent
<1>7. LiesAt(c, r, m, q, e, buf, new, queue)
  BY <1>0, <1>5 DEF LiesAt, F, o, Adjacent
<1>8. /\ m \in 0..(r.n + 1) /\ r.n \in Nat
      /\ LiesAt(c, r, m, q, e, buf, new, queue) /\ Len(buf) = m - o
  BY <1>2, <1>5, <1>6, <1>7
<1> QED
  BY <1>8 DEF o, buf, new, m

\* What a cut of length zero means for the three places.
LEMMA AllTaken ==
  ASSUME NEW F, NEW n \in Nat, NEW p, NEW q, NEW e,
         p = n, q = n, e = n, inbound' = SubSeq(F, p + 1, q), queue' = SubSeq(F, q + 1, e),
         read_buf' = <<>>
  PROVE  Drained'
  BY EmptyCut DEF Drained

\* The read of a header.
LEMMA HeaderReadX ==
  ASSUME XInv, NEW c \in chains, OnHeaderRead(c)
  PROVE  Exclusive' /\ Past' /\ OnlyOwn' /\ OwnResponseWhileClean'
<1>1. /\ c.at = "header" /\ UNCHANGED <<issued, pending_request, link, queue, unframed>>
  BY DEF OnHeaderRead
<1>2. PICK n \in 0..Len(inbound) :
        LET buf == read_buf \o SubSeq(inbound, 1, n)
        IN  /\ Take(n)
            /\ \/ /\ read_buf' = buf
                  /\ UNCHANGED <<connected, pending_callback, chains, results, faults>>
               \/ \E i \in 1..Len(buf) :
                    /\ buf[i].head /\ \A j \in 1..(i - 1) : ~ buf[j].head
                    /\ ProcessResponse(c, buf, i)
  BY DEF OnHeaderRead
<1> DEFINE buf == read_buf \o SubSeq(inbound, 1, n)
<1>3. OInv /\ c \in ChainSet /\ c.k \in 1..N /\ issued = c.k /\ chains = {c}
  BY Alone DEF XInv
<1>4. buf \in Seq(Units) /\ Len(buf) \in Nat
  <2>1. buf \in Seq(Units)
    BY <1>3, Bytes
  <2> QED
    BY <2>1, LenProperties
\* While nothing has gone wrong the buffer is the front of one response.
<1>5. ASSUME Clean(c.k)
      PROVE  \E r \in Responses \cup {Empty} : \E p, q, e \in Nat :
               LET F == ResponseUnits(c.k, r)
               IN  /\ r.stated \/ r.n = 0 \/ c.k \in unframed
                   /\ F \in Seq(Units) /\ Len(F) = r.n + 1 /\ r.n \in Nat
                   /\ F[1] = HeadUnit(c.k, r)
                   /\ p <= q /\ q <= e /\ e <= r.n + 1
                   /\ buf = SubSeq(F, 1, p) /\ Len(buf) = p
                   /\ inbound' = SubSeq(F, p + 1, q) /\ queue = SubSeq(F, q + 1, e)
  <2>1. Holds(c, read_buf, inbound, queue, unframed)
    BY <1>1, <1>5 DEF XInv, OnlyOwn, Reading
  <2>2. PICK r \in Responses \cup {Empty} :
          /\ r.stated \/ r.n = 0 \/ c.k \in unframed
          /\ \E p, q, e \in 0..(r.n + 1) : LiesAt(c, r, p, q, e, read_buf, inbound, queue)
    BY <2>1 DEF Holds
  <2>3. PICK p \in 0..(r.n + 1), q \in 0..(r.n + 1), e \in 0..(r.n + 1) :
          LiesAt(c, r, p, q, e, read_buf, inbound, queue)
    BY <2>2
  <2> DEFINE F == ResponseUnits(c.k, r)
             m == p + n
  <2>4. /\ F \in Seq(Units) /\ Len(F) = r.n + 1 /\ r.n \in Nat
        /\ F[1] = HeadUnit(c.k, r)
        /\ m \in 0..(r.n + 1)
        /\ LiesAt(c, r, m, q, e, buf, inbound', queue)
        /\ Len(buf) = m - 0
    <3>1. inbound' = SubSeq(inbound, n + 1, Len(inbound))
      BY <1>2 DEF Take
    <3>2. (IF c.at = "body" THEN 1 ELSE 0) = 0
      BY <1>1
    <3>3. c.k \in 0..N
      BY <1>3 DEF ChainSet
    <3> QED
      BY <1>3, <2>3, <3>1, <3>2, <3>3, ReadMoves, ResponseUnitsType
  <2> HIDE DEF buf, m
  <2>5. /\ m \in Nat /\ q \in Nat /\ e \in Nat /\ Len(buf) = m
        /\ m <= q /\ q <= e /\ e <= r.n + 1
        /\ buf = SubSeq(F, 1, m) /\ inbound' = SubSeq(F, m + 1, q)
        /\ queue = SubSeq(F, q + 1, e)
    <3>1. c.at # "body" /\ m - 0 = m /\ 0 + 1 = 1
      BY <1>1, <2>4
    <3>2. /\ m <= q /\ q <= e /\ e <= r.n + 1
          /\ buf = SubSeq(F, 0 + 1, m) /\ inbound' = SubSeq(F, m + 1, q)
          /\ queue = SubSeq(F, q + 1, e)
      BY <2>4, <3>1 DEF LiesAt
    <3> QED
      BY <2>4, <3>1, <3>2
  <2> USE <2>5
  <2> WITNESS r \in Responses \cup {Empty}
  <2> WITNESS m \in Nat, q \in Nat, e \in Nat
  <2> QED
    BY <2>2, <2>4 DEF buf
<1> HIDE DEF buf
<1>6. CASE /\ read_buf' = buf
           /\ UNCHANGED <<connected, pending_callback, chains, results, faults>>
  <2>1. Clean(c.k) => Holds(c, read_buf', inbound', queue', unframed')
    <3>1. SUFFICES ASSUME Clean(c.k)
                   PROVE  \E r \in Responses \cup {Empty} :
                            /\ r.stated \/ r.n = 0 \/ c.k \in unframed
                            /\ \E p, q, e \in 0..(r.n + 1) :
                                 LiesAt(c, r, p, q, e, buf, inbound', queue)
      BY <1>1, <1>6 DEF Holds
    <3>2. PICK r \in Responses \cup {Empty}, p \in Nat, q \in Nat, e \in Nat :
            LET F == ResponseUnits(c.k, r)
            IN  /\ r.stated \/ r.n = 0 \/ c.k \in unframed
                /\ r.n \in Nat /\ p <= q /\ q <= e /\ e <= r.n + 1 /\ buf = SubSeq(F, 1, p)
                /\ inbound' = SubSeq(F, p + 1, q) /\ queue = SubSeq(F, q + 1, e)
      BY <1>5, <3>1
    <3>3. LiesAt(c, r, p, q, e, buf, inbound', queue)
      BY <1>1, <3>2 DEF LiesAt
    <3>4. p \in 0..(r.n + 1) /\ q \in 0..(r.n + 1) /\ e \in 0..(r.n + 1)
      BY <3>2
    <3> QED
      BY <3>2, <3>3, <3>4
  <2>2. chains' = (chains \ {c}) \cup {c}
    BY <1>6
  <2> QED
    BY <1>1, <1>6, <2>1, <2>2, ExchangeGoesOn DEF Before
<1>7. ASSUME NEW i \in 1..Len(buf), buf[i].head, \A j \in 1..(i - 1) : ~ buf[j].head,
             ProcessResponse(c, buf, i)
      PROVE  Exclusive' /\ Past' /\ OnlyOwn' /\ OwnResponseWhileClean'
  <2> DEFINE head == buf[i]
             rest == SubSeq(buf, i + 1, Len(buf))
             len  == ContentLen(head)
  <2>1. head \in Units /\ len \in Nat /\ head.of \in 0..N
    BY <1>4, <1>7, ElementOfSeq, ContentLenType
  <2>2. c.k \notin faults
    BY DEF XInv, OnlyOwn
  \* In that case the header is the first unit of the response.
  <2>3. ASSUME Clean(c.k)
        PROVE  \E r \in Responses \cup {Empty} : \E p, q, e \in Nat :
                 LET F == ResponseUnits(c.k, r)
                 IN  /\ r.stated \/ r.n = 0 \/ c.k \in unframed
                     /\ i = 1 /\ head = HeadUnit(c.k, r) /\ r.n \in Nat
                     /\ 1 <= p /\ p <= q /\ q <= e /\ e <= r.n + 1
                     /\ rest = SubSeq(F, 2, p) /\ Len(rest) = p - 1
                     /\ inbound' = SubSeq(F, p + 1, q) /\ queue = SubSeq(F, q + 1, e)
    <3>1. PICK r \in Responses \cup {Empty}, p \in Nat, q \in Nat, e \in Nat :
            LET F == ResponseUnits(c.k, r)
            IN  /\ r.stated \/ r.n = 0 \/ c.k \in unframed
                /\ F \in Seq(Units) /\ Len(F) = r.n + 1 /\ r.n \in Nat
                /\ F[1] = HeadUnit(c.k, r)
                /\ p <= q /\ q <= e /\ e <= r.n + 1 /\ buf = SubSeq(F, 1, p) /\ Len(buf) = p
                /\ inbound' = SubSeq(F, p + 1, q) /\ queue = SubSeq(F, q + 1, e)
      BY <1>5, <2>3
    <3> DEFINE F == ResponseUnits(c.k, r)
    <3>2. /\ F \in Seq(Units) /\ Len(F) = r.n + 1 /\ r.n \in Nat /\ p \in Nat /\ p <= Len(F)
          /\ F[1] = HeadUnit(c.k, r) /\ buf = SubSeq(F, 1, p) /\ p = Len(buf)
      BY <3>1
    <3> HIDE DEF F
    <3>3. p \in 1..Len(F) /\ p >= 1
      BY <1>4, <1>7, <3>2
    <3>4. /\ buf[1] = F[1] /\ SubSeq(buf, 2, p) = SubSeq(F, 2, p)
          /\ Len(SubSeq(F, 2, p)) = p - 1
      BY <3>2, <3>3, WithoutFirst
    <3>5. i = 1
      <4>1. buf[1].head
        BY <3>2, <3>4 DEF HeadUnit
      <4> QED
        BY <1>7, <4>1
    <3>6. rest = SubSeq(F, 2, p) /\ Len(rest) = p - 1
      BY <3>2, <3>4, <3>5
    <3> HIDE DEF rest
    <3> QED
      BY <3>1, <3>2, <3>3, <3>4, <3>5, <3>6 DEF F
  <2>4. \/ /\ i > 1 \/ ~ head.r.parses
           /\ InvokeCallback(0) /\ chains' = chains \ {c}
           /\ faults' = faults \cup (IF head.r.parses THEN {} ELSE {c.k})
        \/ /\ len <= Len(rest) /\ Finish(c, head, SubSeq(rest, len + 1, Len(rest)))
           /\ UNCHANGED faults
        \/ /\ len > Len(rest) /\ read_buf' = rest
           /\ chains' = (chains \ {c}) \cup {[c EXCEPT !.at = "body", !.block = <<head>>]}
           /\ UNCHANGED <<connected, results, pending_callback, faults>>
    BY <1>7 DEF ProcessResponse
  <2> HIDE DEF head, rest, len
  <2>5. CASE /\ i > 1 \/ ~ head.r.parses
             /\ InvokeCallback(0) /\ chains' = chains \ {c}
             /\ faults' = faults \cup (IF head.r.parses THEN {} ELSE {c.k})
    <3>1. Clean(c.k) => ~ head.r.parses
      BY <2>3, <2>5
    <3>2. Clean(c.k) => 0 = IF c.k \in faults' THEN 0 ELSE c.k
      BY <2>5, <3>1
    <3>3. (\A j \in 1..c.k : j \notin faults' \cup unframed) => Drained'
      <4>1. c.k \in 1..c.k /\ \A j \in 1..(c.k - 1) : j \in 1..c.k
        BY <1>3
      <4>2. faults \subseteq faults'
        BY <2>5
      <4>3. (\A j \in 1..c.k : j \notin faults' \cup unframed) => Clean(c.k)
        BY <4>1, <4>2 DEF Clean
      <4>4. ~ head.r.parses => c.k \in faults'
        BY <2>5
      <4> QED
        BY <3>1, <4>1, <4>3, <4>4
    <3>4. 0 \in 0..N /\ faults \subseteq faults' /\ faults' \subseteq faults \cup {c.k}
      BY <2>5, ClientAssumption
    <3> QED
      BY <1>1, <2>5, <3>2, <3>3, <3>4, ExchangeEnds
  <2>6. CASE /\ len <= Len(rest) /\ Finish(c, head, SubSeq(rest, len + 1, Len(rest)))
             /\ UNCHANGED faults
    <3>1. /\ InvokeCallback(head.of) /\ chains' = chains \ {c}
          /\ read_buf' = SubSeq(rest, len + 1, Len(rest))
      BY <2>6 DEF Finish
    <3>2. Clean(c.k) => head.of = IF c.k \in faults' THEN 0 ELSE c.k
      BY <2>2, <2>3, <2>6 DEF HeadUnit
    <3>3. (\A j \in 1..c.k : j \notin faults' \cup unframed) => Drained'
      <4> SUFFICES ASSUME \A j \in 1..c.k : j \notin faults' \cup unframed PROVE Drained'
        OBVIOUS
      <4>1. Clean(c.k) /\ c.k \notin unframed
        <5>1. c.k \in 1..c.k /\ \A j \in 1..(c.k - 1) : j \in 1..c.k
          BY <1>3
        <5> QED
          BY <2>6, <5>1 DEF Clean
      <4>2. PICK r \in Responses \cup {Empty}, p \in Nat, q \in Nat, e \in Nat :
              LET F == ResponseUnits(c.k, r)
              IN  /\ r.stated \/ r.n = 0
                  /\ head = HeadUnit(c.k, r) /\ r.n \in Nat
                  /\ p <= q /\ q <= e /\ e <= r.n + 1 /\ Len(rest) = p - 1
                  /\ inbound' = SubSeq(F, p + 1, q) /\ queue = SubSeq(F, q + 1, e)
        BY <2>3, <4>1
      <4>3. len = r.n
        BY <4>2 DEF len, ContentLen, HeadUnit
      <4>4. /\ p = r.n + 1 /\ q = r.n + 1 /\ e = r.n + 1 /\ r.n + 1 \in Nat
            /\ Len(rest) = r.n
        BY <2>6, <4>2, <4>3
      <4>5. read_buf' = <<>>
        BY <3>1, <4>2, <4>3, <4>4, EmptyCut
      <4>6. queue' = queue
        BY <1>1
      <4> QED
        BY <4>2, <4>4, <4>5, <4>6, AllTaken
    <3> QED
      BY <1>1, <2>1, <2>6, <3>1, <3>2, <3>3, ExchangeEnds
  <2>7. CASE /\ len > Len(rest) /\ read_buf' = rest
             /\ chains' = (chains \ {c}) \cup {[c EXCEPT !.at = "body", !.block = <<head>>]}
             /\ UNCHANGED <<connected, results, pending_callback, faults>>
    <3> DEFINE d == [c EXCEPT !.at = "body", !.block = <<head>>]
    <3>1. d.k = c.k /\ d.at = "body" /\ d.block = <<head>>
      BY <1>3 DEF ChainSet
    <3> HIDE DEF d
    <3>2. Clean(c.k) => Holds(d, read_buf', inbound', queue', unframed')
      <4>1. SUFFICES ASSUME Clean(c.k)
                     PROVE  \E r \in Responses \cup {Empty} :
                              /\ r.stated \/ r.n = 0 \/ d.k \in unframed
                              /\ \E p, q, e \in 0..(r.n + 1) :
                                   LiesAt(d, r, p, q, e, rest, inbound', queue)
        BY <1>1, <2>7 DEF Holds
      <4>2. PICK r \in Responses \cup {Empty}, p \in Nat, q \in Nat, e \in Nat :
              LET F == ResponseUnits(c.k, r)
              IN  /\ r.stated \/ r.n = 0 \/ c.k \in unframed
                  /\ head = HeadUnit(c.k, r) /\ r.n \in Nat
                  /\ 1 <= p /\ p <= q /\ q <= e /\ e <= r.n + 1 /\ rest = SubSeq(F, 2, p) /\ Len(rest) = p - 1
                  /\ inbound' = SubSeq(F, p + 1, q) /\ queue = SubSeq(F, q + 1, e)
        BY <2>3, <4>1
      <4>3. r.stated
        <5>1. len # 0
          BY <2>1, <2>7, <4>2
        <5> QED
          BY <4>2, <5>1 DEF len, ContentLen, HeadUnit
      <4>4. LiesAt(d, r, p, q, e, rest, inbound', queue)
        BY <3>1, <4>2, <4>3 DEF LiesAt
      <4>5. p \in 0..(r.n + 1) /\ q \in 0..(r.n + 1) /\ e \in 0..(r.n + 1)
        BY <4>2
      <4> QED
        BY <4>3, <4>4, <4>5
    <3>3. d.at \notin Before \cup {"write"}
      BY <3>1 DEF Before
    <3> QED
      BY <1>1, <2>7, <3>1, <3>2, <3>3, ExchangeGoesOn DEF d
  <2> QED
    BY <2>4, <2>5, <2>6, <2>7
<1> QED
  BY <1>2, <1>6, <1>7 DEF buf

\* The read of a body.
LEMMA BodyReadX ==
  ASSUME XInv, NEW c \in chains, OnBodyRead(c)
  PROVE  Exclusive' /\ Past' /\ OnlyOwn' /\ OwnResponseWhileClean'
<1>1. /\ c.at = "body"
      /\ UNCHANGED <<issued, pending_request, link, queue, faults, unframed>>
  BY DEF OnBodyRead
<1>2. PICK n \in 1..Len(inbound) :
        LET buf == read_buf \o SubSeq(inbound, 1, n)
            len == ContentLen(c.block[1])
        IN  /\ Take(n)
            /\ \/ /\ read_buf' = buf
                  /\ UNCHANGED <<connected, pending_callback, chains, results>>
               \/ /\ Len(buf) = len
                  /\ Finish(c, c.block[1], SubSeq(buf, len + 1, Len(buf)))
  BY <1>1 DEF OnBodyRead
<1> DEFINE buf  == read_buf \o SubSeq(inbound, 1, n)
           head == c.block[1]
           len  == ContentLen(head)
<1>3. /\ OInv /\ c \in ChainSet /\ c.k \in 0..N /\ c.k \in 1..N /\ issued = c.k
      /\ chains = {c} /\ c.k \notin faults
  BY Alone DEF XInv, OnlyOwn, ChainSet
<1>4. n \in 0..Len(inbound) /\ inbound' = SubSeq(inbound, n + 1, Len(inbound))
  BY <1>2 DEF Take
<1>5. head.of \in 0..N
  <2>1. c.block \in Seq(Units) /\ c.block # <<>>
    BY <1>1, <1>3 DEF OInv, Types, ChainsOK, ChainSet
  <2>2. 1 \in 1..Len(c.block)
    BY <2>1, EmptySeq
  <2>3. head \in Units
    BY <2>1, <2>2, ElementOfSeq
  <2> QED
    BY <2>3, ContentLenType
<1>6. \/ /\ read_buf' = buf
         /\ UNCHANGED <<connected, pending_callback, chains, results>>
      \/ /\ Len(buf) = len
         /\ Finish(c, head, SubSeq(buf, len + 1, Len(buf)))
  BY <1>2
<1> HIDE DEF head, len
\* While nothing has gone wrong the buffer is the front of the body.
<1>7. ASSUME Clean(c.k)
      PROVE  \E r \in Responses \cup {Empty} :
               /\ r.stated \/ r.n = 0 \/ c.k \in unframed
               /\ r.n \in Nat /\ head = HeadUnit(c.k, r) /\ len = r.n
               /\ \E p, q, e \in 0..(r.n + 1) :
                    LiesAt(c, r, p, q, e, buf, inbound', queue) /\ Len(buf) = p - 1
  <2>1. Holds(c, read_buf, inbound, queue, unframed)
    BY <1>1, <1>7 DEF XInv, OnlyOwn, Reading
  <2>2. PICK r \in Responses \cup {Empty} :
          /\ r.stated \/ r.n = 0 \/ c.k \in unframed
          /\ \E p, q, e \in 0..(r.n + 1) : LiesAt(c, r, p, q, e, read_buf, inbound, queue)
    BY <2>1 DEF Holds
  <2>3. PICK p \in 0..(r.n + 1), q \in 0..(r.n + 1), e \in 0..(r.n + 1) :
          LiesAt(c, r, p, q, e, read_buf, inbound, queue)
    BY <2>2
  <2> DEFINE m == p + n
  <2>4. /\ m \in 0..(r.n + 1) /\ r.n \in Nat
        /\ LiesAt(c, r, m, q, e, buf, inbound', queue) /\ Len(buf) = m - 1
    <3>1. (IF c.at = "body" THEN 1 ELSE 0) = 1
      BY <1>1
    <3> QED
      BY <1>3, <1>4, <2>3, <3>1, ReadMoves
  <2> HIDE DEF buf, m
  <2>5. head = HeadUnit(c.k, r) /\ r.stated
    BY <1>1, <2>3 DEF LiesAt, head
  <2>6. len = r.n
    BY <2>5 DEF len, ContentLen, HeadUnit
  <2> QED
    BY <2>2, <2>4, <2>5, <2>6 DEF buf
<1> HIDE DEF buf
<1>8. CASE /\ read_buf' = buf
           /\ UNCHANGED <<connected, pending_callback, chains, results>>
  <2>1. Clean(c.k) => Holds(c, read_buf', inbound', queue', unframed')
    <3>1. SUFFICES ASSUME Clean(c.k)
                   PROVE  \E r \in Responses \cup {Empty} :
                            /\ r.stated \/ r.n = 0 \/ c.k \in unframed
                            /\ \E p, q, e \in 0..(r.n + 1) :
                                 LiesAt(c, r, p, q, e, buf, inbound', queue)
      BY <1>1, <1>8 DEF Holds
    <3> QED
      BY <1>7, <3>1
  <2>2. chains' = (chains \ {c}) \cup {c}
    BY <1>8
  <2> QED
    BY <1>1, <1>8, <2>1, <2>2, ExchangeGoesOn DEF Before
<1>9. CASE /\ Len(buf) = len
           /\ Finish(c, head, SubSeq(buf, len + 1, Len(buf)))
  <2>1. /\ InvokeCallback(head.of) /\ chains' = chains \ {c}
        /\ read_buf' = SubSeq(buf, len + 1, Len(buf))
    BY <1>9 DEF Finish
  <2>2. Clean(c.k) => head.of = IF c.k \in faults' THEN 0 ELSE c.k
    BY <1>1, <1>3, <1>7 DEF HeadUnit
  <2>3. (\A j \in 1..c.k : j \notin faults' \cup unframed) => Drained'
    <3> SUFFICES ASSUME \A j \in 1..c.k : j \notin faults' \cup unframed PROVE Drained'
      OBVIOUS
    <3>1. Clean(c.k)
      <4>1. \A j \in 1..(c.k - 1) : j \in 1..c.k
        BY <1>3
      <4> QED
        BY <1>1, <4>1 DEF Clean
    <3>2. PICK r \in Responses \cup {Empty} :
            /\ r.n \in Nat /\ len = r.n
            /\ \E p, q, e \in 0..(r.n + 1) :
                 LiesAt(c, r, p, q, e, buf, inbound', queue) /\ Len(buf) = p - 1
      BY <1>7, <3>1
    <3>3. PICK p \in 0..(r.n + 1), q \in 0..(r.n + 1), e \in 0..(r.n + 1) :
            LiesAt(c, r, p, q, e, buf, inbound', queue) /\ Len(buf) = p - 1
      BY <3>2
    <3> DEFINE F == ResponseUnits(c.k, r)
    <3>4. /\ p <= q /\ q <= e
          /\ inbound' = SubSeq(F, p + 1, q) /\ queue = SubSeq(F, q + 1, e)
      BY <3>3 DEF LiesAt
    <3> HIDE DEF F
    <3>5. p = r.n + 1 /\ q = r.n + 1 /\ e = r.n + 1 /\ r.n + 1 \in Nat
      <4>1. r.n \in Nat /\ r.n = p - 1
        BY <1>9, <3>2, <3>3
      <4> QED
        BY <3>4, <4>1
    <3>6. read_buf' = <<>>
      BY <1>9, <2>1, <3>2, EmptyCut
    <3>7. queue' = SubSeq(F, q + 1, e)
      BY <1>1, <3>4
    <3> QED
      BY <3>4, <3>5, <3>6, <3>7, AllTaken
  <2> QED
    BY <1>1, <1>5, <2>1, <2>2, <2>3, ExchangeEnds
<1> QED
  BY <1>6, <1>8, <1>9

(***************************************************************************)
(* The other handlers, the application and the server.                     *)
(***************************************************************************)
\* Up to the write of the request.
LEMMA OpeningX ==
  ASSUME XInv, NEW c \in chains,
         OnResolved(c) \/ OnConnected(c) \/ OnHandshake(c) \/ OnError(c)
  PROVE  Exclusive' /\ Past' /\ OnlyOwn' /\ OwnResponseWhileClean'
<1>1. /\ issued' = issued /\ unframed' = unframed /\ read_buf' = read_buf
  BY DEF OnResolved, OnConnected, OnHandshake, OnError
<1>2. CASE Failed(c)
  BY <1>1, <1>2, ExchangeFails
<1>3. /\ c \in ChainSet /\ issued = c.k
      /\ c.at \in Before => pending_request = issued
      /\ Clean(c.k) /\ c.at \in Before => Drained
  BY Alone DEF XInv, OnlyOwn
<1>4. \/ Failed(c)
      \/ /\ c.at \in Before /\ (Drained => Drained')
         /\ UNCHANGED <<results, pending_callback, faults>>
         /\ \/ SendRequest(c)
            \/ \E at \in Before : Continue(c, at) /\ UNCHANGED pending_request
  <2>1. CASE OnResolved(c)
    BY <2>1 DEF OnResolved, Before, Drained, server
  <2>2. CASE OnConnected(c)
    BY <2>2 DEF OnConnected, Before, Drained
  <2>3. CASE OnHandshake(c)
    BY <2>3 DEF OnHandshake, Before, Drained, server
  <2>4. CASE OnError(c)
    BY <2>4 DEF OnError
  <2> QED
    BY <2>1, <2>2, <2>3, <2>4
<1>5. ASSUME c.at \in Before, Drained => Drained',
             UNCHANGED <<results, pending_callback, faults>>,
             \/ SendRequest(c)
             \/ \E at \in Before : Continue(c, at) /\ UNCHANGED pending_request
      PROVE  Exclusive' /\ Past' /\ OnlyOwn' /\ OwnResponseWhileClean'
  <2>1. CASE \E at \in Before : Continue(c, at) /\ UNCHANGED pending_request
    <3>1. PICK at \in Before : Continue(c, at) /\ UNCHANGED pending_request
      BY <2>1
    <3> DEFINE d == [c EXCEPT !.at = at]
    <3>2. d.k = c.k /\ d.at = at /\ chains' = (chains \ {c}) \cup {d}
      BY <1>3, <3>1 DEF ChainSet, Continue
    <3> HIDE DEF d
    <3>3. d.at \notin Reading
      BY <3>1, <3>2 DEF Before, Reading
    <3> QED
      BY <1>1, <1>3, <1>5, <3>1, <3>2, <3>3, ExchangeGoesOn
  <2>2. CASE SendRequest(c)
    <3> DEFINE d == Chain(pending_request, "write")
    <3>1. d.k = c.k /\ d.at = "write" /\ chains' = (chains \ {c}) \cup {d}
      BY <1>3, <1>5, <2>2 DEF Chain, SendRequest
    <3> HIDE DEF d
    <3>2. d.at \notin Reading /\ d.at \notin Before
      BY <3>1 DEF Before, Reading
    <3> QED
      BY <1>1, <1>3, <1>5, <3>1, <3>2, ExchangeGoesOn
  <2> QED
    BY <1>5, <2>1, <2>2
<1> QED
  BY <1>2, <1>4, <1>5

\* A request that was written, and its answer: all of it is with the server.
LEMMA WrittenX ==
  ASSUME XInv, NEW c \in chains, OnWritten(c)
  PROVE  Exclusive' /\ Past' /\ OnlyOwn' /\ OwnResponseWhileClean'
<1>1. /\ c.at = "write" /\ Continue(c, "header")
      /\ UNCHANGED <<issued, connected, read_buf, pending_request, pending_callback,
                     results, link, inbound, faults>>
  BY DEF OnWritten, Written
<1>2. /\ c \in ChainSet /\ c.k \in 1..N /\ c.k \in 0..N /\ queue \in Seq(Units)
  BY Alone DEF XInv, OInv, Types
<1>3. Clean(c.k) => Drained
  BY <1>1 DEF XInv, OnlyOwn
<1> DEFINE d == [c EXCEPT !.at = "header"]
<1>4. d.k = c.k /\ d.at = "header" /\ chains' = (chains \ {c}) \cup {d}
  BY <1>1, <1>2 DEF ChainSet, Continue
<1> HIDE DEF d
<1>5. d.at \notin Before \cup {"write"}
  BY <1>4 DEF Before
<1>6. CASE UNCHANGED <<queue, unframed>>
  <2>1. Clean(c.k) => Holds(d, read_buf', inbound', queue', unframed')
    <3> SUFFICES ASSUME Drained PROVE Holds(d, <<>>, <<>>, <<>>, unframed)
      BY <1>1, <1>3, <1>6 DEF Drained
    <3>1. SubSeq(ResponseUnits(d.k, Empty), 0 + 1, 0) = <<>>
      BY EmptyCut
    <3>2. Empty.n = 0 /\ Empty.stated
      BY DEF Empty
    <3>3. LiesAt(d, Empty, 0, 0, 0, <<>>, <<>>, <<>>)
      BY <1>4, <3>1, <3>2 DEF LiesAt
    <3>4. 0 \in 0..(Empty.n + 1)
      BY <3>2
    <3> QED
      BY <3>2, <3>3, <3>4 DEF Holds
  <2> QED
    BY <1>1, <1>4, <1>5, <1>6, <2>1, ExchangeGoesOn
<1>7. ASSUME NEW r \in Responses, queue' = queue \o ResponseUnits(c.k, r),
             unframed' = IF r.stated \/ r.n = 0 THEN unframed ELSE unframed \cup {c.k}
      PROVE  Exclusive' /\ Past' /\ OnlyOwn' /\ OwnResponseWhileClean'
  <2>1. unframed \subseteq unframed' /\ unframed' \subseteq unframed \cup {c.k}
    BY <1>7
  <2>2. Clean(c.k) => Holds(d, read_buf', inbound', queue', unframed')
    <3> DEFINE F == ResponseUnits(d.k, r)
               e == r.n + 1
    <3>1. F \in Seq(Units) /\ Len(F) = e /\ r.n \in Nat
      BY <1>2, <1>4, ResponseUnitsType
    <3> HIDE DEF F
    <3> SUFFICES ASSUME Drained PROVE Holds(d, <<>>, <<>>, F, unframed')
      <4>1. Drained => queue' = F
        BY <1>4, <1>7, <3>1, ConcatEmptySeq DEF Drained, F
      <4> QED
        BY <1>1, <1>3, <4>1 DEF Drained
    <3>2. SubSeq(F, 0 + 1, 0) = <<>> /\ SubSeq(F, 1, Len(F)) = F
      BY <3>1, EmptyCut, SubSeqFull
    <3>3. SubSeq(F, 0 + 1, e) = F
      BY <3>1, <3>2
    <3>4. LiesAt(d, r, 0, 0, e, <<>>, <<>>, F)
      BY <1>4, <3>1, <3>2, <3>3 DEF LiesAt, F
    <3>5. 0 \in 0..(r.n + 1) /\ e \in 0..(r.n + 1)
      BY <3>1
    <3>6. r.stated \/ r.n = 0 \/ d.k \in unframed'
      BY <1>4, <1>7
    <3> QED
      BY <3>4, <3>5, <3>6 DEF Holds
  <2> QED
    BY <1>1, <1>4, <1>5, <2>1, <2>2, ExchangeGoesOn
<1> QED
  BY <1>6, <1>7 DEF OnWritten

\* The application makes its next request when all have been called back.
LEMMA RequestX ==
  ASSUME XInv, ~ Overlap, Request
  PROVE  Exclusive' /\ Past' /\ OnlyOwn' /\ OwnResponseWhileClean'
<1>1. /\ \A k \in 1..issued : Called(k)
      /\ issued' = issued + 1 /\ pending_callback' = issued + 1
      /\ UNCHANGED <<read_buf, results, link, queue, inbound, faults, unframed>>
  BY DEF Request, server
<1>2. issued \in Nat
  BY ClientAssumption DEF XInv, OInv, Types
<1>3. chains = {}
  <2> SUFFICES ASSUME issued >= 1, pending_callback = issued PROVE FALSE
    BY DEF XInv, Exclusive
  <2>1. PICK i \in 1..Len(results) : results[i].for = issued
    BY <1>1, <1>2 DEF Called
  <2> QED
    BY <1>2, <2>1 DEF XInv, OInv, Ordered
<1>4. PICK d : /\ chains' = {d} /\ d.k = issued + 1 /\ d.at \in {"write", "resolve"}
               /\ d.at = "resolve" => pending_request' = issued + 1
  <2>1. /\ Chain(issued + 1, "write").k = issued + 1 /\ Chain(issued + 1, "write").at = "write"
        /\ Chain(issued + 1, "resolve").k = issued + 1 /\ Chain(issued + 1, "resolve").at = "resolve"
    BY DEF Chain
  <2>2. CASE chains' = chains \cup {Chain(issued + 1, "write")}
    BY <1>3, <2>1, <2>2
  <2>3. CASE chains' = chains \cup {Chain(issued + 1, "resolve")} /\ pending_request' = issued + 1
    BY <1>3, <2>1, <2>3
  <2> QED
    BY <2>2, <2>3 DEF Request
<1>5. Exclusive'
  <2>1. d.at \in Before => d.at = "resolve"
    BY <1>4 DEF Before
  <2>2. (issued + 1) - 1 = issued /\ issued + 1 >= 1
    BY <1>2
  <2> QED
    BY <1>1, <1>4, <2>1, <2>2 DEF Exclusive, Called
<1>6. Past'
  <2>1. \A k \in faults : k <= issued + 1
    BY <1>2 DEF XInv, OInv, Types, Past
  <2>2. unframed \subseteq 1..(issued + 1)
    BY <1>2 DEF XInv, Past
  <2> QED
    BY <1>1, <2>1, <2>2 DEF Past
<1>7. OnlyOwn'
  <2>1. d.k \notin faults
    BY <1>2, <1>4 DEF XInv, Past
  <2>2. Clean(d.k) => Drained
    BY <1>3, <1>4 DEF XInv, OnlyOwn
  <2>3. d.at \notin Reading
    BY <1>4 DEF Reading
  <2> QED
    BY <1>1, <1>4, <2>1, <2>2, <2>3 DEF OnlyOwn, Clean, Drained
<1>8. OwnResponseWhileClean'
  BY <1>1 DEF XInv, OwnResponseWhileClean
<1> QED
  BY <1>5, <1>6, <1>7, <1>8

\* The server moves what it has still to send, or drops it.
LEMMA ServerX ==
  ASSUME XInv, ServerSend \/ ServerClose
  PROVE  Exclusive' /\ Past' /\ OnlyOwn' /\ OwnResponseWhileClean'
<1>1. UNCHANGED <<issued, connected, read_buf, pending_request, pending_callback, chains,
                  results, faults, unframed>>
  BY DEF ServerSend, ServerClose
<1>2. Exclusive' /\ Past' /\ OwnResponseWhileClean'
  BY <1>1 DEF XInv, Exclusive, Past, OwnResponseWhileClean, Called
<1>3. Drained => Drained'
  BY <1>1 DEF ServerSend, ServerClose, Drained
<1>4. ASSUME NEW c \in chains, NEW r \in Responses \cup {Empty},
             NEW p \in 0..(r.n + 1), NEW q \in 0..(r.n + 1), NEW e \in 0..(r.n + 1),
             LiesAt(c, r, p, q, e, read_buf, inbound, queue)
      PROVE  \E s, t \in 0..(r.n + 1) : LiesAt(c, r, p, s, t, read_buf', inbound', queue')
  <2> DEFINE F == ResponseUnits(c.k, r)
  <2>1. c.k \in 0..N
    BY DEF XInv, OInv, Types, ChainsOK, ChainSet
  <2>2. F \in Seq(Units) /\ Len(F) = r.n + 1 /\ r.n \in Nat
    BY <2>1, ResponseUnitsType
  <2>3. /\ p <= q /\ q <= e /\ e <= r.n + 1 /\ p \in Nat /\ q \in Nat /\ e \in Nat
        /\ inbound = SubSeq(F, p + 1, q) /\ queue = SubSeq(F, q + 1, e)
    BY <2>2, <1>4 DEF LiesAt
  <2> HIDE DEF F
  <2>4. CASE ServerSend
    <3> DEFINE m == q + 1
    <3>0. m \in Nat /\ F \in Seq(Units) /\ p \in Nat /\ q \in Nat /\ e \in Nat /\ p <= q
      BY <2>2, <2>3
    <3>1. inbound' = Append(inbound, Head(queue)) /\ queue' = Tail(queue) /\ queue # <<>>
      BY <2>4 DEF ServerSend
    <3>2. q < e
      <4>1. q = e => queue = <<>>
        BY <2>3, EmptyCut
      <4> QED
        BY <2>3, <3>1, <4>1
    <3>3. inbound' = SubSeq(F, p + 1, m) /\ queue' = SubSeq(F, m + 1, e)
      <4>1. /\ Append(SubSeq(F, p + 1, q), Head(SubSeq(F, q + 1, e))) = SubSeq(F, p + 1, m)
            /\ Tail(SubSeq(F, q + 1, e)) = SubSeq(F, m + 1, e)
        <5>1. e <= Len(F)
          BY <2>2, <2>3
        <5> QED
          BY ONLY <3>0, <3>2, <5>1, MoveHead
      <4> QED
        BY <2>3, <3>1, <4>1
    <3>4. m \in 0..(r.n + 1) /\ p <= m /\ m <= e
      BY <2>2, <2>3, <3>2
    <3> HIDE DEF m
    <3>5. LiesAt(c, r, p, m, e, read_buf', inbound', queue')
      BY <1>1, <1>4, <3>3, <3>4 DEF LiesAt, F
    <3> QED
      BY <3>4, <3>5
  <2>5. CASE ServerClose
    <3>1. inbound' = inbound /\ queue' = <<>> /\ SubSeq(F, q + 1, q) = <<>>
      BY <2>3, <2>5, EmptyCut DEF ServerClose
    <3>2. q <= q /\ q <= r.n + 1
      BY <2>2, <2>3
    <3>3. LiesAt(c, r, p, q, q, read_buf', inbound', queue')
      BY <1>1, <1>4, <3>1, <3>2 DEF LiesAt, F
    <3> QED
      BY <3>3
  <2> QED
    BY <2>4, <2>5
<1>5. ASSUME NEW c \in chains, Holds(c, read_buf, inbound, queue, unframed)
      PROVE  Holds(c, read_buf', inbound', queue', unframed')
  <2>1. PICK r \in Responses \cup {Empty} :
          /\ r.stated \/ r.n = 0 \/ c.k \in unframed
          /\ \E p, q, e \in 0..(r.n + 1) : LiesAt(c, r, p, q, e, read_buf, inbound, queue)
    BY <1>5 DEF Holds
  <2>2. \E p, q, e \in 0..(r.n + 1) : LiesAt(c, r, p, q, e, read_buf', inbound', queue')
    BY <1>4, <2>1
  <2> QED
    BY <1>1, <2>1, <2>2 DEF Holds
<1>6. OnlyOwn'
  BY <1>1, <1>3, <1>5 DEF XInv, OnlyOwn, Clean
<1> QED
  BY <1>2, <1>6

LEMMA XInvInit == Init => XInv
<1> SUFFICES ASSUME Init PROVE XInv
  OBVIOUS
<1>1. OInv
  BY OInvInit
<1>2. Exclusive /\ Past
  BY DEF Init, Exclusive, Past
<1>3. OnlyOwn
  BY DEF Init, OnlyOwn, Drained
<1>4. OwnResponseWhileClean
  BY EmptySeq DEF Init, OwnResponseWhileClean
<1> QED
  BY <1>1, <1>2, <1>3, <1>4 DEF XInv

LEMMA XInvNext == ~ Overlap /\ XInv /\ [Next]_vars => XInv'
<1> SUFFICES ASSUME ~ Overlap, XInv, [Next]_vars PROVE XInv'
  OBVIOUS
<1>1. OInv'
  BY OInvNext DEF XInv
<1>2. ASSUME NEW c \in chains, Handle(c)
      PROVE  Exclusive' /\ Past' /\ OnlyOwn' /\ OwnResponseWhileClean'
  BY <1>2, OpeningX, WrittenX, HeaderReadX, BodyReadX DEF Handle
<1>3. CASE UNCHANGED vars
  <2>1. Exclusive' /\ Past'
    BY <1>3 DEF vars, XInv, Exclusive, Past, Called
  <2>2. OnlyOwn'
    BY <1>3 DEF vars, XInv, OnlyOwn, Clean, Drained
  <2>3. OwnResponseWhileClean'
    BY <1>3 DEF vars, XInv, OwnResponseWhileClean
  <2> QED
    BY <1>1, <2>1, <2>2, <2>3 DEF XInv
<1> QED
  BY <1>1, <1>2, <1>3, RequestX, ServerX DEF Next, XInv

(***************************************************************************)
(* The theorems.                                                           *)
(***************************************************************************)
\* The buffers hold units, a chain holds a header block exactly while it waits
\* for the body, and the callbacks stay in the order of the requests.
THEOREM OrderInvariance == Spec => []OInv
  BY OInvInit, OInvNext, PTL DEF Spec

\* invoke_callback and the error handlers keep every variable in its type,
\* whatever the server answers and however the calls of request() overlap.
THEOREM TypeCorrect == Spec => []TypeOK
<1>1. OInv => TypeOK
  <2> SUFFICES ASSUME OInv PROVE TypeOK
    OBVIOUS
  <2>1. /\ Types /\ Ordered /\ N \in Nat
    BY ClientAssumption DEF OInv
  <2>2. pending_callback \in 0..N
    BY <2>1, ClientAssumption DEF Types, Ordered
  <2>3. ASSUME NEW i \in 1..Len(results)
        PROVE  results[i].for \in 1..N /\ results[i].with \in 0..N
    <3>1. results[i] \in ResultSet
      BY <2>1, ElementOfSeq DEF Types
    <3> QED
      BY <3>1 DEF ResultSet
  <2>4. ASSUME NEW c \in chains
        PROVE  /\ c.k \in 0..N
               /\ c.at \in {"resolve", "connect", "handshake", "write", "header", "body"}
               /\ (c.at = "body") = (c.block # <<>>)
    BY <2>1 DEF Types, ChainsOK, ChainSet, Before, Reading
  <2> QED
    BY <2>1, <2>2, <2>3, <2>4 DEF Types, TypeOK
<1> QED
  BY <1>1, OrderInvariance, PTL

\* No callback is invoked twice and none before an earlier one: an error that
\* two handlers of one exchange see is reported once, even when the application
\* calls request() while an exchange is under way (client.hpp:128).
THEOREM CallbacksInOrder == Spec => []CalledOnceInOrder
<1>1. OInv => CalledOnceInOrder
  BY DEF OInv, Ordered
<1> QED
  BY <1>1, OrderInvariance, PTL

\* One exchange at a time, with nothing on its way but its own response.
THEOREM Invariance == ~ Overlap => (Spec => []XInv)
<1>1. ASSUME ~ Overlap PROVE Init => XInv
  BY XInvInit
<1>2. ASSUME ~ Overlap PROVE XInv /\ [Next]_vars => XInv'
  BY <1>2, XInvNext
<1> SUFFICES ASSUME ~ Overlap PROVE Spec => []XInv
  OBVIOUS
<1> QED
  BY <1>1, <1>2, PTL DEF Spec

\* An application that waits for each callback gets every one: every request
\* made has been called back or is the pending one.
THEOREM NoneLost == ~ Overlap => (Spec => []NoCallbackLost)
<1>1. XInv => NoCallbackLost
  <2> SUFFICES ASSUME XInv, NEW k \in 1..issued PROVE Called(k) \/ pending_callback = k
    BY DEF NoCallbackLost
  <2>1. issued \in Nat
    BY ClientAssumption DEF XInv, OInv, Types
  <2> QED
    BY <2>1 DEF XInv, Exclusive
<1> SUFFICES ASSUME ~ Overlap PROVE Spec => []NoCallbackLost
  OBVIOUS
<1> QED
  BY <1>1, Invariance, PTL

\* As long as nothing has failed and every response so far stated its length,
\* each callback gets the response to its own request, however the pieces of
\* the responses fall into reads (processResponse, client.hpp:177).
THEOREM OwnResponse == ~ Overlap => (Spec => []OwnResponseWhileClean)
<1>1. XInv => OwnResponseWhileClean
  BY DEF XInv
<1> SUFFICES ASSUME ~ Overlap PROVE Spec => []OwnResponseWhileClean
  OBVIOUS
<1> QED
  BY <1>1, Invariance, PTL
===============================================================================
