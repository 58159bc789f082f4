--------------------------- MODULE ExchangeProofs ---------------------------
(***************************************************************************)
(* Proofs about Exchange, for any number of requests, of any kind that     *)
(* RequestBuilder makes, and any limits of the server: what the client and *)
(* the server take for the state of the exchange under way is the same, so *)
(* that what the callbacks are told is true.                               *)
(***************************************************************************)
EXTENDS Exchange, SliceLemmas

(***************************************************************************)
(* The inductive invariant.                                                *)
(***************************************************************************)
RespUnit == [of : Nat, head : BOOLEAN, r : Client!ResponseSet]

Steps == {"resolve", "connect", "handshake", "write", "header", "body"}
ChainSet == [k : Nat, at : Steps, block : Seq(RespUnit)]

\* The chain has been given its connection.
Sending(c) == c.at \in {"write", "header", "body"}

\* How many requests the client has started to write.
Started == IF \E c \in chains : Sending(c) THEN issued ELSE Len(results)

\* The request the server answers next, and whether it may go on to answer it.
NextUp == IF stream = <<>> THEN 0 ELSE stream[1].owner + Len(answers)

Going == pc \in {"header", "body"} \/ (pc = "write" /\ keep_alive)

\* The Connection header of its last response.
Says == IF answers = <<>> THEN "nothing" ELSE answers[Len(answers)].says

\* The units of the requests up to k are the first t of s.
Upto(s, k, t) == \A j \in 1..Len(s) : s[j].owner <= k <=> j <= t

\* A stream whose units are for the requests from k on, each of them tidy.
Remainder(s, k) ==
  /\ s \in Seq(Unit) /\ Len(s) >= 1
  /\ Server!InOrder(s)
  /\ \A j \in 1..Len(s) : s[j].owner \in Nat /\ s[j].owner <= N
  /\ s[1].owner = k
  /\ \A m \in k..N : Tidy(s, m)

ClientTypes ==
  /\ issued \in 0..N /\ connected \in BOOLEAN
  /\ pending_request \in Nat /\ pending_callback \in Nat
  /\ read_buf \in Seq(RespUnit) /\ inbound \in Seq(RespUnit) /\ queue \in Seq(RespUnit)
  /\ results \in Seq([for : Nat, with : Nat])
  /\ chains \subseteq ChainSet
  /\ link \in {"none", "up", "eof", "reset"}

ServerTypes ==
  /\ plan \in Plans
  /\ stream \in Seq(Unit)
  /\ sent \in Nat /\ sent <= Len(stream) /\ got \in Nat /\ got <= sent
  /\ peer = "open"
  /\ srv_buf \in Seq(Unit) /\ header_str \in Seq(Unit)
  /\ pc \in {"header", "body", "write", "upgradeWrite", "shutdown", "dropped", "upgraded", "threw"}
  /\ keep_alive \in BOOLEAN /\ requests_served \in Nat
  /\ answers \in Seq(Server!AnswerSet)
  /\ handled \in Seq(Nat)

\* The client makes one request after the other, each with one chain.
Numbered ==
  /\ \A c \in chains :
       /\ c.k = issued /\ issued >= 1 /\ pending_callback = issued
       /\ c.at # "handshake"
       /\ c.at = "body" => c.block # <<>>
       /\ Sending(c) => connected
       /\ ~ Sending(c) => ~ connected /\ pending_request = issued
  /\ \A c, d \in chains : c = d
  /\ chains = {} => pending_callback = 0 /\ Len(results) = issued
  /\ chains # {} => Len(results) = issued - 1
  /\ \A i \in 1..Len(results) : results[i].for = i
  /\ torn \subseteq 1..Len(results)

\* What the server has of the stream was written by the client; the stream is
\* what remained of the plan when the connection was made.
StreamOK ==
  /\ stream = <<>> => pc = "shutdown" /\ answers = <<>>
  /\ connected => link # "none" /\ stream # <<>>
  /\ stream # <<>> => Remainder(stream, stream[1].owner)
  /\ \A u \in 1..sent : stream[u].owner <= Started

\* The server stands at the end of a request: what it has taken off the stream
\* are the requests before NextUp, and what it holds is what follows them.
Aligned ==
  Going => \E t, q \in Nat :
             /\ Adjacent(stream, t, q, got, header_str, srv_buf)
             /\ Upto(stream, NextUp - 1, t)
             /\ pc # "body" => q = t
             /\ pc = "body" => LET h == stream[q].h
                               IN  /\ q = t + 1 /\ h.parses
                                   /\ Server!ContentLen(h) <= MaxBody
                                   /\ Len(srv_buf) < Server!ContentLen(h)

\* An answer that says "close" is to a request that was served, and is the last.
SaysOK == Says = "close" => ~ Going /\ \E j \in 1..Len(handled) : handled[j] = NextUp - 1

\* The requests served are earlier ones than the next, were written by the
\* client, and have been read to their end.
HandledOK ==
  /\ \A i, j \in 1..Len(handled) : i < j => handled[i] < handled[j]
  /\ \A j \in 1..Len(handled) :
       /\ handled[j] < NextUp /\ handled[j] <= Started
       /\ \A u \in (got + 1)..Len(stream) : stream[u].owner > handled[j]

\* Only a server that has shut down ends the connection, and it resets it only
\* when the request under way has not been served.
LinkOK ==
  /\ link \in {"eof", "reset"} => pc = "shutdown"
  /\ link = "eof" => queue = <<>>
  /\ link = "reset" =>
       \A c \in chains : Sending(c) => \A j \in 1..Len(handled) : handled[j] # issued

\* What OnWire writes for a response with m units of body.
Reply(m, closes) ==
  [parses |-> TRUE, stated |-> TRUE, n |-> m, close |-> closes, quoting |-> FALSE]

\* The exchange under way: it has no response yet; the whole response is on its
\* way, or what a reset has left of it; its head has been read; or it is over.
Unanswered == NextUp = issued /\ inbound = <<>> /\ queue = <<>> /\ Says # "close"

Coming ==
  /\ NextUp = issued + 1
  /\ link # "reset" =>
       \E m \in Nat : inbound \o queue = Client!ResponseUnits(issued, Reply(m, Says = "close"))

Reading(c) ==
  /\ NextUp = issued + 1
  /\ \E m \in Nat :
       /\ c.block = <<Client!HeadUnit(issued, Reply(m, Says = "close"))>>
       /\ Len(read_buf) < m
       /\ link # "reset" => Len(read_buf) + Len(inbound) + Len(queue) = m

Settled == NextUp = issued + 1 /\ inbound = <<>> /\ queue = <<>> /\ Says # "close"

\* As long as no response has broken off, the client and the server agree on
\* where the exchange stands, and a client without a connection has a server
\* that answers no more.
WireOK ==
  torn = {} =>
    /\ (\A c \in chains : c.at # "body") => read_buf = <<>>
    /\ ~ connected => ~ Going
    /\ connected /\ chains = {} => Settled
    /\ \A c \in chains : c.at \in {"write", "header"} => Unanswered \/ Coming
    /\ \A c \in chains : c.at = "body" => Reading(c)

\* What the callbacks were told is true and stays true.
ReportOK ==
  \A i \in 1..Len(results) :
    Clean(i) =>
      /\ results[i].with \in {0, i}
      /\ results[i].with = 0 =>
           (\A j \in 1..Len(handled) : handled[j] # i) /\ (Going => i < NextUp)

IInv ==
  /\ ClientTypes /\ ServerTypes /\ Numbered /\ StreamOK /\ Aligned
  /\ SaysOK /\ HandledOK /\ LinkOK /\ WireOK /\ ReportOK

\* With a limit of at least one request, a server shuts down only after it has
\* answered.
EndOK ==
  pc \in {"write", "shutdown"} /\ stream # <<>> => answers # <<>>

(***************************************************************************)
(* The client's actions: types, numbering, and what is written when.       *)
(***************************************************************************)
\* What the assumption says of the numbers.
LEMMA ConstantsAre == N \in Nat /\ N >= 1 /\ MaxBody \in Nat /\ MaxKeepAlive \in Nat
  BY ExchangeAssumption

\* There is one chain at most, so that the chain of a handler is all there is.
LEMMA OnlyChain ==
  ASSUME Numbered, NEW c \in chains
  PROVE  chains = {c} /\ chains \ {c} = {}
  BY DEF Numbered

\* Requests called back are those with a result.
LEMMA CalledIs ==
  ASSUME ClientTypes, Numbered, NEW k
  PROVE  Client!Called(k) <=> k \in 1..Len(results)
<1>1. Len(results) \in Nat
  BY LenProperties DEF ClientTypes
<1> QED
  BY <1>1 DEF Numbered, Client!Called

\* A client all of whose requests have been called back has nothing under way.
LEMMA IdleIfCalled ==
  ASSUME ClientTypes, Numbered, \A k \in 1..issued : Client!Called(k)
  PROVE  chains = {}
<1>1. SUFFICES ASSUME chains # {} PROVE FALSE
  OBVIOUS
<1>2. issued \in Nat /\ issued >= 1 /\ Len(results) = issued - 1
  BY <1>1, ConstantsAre DEF Numbered, ClientTypes
<1>3. Client!Called(issued)
  BY <1>2
<1>4. issued \in 1..Len(results)
  BY <1>3, CalledIs
<1> QED
  BY <1>2, <1>4

\* How many writes have been started, at rest and with a chain.
LEMMA StartedIs ==
  ASSUME ClientTypes, Numbered
  PROVE  /\ Started \in Nat /\ Started <= issued /\ Len(results) \in Nat
         /\ issued \in Nat
         /\ chains = {} => Started = issued
         /\ \A c \in chains : Started = IF Sending(c) THEN issued ELSE issued - 1
<1>1. issued \in Nat /\ Len(results) \in Nat
  BY LenProperties, ConstantsAre DEF ClientTypes
<1>2. CASE chains = {}
  BY <1>1, <1>2 DEF Started, Numbered
<1>3. CASE chains # {}
  <2>1. issued >= 1 /\ Len(results) = issued - 1
    BY <1>3, <1>1 DEF Numbered
  <2>2. ASSUME NEW c \in chains
        PROVE  (\E d \in chains : Sending(d)) <=> Sending(c)
    BY OnlyChain
  <2>3. PICK c \in chains : TRUE
    BY <1>3
  <2>4. Started = IF Sending(c) THEN issued ELSE Len(results)
    BY <2>2, <2>3 DEF Started
  <2>5. \A d \in chains : d = c
    BY OnlyChain, <2>3
  <2> QED
    BY <1>1, <1>3, <2>1, <2>4, <2>5
<1> QED
  BY <1>2, <1>3

\* request(): with a connection its write is started, else a resolve.
LEMMA RequestEffect ==
  ASSUME ClientTypes, Numbered, Request
  PROVE  /\ issued < N /\ issued' = issued + 1 /\ pending_callback' = issued + 1
         /\ chains = {}
         /\ UNCHANGED <<connected, read_buf, results, link, queue, inbound, server, plan,
                        handled, torn>>
         /\ IF connected
            THEN /\ chains' = {Client!Chain(issued + 1, "write")}
                 /\ pending_request' = 0
            ELSE /\ chains' = {Client!Chain(issued + 1, "resolve")}
                 /\ pending_request' = issued + 1
<1>1. chains = {}
  BY IdleIfCalled DEF Request, Client!Request
<1> QED
  BY <1>1 DEF Request, Client!Request, Client!server, history

\* The chain that a call of request() starts.
LEMMA NewChain ==
  ASSUME NEW k \in Nat, NEW at \in Steps
  PROVE  /\ Client!Chain(k, at) \in ChainSet
         /\ Client!Chain(k, at).k = k /\ Client!Chain(k, at).at = at
         /\ Client!Chain(k, at).block = <<>>
  BY DEF Client!Chain, ChainSet

\* A new request takes the next number.
LEMMA RequestNumbered ==
  ASSUME ClientTypes, Numbered, Request
  PROVE  ClientTypes' /\ Numbered' /\ Started <= Started'
<1>1. issued \in Nat /\ issued + 1 \in Nat /\ issued + 1 \in 0..N
  BY RequestEffect, ConstantsAre DEF ClientTypes
<1> DEFINE at == IF connected THEN "write" ELSE "resolve"
           c == Client!Chain(issued + 1, at)
<1>2. c \in ChainSet /\ c.k = issued + 1 /\ c.at = at /\ at \in Steps
  BY <1>1, NewChain DEF Steps
<1>3. chains' = {c} /\ pending_request' = IF connected THEN 0 ELSE issued + 1
  BY RequestEffect
<1> HIDE DEF c
<1>4. ClientTypes'
  BY <1>1, <1>2, <1>3, RequestEffect DEF ClientTypes
<1>5. Len(results) = issued /\ chains = {}
  BY RequestEffect DEF Numbered
<1>6. \A d \in chains' :
       /\ d.k = issued' /\ issued' >= 1 /\ pending_callback' = issued'
       /\ d.at # "handshake"
       /\ d.at = "body" => d.block # <<>>
       /\ Sending(d) => connected'
       /\ ~ Sending(d) => ~ connected' /\ pending_request' = issued'
  BY <1>1, <1>2, <1>3, RequestEffect DEF Sending
<1>7. Numbered'
  <2>1. \A d, e \in chains' : d = e
    BY <1>3
  <2>2. chains' # {} /\ Len(results') = issued' - 1
    BY <1>1, <1>3, <1>5, RequestEffect
  <2>3. (\A i \in 1..Len(results') : results'[i].for = i) /\ torn' \subseteq 1..Len(results')
    BY RequestEffect DEF Numbered
  <2> QED
    BY <1>6, <2>1, <2>2, <2>3 DEF Numbered
<1>8. Started = issued /\ Started' = IF Sending(c) THEN issued' ELSE issued' - 1
  <2>1. Started = issued
    BY <1>5, StartedIs
  <2>2. (\E d \in chains' : Sending(d)) <=> Sending(c)
    BY <1>3
  <2>3. Started' = IF Sending(c) THEN issued' ELSE Len(results')
    BY <2>2 DEF Started
  <2> QED
    BY <2>1, <2>3, <1>5, <1>1, RequestEffect
<1> QED
  BY <1>1, <1>4, <1>7, <1>8, RequestEffect

\* An exchange ends: the callback gets r, and there is no chain any more.
Ends(r) ==
  /\ results' = Append(results, [for |-> issued, with |-> r])
  /\ pending_callback' = 0 /\ chains' = {}

\* An exchange goes on, with the chain d.
GoesOn(d) == chains' = {d} /\ UNCHANGED <<results, pending_callback>>

\* When an exchange ends, there is a result for every request.
LEMMA EndNumbered ==
  ASSUME ClientTypes, Numbered, NEW c \in chains, NEW r \in Nat, Ends(r),
         issued' = issued, torn' \subseteq torn \cup {issued}
  PROVE  /\ results' \in Seq([for : Nat, with : Nat])
         /\ Numbered'
         /\ Started' = issued /\ Started <= Started'
         /\ issued \in 1..N
         /\ Len(results) = issued - 1 /\ Len(results') = issued
         /\ results'[issued] = [for |-> issued, with |-> r]
         /\ \A i \in 1..(issued - 1) : results'[i] = results[i]
<1> DEFINE e == [for |-> issued, with |-> r]
<1>1. /\ issued \in Nat /\ issued >= 1 /\ issued <= N /\ Len(results) = issued - 1
      /\ e \in [for : Nat, with : Nat] /\ e.for = issued
  BY ConstantsAre DEF ClientTypes, Numbered
<1>2. results \in Seq([for : Nat, with : Nat]) /\ results' = Append(results, e)
  BY DEF ClientTypes, Ends
<1> HIDE DEF e
<1>3. results' \in Seq([for : Nat, with : Nat])
  BY <1>1, <1>2, AppendProperties
<1>4. Len(results') = Len(results) + 1
  BY <1>1, <1>2, AppendProperties
<1>5. results'[Len(results) + 1] = e
  BY <1>1, <1>2, AppendProperties
<1>6. \A i \in 1..Len(results) : results'[i] = results[i]
  BY <1>1, <1>2, AppendProperties
<1>7. Len(results') = issued /\ results'[issued] = e
      /\ \A i \in 1..(issued - 1) : results'[i] = results[i]
  BY <1>1, <1>4, <1>5, <1>6
<1>8. \A i \in 1..Len(results') : results'[i].for = i
  <2>1. ASSUME NEW i \in 1..Len(results') PROVE results'[i].for = i
    <3>1. CASE i = issued
      BY <3>1, <1>7, <1>1
    <3>2. CASE i # issued
      <4>1. i \in 1..(issued - 1) /\ i \in 1..Len(results)
        BY <3>2, <1>7, <1>1
      <4> QED
        BY <4>1, <1>7 DEF Numbered
    <3> QED
      BY <3>1, <3>2
  <2> QED
    BY <2>1
<1>9. torn' \subseteq 1..Len(results')
  BY <1>1, <1>7 DEF Numbered
<1>10. chains' = {} /\ pending_callback' = 0
  BY DEF Ends
<1>11. Numbered'
  BY <1>7, <1>8, <1>9, <1>10 DEF Numbered
<1>12. Started' = issued
  BY <1>7, <1>10 DEF Started
<1> QED
  BY <1>1, <1>3, <1>7, <1>11, <1>12, StartedIs DEF e

\* While it goes on, there is the same chain.
LEMMA GoOnNumbered ==
  ASSUME ClientTypes, Numbered, NEW c \in chains, NEW d \in ChainSet, GoesOn(d),
         d.k = issued, d.at # "handshake", d.at = "body" => d.block # <<>>,
         Sending(d) => connected',
         ~ Sending(d) => ~ connected' /\ pending_request' = issued,
         Sending(c) => Sending(d),
         issued' = issued, torn' = torn
  PROVE  /\ Numbered' /\ chains' \subseteq ChainSet
         /\ Started' = (IF Sending(d) THEN issued ELSE issued - 1) /\ Started <= Started'
<1>1. /\ issued \in Nat /\ issued >= 1 /\ issued <= N /\ Len(results) = issued - 1
      /\ pending_callback = issued
  BY ConstantsAre DEF ClientTypes, Numbered
<1>2. chains' = {d} /\ results' = results /\ pending_callback' = pending_callback
  BY DEF GoesOn
<1>3. Numbered'
  BY <1>1, <1>2 DEF Numbered
<1>4. Started' = IF Sending(d) THEN issued' ELSE Len(results')
  <2>1. (\E x \in chains' : Sending(x)) <=> Sending(d)
    BY <1>2
  <2> QED
    BY <2>1 DEF Started
<1> QED
  BY <1>1, <1>2, <1>3, <1>4, StartedIs

\* invoke_callback, and the end of the chain.
LEMMA FailEnds ==
  ASSUME ClientTypes, Numbered, NEW c \in chains, NEW r, Client!InvokeCallback(r),
         chains' = chains \ {c}
  PROVE  Ends(r)
<1>1. pending_callback = issued /\ issued >= 1 /\ issued \in Nat
  BY ConstantsAre DEF Numbered, ClientTypes
<1> QED
  BY <1>1, OnlyChain DEF Client!InvokeCallback, Ends

\* The next operation of a chain is for the same request.
LEMMA Continues ==
  ASSUME ClientTypes, Numbered, NEW c \in chains, NEW at \in Steps, Client!Continue(c, at)
  PROVE  /\ [c EXCEPT !.at = at] \in ChainSet
         /\ [c EXCEPT !.at = at].k = issued /\ [c EXCEPT !.at = at].at = at
         /\ [c EXCEPT !.at = at].block = c.block
         /\ chains' = {[c EXCEPT !.at = at]}
<1>1. c \in ChainSet /\ c.k = issued
  BY DEF ClientTypes, Numbered
<1>2. chains' = {[c EXCEPT !.at = at]}
  BY OnlyChain DEF Client!Continue
<1> QED
  BY <1>1, <1>2 DEF ChainSet

\* What the server has been sent stays sent.
LEMMA StreamKept ==
  ASSUME StreamOK, UNCHANGED server, Started \in Nat, Started' \in Nat, Started <= Started',
         connected' => connected /\ link' # "none", ServerTypes
  PROVE  StreamOK'
<1>1. /\ stream' = stream /\ sent' = sent /\ pc' = pc /\ answers' = answers
  BY DEF server
<1>2. \A u \in 1..sent : stream[u].owner <= Started'
  <2>1. ASSUME NEW u \in 1..sent PROVE stream[u].owner <= Started'
    <3>1. u \in 1..Len(stream) /\ stream[u] \in Unit
      BY LenProperties, ElementOfSeq DEF ServerTypes
    <3>2. stream[u].owner \in Nat
      BY <3>1, ExchangeAssumption
    <3> QED
      BY <3>2 DEF StreamOK
  <2> QED
    BY <2>1
<1> QED
  BY <1>1, <1>2 DEF StreamOK

\* OnResolved.
LEMMA ResolvedStep ==
  ASSUME ClientTypes, Numbered, NEW c \in chains,
         Client!OnResolved(c), UNCHANGED <<server, plan, history>>
  PROVE  /\ ClientTypes' /\ Numbered' /\ Started <= Started'
         /\ ~ connected
         /\ UNCHANGED <<issued, connected, read_buf, link, queue, inbound, torn>>
         /\ \/ Ends(0)
            \/ \E d : GoesOn(d) /\ ~ Sending(d)
<1>1. /\ c.at = "resolve" /\ ~ connected /\ pending_request = issued /\ c.k = issued
      /\ UNCHANGED <<issued, connected, read_buf, pending_request, link, queue, inbound, torn>>
  BY DEF Client!OnResolved, Numbered, Sending, history, Client!server
<1>2. CASE Client!Failed(c)
  <2>1. Ends(0)
    BY <1>2, FailEnds DEF Client!Failed
  <2>2. /\ results' \in Seq([for : Nat, with : Nat]) /\ Numbered' /\ Started <= Started'
    BY <2>1, <1>1, EndNumbered
  <2>3. ClientTypes'
    BY <1>1, <2>1, <2>2 DEF ClientTypes, Ends
  <2> QED
    BY <1>1, <2>1, <2>2, <2>3
<1>3. CASE Client!Continue(c, "connect") /\ UNCHANGED <<results, pending_callback, faults>>
  <2> DEFINE d == [c EXCEPT !.at = "connect"]
  <2>1. d \in ChainSet /\ d.k = issued /\ d.at = "connect" /\ chains' = {d}
    BY <1>3, Continues DEF Steps
  <2> HIDE DEF d
  <2>2. GoesOn(d) /\ ~ Sending(d) /\ ~ Sending(c) /\ ~ connected' /\ pending_request' = issued
    BY <1>1, <1>3, <2>1 DEF GoesOn, Sending
  <2>3. Numbered' /\ chains' \subseteq ChainSet /\ Started <= Started'
    BY <1>1, <2>1, <2>2, GoOnNumbered
  <2>4. ClientTypes'
    BY <1>1, <1>3, <2>3 DEF ClientTypes
  <2> QED
    BY <1>1, <2>2, <2>3, <2>4
<1> QED
  BY <1>2, <1>3 DEF Client!OnResolved

\* OnError.
LEMMA ErrorStep ==
  ASSUME ClientTypes, Numbered, NEW c \in chains, OnError(c)
  PROVE  /\ ClientTypes' /\ Numbered' /\ Started <= Started'
         /\ Ends(0) /\ ~ connected' /\ connected /\ Sending(c)
         /\ UNCHANGED <<issued, read_buf, link, queue, inbound, server, plan, handled>>
         /\ torn' = IF c.at = "body" \/ read_buf # <<>> THEN torn \cup {issued} ELSE torn
         /\ \/ c.at = "write" /\ link \in {"none", "reset"}
            \/ /\ c.at \in {"header", "body"}
               /\ link = "reset" \/ (link = "eof" /\ inbound = <<>>)
<1>1. /\ Client!OnError(c)
      /\ torn' = IF c.at = "body" \/ read_buf # <<>> THEN torn \cup {c.k} ELSE torn
      /\ UNCHANGED <<server, plan, handled>>
  BY DEF OnError
<1>2. /\ \/ c.at = "write" /\ link \in {"none", "reset"}
         \/ /\ c.at \in {"header", "body"}
            /\ link = "reset" \/ (link = "eof" /\ inbound = <<>>)
      /\ connected' = FALSE /\ Client!Failed(c)
      /\ UNCHANGED <<issued, read_buf, pending_request, link, queue, inbound>>
  BY <1>1 DEF Client!OnError, Client!server
<1>3. Sending(c) /\ connected /\ c.k = issued
  BY <1>2 DEF Sending, Numbered
<1>4. Ends(0)
  BY <1>2, FailEnds DEF Client!Failed
<1>5. /\ results' \in Seq([for : Nat, with : Nat]) /\ Numbered' /\ Started <= Started'
  BY <1>1, <1>2, <1>3, <1>4, EndNumbered
<1>6. ClientTypes'
  BY <1>2, <1>4, <1>5 DEF ClientTypes, Ends
<1> QED
  BY <1>1, <1>2, <1>3, <1>4, <1>5, <1>6

\* Written.
LEMMA WrittenStep ==
  ASSUME ClientTypes, Numbered, NEW c \in chains,
         Client!Written(c), UNCHANGED <<queue, unframed>>, UNCHANGED <<server, plan, history>>
  PROVE  /\ ClientTypes' /\ Numbered' /\ Started <= Started'
         /\ c.at = "write"
         /\ UNCHANGED <<issued, connected, read_buf, link, queue, inbound, torn>>
         /\ \E d : GoesOn(d) /\ d.at = "header"
<1>1. /\ c.at = "write" /\ Client!Continue(c, "header") /\ c.k = issued
      /\ UNCHANGED <<issued, connected, read_buf, pending_request, pending_callback,
                     results, link, queue, inbound, torn>>
  BY DEF Client!Written, Numbered, history
<1> DEFINE d == [c EXCEPT !.at = "header"]
<1>2. d \in ChainSet /\ d.k = issued /\ d.at = "header" /\ chains' = {d}
  BY <1>1, Continues DEF Steps
<1> HIDE DEF d
<1>3. GoesOn(d) /\ Sending(d) /\ Sending(c) /\ connected
  BY <1>1, <1>2 DEF GoesOn, Sending, Numbered
<1>4. Numbered' /\ chains' \subseteq ChainSet /\ Started <= Started'
  BY <1>1, <1>2, <1>3, GoOnNumbered
<1>5. ClientTypes'
  BY <1>1, <1>4 DEF ClientTypes
<1> QED
  BY <1>1, <1>2, <1>3, <1>4, <1>5

\* What a read leaves behind is a piece of a sequence.
LEMMA Behind ==
  ASSUME NEW S, NEW s \in Seq(S), NEW n \in Nat, n <= Len(s)
  PROVE  SubSeq(s, n + 1, Len(s)) \in Seq(S) /\ Len(SubSeq(s, n + 1, Len(s))) = Len(s) - n
<1>1. Len(s) \in Nat /\ Len(s) <= Len(s)
  BY LenProperties
<1> QED
  BY <1>1, Cut

\* A read of n units joins them to the buffer.
LEMMA ReadTypes ==
  ASSUME ClientTypes, NEW n \in 0..Len(inbound)
  PROVE  /\ read_buf \o SubSeq(inbound, 1, n) \in Seq(RespUnit)
         /\ Len(read_buf \o SubSeq(inbound, 1, n)) = Len(read_buf) + n
         /\ SubSeq(inbound, n + 1, Len(inbound)) \in Seq(RespUnit)
<1>1. n \in Nat /\ n <= Len(inbound) /\ inbound \in Seq(RespUnit) /\ read_buf \in Seq(RespUnit)
  BY LenProperties DEF ClientTypes
<1>2. SubSeq(inbound, 1, n) \in Seq(RespUnit) /\ Len(SubSeq(inbound, 1, n)) = n
  BY ONLY <1>1, FrontCut
<1>3. SubSeq(inbound, n + 1, Len(inbound)) \in Seq(RespUnit)
  BY ONLY <1>1, Behind
<1> QED
  BY <1>1, <1>2, <1>3, ConcatProperties

\* What is known of a unit of a response.
LEMMA LengthOf ==
  ASSUME NEW u \in RespUnit
  PROVE  Client!ContentLen(u) \in Nat /\ u.of \in Nat /\ u.head \in BOOLEAN /\ u.r \in Client!ResponseSet
  BY DEF RespUnit, Client!ContentLen, Client!ResponseSet

\* The three ends of processResponse.
LEMMA ProcessCases ==
  ASSUME ClientTypes, Numbered, NEW c \in chains, Sending(c),
         NEW buf \in Seq(RespUnit), NEW i \in 1..Len(buf),
         Client!ProcessResponse(c, buf, i), UNCHANGED pending_request,
         issued' = issued, torn' = torn
  PROVE  /\ Numbered' /\ chains' \subseteq ChainSet /\ Started <= Started'
         /\ connected' \in BOOLEAN /\ (connected' => connected)
         /\ read_buf' \in Seq(RespUnit) /\ results' \in Seq([for : Nat, with : Nat])
         /\ pending_callback' \in Nat
         /\ LET n    == Client!ContentLen(buf[i])
                rest == SubSeq(buf, i + 1, Len(buf))
            IN  \/ (i > 1 \/ ~ buf[i].r.parses) /\ Ends(0)
                \/ /\ i = 1 /\ buf[i].r.parses /\ n <= Len(rest)
                   /\ Ends(buf[i].of) /\ connected' = (connected /\ ~ buf[i].r.close)
                   /\ read_buf' = SubSeq(rest, n + 1, Len(rest))
                \/ /\ i = 1 /\ buf[i].r.parses /\ n > Len(rest)
                   /\ read_buf' = rest /\ connected' = connected
                   /\ \E d : GoesOn(d) /\ d.at = "body" /\ d.block = <<buf[i]>>
<1> DEFINE head == buf[i]
           rest == SubSeq(buf, i + 1, Len(buf))
           n    == Client!ContentLen(head)
<1>1. Len(buf) \in Nat /\ i \in Nat /\ i <= Len(buf) /\ head \in RespUnit
  BY LenProperties, ElementOfSeq
<1>2. rest \in Seq(RespUnit) /\ Len(rest) = Len(buf) - i
  BY ONLY <1>1, Behind, buf \in Seq(RespUnit)
<1>3. n \in Nat /\ head.of \in Nat /\ head.r.close \in BOOLEAN
  BY <1>1, LengthOf DEF Client!ResponseSet
<1>4. connected \in BOOLEAN /\ connected /\ c \in ChainSet /\ c.k = issued
  BY DEF ClientTypes, Numbered
<1>5. \/ /\ i > 1 \/ ~ head.r.parses
         /\ Client!InvokeCallback(0)
         /\ chains' = chains \ {c}
         /\ read_buf' = rest
         /\ connected' = connected
      \/ /\ i = 1 /\ head.r.parses /\ n <= Len(rest)
         /\ Client!Finish(c, head, SubSeq(rest, n + 1, Len(rest)))
      \/ /\ i = 1 /\ head.r.parses /\ n > Len(rest)
         /\ read_buf' = rest
         /\ chains' = (chains \ {c}) \cup {[c EXCEPT !.at = "body", !.block = <<head>>]}
         /\ UNCHANGED <<connected, results, pending_callback>>
  BY DEF Client!ProcessResponse
<1> HIDE DEF head, rest, n
<1>6. CASE /\ i > 1 \/ ~ head.r.parses
           /\ Client!InvokeCallback(0)
           /\ chains' = chains \ {c}
           /\ read_buf' = rest
           /\ connected' = connected
  <2>1. Ends(0)
    BY <1>6, FailEnds
  <2>2. results' \in Seq([for : Nat, with : Nat]) /\ Numbered' /\ Started <= Started'
    BY <2>1, EndNumbered
  <2>3. chains' \subseteq ChainSet /\ pending_callback' \in Nat
    BY <2>1 DEF Ends
  <2> QED
    BY <1>2, <1>4, <1>6, <2>1, <2>2, <2>3 DEF head, rest, n
<1>7. CASE /\ i = 1 /\ head.r.parses /\ n <= Len(rest)
           /\ Client!Finish(c, head, SubSeq(rest, n + 1, Len(rest)))
  <2>1. /\ connected' = (connected /\ ~ head.r.close)
        /\ Client!InvokeCallback(head.of) /\ chains' = chains \ {c}
        /\ read_buf' = SubSeq(rest, n + 1, Len(rest))
    BY <1>7 DEF Client!Finish
  <2>2. Ends(head.of)
    BY <2>1, FailEnds
  <2>3. results' \in Seq([for : Nat, with : Nat]) /\ Numbered' /\ Started <= Started'
    BY <1>3, <2>2, EndNumbered
  <2>4. chains' \subseteq ChainSet /\ pending_callback' \in Nat
    BY <2>2 DEF Ends
  <2>5. n <= Len(rest)
    BY <1>7
  <2>6. SubSeq(rest, n + 1, Len(rest)) \in Seq(RespUnit)
    BY ONLY <1>2, <1>3, <2>5, Behind
  <2> QED
    BY <1>4, <1>7, <2>1, <2>2, <2>3, <2>4, <2>6 DEF head, rest, n
<1>8. CASE /\ i = 1 /\ head.r.parses /\ n > Len(rest)
           /\ read_buf' = rest
           /\ chains' = (chains \ {c}) \cup {[c EXCEPT !.at = "body", !.block = <<head>>]}
           /\ UNCHANGED <<connected, results, pending_callback>>
  <2> DEFINE d == [c EXCEPT !.at = "body", !.block = <<head>>]
  <2>1. <<head>> \in Seq(RespUnit) /\ <<head>> # <<>>
    BY <1>1 DEF head
  <2>2. d \in ChainSet /\ d.k = issued /\ d.at = "body" /\ d.block = <<head>>
    BY <1>4, <2>1 DEF ChainSet, Steps
  <2>3. chains' = {d}
    BY <1>8, OnlyChain
  <2> HIDE DEF d
  <2>4. GoesOn(d) /\ Sending(d)
    BY <1>8, <2>2, <2>3 DEF GoesOn, Sending
  <2>5. connected' /\ d.at # "handshake"
    BY <1>4, <1>8, <2>2
  <2>6. Numbered' /\ chains' \subseteq ChainSet /\ Started <= Started'
    BY <2>1, <2>2, <2>4, <2>5, GoOnNumbered
  <2>7. results' \in Seq([for : Nat, with : Nat]) /\ pending_callback' \in Nat
    BY <1>8 DEF ClientTypes
  <2> QED
    BY <1>2, <1>4, <1>8, <2>2, <2>4, <2>6, <2>7 DEF head, rest, n
<1> QED
  BY <1>5, <1>6, <1>7, <1>8

\* OnHeaderRead: what the buffer becomes, and what is made of it.
LEMMA HeaderStep ==
  ASSUME ClientTypes, Numbered, NEW c \in chains,
         Client!OnHeaderRead(c), UNCHANGED <<server, plan, history>>
  PROVE  /\ ClientTypes' /\ Numbered' /\ Started <= Started'
         /\ c.at = "header" /\ connected /\ (connected' => connected)
         /\ UNCHANGED <<issued, link, queue, torn>>
         /\ \E n \in 0..Len(inbound) :
              LET buf == read_buf \o SubSeq(inbound, 1, n)
              IN  /\ (\E j \in 1..Len(read_buf) : read_buf[j].head) <=> n = 0
                  /\ n > 0 => link # "reset"
                  /\ inbound' = SubSeq(inbound, n + 1, Len(inbound))
                  /\ \/ /\ \A j \in 1..Len(buf) : ~ buf[j].head
                        /\ UNCHANGED <<connected, chains, results, pending_callback>>
                        /\ read_buf' = buf
                     \/ \E i \in 1..Len(buf) :
                          /\ buf[i].head /\ \A j \in 1..(i - 1) : ~ buf[j].head
                          /\ Client!ProcessResponse(c, buf, i)
<1>1. /\ c.at = "header" /\ Sending(c) /\ connected /\ connected \in BOOLEAN
      /\ UNCHANGED <<issued, pending_request, link, queue, torn>>
  BY DEF Client!OnHeaderRead, Sending, Numbered, history, ClientTypes
<1>2. PICK n \in 0..Len(inbound) :
        LET buf == read_buf \o SubSeq(inbound, 1, n)
        IN  /\ (\E j \in 1..Len(read_buf) : read_buf[j].head) <=> n = 0
            /\ n > 0 => link # "reset"
            /\ inbound' = SubSeq(inbound, n + 1, Len(inbound))
            /\ \/ /\ \A j \in 1..Len(buf) : ~ buf[j].head
                  /\ UNCHANGED <<connected, chains, results, pending_callback>>
                  /\ read_buf' = buf
               \/ \E i \in 1..Len(buf) :
                    /\ buf[i].head /\ \A j \in 1..(i - 1) : ~ buf[j].head
                    /\ Client!ProcessResponse(c, buf, i)
  BY DEF Client!OnHeaderRead, Client!Take
<1> DEFINE buf == read_buf \o SubSeq(inbound, 1, n)
<1>3. buf \in Seq(RespUnit) /\ SubSeq(inbound, n + 1, Len(inbound)) \in Seq(RespUnit)
  BY ReadTypes
<1>4. \/ /\ UNCHANGED <<connected, chains, results, pending_callback>>
         /\ read_buf' = buf
      \/ \E i \in 1..Len(buf) : Client!ProcessResponse(c, buf, i)
  BY <1>2
<1> HIDE DEF buf
<1>5. /\ ClientTypes' /\ Numbered' /\ Started <= Started' /\ (connected' => connected)
  <2>1. CASE UNCHANGED <<connected, chains, results, pending_callback>> /\ read_buf' = buf
    <3>1. Started' = Started /\ Started <= Started
      BY <2>1, <1>1, StartedIs DEF Started
    <3>2. Numbered'
      BY <2>1, <1>1 DEF Numbered
    <3>3. ClientTypes'
      BY <2>1, <1>1, <1>2, <1>3 DEF ClientTypes
    <3> QED
      BY <2>1, <3>1, <3>2, <3>3
  <2>2. ASSUME NEW i \in 1..Len(buf), Client!ProcessResponse(c, buf, i)
        PROVE  /\ ClientTypes' /\ Numbered' /\ Started <= Started' /\ (connected' => connected)
    <3>1. /\ Numbered' /\ chains' \subseteq ChainSet /\ Started <= Started'
          /\ connected' \in BOOLEAN /\ (connected' => connected)
          /\ read_buf' \in Seq(RespUnit) /\ results' \in Seq([for : Nat, with : Nat])
          /\ pending_callback' \in Nat
      BY <1>1, <1>3, <2>2, ProcessCases
    <3>2. ClientTypes'
      BY <3>1, <1>1, <1>2, <1>3 DEF ClientTypes
    <3> QED
      BY <3>1, <3>2
  <2> QED
    BY <1>4, <2>1, <2>2
<1> QED
  BY <1>1, <1>2, <1>5

\* OnBodyRead.
LEMMA BodyStep ==
  ASSUME ClientTypes, Numbered, NEW c \in chains,
         Client!OnBodyRead(c), UNCHANGED <<server, plan, history>>
  PROVE  /\ ClientTypes' /\ Numbered' /\ Started <= Started'
         /\ c.at = "body" /\ connected /\ (connected' => connected) /\ link # "reset"
         /\ UNCHANGED <<issued, link, queue, torn>>
         /\ \E n \in 1..Len(inbound) :
              LET buf == read_buf \o SubSeq(inbound, 1, n)
                  len == Client!ContentLen(c.block[1])
              IN  /\ inbound' = SubSeq(inbound, n + 1, Len(inbound))
                  /\ \/ /\ Len(buf) < len /\ read_buf' = buf
                        /\ UNCHANGED <<connected, chains, results, pending_callback>>
                     \/ /\ Len(buf) = len /\ Ends(c.block[1].of) /\ read_buf' = <<>>
                        /\ connected' = (connected /\ ~ c.block[1].r.close)
<1>1. /\ c.at = "body" /\ Sending(c) /\ connected /\ connected \in BOOLEAN /\ link # "reset"
      /\ UNCHANGED <<issued, pending_request, link, queue, torn>>
      /\ c.block # <<>> /\ c.block \in Seq(RespUnit)
  BY DEF Client!OnBodyRead, Sending, Numbered, history, ClientTypes, ChainSet
<1>2. PICK n \in 1..Len(inbound) :
        LET buf == read_buf \o SubSeq(inbound, 1, n)
            len == Client!ContentLen(c.block[1])
        IN  /\ inbound' = SubSeq(inbound, n + 1, Len(inbound))
            /\ \/ /\ Len(buf) < len /\ read_buf' = buf
                  /\ UNCHANGED <<connected, chains, results, pending_callback>>
               \/ /\ Len(buf) = len
                  /\ Client!Finish(c, c.block[1], SubSeq(buf, len + 1, Len(buf)))
  BY DEF Client!OnBodyRead, Client!Take
<1> DEFINE buf == read_buf \o SubSeq(inbound, 1, n)
           head == c.block[1]
           len == Client!ContentLen(head)
<1>3. n \in 0..Len(inbound)
  OBVIOUS
<1>4. /\ buf \in Seq(RespUnit) /\ SubSeq(inbound, n + 1, Len(inbound)) \in Seq(RespUnit)
      /\ Len(buf) \in Nat
  BY <1>3, ReadTypes, LenProperties
<1>5. head \in RespUnit
  BY <1>1
<1>6. len \in Nat /\ head.of \in Nat /\ head.r.close \in BOOLEAN
  BY <1>5, LengthOf DEF Client!ResponseSet
<1> HIDE DEF buf, head
<1>7. CASE /\ Len(buf) < len /\ read_buf' = buf
           /\ UNCHANGED <<connected, chains, results, pending_callback>>
  <2>1. Started' = Started /\ Started <= Started
    BY <1>7, <1>1, StartedIs DEF Started
  <2>2. Numbered'
    BY <1>7, <1>1 DEF Numbered
  <2>3. ClientTypes'
    BY <1>7, <1>1, <1>2, <1>4 DEF ClientTypes
  <2> QED
    BY <1>1, <1>2, <1>7, <2>1, <2>2, <2>3 DEF buf, head
<1>8. CASE Len(buf) = len /\ Client!Finish(c, head, SubSeq(buf, len + 1, Len(buf)))
  <2>1. SubSeq(buf, len + 1, Len(buf)) = <<>>
    BY <1>4, <1>8, EmptyCut
  <2>2. /\ connected' = (connected /\ ~ head.r.close)
        /\ Client!InvokeCallback(head.of) /\ chains' = chains \ {c} /\ read_buf' = <<>>
    BY <1>8, <2>1 DEF Client!Finish
  <2>3. Ends(head.of)
    BY <2>2, FailEnds
  <2>4. results' \in Seq([for : Nat, with : Nat]) /\ Numbered' /\ Started <= Started'
    BY <1>1, <1>6, <2>3, EndNumbered
  <2>5. read_buf' \in Seq(RespUnit) /\ connected' \in BOOLEAN
    BY <2>2, <1>1, <1>6
  <2>6. chains' \subseteq ChainSet /\ pending_callback' \in Nat
    BY <2>3 DEF Ends
  <2>7. ClientTypes'
    BY <1>1, <1>2, <1>4, <2>4, <2>5, <2>6 DEF ClientTypes
  <2> QED
    BY <1>1, <1>2, <1>8, <2>2, <2>3, <2>4, <2>7 DEF buf, head
<1> QED
  BY <1>2, <1>7, <1>8 DEF buf, head

(***************************************************************************)
(* What remains of the plan.                                               *)
(***************************************************************************)
\* Begins is where it says it is: every request up to N has units.
LEMMA BeginsIs ==
  ASSUME NEW s \in Plans, NEW k \in 1..N
  PROVE  /\ Begins(s, k) \in 1..Len(s)
         /\ \A j \in 1..Len(s) : s[j].owner >= k <=> j >= Begins(s, k)
         /\ s[Begins(s, k)].owner = k
<1>1. /\ s \in Seq(Unit) /\ Server!InOrder(s) /\ Tidy(s, k) /\ k \in Nat /\ Len(s) \in Nat
  BY ExchangeAssumption, LenProperties
<1>2. \A j \in 1..Len(s) : s[j].owner \in Nat
  <2>1. ASSUME NEW j \in 1..Len(s) PROVE s[j].owner \in Nat
    <3>1. s[j] \in Unit
      BY <1>1, ElementOfSeq
    <3> QED
      BY <3>1, ExchangeAssumption
  <2> QED
    BY <2>1
<1>3. \A i, j \in 1..Len(s) : i <= j => s[i].owner <= s[j].owner
  BY <1>1 DEF Server!InOrder
<1>4. PICK p \in 1..Len(s), q \in 1..Len(s) : p <= q /\ p..q = {j \in 1..Len(s) : s[j].owner = k}
  BY <1>1 DEF Tidy, Server!Spans
<1>5. p \in p..q /\ s[p].owner = k
  BY <1>4, <1>1
<1>6. ASSUME NEW j \in 1..Len(s) PROVE s[j].owner >= k <=> j >= p
  <2>1. CASE j >= p
    <3>1. s[p].owner <= s[j].owner
      BY <2>1, <1>3
    <3> QED
      BY <2>1, <3>1, <1>5, <1>2, <1>1
  <2>2. CASE ~ j >= p
    <3>1. j \notin p..q /\ j <= p
      BY <2>2, <1>1
    <3>2. s[j].owner # k /\ s[j].owner <= s[p].owner
      BY <3>1, <1>4, <1>3
    <3> QED
      BY <2>2, <3>2, <1>5, <1>2, <1>1
  <2> QED
    BY <2>1, <2>2
<1>7. p \in 1..(Len(s) + 1) /\ \A j \in 1..Len(s) : s[j].owner >= k <=> j >= p
  BY <1>1, <1>6
<1>8. /\ Begins(s, k) \in 1..(Len(s) + 1)
      /\ \A j \in 1..Len(s) : s[j].owner >= k <=> j >= Begins(s, k)
  <2> DEFINE P(i) == \A j \in 1..Len(s) : s[j].owner >= k <=> j >= i
  <2>1. \E i \in 1..(Len(s) + 1) : P(i)
    BY <1>7
  <2>2. Begins(s, k) = CHOOSE i \in 1..(Len(s) + 1) : P(i)
    BY DEF Begins
  <2> HIDE DEF P
  <2>3. Begins(s, k) \in 1..(Len(s) + 1) /\ P(Begins(s, k))
    BY ONLY <2>1, <2>2
  <2> QED
    BY <2>3 DEF P
<1> DEFINE b == Begins(s, k)
<1> HIDE DEF b
<1>9. /\ b \in 1..(Len(s) + 1) /\ \A j \in 1..Len(s) : s[j].owner >= k <=> j >= b
  BY <1>8 DEF b
<1>10. p >= b
  BY <1>9, <1>5, <1>1
<1>11. b \in 1..Len(s) /\ b <= p
  BY <1>9, <1>10, <1>1
<1>12. s[b].owner >= k /\ s[b].owner <= s[p].owner
  <2>1. b >= b
    BY <1>11
  <2> QED
    BY <1>9, <1>11, <1>3, <2>1
<1>13. s[b].owner = k
  BY <1>12, <1>5, <1>11, <1>2, <1>1
<1> QED
  BY <1>9, <1>11, <1>13 DEF b

\* A new connection carries the requests that are still to be made.
LEMMA FromIs ==
  ASSUME plan \in Plans, NEW k \in 1..N
  PROVE  Remainder(From(k), k)
<1> DEFINE s == plan
           b == Begins(s, k)
           t == From(k)
           d == b - 1
<1>1. /\ s \in Plans /\ s \in Seq(Unit) /\ Server!InOrder(s) /\ k \in Nat /\ Len(s) \in Nat
      /\ \A j \in 1..Len(s) : s[j].owner <= N
      /\ \A m \in 1..N : Tidy(s, m)
  BY ExchangeAssumption, LenProperties
<1>2. /\ b \in 1..Len(s) /\ s[b].owner = k
      /\ \A j \in 1..Len(s) : s[j].owner >= k <=> j >= b
  BY BeginsIs
<1> HIDE DEF s, b
<1>3. d \in Nat /\ d <= Len(s) /\ d + 1 = b /\ Len(s) <= Len(s)
  BY <1>1, <1>2
<1>4. t = SubSeq(s, d + 1, Len(s))
  BY <1>3 DEF s, b, From
<1> HIDE DEF t, d
<1>5. /\ SubSeq(s, d + 1, Len(s)) \in Seq(Unit)
      /\ Len(SubSeq(s, d + 1, Len(s))) = Len(s) - d
      /\ \A j \in 1..(Len(s) - d) : SubSeq(s, d + 1, Len(s))[j] = s[d + j]
  BY ONLY <1>1, <1>3, Cut
<1>6. t \in Seq(Unit) /\ Len(t) = Len(s) - d /\ \A j \in 1..(Len(s) - d) : t[j] = s[d + j]
  BY <1>4, <1>5
<1>7. /\ Len(t) \in Nat /\ Len(t) >= 1
      /\ \A j \in 1..Len(t) : t[j] = s[d + j] /\ d + j \in 1..Len(s)
  BY <1>1, <1>2, <1>3, <1>6
<1>8. \A j \in 1..Len(s) : s[j].owner \in Nat /\ s[j].owner >= 1
  <2>1. ASSUME NEW j \in 1..Len(s) PROVE s[j].owner \in Nat
    <3>1. s[j] \in Unit
      BY <1>1, ElementOfSeq
    <3> QED
      BY <3>1, ExchangeAssumption
  <2> QED
    BY <2>1, <1>1 DEF Server!InOrder
<1>9. Server!InOrder(t)
  <2>1. ASSUME NEW i \in 1..Len(t), NEW j \in 1..Len(t)
        PROVE  t[i].owner >= 1 /\ (i <= j => t[i].owner <= t[j].owner)
    <3>1. d + i \in 1..Len(s) /\ d + j \in 1..Len(s) /\ t[i] = s[d + i] /\ t[j] = s[d + j]
      BY <1>7
    <3>2. i <= j => d + i <= d + j
      BY <1>3
    <3> QED
      BY <3>1, <3>2, <1>1, <1>8 DEF Server!InOrder
  <2> QED
    BY <2>1 DEF Server!InOrder
<1>10. \A j \in 1..Len(t) : t[j].owner \in Nat /\ t[j].owner <= N
  BY <1>1, <1>7, <1>8
<1>11. t[1].owner = k
  <2>1. 1 \in 1..Len(t) /\ d + 1 = b
    BY <1>3, <1>7
  <2> QED
    BY <2>1, <1>7, <1>2
<1>12. ASSUME NEW m \in k..N PROVE Tidy(t, m)
  <2>1. m \in Nat /\ m \in 1..N /\ m >= k
    BY <1>1, ConstantsAre
  <2>2. PICK p \in 1..Len(s), q \in 1..Len(s) :
          /\ p <= q /\ p..q = {j \in 1..Len(s) : s[j].owner = m}
          /\ s[p].head
          /\ s[p].h.parses /\ Server!ContentLen(s[p].h) <= MaxBody =>
               Server!ContentLen(s[p].h) = q - p
    BY <1>1, <2>1 DEF Tidy, Server!Spans
  <2>3. p \in p..q /\ s[p].owner = m
    BY <2>2, <1>1
  <2>4. p >= b
    BY <2>1, <2>3, <1>2, <1>8
  <2> DEFINE x == p - d
             y == q - d
  <2>5. x \in 1..Len(t) /\ y \in 1..Len(t) /\ x <= y /\ d + x = p /\ y - x = q - p
    BY <2>2, <2>4, <1>1, <1>2, <1>3, <1>6
  <2>6. t[x] = s[p]
    BY <2>5, <1>7
  <2>7. x..y = {j \in 1..Len(t) : t[j].owner = m}
    <3>1. ASSUME NEW j \in 1..Len(t) PROVE j \in x..y <=> t[j].owner = m
      <4>1. t[j] = s[d + j] /\ d + j \in 1..Len(s)
        BY <1>7
      <4>2. s[d + j].owner = m <=> d + j \in p..q
        BY <4>1, <2>2
      <4>3. d + j \in p..q <=> j \in x..y
        BY <1>1, <1>3
      <4> QED
        BY <4>1, <4>2, <4>3
    <3>2. \A j \in x..y : j \in 1..Len(t)
      BY <2>5, <1>7
    <3> QED
      BY <3>1, <3>2
  <2> HIDE DEF x, y
  <2>8. Server!Spans(t, m, x, y)
    BY <2>7 DEF Server!Spans
  <2>9. t[x].head /\ (t[x].h.parses /\ Server!ContentLen(t[x].h) <= MaxBody =>
                        Server!ContentLen(t[x].h) = y - x)
    BY <2>2, <2>5, <2>6
  <2> QED
    BY <2>5, <2>8, <2>9 DEF Tidy
<1>13. Remainder(t, k)
  BY <1>6, <1>7, <1>9, <1>10, <1>11, <1>12 DEF Remainder
<1> QED
  BY <1>13 DEF t

\* OnConnected: the exchange fails, or its connection is accepted.
LEMMA ConnectedStep ==
  ASSUME ClientTypes, Numbered, plan \in Plans, NEW c \in chains, OnConnected(c)
  PROVE  /\ ClientTypes' /\ Numbered' /\ Started <= Started'
         /\ ~ connected /\ ~ Sending(c)
         /\ queue' = <<>> /\ inbound' = <<>>
         /\ UNCHANGED <<issued, read_buf, plan, handled, torn>>
         /\ \/ /\ Ends(0) /\ link' = "none" /\ ~ connected'
               /\ UNCHANGED server
            \/ /\ link' = "up" /\ connected'
               /\ \E d : GoesOn(d) /\ d.at = "write"
               /\ Started' = issued /\ issued \in 1..N
               /\ Remainder(stream', issued)
               /\ sent' = 0 /\ got' = 0 /\ peer' = "open"
               /\ srv_buf' = <<>> /\ header_str' = <<>> /\ answers' = <<>>
               /\ keep_alive' = FALSE /\ requests_served' = 0 /\ written' = 0
               /\ pc' = IF 0 >= MaxKeepAlive THEN "shutdown" ELSE "header"
<1>1. /\ Client!OnConnected(c)
      /\ IF link' = "up" THEN Accepted(c.k) ELSE UNCHANGED server
      /\ UNCHANGED <<plan, handled, torn>>
  BY DEF OnConnected, history
<1>2. /\ c.at = "connect" /\ queue' = <<>> /\ inbound' = <<>>
      /\ UNCHANGED <<issued, read_buf>>
      /\ \/ /\ Client!Failed(c) /\ link' = "none"
            /\ UNCHANGED <<connected, pending_request>>
         \/ /\ link' = "up" /\ Client!SendRequest(c)
            /\ UNCHANGED <<results, pending_callback>>
  BY <1>1 DEF Client!OnConnected
<1>3. /\ ~ Sending(c) /\ ~ connected /\ connected \in BOOLEAN /\ pending_request = issued /\ c.k = issued
      /\ issued \in Nat /\ issued >= 1 /\ issued \in 1..N
  <2>1. ~ Sending(c)
    BY <1>2 DEF Sending
  <2>2. ~ connected /\ pending_request = issued /\ c.k = issued /\ issued >= 1
    BY <2>1 DEF Numbered
  <2>3. connected \in BOOLEAN /\ issued \in 0..N
    BY DEF ClientTypes
  <2> QED
    BY <2>1, <2>2, <2>3, ConstantsAre
<1>4. <<>> \in Seq(RespUnit)
  OBVIOUS
<1>5. CASE /\ Client!Failed(c) /\ link' = "none"
           /\ UNCHANGED <<connected, pending_request>>
  <2>1. Ends(0)
    BY <1>5, FailEnds DEF Client!Failed
  <2>2. results' \in Seq([for : Nat, with : Nat]) /\ Numbered' /\ Started <= Started'
    BY <1>1, <1>2, <2>1, EndNumbered
  <2>3. ClientTypes'
    BY <1>2, <1>4, <1>5, <2>1, <2>2 DEF ClientTypes, Ends
  <2>4. UNCHANGED server
    BY <1>1, <1>5
  <2> QED
    BY <1>1, <1>2, <1>3, <1>5, <2>1, <2>2, <2>3, <2>4
<1>6. CASE /\ link' = "up" /\ Client!SendRequest(c)
           /\ UNCHANGED <<results, pending_callback>>
  <2> DEFINE d == Client!Chain(issued, "write")
  <2>1. /\ connected' = TRUE /\ pending_request' = 0 /\ chains' = {d}
    BY <1>3, <1>6, OnlyChain DEF Client!SendRequest
  <2>2. d \in ChainSet /\ d.k = issued /\ d.at = "write"
    BY <1>3, NewChain DEF Steps
  <2> HIDE DEF d
  <2>3. GoesOn(d) /\ Sending(d)
    BY <1>6, <2>1, <2>2 DEF GoesOn, Sending
  <2>4. /\ Numbered' /\ chains' \subseteq ChainSet
        /\ Started' = issued /\ Started <= Started'
    BY <1>1, <1>2, <1>3, <2>1, <2>2, <2>3, GoOnNumbered
  <2>5. ClientTypes'
    BY <1>2, <1>4, <1>6, <2>1, <2>4 DEF ClientTypes
  <2>6. Accepted(issued)
    BY <1>1, <1>3, <1>6
  <2>7. Remainder(From(issued), issued)
    BY <1>3, FromIs
  <2>8. /\ Remainder(stream', issued)
        /\ sent' = 0 /\ got' = 0 /\ peer' = "open"
        /\ srv_buf' = <<>> /\ header_str' = <<>> /\ answers' = <<>>
        /\ keep_alive' = FALSE /\ requests_served' = 0 /\ written' = 0
        /\ pc' = IF 0 >= MaxKeepAlive THEN "shutdown" ELSE "header"
    BY <2>6, <2>7 DEF Accepted, Server!readRequest
  <2> QED
    BY <1>1, <1>2, <1>3, <1>6, <2>1, <2>2, <2>3, <2>4, <2>5, <2>8
<1> QED
  BY <1>2, <1>5, <1>6

(***************************************************************************)
(* The server's handlers.                                                  *)
(***************************************************************************)
\* What is known of a unit of a request.
LEMMA UnitIs ==
  ASSUME NEW u \in Unit
  PROVE  /\ u.owner \in Nat /\ u.head \in BOOLEAN /\ u.h \in Server!RequestHead
         /\ Server!ContentLen(u.h) \in Nat
         /\ Server!HeadOf(<<u>>) = u.h
<1>1. u.owner \in Nat /\ u.head \in BOOLEAN /\ u.h \in Server!RequestHead
  BY ExchangeAssumption
<1>2. Server!ContentLen(u.h) \in Nat
  BY <1>1 DEF Server!ContentLen, Server!RequestHead
<1>3. Len(<<u>>) = 1 /\ <<u>>[1] = u
  OBVIOUS
<1>4. Server!HeadOf(<<u>>) = u.h
  BY <1>3 DEF Server!HeadOf
<1> QED
  BY <1>1, <1>2, <1>4

\* The requests follow each other without a gap: what comes after the requests
\* before k is the head of request k, with its body.
LEMMA NextRequest ==
  ASSUME NEW s, NEW b \in Nat, Remainder(s, b), NEW k \in Nat, b <= k,
         NEW t \in Nat, t < Len(s), Upto(s, k - 1, t)
  PROVE  /\ s[t + 1] \in Unit /\ s[t + 1].owner = k /\ s[t + 1].head /\ k <= N
         /\ \E q \in Nat :
              /\ t + 1 <= q /\ q <= Len(s) /\ Upto(s, k, q)
              /\ s[t + 1].h.parses /\ Server!ContentLen(s[t + 1].h) <= MaxBody =>
                   Server!ContentLen(s[t + 1].h) = q - (t + 1)
<1>1. /\ s \in Seq(Unit) /\ Len(s) \in Nat
      /\ \A j \in 1..Len(s) : s[j].owner \in Nat /\ s[j].owner <= N
      /\ \A i, j \in 1..Len(s) : i <= j => s[i].owner <= s[j].owner
      /\ N \in Nat
  BY LenProperties, ConstantsAre DEF Remainder, Server!InOrder
<1> DEFINE e == t + 1
<1>2. e \in 1..Len(s) /\ s[e] \in Unit
  BY <1>1, ElementOfSeq
<1> HIDE DEF e
<1>3. s[e].owner >= k /\ k <= N
  <2>1. ~ (s[e].owner <= k - 1)
    BY <1>2 DEF Upto, e
  <2> QED
    BY <2>1, <1>1, <1>2
<1>4. Tidy(s, k)
  BY <1>1, <1>3 DEF Remainder
<1>5. PICK p \in 1..Len(s), q \in 1..Len(s) :
        /\ p <= q /\ p..q = {j \in 1..Len(s) : s[j].owner = k}
        /\ s[p].head
        /\ s[p].h.parses /\ Server!ContentLen(s[p].h) <= MaxBody =>
             Server!ContentLen(s[p].h) = q - p
  BY <1>4 DEF Tidy, Server!Spans
<1>6. p \in p..q /\ q \in p..q /\ s[p].owner = k /\ s[q].owner = k
  BY <1>5, <1>1
<1>7. p > t
  <2>1. ~ (s[p].owner <= k - 1)
    BY <1>6
  <2>2. ~ (p <= t)
    BY <2>1 DEF Upto
  <2> QED
    BY <2>2, <1>1
<1>8. e <= p /\ s[e].owner = k
  <2>1. e <= p
    BY <1>7, <1>1 DEF e
  <2>2. s[e].owner <= s[p].owner
    BY <2>1, <1>1, <1>2
  <2> QED
    BY <2>1, <2>2, <1>3, <1>6, <1>1, <1>2
<1>9. e = p
  <2>1. e \in p..q
    BY <1>8, <1>2, <1>5
  <2> QED
    BY <2>1, <1>8, <1>1
<1>10. Upto(s, k, q)
  <2>1. ASSUME NEW j \in 1..Len(s) PROVE s[j].owner <= k <=> j <= q
    <3>1. CASE j <= q
      <4>1. s[j].owner <= s[q].owner
        BY <3>1, <1>1
      <4> QED
        BY <3>1, <4>1, <1>6
    <3>2. CASE ~ j <= q
      <4>1. q <= j /\ j \notin p..q
        BY <3>2, <1>1
      <4>2. s[q].owner <= s[j].owner /\ s[j].owner # k
        BY <4>1, <1>1, <1>5
      <4> QED
        BY <3>2, <4>2, <1>6, <1>1
    <3> QED
      BY <3>1, <3>2
  <2> QED
    BY <2>1 DEF Upto
<1>11. q \in Nat /\ e <= q /\ q <= Len(s)
  BY <1>1, <1>5, <1>9
<1>12. s[e].h.parses /\ Server!ContentLen(s[e].h) <= MaxBody =>
         Server!ContentLen(s[e].h) = q - e
  BY <1>5, <1>9
<1> QED
  BY <1>2, <1>3, <1>5, <1>8, <1>9, <1>10, <1>11, <1>12 DEF e

\* What a read finds when it stands there.
LEMMA FrontIsHead ==
  ASSUME NEW s \in Seq(Unit), NEW t \in Nat, NEW e \in Nat, t < e, e <= Len(s), s[t + 1].head
  PROVE  LET buf == SubSeq(s, t + 1, e)
         IN  /\ buf \in Seq(Unit) /\ Len(buf) = e - t
             /\ ~ Server!NoHeader(buf)
             /\ \A i \in 1..Len(buf) : Server!HeaderAt(buf, i) => i = 1
             /\ SubSeq(buf, 1, 1) = <<s[t + 1]>>
<1> DEFINE buf == SubSeq(s, t + 1, e)
<1>1. Len(s) \in Nat /\ t <= e
  BY LenProperties
<1>2. buf \in Seq(Unit) /\ Len(buf) = e - t /\ \A k \in 1..(e - t) : buf[k] = s[t + k]
  BY <1>1, Cut
<1> HIDE DEF buf
<1>3. 1 \in 1..Len(buf) /\ buf[1] = s[t + 1] /\ buf[1].head /\ Len(buf) \in Nat /\ Len(buf) >= 1
  BY <1>1, <1>2
<1>4. ~ Server!NoHeader(buf)
  BY <1>3 DEF Server!NoHeader
<1>5. ASSUME NEW i \in 1..Len(buf), Server!HeaderAt(buf, i) PROVE i = 1
  <2>1. \A j \in 1..(i - 1) : ~ buf[j].head
    BY <1>5 DEF Server!HeaderAt
  <2>2. ~ (1 \in 1..(i - 1))
    BY <2>1, <1>3
  <2> QED
    BY <2>2, <1>3
<1>6. SubSeq(buf, 1, 1) = <<s[t + 1]>>
  <2>1. 1 \in Nat /\ 1 <= Len(buf)
    BY <1>3
  <2>2. SubSeq(buf, 1, 1) \in Seq(Unit) /\ Len(SubSeq(buf, 1, 1)) = 1
        /\ \A k \in 1..1 : SubSeq(buf, 1, 1)[k] = buf[k]
    BY ONLY <2>1, <1>2, FrontCut
  <2> DEFINE f == SubSeq(buf, 1, 1)
  <2>3. f \in Seq(Unit) /\ Len(f) = 1 /\ f[1] = s[t + 1]
    BY <2>2, <1>3
  <2> HIDE DEF f
  <2>4. f = <<f[1]>>
    BY <2>3
  <2> QED
    BY <2>3, <2>4 DEF f
<1> QED
  BY <1>2, <1>4, <1>5, <1>6 DEF buf

\* What is known of the three kinds of answers; a served one that says "close"
\* does not keep the connection.
LEMMA AnswerIs ==
  ASSUME NEW h \in Server!RequestHead, NEW raw \in Seq(Unit)
  PROVE  /\ Server!Served(h, raw) \in Server!AnswerSet
         /\ Server!Refusal("badRequest", raw) \in Server!AnswerSet
         /\ Server!Refusal("tooLarge", raw) \in Server!AnswerSet
         /\ Server!Switching(raw) \in Server!AnswerSet
         /\ Server!Served(h, raw).says = "close" => ~ Server!Served(h, raw).keep
         /\ Server!IsServed(Server!Served(h, raw))
         /\ \A a \in {Server!Refusal("badRequest", raw), Server!Refusal("tooLarge", raw),
                      Server!Switching(raw)} :
              ~ a.keep /\ a.says # "close" /\ ~ Server!IsServed(a) /\ a.raw = raw
         /\ Server!Served(h, raw).raw = raw
<1>1. Server!KeepAlive(h) \in BOOLEAN
  BY DEF Server!KeepAlive
<1> QED
  BY <1>1 DEF Server!Served, Server!Refusal, Server!Switching, Server!AnswerSet, Server!Status,
              Server!IsServed

\* The request that an answer is for is that of the first unit of its piece.
LEMMA AnsweredIs ==
  ASSUME NEW a, NEW u \in Unit, u.head, NEW rest \in Seq(Unit), a.raw = <<u>> \o rest
  PROVE  Answered(a) = u.owner
<1>1. <<u>> \in Seq(Unit) /\ Len(<<u>>) = 1 /\ <<u>>[1] = u /\ Len(rest) \in Nat
  BY LenProperties
<1>2. a.raw \in Seq(Unit) /\ Len(a.raw) = 1 + Len(rest) /\ a.raw[1] = u
  BY <1>1, ConcatProperties
<1>3. 1 \in 1..Len(a.raw)
  BY <1>1, <1>2
<1>4. Server!HeaderAt(a.raw, 1)
  BY <1>2, <1>3 DEF Server!HeaderAt
<1>5. \A i \in 1..Len(a.raw) : Server!HeaderAt(a.raw, i) => i = 1
  <2>1. ASSUME NEW i \in 1..Len(a.raw), Server!HeaderAt(a.raw, i) PROVE i = 1
    <3>1. \A j \in 1..(i - 1) : ~ a.raw[j].head
      BY <2>1 DEF Server!HeaderAt
    <3>2. ~ (1 \in 1..(i - 1))
      BY <3>1, <1>2
    <3> QED
      BY <3>2, <1>3
  <2> QED
    BY <2>1
<1>6. (CHOOSE i \in 1..Len(a.raw) : Server!HeaderAt(a.raw, i)) = 1
  BY <1>3, <1>4, <1>5
<1> QED
  BY <1>2, <1>6 DEF Answered

\* A step of the server answers request k: nothing of the requests after k has
\* been read and lost, and an answer that says "close" is the last one.
Answering(k) ==
  \E a \in Server!AnswerSet :
    /\ answers' = Append(answers, a) /\ Answered(a) = k
    /\ Server!IsServed(a) => \A u \in (got' + 1)..Len(stream) : stream[u].owner > k
    /\ a.says = "close" => ~ Going' /\ Server!IsServed(a)

\* The types of what a handler of the server changes.
HandlerTypes ==
  /\ pc \in {"header", "body", "write", "upgradeWrite", "shutdown", "dropped", "upgraded", "threw"}
  /\ keep_alive \in BOOLEAN /\ requests_served \in Nat
  /\ srv_buf \in Seq(Unit) /\ header_str \in Seq(Unit)
  /\ answers \in Seq(Server!AnswerSet)

\* An answer makes the next request the one to be answered.
LEMMA AnswerAppended ==
  ASSUME answers \in Seq(Server!AnswerSet), NEW a \in Server!AnswerSet,
         answers' = Append(answers, a), stream' = stream, stream # <<>>,
         stream[1].owner \in Nat
  PROVE  /\ answers' \in Seq(Server!AnswerSet)
         /\ Len(answers') = Len(answers) + 1 /\ Len(answers) \in Nat
         /\ answers'[Len(answers')] = a
         /\ NextUp \in Nat /\ NextUp' = NextUp + 1
<1>1. Len(answers) \in Nat
  BY LenProperties
<1>2. answers' \in Seq(Server!AnswerSet)
  BY AppendProperties
<1>3. Len(answers') = Len(answers) + 1
  BY AppendProperties
<1>4. answers'[Len(answers) + 1] = a
  BY AppendProperties
<1>5. NextUp \in Nat /\ NextUp' = NextUp + 1
  <2>1. NextUp = stream[1].owner + Len(answers)
    BY DEF NextUp
  <2>2. NextUp' = stream[1].owner + Len(answers')
    <3>1. stream' = stream /\ stream' # <<>>
      OBVIOUS
    <3>2. NextUp' = stream'[1].owner + Len(answers')
      BY ONLY <3>1 DEF NextUp
    <3> QED
      BY ONLY <3>1, <3>2
  <2> QED
    <3> DEFINE b == stream[1].owner
               m == Len(answers)
               x == NextUp
               y == NextUp'
    <3>1. b \in Nat /\ m \in Nat /\ x = b + m /\ y = b + (m + 1)
      BY <2>1, <2>2, <1>1, <1>3
    <3> HIDE DEF b, m, x, y
    <3>2. x \in Nat /\ y = x + 1
      BY ONLY <3>1
    <3> QED
      BY <3>2 DEF x, y
<1> QED
  BY <1>1, <1>2, <1>3, <1>4, <1>5

\* dispatchRequest, with the request k that stands between t and q.
LEMMA Dispatch ==
  ASSUME ServerTypes, stream # <<>>, stream[1].owner \in Nat,
         NEW u \in Unit, u.head, u.owner = NextUp, NEW body \in Seq(Unit),
         Server!dispatchRequest(<<u>>, body), stream' = stream,
         NEW q \in Nat, NEW g \in Nat, q <= g, g <= Len(stream),
         got' = g, srv_buf' = SubSeq(stream, q + 1, g), Upto(stream, NextUp, q)
  PROVE  /\ HandlerTypes' /\ Aligned'
         /\ \/ answers' = answers /\ ~ Going'
            \/ Answering(NextUp)
<1> DEFINE h   == Server!HeadOf(<<u>>)
           raw == <<u>> \o body
<1>1. /\ stream \in Seq(Unit) /\ Len(stream) \in Nat
      /\ answers \in Seq(Server!AnswerSet) /\ requests_served \in Nat /\ keep_alive \in BOOLEAN
  BY LenProperties DEF ServerTypes
<1>2. h \in Server!RequestHead /\ raw \in Seq(Unit)
  BY UnitIs, ConcatProperties
<1>3. srv_buf' \in Seq(Unit)
  BY ONLY <1>1, Cut, q \in Nat, g \in Nat, q <= g, g <= Len(stream),
          srv_buf' = SubSeq(stream, q + 1, g)
<1>4. <<>> \in Seq(Unit)
  OBVIOUS
<1>5. \A j \in (g + 1)..Len(stream) : stream[j].owner > NextUp
  <2>1. ASSUME NEW j \in (g + 1)..Len(stream) PROVE stream[j].owner > NextUp
    <3>1. j \in 1..Len(stream) /\ ~ (j <= q)
      BY <1>1
    <3>2. ~ (stream[j].owner <= NextUp)
      BY <3>1 DEF Upto
    <3>3. stream[j].owner \in Nat
      BY <3>1, <1>1, ElementOfSeq, UnitIs
    <3>4. NextUp \in Nat
      BY UnitIs
    <3> QED
      BY <3>2, <3>3, <3>4
  <2> QED
    BY <2>1
<1> HIDE DEF h, raw
<1>6. \/ /\ h.upgrade = "noKey"
         /\ Server!sendRaw(Server!Refusal("badRequest", raw), "write")
         /\ requests_served' = requests_served
      \/ /\ h.upgrade = "key"
         /\ Server!sendRaw(Server!Switching(raw), "upgradeWrite")
         /\ requests_served' = requests_served
      \/ /\ requests_served' = requests_served + 1
         /\ Server!sendRaw(Server!Served(h, raw), "write")
      \/ /\ pc' = "threw" /\ header_str' = <<>>
         /\ UNCHANGED <<requests_served, answers, keep_alive>>
  BY DEF Server!dispatchRequest, Server!handleWebSocketUpgrade, h, raw
<1>7. ASSUME NEW a \in Server!AnswerSet, NEW op \in {"write", "upgradeWrite"},
             a.raw = raw, Server!sendRaw(a, op),
             a.says = "close" => ~ a.keep /\ Server!IsServed(a),
             requests_served' \in Nat
      PROVE  HandlerTypes' /\ Aligned' /\ Answering(NextUp)
  <2>1. /\ answers' = Append(answers, a) /\ keep_alive' = a.keep /\ pc' = op
        /\ header_str' = <<>>
    BY <1>7 DEF Server!sendRaw
  <2>2. /\ answers' \in Seq(Server!AnswerSet)
        /\ NextUp \in Nat /\ NextUp' = NextUp + 1
    BY <1>1, <2>1, AnswerAppended
  <2>3. a.keep \in BOOLEAN
    BY DEF Server!AnswerSet
  <2>4. HandlerTypes'
    BY <1>3, <1>4, <1>7, <2>1, <2>2, <2>3 DEF HandlerTypes
  <2>5. Answered(a) = NextUp
    BY <1>7, AnsweredIs DEF raw
  <2>6. a.says = "close" => ~ Going'
    BY <1>7, <2>1 DEF Going
  <2>7. Answering(NextUp)
    BY <1>5, <1>7, <2>1, <2>5, <2>6 DEF Answering
  <2>8. Aligned'
    <3>1. SubSeq(stream, q + 1, q) = <<>> /\ q <= q
      BY EmptyCut
    <3>2. Adjacent(stream', q, q, got', header_str', srv_buf')
      BY <2>1, <3>1 DEF Adjacent
    <3>3. Upto(stream', NextUp' - 1, q)
      BY <2>2 DEF Upto
    <3>4. pc' # "body"
      BY <1>7, <2>1
    <3> QED
      BY <3>2, <3>3, <3>4 DEF Aligned
  <2> QED
    BY <2>4, <2>7, <2>8
<1>8. /\ Server!Served(h, raw) \in Server!AnswerSet
      /\ Server!Refusal("badRequest", raw) \in Server!AnswerSet
      /\ Server!Switching(raw) \in Server!AnswerSet
      /\ Server!Served(h, raw).says = "close" => ~ Server!Served(h, raw).keep
      /\ Server!IsServed(Server!Served(h, raw))
      /\ Server!Refusal("badRequest", raw).says # "close"
      /\ Server!Switching(raw).says # "close"
      /\ Server!Served(h, raw).raw = raw /\ Server!Switching(raw).raw = raw
      /\ Server!Refusal("badRequest", raw).raw = raw
  BY <1>2, AnswerIs
<1>9. CASE /\ h.upgrade = "noKey"
           /\ Server!sendRaw(Server!Refusal("badRequest", raw), "write")
           /\ requests_served' = requests_served
  BY <1>1, <1>7, <1>8, <1>9
<1>10. CASE /\ h.upgrade = "key"
            /\ Server!sendRaw(Server!Switching(raw), "upgradeWrite")
            /\ requests_served' = requests_served
  BY <1>1, <1>7, <1>8, <1>10
<1>11. CASE /\ requests_served' = requests_served + 1
            /\ Server!sendRaw(Server!Served(h, raw), "write")
  BY <1>1, <1>7, <1>8, <1>11
<1>12. CASE /\ pc' = "threw" /\ header_str' = <<>>
            /\ UNCHANGED <<requests_served, answers, keep_alive>>
  <2>1. ~ Going'
    BY <1>12 DEF Going
  <2>2. HandlerTypes'
    BY <1>1, <1>3, <1>4, <1>12 DEF HandlerTypes
  <2>3. Aligned'
    BY <2>1 DEF Aligned
  <2> QED
    BY <1>12, <2>1, <2>2, <2>3
<1> QED
  BY <1>6, <1>9, <1>10, <1>11, <1>12

\* A 400 or 413: the rest of the buffer is dropped, and the connection with it.
LEMMA Refuses ==
  ASSUME ServerTypes, stream # <<>>, stream[1].owner \in Nat,
         NEW u \in Unit, u.head, u.owner = NextUp,
         NEW st \in {"badRequest", "tooLarge"},
         Server!sendRaw(Server!Refusal(st, <<u>>), "write"),
         srv_buf' = <<>>, requests_served' = requests_served, stream' = stream
  PROVE  HandlerTypes' /\ Aligned' /\ Answering(NextUp)
<1> DEFINE a == Server!Refusal(st, <<u>>)
<1>1. /\ answers \in Seq(Server!AnswerSet) /\ requests_served \in Nat
      /\ <<u>> \in Seq(Unit) /\ <<>> \in Seq(Unit) /\ <<u>> = <<u>> \o <<>>
  BY DEF ServerTypes
<1>2. u.h \in Server!RequestHead
  BY UnitIs
<1>3. /\ a \in Server!AnswerSet /\ ~ a.keep /\ a.says # "close" /\ ~ Server!IsServed(a)
      /\ a.raw = <<u>>
  BY <1>1, <1>2, AnswerIs
<1>4. Answered(a) = NextUp
  BY <1>1, <1>3, AnsweredIs
<1>5. /\ answers' = Append(answers, a) /\ keep_alive' = a.keep /\ pc' = "write" /\ header_str' = <<>>
  BY DEF Server!sendRaw
<1> HIDE DEF a
<1>6. answers' \in Seq(Server!AnswerSet)
  BY <1>1, <1>3, <1>5, AnswerAppended
<1>7. ~ Going' /\ a.keep \in BOOLEAN
  BY <1>3, <1>5 DEF Going, Server!AnswerSet
<1>8. HandlerTypes'
  BY <1>1, <1>5, <1>6, <1>7 DEF HandlerTypes
<1>9. Aligned'
  BY <1>7 DEF Aligned
<1>10. Answering(NextUp)
  BY <1>3, <1>4, <1>5 DEF Answering
<1> QED
  BY <1>8, <1>9, <1>10

\* What every handler of the server does to the exchange.
Served(k) ==
  /\ HandlerTypes' /\ Aligned'
  /\ got' \in Nat /\ got <= got' /\ got' <= sent
  /\ UNCHANGED <<stream, sent, peer>>
  /\ pc # "shutdown"
  /\ \/ /\ answers' = answers /\ (Going' => Going)
        /\ pc' \in {"write", "shutdown"} => pc = "write"
     \/ /\ Going /\ k <= Started /\ k <= N
        /\ Answering(k)

\* Server!OnHeaderRead: the head in front of the buffer is that of the request
\* to be answered.
LEMMA HeaderReadStep ==
  ASSUME ServerTypes, StreamOK, Aligned, Server!OnHeaderRead
  PROVE  Served(NextUp)
<1>1. /\ pc = "header" /\ Going /\ stream # <<>>
      /\ UNCHANGED <<stream, sent, peer>>
  BY DEF Server!OnHeaderRead, Going, StreamOK
<1>2. /\ stream \in Seq(Unit) /\ Len(stream) \in Nat /\ sent \in Nat /\ sent <= Len(stream)
      /\ got \in Nat /\ got <= sent
      /\ srv_buf \in Seq(Unit) /\ header_str \in Seq(Unit)
      /\ answers \in Seq(Server!AnswerSet) /\ Len(answers) \in Nat
      /\ keep_alive \in BOOLEAN /\ requests_served \in Nat
      /\ Server!Arrived = sent - got
  BY LenProperties DEF ServerTypes, Server!Arrived
<1> DEFINE b == stream[1].owner
           k == NextUp
<1>3. Remainder(stream, b)
  BY <1>1 DEF StreamOK
<1>4. b \in Nat /\ k = b + Len(answers)
  BY <1>1, <1>3 DEF Remainder, NextUp
<1> HIDE DEF b, k
<1>5. k \in Nat /\ b <= k
  BY <1>2, <1>4
<1>6. PICK t \in Nat :
        /\ Adjacent(stream, t, t, got, header_str, srv_buf)
        /\ Upto(stream, k - 1, t)
  BY <1>1 DEF Aligned, k
<1>7. PICK n \in 0..(sent - got) :
        /\ n = 0 <=> ~ Server!NoHeader(srv_buf)
        /\ got' = got + n
        /\ LET buf == srv_buf \o SubSeq(stream, got + 1, got + n)
           IN  \/ Server!NoHeader(buf) /\ UNCHANGED answers
               \/ \E i \in 1..Len(buf) : Server!HeaderAt(buf, i) /\ Server!handleRequest(buf, i)
  BY <1>2 DEF Server!OnHeaderRead, Server!Chunk
<1> DEFINE g   == got + n
           buf == srv_buf \o SubSeq(stream, got + 1, got + n)
<1>8. n \in Nat /\ g \in Nat /\ got <= g /\ g <= sent /\ g <= Len(stream) /\ got' = g
  BY <1>2, <1>7
<1>9. Adjacent(stream, t, t, g, header_str, buf)
  BY <1>2, <1>6, <1>8, GrowCut
<1>10. t <= g /\ t <= got /\ buf = SubSeq(stream, t + 1, g) /\ srv_buf = SubSeq(stream, t + 1, got)
  BY <1>6, <1>9 DEF Adjacent
<1> HIDE DEF g, buf
<1>11. t < g
  <2>1. SUFFICES ASSUME t = g PROVE FALSE
    BY <1>8, <1>10
  <2>2. n = 0 /\ got = t
    BY <2>1, <1>2, <1>8, <1>10 DEF g
  <2>3. srv_buf = <<>>
    BY <2>2, <1>10, EmptyCut
  <2>4. Server!NoHeader(srv_buf)
    BY <2>3 DEF Server!NoHeader
  <2> QED
    BY <2>2, <2>4, <1>7
<1> DEFINE u == stream[t + 1]
<1>12. /\ u \in Unit /\ u.owner = k /\ u.head /\ k <= N
  BY <1>2, <1>3, <1>4, <1>5, <1>6, <1>8, <1>11, NextRequest
<1>13. PICK q \in Nat :
              /\ t + 1 <= q /\ q <= Len(stream) /\ Upto(stream, k, q)
              /\ u.h.parses /\ Server!ContentLen(u.h) <= MaxBody =>
                   Server!ContentLen(u.h) = q - (t + 1)
  BY <1>2, <1>3, <1>4, <1>5, <1>6, <1>8, <1>11, NextRequest
<1>14. k <= Started
  <2>1. t + 1 \in 1..sent
    BY <1>2, <1>8, <1>11
  <2> QED
    BY <2>1, <1>12 DEF StreamOK
<1>15. /\ buf \in Seq(Unit) /\ Len(buf) = g - t
       /\ ~ Server!NoHeader(buf)
       /\ \A i \in 1..Len(buf) : Server!HeaderAt(buf, i) => i = 1
       /\ SubSeq(buf, 1, 1) = <<u>>
  BY <1>2, <1>8, <1>10, <1>11, <1>12, FrontIsHead
<1> HIDE DEF u
<1>16. Server!handleRequest(buf, 1)
  BY <1>7, <1>15 DEF buf
<1>17. /\ Server!HeadOf(<<u>>) = u.h /\ Server!ContentLen(u.h) \in Nat
  BY <1>12, UnitIs
<1> DEFINE len == Server!ContentLen(u.h)
<1> HIDE DEF len
<1>18. \/ /\ Server!sendRaw(Server!Refusal("badRequest", <<u>>), "write")
          /\ srv_buf' = <<>> /\ requests_served' = requests_served
       \/ /\ Server!sendRaw(Server!Refusal("tooLarge", <<u>>), "write")
          /\ srv_buf' = <<>> /\ requests_served' = requests_served
       \/ /\ u.h.parses /\ len <= MaxBody /\ len > Len(buf) - 1
          /\ srv_buf' = SubSeq(buf, 1 + 1, Len(buf)) /\ header_str' = <<u>> /\ pc' = "body"
          /\ UNCHANGED <<requests_served, answers, keep_alive>>
       \/ /\ u.h.parses /\ len <= MaxBody /\ len <= Len(buf) - 1
          /\ srv_buf' = SubSeq(buf, 1 + len + 1, Len(buf))
          /\ Server!dispatchRequest(<<u>>, SubSeq(buf, 1 + 1, 1 + len))
  BY <1>15, <1>16, <1>17 DEF Server!handleRequest, Server!BadRequest, Server!TooLarge,
       Server!NeedBody, Server!BodyThere, len
<1>19. stream[1].owner \in Nat
  BY <1>4 DEF b
<1>20. len \in Nat /\ Len(buf) \in Nat
  BY <1>15, <1>17, LenProperties DEF len
<1>21. CASE \E st \in {"badRequest", "tooLarge"} :
              /\ Server!sendRaw(Server!Refusal(st, <<u>>), "write")
              /\ srv_buf' = <<>> /\ requests_served' = requests_served
  <2>1. HandlerTypes' /\ Aligned' /\ Answering(k)
    BY <1>1, <1>12, <1>19, <1>21, Refuses DEF k
  <2> QED
    BY <1>1, <1>8, <1>12, <1>14, <2>1 DEF Served, k
<1>22. CASE /\ u.h.parses /\ len <= MaxBody /\ len > Len(buf) - 1
            /\ srv_buf' = SubSeq(buf, 1 + 1, Len(buf)) /\ header_str' = <<u>> /\ pc' = "body"
            /\ UNCHANGED <<requests_served, answers, keep_alive>>
  <2>1. /\ 1 \in Nat /\ 1 <= g - t /\ g - t <= g - t /\ g - t \in Nat
        /\ t + (g - t) = g /\ t <= g
    BY <1>8, <1>10, <1>11
  <2>2. SubSeq(SubSeq(stream, t + 1, g), 1 + 1, g - t) = SubSeq(stream, t + 1 + 1, t + (g - t))
    BY ONLY <1>2, <1>6, <1>8, <2>1, CutOfCut
  <2>3. srv_buf' = SubSeq(stream, t + 1 + 1, g)
    BY <1>10, <1>15, <1>22, <2>1, <2>2
  <2>4. t + 1 \in Nat /\ t + 1 <= g /\ t <= t + 1
    BY <1>8, <1>11
  <2>5. SubSeq(stream, t + 1 + 1, g) \in Seq(Unit) /\ Len(SubSeq(stream, t + 1 + 1, g)) = g - (t + 1)
    BY ONLY <1>2, <1>8, <2>4, Cut
  <2>6. HandlerTypes'
    <3>1. <<u>> \in Seq(Unit) /\ srv_buf' \in Seq(Unit)
      BY <1>12, <2>3, <2>5
    <3> QED
      BY <1>2, <1>22, <3>1 DEF HandlerTypes
  <2>7. <<u>> = SubSeq(stream, t + 1, t + 1)
    <3>1. 1 \in Nat /\ 1 <= g - t /\ t <= g
      BY <2>1
    <3>2. SubSeq(SubSeq(stream, t + 1, g), 1, 1) = SubSeq(stream, t + 1, t + 1)
      BY ONLY <1>2, <1>6, <1>8, <3>1, PrefixOfCut
    <3> QED
      BY <3>2, <1>10, <1>15
  <2>8. Adjacent(stream, t, t + 1, g, header_str', srv_buf')
    BY <1>8, <1>22, <2>3, <2>4, <2>7 DEF Adjacent
  <2>9. NextUp' = NextUp
    BY <1>1, <1>22 DEF NextUp
  <2>10. len > Len(srv_buf')
    BY <1>8, <1>15, <1>20, <1>22, <2>3, <2>5
  <2>11. Aligned'
    <3>1. t \in Nat /\ t + 1 \in Nat
      BY <2>4
    <3>2. Adjacent(stream', t, t + 1, got', header_str', srv_buf') /\ Upto(stream', NextUp' - 1, t)
      BY <1>1, <1>6, <1>8, <2>8, <2>9 DEF k
    <3>3. /\ stream'[t + 1].h.parses /\ Server!ContentLen(stream'[t + 1].h) <= MaxBody
          /\ Len(srv_buf') < Server!ContentLen(stream'[t + 1].h)
      BY <1>1, <1>22, <2>10, <1>20, <2>3, <2>5, LenProperties DEF u, len
    <3>4. pc' = "body"
      BY <1>22
    <3> QED
      BY <3>1, <3>2, <3>3, <3>4 DEF Aligned
  <2> QED
    BY <1>1, <1>8, <1>22, <2>6, <2>11 DEF Served
<1>23. CASE /\ u.h.parses /\ len <= MaxBody /\ len <= Len(buf) - 1
            /\ srv_buf' = SubSeq(buf, 1 + len + 1, Len(buf))
            /\ Server!dispatchRequest(<<u>>, SubSeq(buf, 1 + 1, 1 + len))
  <2>1. len = q - (t + 1) /\ q = t + (1 + len) /\ q <= g
    BY <1>8, <1>13, <1>15, <1>20, <1>23 DEF len
  <2>2. /\ 1 + len \in Nat /\ 1 + len <= g - t /\ g - t <= g - t /\ g - t \in Nat /\ t <= g
        /\ t + (g - t) = g /\ 1 \in Nat /\ 1 <= 1 + len
    BY <1>8, <1>10, <1>15, <1>20, <1>23
  <2>3. SubSeq(SubSeq(stream, t + 1, g), (1 + len) + 1, g - t)
          = SubSeq(stream, t + (1 + len) + 1, t + (g - t))
    <3> DEFINE m == 1 + len
               e == g - t
    <3>1. m \in Nat /\ e \in Nat /\ m <= e /\ e <= g - t /\ t <= g
      BY <2>2
    <3> HIDE DEF m, e
    <3>2. SubSeq(SubSeq(stream, t + 1, g), m + 1, e) = SubSeq(stream, t + m + 1, t + e)
      BY ONLY <1>2, <1>6, <1>8, <3>1, CutOfCut
    <3> QED
      BY <3>2 DEF m, e
  <2>4. srv_buf' = SubSeq(stream, q + 1, g)
    BY <1>10, <1>15, <1>23, <2>1, <2>2, <2>3
  <2>5. SubSeq(buf, 1 + 1, 1 + len) \in Seq(Unit)
    <3>1. 1 <= 1 + len /\ 1 + len <= Len(buf)
      BY <2>2, <1>15
    <3> QED
      BY ONLY <1>15, <2>2, <3>1, Cut
  <2>6. /\ HandlerTypes' /\ Aligned'
        /\ \/ answers' = answers /\ ~ Going'
           \/ Answering(NextUp)
    BY <1>1, <1>8, <1>12, <1>13, <1>19, <1>23, <2>1, <2>4, <2>5, Dispatch DEF k
  <2>7. answers' = answers /\ ~ Going' => pc' \notin {"write", "shutdown"}
    <3>1. CASE Server!dispatchRequest(<<u>>, SubSeq(buf, 1 + 1, 1 + len)) /\ answers' = answers
      <4>1. \A a : answers' # Append(answers, a)
        <5>1. ASSUME NEW a, answers' = Append(answers, a) PROVE FALSE
          <6>1. Len(answers') = Len(answers) + 1
            BY <5>1, <1>2
          <6> QED
            BY <6>1, <3>1, <1>2
        <5> QED
          BY <5>1
      <4>2. pc' = "threw"
        BY <3>1, <4>1 DEF Server!dispatchRequest, Server!handleWebSocketUpgrade, Server!sendRaw
      <4> QED
        BY <4>2
    <3> QED
      BY <3>1, <1>23
  <2> QED
    BY <1>1, <1>8, <1>12, <1>14, <2>6, <2>7 DEF Served, k
<1> QED
  BY <1>18, <1>21, <1>22, <1>23

\* A handler that answers nothing and shuts nothing down that was not written.
LEMMA ThrewNotWritten ==
  ASSUME answers \in Seq(Server!AnswerSet), NEW block, NEW body,
         Server!dispatchRequest(block, body), answers' = answers
  PROVE  pc' \notin {"write", "shutdown"}
<1>1. \A a : answers' # Append(answers, a)
  <2>1. ASSUME NEW a, answers' = Append(answers, a) PROVE FALSE
    <3>1. Len(answers') = Len(answers) + 1 /\ Len(answers) \in Nat
      BY <2>1, LenProperties
    <3> QED
      BY <3>1
  <2> QED
    BY <2>1
<1>2. pc' = "threw"
  BY <1>1 DEF Server!dispatchRequest, Server!handleWebSocketUpgrade, Server!sendRaw
<1> QED
  BY <1>2

\* Server!OnBodyRead: the body is that of the request whose head is held.
LEMMA BodyReadStep ==
  ASSUME ServerTypes, StreamOK, Aligned, Server!OnBodyRead
  PROVE  Served(NextUp)
<1>1. /\ pc = "body" /\ Going /\ stream # <<>>
      /\ UNCHANGED <<stream, sent, peer>>
  BY DEF Server!OnBodyRead, Going, StreamOK
<1>2. /\ stream \in Seq(Unit) /\ Len(stream) \in Nat /\ sent \in Nat /\ sent <= Len(stream)
      /\ got \in Nat /\ got <= sent
      /\ srv_buf \in Seq(Unit) /\ header_str \in Seq(Unit)
      /\ answers \in Seq(Server!AnswerSet) /\ Len(answers) \in Nat
      /\ keep_alive \in BOOLEAN /\ requests_served \in Nat
      /\ Server!Arrived = sent - got
  BY LenProperties DEF ServerTypes, Server!Arrived
<1> DEFINE b == stream[1].owner
           k == NextUp
<1>3. Remainder(stream, b)
  BY <1>1 DEF StreamOK
<1>4. b \in Nat /\ k = b + Len(answers)
  BY <1>1, <1>3 DEF Remainder, NextUp
<1> HIDE DEF b, k
<1>5. k \in Nat /\ b <= k
  BY <1>2, <1>4
<1>6. PICK t \in Nat :
        /\ Adjacent(stream, t, t + 1, got, header_str, srv_buf)
        /\ Upto(stream, k - 1, t)
        /\ stream[t + 1].h.parses
        /\ Server!ContentLen(stream[t + 1].h) <= MaxBody
        /\ Len(srv_buf) < Server!ContentLen(stream[t + 1].h)
  BY <1>1 DEF Aligned, k
<1>7. /\ t + 1 \in Nat /\ t + 1 <= got /\ t <= t + 1
      /\ header_str = SubSeq(stream, t + 1, t + 1) /\ srv_buf = SubSeq(stream, t + 1 + 1, got)
  BY <1>6 DEF Adjacent
<1> DEFINE u == stream[t + 1]
<1>8. /\ u \in Unit /\ u.owner = k /\ u.head /\ k <= N
  BY <1>2, <1>3, <1>4, <1>5, <1>6, <1>7, NextRequest
<1>9. PICK q \in Nat :
              /\ t + 1 <= q /\ q <= Len(stream) /\ Upto(stream, k, q)
              /\ u.h.parses /\ Server!ContentLen(u.h) <= MaxBody =>
                   Server!ContentLen(u.h) = q - (t + 1)
  BY <1>2, <1>3, <1>4, <1>5, <1>6, <1>7, NextRequest
<1>10. k <= Started
  <2>1. t + 1 \in 1..sent
    BY <1>2, <1>7
  <2> QED
    BY <2>1, <1>8 DEF StreamOK
<1>11. header_str = <<u>>
  <2>1. t < t + 1 /\ t + 1 <= Len(stream)
    BY <1>2, <1>7
  <2>2. LET f == SubSeq(stream, t + 1, t + 1)
        IN  f \in Seq(Unit) /\ Len(f) = (t + 1) - t /\ SubSeq(f, 1, 1) = <<u>>
    BY <1>2, <1>6, <1>7, <1>8, <2>1, FrontIsHead
  <2> DEFINE f == SubSeq(stream, t + 1, t + 1)
  <2>3. f \in Seq(Unit) /\ Len(f) = 1 /\ SubSeq(f, 1, 1) = <<u>>
    BY <2>2
  <2> HIDE DEF f
  <2>4. SubSeq(f, 1, Len(f)) = f
    BY <2>3
  <2>5. f = <<u>>
    BY <2>3, <2>4
  <2> QED
    BY <2>5, <1>7 DEF f
<1>12. /\ Server!HeadOf(<<u>>) = u.h /\ Server!ContentLen(u.h) \in Nat
  BY <1>8, UnitIs
<1> DEFINE len == Server!ContentLen(u.h)
<1>13. /\ len \in Nat /\ len <= MaxBody /\ Len(srv_buf) < len /\ u.h.parses
       /\ len = q - (t + 1)
  BY <1>6, <1>9, <1>12
<1>14. Server!HeadOf(header_str) = u.h
  BY <1>11, <1>12
<1>15. stream[1].owner \in Nat
  BY <1>4 DEF b
<1> HIDE DEF u, len
<1>16. PICK n \in 1..(sent - got) :
         /\ got' = got + n
         /\ LET buf == srv_buf \o SubSeq(stream, got + 1, got + n)
            IN  /\ Len(buf) <= len
                /\ \/ /\ Len(buf) < len /\ srv_buf' = buf
                      /\ UNCHANGED <<pc, header_str, keep_alive, requests_served, answers>>
                   \/ /\ Len(buf) = len /\ srv_buf' = SubSeq(buf, len + 1, Len(buf))
                      /\ Server!dispatchRequest(header_str, SubSeq(buf, 1, len))
  BY <1>2, <1>14 DEF Server!OnBodyRead, Server!Chunk, len
<1> DEFINE g   == got + n
           buf == srv_buf \o SubSeq(stream, got + 1, got + n)
<1>17. n \in Nat /\ g \in Nat /\ got <= g /\ g <= sent /\ g <= Len(stream) /\ got' = g
  BY <1>2, <1>16
<1>18. Adjacent(stream, t, t + 1, g, header_str, buf)
  BY <1>2, <1>6, <1>7, <1>17, GrowCut
<1>19. /\ t + 1 <= g /\ buf = SubSeq(stream, t + 1 + 1, g)
  BY <1>18 DEF Adjacent
<1>20. \/ /\ Len(buf) < len /\ srv_buf' = buf
          /\ UNCHANGED <<pc, header_str, keep_alive, requests_served, answers>>
       \/ /\ Len(buf) = len /\ srv_buf' = SubSeq(buf, len + 1, Len(buf))
          /\ Server!dispatchRequest(<<u>>, SubSeq(buf, 1, len))
  BY <1>11, <1>16
<1> HIDE DEF g, buf
<1>21. buf \in Seq(Unit) /\ Len(buf) = g - (t + 1) /\ Len(buf) \in Nat
  <2>1. SubSeq(stream, t + 1 + 1, g) \in Seq(Unit) /\ Len(SubSeq(stream, t + 1 + 1, g)) = g - (t + 1)
    BY ONLY <1>2, <1>7, <1>17, <1>19, Cut
  <2> QED
    BY <1>19, <2>1, LenProperties
<1>22. CASE /\ Len(buf) < len /\ srv_buf' = buf
            /\ UNCHANGED <<pc, header_str, keep_alive, requests_served, answers>>
  <2>1. HandlerTypes'
    BY <1>1, <1>2, <1>21, <1>22 DEF HandlerTypes
  <2>2. NextUp' = NextUp /\ pc' = "body"
    BY <1>1, <1>22 DEF NextUp
  <2>3. Adjacent(stream', t, t + 1, got', header_str', srv_buf') /\ Upto(stream', NextUp' - 1, t)
    BY <1>1, <1>6, <1>17, <1>18, <1>22, <2>2 DEF k
  <2>4. /\ stream'[t + 1].h.parses /\ Server!ContentLen(stream'[t + 1].h) <= MaxBody
        /\ Len(srv_buf') < Server!ContentLen(stream'[t + 1].h)
    BY <1>1, <1>13, <1>22 DEF u, len
  <2>5. Aligned'
    BY <2>2, <2>3, <2>4, <1>7 DEF Aligned
  <2> QED
    BY <1>1, <1>17, <1>22, <2>1, <2>2, <2>5 DEF Served
<1>23. CASE /\ Len(buf) = len /\ srv_buf' = SubSeq(buf, len + 1, Len(buf))
            /\ Server!dispatchRequest(<<u>>, SubSeq(buf, 1, len))
  <2>1. q = g
    BY <1>7, <1>13, <1>17, <1>21, <1>23
  <2>2. srv_buf' = <<>>
    BY <1>13, <1>23, EmptyCut
  <2>3. srv_buf' = SubSeq(stream, q + 1, g) /\ q <= g
    BY <2>1, <2>2, EmptyCut
  <2>4. SubSeq(buf, 1, len) \in Seq(Unit)
    <3>1. len \in Nat /\ len <= Len(buf)
      BY <1>13, <1>23
    <3> QED
      BY ONLY <3>1, <1>21, FrontCut
  <2>5. /\ HandlerTypes' /\ Aligned'
        /\ \/ answers' = answers /\ ~ Going'
           \/ Answering(NextUp)
    BY <1>1, <1>8, <1>9, <1>15, <1>17, <1>23, <2>3, <2>4, Dispatch DEF k, u
  <2>6. answers' = answers => pc' \notin {"write", "shutdown"}
    BY <1>2, <1>23, ThrewNotWritten
  <2> QED
    BY <1>1, <1>8, <1>10, <1>17, <2>5, <2>6 DEF Served, k
<1> QED
  BY <1>20, <1>22, <1>23

\* OnReadError and OnWriteError need a peer that has closed, which the client of
\* an exchange does only with the connection.
LEMMA HandlerStep ==
  ASSUME ServerTypes, StreamOK, Aligned, Server!Handler
  PROVE  Served(NextUp)
<1>1. peer = "open" /\ got \in Nat /\ got <= sent /\ answers \in Seq(Server!AnswerSet)
      /\ srv_buf \in Seq(Unit) /\ header_str \in Seq(Unit)
      /\ keep_alive \in BOOLEAN /\ requests_served \in Nat
  BY DEF ServerTypes
<1>2. got <= got
  BY <1>1
<1>3. CASE Server!OnHeaderRead
  BY <1>3, HeaderReadStep
<1>4. CASE Server!OnBodyRead
  BY <1>4, BodyReadStep
<1>5. CASE Server!OnReadError \/ Server!OnWriteError
  BY <1>1, <1>5 DEF Server!OnReadError, Server!OnWriteError
<1>6. CASE Server!OnWritten
  <2>1. /\ pc = "write"
        /\ IF keep_alive THEN pc' = (IF requests_served >= MaxKeepAlive THEN "shutdown" ELSE "header")
           ELSE pc' = "shutdown"
        /\ UNCHANGED <<stream, sent, peer, got, srv_buf, header_str, keep_alive,
                       requests_served, answers>>
    BY <1>6 DEF Server!OnWritten, Server!readRequest
  <2>2. pc' \in {"shutdown", "header"} /\ (Going' => Going)
    BY <2>1 DEF Going
  <2>3. HandlerTypes'
    BY <1>1, <2>1, <2>2 DEF HandlerTypes
  <2>4. NextUp' = NextUp
    BY <2>1 DEF NextUp
  <2>5. Aligned'
    <3>1. SUFFICES ASSUME Going' PROVE Aligned'
      BY DEF Aligned
    <3>2. Going /\ pc # "body" /\ pc' # "body"
      BY <2>1, <2>2, <3>1
    <3>3. PICK t \in Nat : /\ Adjacent(stream, t, t, got, header_str, srv_buf)
                           /\ Upto(stream, NextUp - 1, t)
      BY <3>2 DEF Aligned
    <3>4. /\ Adjacent(stream', t, t, got', header_str', srv_buf')
          /\ Upto(stream', NextUp' - 1, t)
      BY <2>1, <2>4, <3>3
    <3> QED
      BY <3>2, <3>4 DEF Aligned
  <2> QED
    BY <1>1, <1>2, <2>1, <2>2, <2>3, <2>5 DEF Served
<1>7. CASE Server!OnUpgradeWritten
  <2>1. /\ pc = "upgradeWrite" /\ pc' = "upgraded"
        /\ UNCHANGED <<stream, sent, peer, got, srv_buf, header_str, keep_alive,
                       requests_served, answers>>
    BY <1>7 DEF Server!OnUpgradeWritten
  <2>2. ~ Going'
    BY <2>1 DEF Going
  <2>3. HandlerTypes' /\ Aligned'
    BY <1>1, <2>1, <2>2 DEF HandlerTypes, Aligned
  <2> QED
    BY <1>1, <1>2, <2>1, <2>2, <2>3 DEF Served
<1> QED
  BY <1>3, <1>4, <1>5, <1>6, <1>7 DEF Server!Handler

(***************************************************************************)
(* What a step leaves true.                                                *)
(***************************************************************************)
\* A step of the client or of the link leaves the server's side as it is.
LEMMA ServerKept ==
  ASSUME ClientTypes, Numbered, ServerTypes, StreamOK, Aligned, SaysOK, HandledOK,
         UNCHANGED <<server, plan, handled>>,
         Started' \in Nat, Started <= Started', connected' => connected /\ link' # "none"
  PROVE  /\ ServerTypes' /\ StreamOK' /\ Aligned' /\ SaysOK' /\ HandledOK'
         /\ NextUp' = NextUp /\ Going' = Going /\ Says' = Says /\ pc' = pc
<1>1. /\ UNCHANGED <<stream, sent, peer, got, srv_buf, pc, header_str, keep_alive,
                     requests_served, answers, written, plan, handled>>
  BY DEF server
<1>2. NextUp' = NextUp /\ Going' = Going /\ Says' = Says
  BY <1>1 DEF NextUp, Going, Says
<1>3. ServerTypes'
  BY <1>1 DEF ServerTypes
<1>4. StreamOK'
  BY StreamKept, StartedIs
<1>5. Aligned'
  BY <1>1, <1>2 DEF Aligned
<1>6. SaysOK'
  BY <1>1, <1>2 DEF SaysOK
<1>7. HandledOK'
  <2>1. \A j \in 1..Len(handled) : handled[j] <= Started'
    <3>1. ASSUME NEW j \in 1..Len(handled) PROVE handled[j] <= Started'
      <4>1. handled[j] \in Nat /\ handled[j] <= Started /\ Started \in Nat
        BY StartedIs, ElementOfSeq DEF ServerTypes, HandledOK
      <4> QED
        BY <4>1
    <3> QED
      BY <3>1
  <2> QED
    BY <1>1, <1>2, <2>1 DEF HandledOK
<1> QED
  BY <1>1, <1>2, <1>3, <1>4, <1>5, <1>6, <1>7

\* Nothing is reported in a step without a new result.
LEMMA ReportKept ==
  ASSUME ReportOK, UNCHANGED <<results, torn, handled>>,
         NextUp \in Nat, NextUp' \in Nat, NextUp <= NextUp', Going' => Going, results \in Seq([for : Nat, with : Nat])
  PROVE  ReportOK'
<1>1. ASSUME NEW i \in 1..Len(results'), Clean(i)'
      PROVE  /\ results'[i].with \in {0, i}
             /\ results'[i].with = 0 =>
                  (\A j \in 1..Len(handled') : handled'[j] # i) /\ (Going' => i < NextUp')
  <2>1. Clean(i) /\ i \in 1..Len(results) /\ results' = results /\ i \in Nat
    BY <1>1, LenProperties DEF Clean
  <2>2. /\ results[i].with \in {0, i}
        /\ results[i].with = 0 =>
             (\A j \in 1..Len(handled) : handled[j] # i) /\ (Going => i < NextUp)
    BY <2>1 DEF ReportOK
  <2>3. i < NextUp => i < NextUp'
    BY <2>1
  <2> QED
    BY <2>1, <2>2, <2>3
<1> QED
  BY <1>1 DEF ReportOK

\* A callback is told the truth when it is: torn is still empty then, or an
\* earlier request is in it.
LEMMA ReportEnds ==
  ASSUME ClientTypes, Numbered, ReportOK, NEW c \in chains, NEW r \in Nat, Ends(r),
         issued' = issued, torn \subseteq torn', torn' \subseteq torn \cup {issued},
         UNCHANGED handled, NextUp' = NextUp, Going' = Going,
         torn = {} => /\ r \in {0, issued}
                      /\ r = 0 => (\A j \in 1..Len(handled) : handled[j] # issued)
                                  /\ (Going => issued < NextUp)
  PROVE  ReportOK'
<1>1. /\ issued \in 1..N /\ issued \in Nat
      /\ Len(results) = issued - 1 /\ Len(results') = issued
      /\ results'[issued] = [for |-> issued, with |-> r]
      /\ \A i \in 1..(issued - 1) : results'[i] = results[i]
  BY EndNumbered, StartedIs
<1>2. ASSUME NEW i \in 1..Len(results'), Clean(i)'
      PROVE  /\ results'[i].with \in {0, i}
             /\ results'[i].with = 0 =>
                  (\A j \in 1..Len(handled') : handled'[j] # i) /\ (Going' => i < NextUp')
  <2>1. Clean(i)
    BY <1>2 DEF Clean
  <2>2. CASE i = issued
    <3>1. torn = {}
      <4>1. \A j \in torn : j \in 1..(issued - 1) /\ j >= issued
        BY <1>1, <2>1, <2>2 DEF Numbered, Clean
      <4> QED
        BY <4>1, <1>1
    <3> QED
      BY <1>1, <2>2, <3>1
  <2>3. CASE i # issued
    <3>1. i \in 1..(issued - 1) /\ i \in 1..Len(results)
      BY <1>1, <2>3
    <3>2. /\ results[i].with \in {0, i}
          /\ results[i].with = 0 =>
               (\A j \in 1..Len(handled) : handled[j] # i) /\ (Going => i < NextUp)
      BY <3>1, <2>1 DEF ReportOK
    <3> QED
      BY <1>1, <3>1, <3>2
  <2> QED
    BY <2>2, <2>3
<1> QED
  BY <1>2 DEF ReportOK

\* NextUp is a number, and not before the first request of the connection.
LEMMA NextUpIs ==
  ASSUME ServerTypes, StreamOK
  PROVE  /\ NextUp \in Nat
         /\ stream # <<>> => stream[1].owner \in Nat /\ stream[1].owner <= NextUp
<1>1. CASE stream = <<>>
  BY <1>1 DEF NextUp
<1>2. CASE stream # <<>>
  <2> DEFINE b == stream[1].owner
             m == Len(answers)
  <2>1. b \in Nat
    BY <1>2 DEF StreamOK, Remainder
  <2>2. m \in Nat
    BY LenProperties DEF ServerTypes
  <2>3. NextUp = b + m
    BY <1>2 DEF NextUp
  <2> HIDE DEF b, m
  <2>4. NextUp \in Nat /\ b <= NextUp
    BY ONLY <2>1, <2>2, <2>3
  <2> QED
    BY <2>1, <2>4 DEF b
<1> QED
  BY <1>1, <1>2

\* The response that is written for request k: a head, and m units of body.
LEMMA ResponseIs ==
  ASSUME NEW k \in Nat, NEW m \in Nat, NEW closes \in BOOLEAN
  PROVE  /\ Client!ResponseUnits(k, Reply(m, closes)) \in Seq(RespUnit)
         /\ Len(Client!ResponseUnits(k, Reply(m, closes))) = m + 1
<1> DEFINE r == Reply(m, closes)
           body == [j \in 1..r.n |-> Client!BodyUnit(k, r, j)]
           hd == Client!HeadUnit(k, r)
           head == <<hd>>
<1>1. r \in Client!ResponseSet /\ r.n = m
  BY DEF Reply, Client!ResponseSet
<1>2. hd \in RespUnit
  BY <1>1 DEF Client!HeadUnit, RespUnit
<1>3. \A j \in 1..r.n : Client!BodyUnit(k, r, j) \in RespUnit
  BY <1>1 DEF Client!BodyUnit, RespUnit, Reply
<1>4. Client!ResponseUnits(k, r) = head \o body
  BY DEF Client!ResponseUnits
<1> HIDE DEF r, hd
<1>5. body \in Seq(RespUnit) /\ Len(body) = m
  <2>1. body \in [1..m -> RespUnit]
    BY <1>1, <1>3
  <2>2. body \in Seq(RespUnit)
    BY <2>1, SeqDef
  <2>3. DOMAIN body = 1..m
    BY <1>1
  <2> HIDE DEF body
  <2>4. 1..Len(body) = 1..m /\ Len(body) \in Nat
    BY <2>2, <2>3, LenProperties
  <2> QED
    BY <2>2, <2>4
<1>6. head \in Seq(RespUnit) /\ Len(head) = 1
  BY <1>2
<1> HIDE DEF body, head
<1>7. head \o body \in Seq(RespUnit) /\ Len(head \o body) = m + 1
  BY <1>5, <1>6, ConcatProperties
<1> QED
  BY <1>4, <1>7 DEF r

\* Its first unit.
LEMMA ResponseFirst ==
  ASSUME NEW k \in Nat, NEW m \in Nat, NEW closes \in BOOLEAN
  PROVE  Client!ResponseUnits(k, Reply(m, closes))[1] = Client!HeadUnit(k, Reply(m, closes))
  BY ResponseIs DEF Client!ResponseUnits, Client!HeadUnit

\* Its head says how long it is, and whether the connection closes.
LEMMA ReplyHead ==
  ASSUME NEW k \in Nat, NEW m \in Nat, NEW closes \in BOOLEAN,
         NEW v, v = Client!HeadUnit(k, Reply(m, closes))
  PROVE  /\ v \in RespUnit /\ v.head /\ v.of = k
         /\ Client!ContentLen(v) = m /\ v.r.parses /\ v.r.close = closes
  BY DEF Client!HeadUnit, Reply, Client!ContentLen, RespUnit, Client!ResponseSet

(***************************************************************************)
(* The steps of the client.                                                *)
(***************************************************************************)
\* Every action but OnConnected leaves both sides' links to the past alone.
LEMMA Sides ==
  ASSUME IInv, ClientTypes', Numbered', Started <= Started',
         UNCHANGED <<server, plan, handled>>, connected' => connected /\ link' # "none"
  PROVE  /\ ServerTypes' /\ StreamOK' /\ Aligned' /\ SaysOK' /\ HandledOK'
         /\ NextUp' = NextUp /\ Going' = Going /\ Says' = Says /\ pc' = pc
         /\ NextUp \in Nat
<1>1. Started' \in Nat
  <2>1. issued' \in Nat /\ Len(results') \in Nat
    BY ConstantsAre, LenProperties DEF ClientTypes
  <2> QED
    BY <2>1 DEF Started
<1>2. NextUp \in Nat
  BY NextUpIs DEF IInv
<1> QED
  BY <1>1, <1>2, ServerKept DEF IInv

\* The requests that were served are not the one to come.
LEMMA HandledBefore ==
  ASSUME ServerTypes, ClientTypes, Numbered, HandledOK, NEW k \in Nat, Started < k
  PROVE  \A j \in 1..Len(handled) : handled[j] # k
<1>1. ASSUME NEW j \in 1..Len(handled) PROVE handled[j] # k
  <2>1. handled[j] \in Nat /\ handled[j] <= Started /\ Started \in Nat
    BY StartedIs, ElementOfSeq DEF ServerTypes, HandledOK
  <2> QED
    BY <2>1
<1> QED
  BY <1>1

\* Request.
LEMMA RequestKeeps ==
  ASSUME IInv, Request
  PROVE  IInv'
<1> USE DEF IInv
<1>1. ClientTypes' /\ Numbered' /\ Started <= Started'
  BY RequestNumbered
<1>2. /\ issued \in Nat /\ issued' = issued + 1 /\ chains = {}
      /\ UNCHANGED <<connected, read_buf, results, link, queue, inbound, server, plan, handled, torn>>
      /\ IF connected THEN chains' = {Client!Chain(issued + 1, "write")}
         ELSE chains' = {Client!Chain(issued + 1, "resolve")}
  BY RequestEffect, StartedIs
<1>3. connected' => connected /\ link' # "none"
  BY <1>2 DEF StreamOK
<1>4. /\ ServerTypes' /\ StreamOK' /\ Aligned' /\ SaysOK' /\ HandledOK'
      /\ NextUp' = NextUp /\ Going' = Going /\ Says' = Says /\ pc' = pc /\ NextUp \in Nat
  BY <1>1, <1>2, <1>3, Sides
<1>5. \A d \in chains' : IF connected THEN d.at = "write" ELSE d.at = "resolve"
  BY <1>2, NewChain DEF Steps
<1>6. LinkOK'
  <2>1. Started = issued /\ Started < issued'
    BY <1>2, StartedIs
  <2>2. issued' \in Nat
    BY <1>2
  <2>3. \A j \in 1..Len(handled) : handled[j] # issued'
    BY <2>1, <2>2, HandledBefore
  <2> QED
    BY <1>2, <1>4, <2>3 DEF LinkOK
<1>7. WireOK'
  <2>1. SUFFICES ASSUME torn = {} PROVE WireOK'
    BY <1>2 DEF WireOK
  <2>2. read_buf = <<>> /\ (~ connected => ~ Going) /\ (connected => Settled)
    BY <1>2, <2>1 DEF WireOK
  <2>3. connected => Unanswered'
    BY <1>2, <1>4, <2>2 DEF Settled, Unanswered
  <2>4. chains' # {}
    BY <1>2
  <2> QED
    BY <1>2, <1>4, <1>5, <2>2, <2>3, <2>4 DEF WireOK
<1>8. ReportOK'
  BY <1>2, <1>4, ReportKept DEF ClientTypes
<1> QED
  BY <1>1, <1>4, <1>6, <1>7, <1>8

\* OnResolved.
LEMMA ResolvedKeeps ==
  ASSUME IInv, NEW c \in chains, Client!OnResolved(c), UNCHANGED <<server, plan, history>>
  PROVE  IInv'
<1> USE DEF IInv
<1>1. /\ ClientTypes' /\ Numbered' /\ Started <= Started' /\ ~ connected /\ c.at = "resolve"
      /\ UNCHANGED <<issued, connected, read_buf, link, queue, inbound, torn>>
      /\ \/ Ends(0)
         \/ \E d : GoesOn(d) /\ ~ Sending(d)
  BY ResolvedStep DEF Client!OnResolved
<1>2. UNCHANGED <<server, plan, handled>>
  BY DEF history
<1>3. connected' => connected /\ link' # "none"
  BY <1>1
<1>4. /\ ServerTypes' /\ StreamOK' /\ Aligned' /\ SaysOK' /\ HandledOK'
      /\ NextUp' = NextUp /\ Going' = Going /\ Says' = Says /\ pc' = pc /\ NextUp \in Nat
  BY <1>1, <1>2, <1>3, Sides
<1>5. \A d \in chains' : ~ Sending(d)
  BY <1>1 DEF Ends, GoesOn
<1>6. LinkOK'
  BY <1>1, <1>4, <1>5 DEF LinkOK
<1>7. c.at # "body" /\ chains = {c}
  BY <1>1, OnlyChain
<1>8. torn = {} => read_buf = <<>> /\ ~ Going
  BY <1>1, <1>7 DEF WireOK
<1>9. WireOK'
  BY <1>1, <1>4, <1>5, <1>8 DEF WireOK, Sending
<1>10. ReportOK'
  <2>1. CASE Ends(0)
    <3>1. Started = issued - 1 /\ issued \in Nat /\ Started < issued
      BY <1>1, StartedIs DEF Sending
    <3>2. \A j \in 1..Len(handled) : handled[j] # issued
      BY <3>1, HandledBefore
    <3>3. torn \subseteq torn' /\ torn' \subseteq torn \cup {issued} /\ 0 \in Nat
      BY <1>1
    <3> QED
      BY <1>1, <1>2, <1>4, <1>8, <2>1, <3>2, <3>3, ReportEnds
  <2>2. CASE \E d : GoesOn(d) /\ ~ Sending(d)
    <3>1. results' = results
      BY <2>2 DEF GoesOn
    <3> QED
      BY <1>1, <1>2, <1>4, <3>1, ReportKept DEF ClientTypes
  <2> QED
    BY <1>1, <2>1, <2>2
<1> QED
  BY <1>1, <1>4, <1>6, <1>9, <1>10

\* Written.
LEMMA WrittenKeeps ==
  ASSUME IInv, NEW c \in chains,
         Client!Written(c), UNCHANGED <<queue, unframed>>, UNCHANGED <<server, plan, history>>
  PROVE  IInv'
<1> USE DEF IInv
<1>1. /\ ClientTypes' /\ Numbered' /\ Started <= Started' /\ c.at = "write"
      /\ UNCHANGED <<issued, connected, read_buf, link, queue, inbound, torn>>
      /\ \E d : GoesOn(d) /\ d.at = "header"
  BY WrittenStep
<1>2. UNCHANGED <<server, plan, handled>>
  BY DEF history
<1>3. connected' => connected /\ link' # "none"
  BY <1>1 DEF StreamOK
<1>4. /\ ServerTypes' /\ StreamOK' /\ Aligned' /\ SaysOK' /\ HandledOK'
      /\ NextUp' = NextUp /\ Going' = Going /\ Says' = Says /\ pc' = pc /\ NextUp \in Nat
  BY <1>1, <1>2, <1>3, Sides
<1>5. PICK d : GoesOn(d) /\ d.at = "header"
  BY <1>1
<1>6. chains' = {d} /\ results' = results /\ chains = {c} /\ Sending(c)
  BY <1>1, <1>5, OnlyChain DEF GoesOn, Sending
<1>7. LinkOK'
  BY <1>1, <1>2, <1>4, <1>6 DEF LinkOK
<1>8. WireOK'
  <2>1. SUFFICES ASSUME torn = {} PROVE WireOK'
    BY <1>1 DEF WireOK
  <2>2. read_buf = <<>> /\ (~ connected => ~ Going) /\ (Unanswered \/ Coming)
    BY <1>1, <1>6, <2>1 DEF WireOK
  <2>3. Unanswered' \/ Coming'
    BY <1>1, <1>4, <2>2 DEF Unanswered, Coming
  <2> QED
    BY <1>1, <1>4, <1>5, <1>6, <2>2, <2>3 DEF WireOK
<1>9. ReportOK'
  BY <1>1, <1>2, <1>4, <1>6, ReportKept DEF ClientTypes
<1> QED
  BY <1>1, <1>4, <1>7, <1>8, <1>9

\* A failed read or write ends an exchange that was not served.
LEMMA ErrorNotServed ==
  ASSUME IInv, NEW c \in chains, OnError(c), torn = {}
  PROVE  /\ \A j \in 1..Len(handled) : handled[j] # issued
         /\ link = "reset" \/ (link = "eof" /\ Unanswered)
<1> USE DEF IInv
<1>1. /\ connected /\ Sending(c) /\ issued \in Nat
      /\ \/ c.at = "write" /\ link \in {"none", "reset"}
         \/ /\ c.at \in {"header", "body"}
            /\ link = "reset" \/ (link = "eof" /\ inbound = <<>>)
  BY ErrorStep, StartedIs
<1>2. link # "none"
  BY <1>1 DEF StreamOK
<1>3. CASE link = "reset"
  BY <1>1, <1>3 DEF LinkOK
<1>4. CASE link = "eof"
  <2>1. c.at \in {"header", "body"} /\ inbound = <<>> /\ queue = <<>> /\ link # "reset"
    BY <1>1, <1>4 DEF LinkOK
  <2>2. Len(read_buf) \in Nat /\ Len(inbound) = 0 /\ Len(queue) = 0
    BY <2>1, LenProperties DEF ClientTypes
  <2>3. ~ Reading(c)
    BY <2>1, <2>2 DEF Reading
  <2>4. ~ Coming
    <3>1. SUFFICES ASSUME NEW m \in Nat,
                          inbound \o queue = Client!ResponseUnits(issued, Reply(m, Says = "close"))
                   PROVE  FALSE
      BY <2>1 DEF Coming
    <3>2. (Says = "close") \in BOOLEAN
      OBVIOUS
    <3>3. Len(Client!ResponseUnits(issued, Reply(m, Says = "close"))) = m + 1
      BY <1>1, <3>2, ResponseIs
    <3>4. inbound \o queue = <<>>
      BY <2>1
    <3> QED
      BY <3>1, <3>3, <3>4
  <2>5. Unanswered
    BY <2>1, <2>3, <2>4 DEF WireOK
  <2>6. \A j \in 1..Len(handled) : handled[j] # issued
    <3>1. ASSUME NEW j \in 1..Len(handled) PROVE handled[j] # issued
      <4>1. handled[j] < issued /\ handled[j] \in Nat
        BY <2>5, ElementOfSeq DEF HandledOK, Unanswered, ServerTypes
      <4> QED
        BY <4>1, <1>1
    <3> QED
      BY <3>1
  <2> QED
    BY <1>4, <2>5, <2>6
<1> QED
  BY <1>1, <1>2, <1>3, <1>4

\* OnError.
LEMMA ErrorKeeps ==
  ASSUME IInv, NEW c \in chains, OnError(c)
  PROVE  IInv'
<1> USE DEF IInv
<1>1. /\ ClientTypes' /\ Numbered' /\ Started <= Started'
      /\ Ends(0) /\ ~ connected' /\ connected /\ Sending(c)
      /\ UNCHANGED <<issued, read_buf, link, queue, inbound, server, plan, handled>>
      /\ torn' = IF c.at = "body" \/ read_buf # <<>> THEN torn \cup {issued} ELSE torn
      /\ link \in {"none", "eof", "reset"}
  BY ErrorStep
<1>2. /\ ServerTypes' /\ StreamOK' /\ Aligned' /\ SaysOK' /\ HandledOK'
      /\ NextUp' = NextUp /\ Going' = Going /\ Says' = Says /\ pc' = pc /\ NextUp \in Nat
  BY <1>1, Sides
<1>3. chains' = {}
  BY <1>1 DEF Ends
<1>4. LinkOK'
  BY <1>1, <1>2, <1>3 DEF LinkOK
<1>5. ~ Going
  <2>1. pc = "shutdown"
    BY <1>1 DEF StreamOK, LinkOK
  <2> QED
    BY <2>1 DEF Going
<1>6. torn' = {} => read_buf = <<>>
  BY <1>1
<1>7. WireOK'
  BY <1>1, <1>2, <1>3, <1>5, <1>6 DEF WireOK
<1>8. ReportOK'
  <2>1. torn \subseteq torn' /\ torn' \subseteq torn \cup {issued} /\ 0 \in Nat
    BY <1>1
  <2>2. torn = {} => \A j \in 1..Len(handled) : handled[j] # issued
    BY ErrorNotServed
  <2> QED
    BY <1>1, <1>2, <1>5, <2>1, <2>2, ReportEnds
<1> QED
  BY <1>1, <1>2, <1>4, <1>7, <1>8

\* A connection that is accepted meets a server that stands at its first request.
LEMMA AcceptedKeeps ==
  ASSUME IInv, NEW c \in chains, UNCHANGED <<issued, read_buf, plan, handled, torn>>,
         ClientTypes', Numbered', ~ connected, ~ Sending(c),
         queue' = <<>>, inbound' = <<>>,
         link' = "up", connected', \E d : GoesOn(d) /\ d.at = "write",
         Started' = issued, issued \in 1..N, Remainder(stream', issued),
         sent' = 0, got' = 0, peer' = "open",
         srv_buf' = <<>>, header_str' = <<>>, answers' = <<>>,
         keep_alive' = FALSE, requests_served' = 0,
         pc' = IF 0 >= MaxKeepAlive THEN "shutdown" ELSE "header"
  PROVE  IInv'
<1> USE DEF IInv
<1>1. /\ issued \in Nat /\ issued >= 1
      /\ Started = issued - 1 /\ chains = {c}
  <2>1. Started = IF Sending(c) THEN issued ELSE issued - 1
    BY StartedIs
  <2> QED
    BY <2>1, OnlyChain
<1>2. /\ stream' \in Seq(Unit) /\ Len(stream') >= 1 /\ Len(stream') \in Nat
      /\ stream' # <<>> /\ stream'[1].owner = issued
      /\ Server!InOrder(stream')
      /\ \A j \in 1..Len(stream') : stream'[j].owner \in Nat
  BY LenProperties DEF Remainder
<1>3. \A j \in 1..Len(stream') : stream'[j].owner >= issued
  <2>1. ASSUME NEW j \in 1..Len(stream') PROVE stream'[j].owner >= issued
    <3>1. 1 \in 1..Len(stream') /\ (1 < j \/ j = 1) /\ j \in Nat
      BY <1>2
    <3>2. CASE j = 1
      BY <1>1, <1>2, <3>2
    <3>3. CASE 1 < j
      <4>1. stream'[1].owner <= stream'[j].owner
        BY <1>2, <3>1, <3>3 DEF Server!InOrder
      <4> QED
        BY <1>1, <1>2, <4>1
    <3> QED
      BY <3>1, <3>2, <3>3
  <2> QED
    BY <2>1
<1>4. NextUp' = issued /\ Says' = "nothing" /\ (Going' => pc' = "header")
  <2>1. Len(answers') = 0
    OBVIOUS
  <2>2. NextUp' = stream'[1].owner + Len(answers')
    BY <1>2 DEF NextUp
  <2>3. NextUp' = issued
    BY ONLY <1>1, <1>2, <2>1, <2>2
  <2> QED
    BY <2>3 DEF Says, Going
<1>5. ServerTypes'
  <2>1. pc' \in {"header", "shutdown"}
    OBVIOUS
  <2>2. sent' \in Nat /\ got' \in Nat /\ sent' <= Len(stream') /\ got' <= sent'
    BY <1>2
  <2>3. <<>> \in Seq(Unit) /\ <<>> \in Seq(Server!AnswerSet)
    OBVIOUS
  <2> QED
    BY <1>2, <2>1, <2>2, <2>3 DEF ServerTypes
<1>6. StreamOK'
  <2>1. 1..sent' = {}
    OBVIOUS
  <2> QED
    BY <1>2, <2>1 DEF StreamOK
<1>7. Aligned'
  <2>1. Adjacent(stream', 0, 0, 0, header_str', srv_buf')
    BY <1>2, EmptyCut DEF Adjacent
  <2>2. Upto(stream', NextUp' - 1, 0)
    <3>1. ASSUME NEW j \in 1..Len(stream') PROVE ~ (stream'[j].owner <= NextUp' - 1) /\ ~ (j <= 0)
      <4>1. stream'[j].owner \in Nat /\ stream'[j].owner >= issued
        BY <1>2, <1>3
      <4> QED
        BY <1>1, <1>4, <4>1
    <3> QED
      BY <3>1 DEF Upto
  <2> QED
    BY <1>4, <2>1, <2>2 DEF Aligned
<1>8. SaysOK'
  BY <1>4 DEF SaysOK
<1>9. \A j \in 1..Len(handled) : handled[j] \in Nat /\ handled[j] < issued
  <2>1. ASSUME NEW j \in 1..Len(handled) PROVE handled[j] \in Nat /\ handled[j] < issued
    <3>1. handled[j] \in Nat /\ handled[j] <= Started
      BY ElementOfSeq DEF ServerTypes, HandledOK
    <3> QED
      BY <1>1, <3>1
  <2> QED
    BY <2>1
<1>10. HandledOK'
  <2>1. \A i, j \in 1..Len(handled) : i < j => handled[i] < handled[j]
    BY DEF HandledOK
  <2>2. ASSUME NEW j \in 1..Len(handled)
        PROVE  /\ handled[j] < NextUp' /\ handled[j] <= Started'
               /\ \A u \in (got' + 1)..Len(stream') : stream'[u].owner > handled[j]
    <3>1. handled[j] \in Nat /\ handled[j] < issued
      BY <1>9
    <3>2. ASSUME NEW u \in (got' + 1)..Len(stream') PROVE stream'[u].owner > handled[j]
      <4>1. u \in 1..Len(stream')
        BY <1>2
      <4>2. stream'[u].owner >= issued /\ stream'[u].owner \in Nat
        BY <4>1, <1>2, <1>3
      <4> QED
        BY <1>1, <3>1, <4>2
    <3> QED
      BY <1>1, <1>4, <3>1, <3>2
  <2> QED
    BY <2>1, <2>2 DEF HandledOK
<1>11. LinkOK'
  BY DEF LinkOK
<1>12. WireOK'
  <2>1. SUFFICES ASSUME torn = {} PROVE WireOK'
    BY DEF WireOK
  <2>2. c.at # "body"
    BY DEF Sending
  <2>3. read_buf = <<>>
    BY <1>1, <2>1, <2>2 DEF WireOK
  <2>4. Unanswered'
    BY <1>4 DEF Unanswered
  <2>5. PICK d : GoesOn(d) /\ d.at = "write"
    OBVIOUS
  <2>6. chains' = {d} /\ chains' # {} /\ \A e \in chains' : e.at = "write"
    BY <2>5 DEF GoesOn
  <2> QED
    BY <2>3, <2>4, <2>6 DEF WireOK
<1>13. ReportOK'
  <2>1. results' = results /\ Len(results) = issued - 1
    BY <1>1 DEF GoesOn, Numbered
  <2>2. ASSUME NEW i \in 1..Len(results'), Clean(i)'
        PROVE  /\ results'[i].with \in {0, i}
               /\ results'[i].with = 0 =>
                    (\A j \in 1..Len(handled') : handled'[j] # i) /\ (Going' => i < NextUp')
    <3>1. Clean(i) /\ i \in 1..Len(results) /\ i < issued
      BY <1>1, <2>1, <2>2 DEF Clean
    <3>2. /\ results[i].with \in {0, i}
          /\ results[i].with = 0 => \A j \in 1..Len(handled) : handled[j] # i
      BY <3>1 DEF ReportOK
    <3> QED
      BY <1>4, <2>1, <3>1, <3>2
  <2> QED
    BY <2>2 DEF ReportOK
<1> QED
  BY <1>5, <1>6, <1>7, <1>8, <1>10, <1>11, <1>12, <1>13

\* OnConnected.
LEMMA ConnectedKeeps ==
  ASSUME IInv, NEW c \in chains, OnConnected(c)
  PROVE  IInv'
<1> USE DEF IInv
<1>1. /\ ClientTypes' /\ Numbered' /\ Started <= Started'
      /\ ~ connected /\ ~ Sending(c)
      /\ queue' = <<>> /\ inbound' = <<>>
      /\ UNCHANGED <<issued, read_buf, plan, handled, torn>>
      /\ \/ /\ Ends(0) /\ link' = "none" /\ ~ connected'
            /\ UNCHANGED server
         \/ /\ link' = "up" /\ connected'
            /\ \E d : GoesOn(d) /\ d.at = "write"
            /\ Started' = issued /\ issued \in 1..N
            /\ Remainder(stream', issued)
            /\ sent' = 0 /\ got' = 0 /\ peer' = "open"
            /\ srv_buf' = <<>> /\ header_str' = <<>> /\ answers' = <<>>
            /\ keep_alive' = FALSE /\ requests_served' = 0 /\ written' = 0
            /\ pc' = IF 0 >= MaxKeepAlive THEN "shutdown" ELSE "header"
  BY ConnectedStep DEF ServerTypes
<1>2. CASE link' = "up"
  <2>1. /\ connected'
        /\ \E d : GoesOn(d) /\ d.at = "write"
        /\ Started' = issued /\ issued \in 1..N
        /\ Remainder(stream', issued)
        /\ sent' = 0 /\ got' = 0 /\ peer' = "open"
        /\ srv_buf' = <<>> /\ header_str' = <<>> /\ answers' = <<>>
        /\ keep_alive' = FALSE /\ requests_served' = 0
        /\ pc' = IF 0 >= MaxKeepAlive THEN "shutdown" ELSE "header"
    BY <1>1, <1>2
  <2> HIDE DEF IInv
  <2> QED
    BY <1>1, <1>2, <2>1, AcceptedKeeps
<1>3. CASE link' = "none" /\ Ends(0) /\ ~ connected' /\ UNCHANGED server
  <2>1. UNCHANGED <<server, plan, handled>> /\ (connected' => connected /\ link' # "none")
    BY <1>1, <1>3
  <2>2. /\ ServerTypes' /\ StreamOK' /\ Aligned' /\ SaysOK' /\ HandledOK'
        /\ NextUp' = NextUp /\ Going' = Going /\ Says' = Says /\ pc' = pc /\ NextUp \in Nat
    BY <1>1, <2>1, Sides
  <2>3. chains' = {} /\ chains = {c} /\ c.at # "body"
    BY <1>1, <1>3, OnlyChain DEF Ends, Sending
  <2>4. LinkOK'
    BY <1>3 DEF LinkOK
  <2>5. torn = {} => read_buf = <<>> /\ ~ Going
    BY <1>1, <2>3 DEF WireOK
  <2>6. WireOK'
    BY <1>1, <1>3, <2>2, <2>3, <2>5 DEF WireOK
  <2>7. Started = issued - 1 /\ issued \in Nat /\ Started < issued
    BY <1>1, StartedIs
  <2>8. \A j \in 1..Len(handled) : handled[j] # issued
    BY <2>7, HandledBefore
  <2>9. torn \subseteq torn' /\ torn' \subseteq torn \cup {issued} /\ 0 \in Nat
    BY <1>1
  <2>10. ReportOK'
    BY <1>1, <1>3, <2>1, <2>2, <2>5, <2>8, <2>9, ReportEnds
  <2> QED
    BY <1>1, <2>2, <2>4, <2>6, <2>10
<1> QED
  BY <1>1, <1>2, <1>3

\* What is coming, as units: a head that says how much body follows.
LEMMA ComingIs ==
  ASSUME ClientTypes, issued \in Nat, Coming, link # "reset"
  PROVE  \E m \in Nat :
           /\ Len(inbound) + Len(queue) = m + 1
           /\ inbound # <<>> => inbound[1] = Client!HeadUnit(issued, Reply(m, Says = "close"))
<1> DEFINE closes == Says = "close"
<1>1. closes \in BOOLEAN
  OBVIOUS
<1>2. PICK m \in Nat : inbound \o queue = Client!ResponseUnits(issued, Reply(m, closes))
  BY DEF Coming
<1> DEFINE u == Client!ResponseUnits(issued, Reply(m, closes))
<1>3. Len(u) = m + 1 /\ u[1] = Client!HeadUnit(issued, Reply(m, closes))
  BY <1>1, ResponseIs, ResponseFirst
<1>4. inbound \o queue = u
  BY <1>2
<1>5. inbound \in Seq(RespUnit) /\ queue \in Seq(RespUnit)
  BY DEF ClientTypes
<1> HIDE DEF u
<1>6. /\ Len(inbound) \in Nat /\ Len(queue) \in Nat
      /\ Len(u) = Len(inbound) + Len(queue)
  BY <1>4, <1>5, LenProperties, ConcatProperties
<1>7. ASSUME inbound # <<>> PROVE inbound[1] = u[1]
  <2>1. 1 \in 1..Len(inbound)
    BY <1>5, <1>6, <1>7, EmptySeq
  <2>2. 1 \in 1..(Len(inbound) + Len(queue)) /\ 1 <= Len(inbound)
    BY <1>6, <2>1
  <2>3. (inbound \o queue)[1] = inbound[1]
    BY <1>5, <2>2, ConcatProperties
  <2> QED
    BY <1>4, <2>3
<1> QED
  BY <1>3, <1>6, <1>7 DEF closes

\* OnHeaderRead, when nothing has broken off: the head that is read is that of
\* the response to the request under way.
LEMMA HeaderClean ==
  ASSUME IInv, NEW c \in chains, Client!OnHeaderRead(c), UNCHANGED <<server, plan, history>>,
         torn = {}
  PROVE  /\ NextUp = issued + 1 /\ link # "reset"
         /\ \/ /\ Ends(issued) /\ read_buf' = <<>> /\ inbound' = <<>> /\ queue = <<>>
               /\ connected' = (Says # "close")
            \/ /\ connected'
               /\ \E d : /\ GoesOn(d) /\ d.at = "body"
                         /\ \E m \in Nat :
                              /\ d.block = <<Client!HeadUnit(issued, Reply(m, Says = "close"))>>
                              /\ Len(read_buf') < m
                              /\ Len(read_buf') + Len(inbound') + Len(queue) = m
<1> USE DEF IInv
<1> DEFINE closes == Says = "close"
<1>1. /\ c.at = "header" /\ connected
      /\ \E n \in 0..Len(inbound) :
           LET buf == read_buf \o SubSeq(inbound, 1, n)
           IN  /\ (\E j \in 1..Len(read_buf) : read_buf[j].head) <=> n = 0
               /\ n > 0 => link # "reset"
               /\ inbound' = SubSeq(inbound, n + 1, Len(inbound))
               /\ \/ /\ \A j \in 1..Len(buf) : ~ buf[j].head
                     /\ UNCHANGED <<connected, chains, results, pending_callback>>
                     /\ read_buf' = buf
                  \/ \E i \in 1..Len(buf) :
                       /\ buf[i].head /\ \A j \in 1..(i - 1) : ~ buf[j].head
                       /\ Client!ProcessResponse(c, buf, i)
  BY HeaderStep
<1>2. chains = {c} /\ Sending(c) /\ issued \in Nat
  BY <1>1, OnlyChain, StartedIs DEF Sending
<1>3. read_buf = <<>> /\ (Unanswered \/ Coming)
  BY <1>1, <1>2 DEF WireOK
<1>4. PICK n \in 0..Len(inbound) :
           LET buf == SubSeq(inbound, 1, n)
           IN  /\ n # 0 /\ (n > 0 => link # "reset")
               /\ inbound' = SubSeq(inbound, n + 1, Len(inbound))
               /\ \/ \A j \in 1..Len(buf) : ~ buf[j].head
                  \/ \E i \in 1..Len(buf) :
                       /\ buf[i].head /\ \A j \in 1..(i - 1) : ~ buf[j].head
                       /\ Client!ProcessResponse(c, buf, i)
  <2>1. PICK n \in 0..Len(inbound) :
           LET buf == read_buf \o SubSeq(inbound, 1, n)
           IN  /\ (\E j \in 1..Len(read_buf) : read_buf[j].head) <=> n = 0
               /\ n > 0 => link # "reset"
               /\ inbound' = SubSeq(inbound, n + 1, Len(inbound))
               /\ \/ /\ \A j \in 1..Len(buf) : ~ buf[j].head
                     /\ UNCHANGED <<connected, chains, results, pending_callback>>
                     /\ read_buf' = buf
                  \/ \E i \in 1..Len(buf) :
                       /\ buf[i].head /\ \A j \in 1..(i - 1) : ~ buf[j].head
                       /\ Client!ProcessResponse(c, buf, i)
    BY <1>1
  <2>2. Len(inbound) \in Nat /\ inbound \in Seq(RespUnit) /\ n \in Nat /\ n <= Len(inbound)
    BY LenProperties DEF ClientTypes
  <2>3. SubSeq(inbound, 1, n) \in Seq(RespUnit)
    BY <2>2, FrontCut
  <2>4. read_buf \o SubSeq(inbound, 1, n) = SubSeq(inbound, 1, n)
    BY ONLY <1>3, <2>3, ConcatEmptySeq
  <2>5. 1..Len(read_buf) = {}
    BY <1>3
  <2> QED
    BY <2>1, <2>4, <2>5
<1> DEFINE buf == SubSeq(inbound, 1, n)
<1>5. /\ inbound \in Seq(RespUnit) /\ queue \in Seq(RespUnit)
      /\ Len(inbound) \in Nat /\ Len(queue) \in Nat
      /\ n \in Nat /\ 1 <= n /\ n <= Len(inbound) /\ link # "reset" /\ inbound # <<>>
  <2>1. Len(inbound) \in Nat /\ Len(queue) \in Nat /\ inbound \in Seq(RespUnit) /\ queue \in Seq(RespUnit)
    BY LenProperties DEF ClientTypes
  <2>2. n \in Nat /\ 1 <= n /\ n <= Len(inbound) /\ n > 0
    BY <1>4, <2>1
  <2> QED
    BY <1>4, <2>1, <2>2
<1>6. /\ buf \in Seq(RespUnit) /\ Len(buf) = n /\ 1 \in 1..Len(buf) /\ buf[1] = inbound[1]
  BY <1>5, FrontCut
<1>7. Coming
  BY <1>3, <1>5 DEF Unanswered
<1>8. PICK m \in Nat : /\ Len(inbound) + Len(queue) = m + 1
                       /\ inbound[1] = Client!HeadUnit(issued, Reply(m, closes))
  BY <1>2, <1>5, <1>7, ComingIs
<1>9. /\ buf[1].head /\ buf[1].of = issued /\ Client!ContentLen(buf[1]) = m
      /\ buf[1].r.parses /\ buf[1].r.close = closes
  <2>1. closes \in BOOLEAN
    OBVIOUS
  <2>2. buf[1] = Client!HeadUnit(issued, Reply(m, closes))
    BY <1>6, <1>8
  <2> HIDE DEF closes, buf
  <2> QED
    BY <1>2, <2>1, <2>2, ReplyHead
<1>10. inbound' = SubSeq(inbound, n + 1, Len(inbound)) /\ Len(inbound') = Len(inbound) - n
       /\ inbound' \in Seq(RespUnit)
  BY <1>4, <1>5, Behind
<1>11. Client!ProcessResponse(c, buf, 1)
  <2>1. PICK i \in 1..Len(buf) : /\ \A j \in 1..(i - 1) : ~ buf[j].head
                                 /\ Client!ProcessResponse(c, buf, i)
    BY <1>4, <1>6, <1>9
  <2>2. i = 1
    <3>1. i \in Nat /\ i >= 1 /\ (i > 1 => 1 \in 1..(i - 1))
      BY <1>5, <1>6
    <3> QED
      BY <1>9, <2>1, <3>1
  <2> QED
    BY <2>1, <2>2
<1>12. UNCHANGED pending_request /\ issued' = issued /\ torn' = torn
  BY DEF Client!OnHeaderRead, history
<1> DEFINE rest == SubSeq(buf, 1 + 1, Len(buf))
<1>13. /\ connected' \in BOOLEAN
       /\ \/ (1 > 1 \/ ~ buf[1].r.parses) /\ Ends(0)
          \/ /\ 1 = 1 /\ buf[1].r.parses /\ m <= Len(rest)
             /\ Ends(buf[1].of) /\ connected' = (connected /\ ~ buf[1].r.close)
             /\ read_buf' = SubSeq(rest, m + 1, Len(rest))
          \/ /\ 1 = 1 /\ buf[1].r.parses /\ m > Len(rest)
             /\ read_buf' = rest /\ connected' = connected
             /\ \E d : GoesOn(d) /\ d.at = "body" /\ d.block = <<buf[1]>>
  <2>1. Client!ContentLen(buf[1]) = m
    BY <1>9
  <2> HIDE DEF buf
  <2> QED
    BY <1>2, <1>6, <1>11, <1>12, <2>1, ProcessCases
<1>14. rest \in Seq(RespUnit) /\ Len(rest) = n - 1
  <2> HIDE DEF buf
  <2>1. 1 \in Nat /\ 1 <= Len(buf)
    BY <1>5, <1>6
  <2> QED
    BY <1>6, <2>1, Behind
<1>15. NextUp = issued + 1
  BY <1>7 DEF Coming
<1>16. CASE m <= Len(rest)
  <2>1. /\ Ends(issued) /\ connected' = (Says # "close")
        /\ read_buf' = SubSeq(rest, m + 1, Len(rest))
    <3> HIDE DEF buf, rest
    <3>1. ~ (m > Len(rest)) /\ ~ (1 > 1)
      BY <1>5, <1>14, <1>16
    <3> QED
      BY <1>1, <1>9, <1>13, <3>1
  <2>2. m = n - 1 /\ n = Len(inbound) /\ Len(queue) = 0
    BY <1>5, <1>8, <1>14, <1>16
  <2>3. inbound' = <<>> /\ queue = <<>>
    BY <1>5, <1>10, <2>2, EmptySeq
  <2>4. read_buf' = <<>>
    <3> HIDE DEF buf, rest
    <3>1. m = Len(rest)
      BY <1>14, <2>2
    <3> QED
      BY <2>1, <3>1, EmptyCut
  <2> QED
    BY <1>5, <1>15, <2>1, <2>3, <2>4
<1>17. CASE m > Len(rest)
  <2>1. /\ read_buf' = rest /\ connected'
        /\ \E d : GoesOn(d) /\ d.at = "body" /\ d.block = <<buf[1]>>
    <3> HIDE DEF buf, rest
    <3>1. ~ (m <= Len(rest)) /\ ~ (1 > 1)
      BY <1>5, <1>14, <1>17
    <3> QED
      BY <1>1, <1>9, <1>13, <3>1
  <2>2. Len(read_buf') < m
    BY <1>5, <1>14, <1>17, <2>1
  <2>3. Len(read_buf') + Len(inbound') + Len(queue) = m
    <3>1. Len(read_buf') = n - 1
      BY <1>14, <2>1
    <3> HIDE DEF buf, rest
    <3> QED
      BY <1>5, <1>8, <1>10, <3>1
  <2>4. PICK d : GoesOn(d) /\ d.at = "body" /\ d.block = <<buf[1]>>
    BY <2>1
  <2>5. d.block = <<Client!HeadUnit(issued, Reply(m, Says = "close"))>>
    BY <1>6, <1>8, <2>4
  <2> QED
    BY <1>5, <1>15, <2>1, <2>2, <2>3, <2>4, <2>5
<1>18. m <= Len(rest) \/ m > Len(rest)
  BY <1>14, <1>5
<1> QED
  BY <1>16, <1>17, <1>18

\* A chain that stays with its connection stays behind a reset.
LEMMA LinkKept ==
  ASSUME LinkOK, NEW c \in chains, Sending(c), UNCHANGED <<link, queue, issued, handled, pc>>
  PROVE  LinkOK'
  BY DEF LinkOK

\* A result tells whose it is and what it is.
LEMMA OneResult ==
  ASSUME ClientTypes, NEW k \in Nat, NEW l \in Nat, NEW r \in Nat, NEW s \in Nat,
         results' = Append(results, [for |-> k, with |-> r]),
         results' = Append(results, [for |-> l, with |-> s])
  PROVE  k = l /\ r = s /\ results' # results
<1>1. results \in Seq([for : Nat, with : Nat]) /\ Len(results) \in Nat
  BY LenProperties DEF ClientTypes
<1>2. /\ [for |-> k, with |-> r] \in [for : Nat, with : Nat]
      /\ [for |-> l, with |-> s] \in [for : Nat, with : Nat]
  OBVIOUS
<1>3. [for |-> k, with |-> r] = [for |-> l, with |-> s]
  <2> DEFINE x == [for |-> k, with |-> r]
             y == [for |-> l, with |-> s]
  <2> HIDE DEF x, y
  <2>1. x \in [for : Nat, with : Nat] /\ y \in [for : Nat, with : Nat]
    BY <1>2 DEF x, y
  <2>2. Append(results, x)[Len(results) + 1] = x /\ Append(results, y)[Len(results) + 1] = y
    BY <1>1, <2>1, AppendProperties
  <2>3. Append(results, x) = Append(results, y)
    BY DEF x, y
  <2> QED
    BY <2>2, <2>3 DEF x, y
<1>4. Len(results') = Len(results) + 1
  BY <1>1, <1>2, AppendProperties
<1> QED
  BY <1>1, <1>3, <1>4

\* OnHeaderRead calls the callback at most once.
LEMMA HeaderEnds ==
  ASSUME IInv, NEW c \in chains, Client!OnHeaderRead(c), UNCHANGED <<server, plan, history>>,
         results' # results
  PROVE  \E r \in Nat : Ends(r)
<1>1. /\ Sending(c)
      /\ \E n \in 0..Len(inbound) :
           LET buf == read_buf \o SubSeq(inbound, 1, n)
           IN  \/ UNCHANGED results
               \/ \E i \in 1..Len(buf) : Client!ProcessResponse(c, buf, i)
  BY HeaderStep DEF IInv, Sending
<1>2. PICK n \in 0..Len(inbound) :
        \E i \in 1..Len(read_buf \o SubSeq(inbound, 1, n)) :
          Client!ProcessResponse(c, read_buf \o SubSeq(inbound, 1, n), i)
  BY <1>1
<1> DEFINE buf == read_buf \o SubSeq(inbound, 1, n)
<1>3. buf \in Seq(RespUnit)
  BY ReadTypes DEF IInv
<1>4. PICK i \in 1..Len(buf) : Client!ProcessResponse(c, buf, i)
  BY <1>2
<1>5. UNCHANGED pending_request /\ issued' = issued /\ torn' = torn
  BY DEF Client!OnHeaderRead, history
<1> HIDE DEF buf
<1>6. \/ Ends(0) \/ Ends(buf[i].of)
      \/ \E d : GoesOn(d)
  BY <1>1, <1>3, <1>4, <1>5, ProcessCases DEF IInv
<1>7. ~ \E d : GoesOn(d)
  BY DEF GoesOn
<1>8. buf[i].of \in Nat
  BY <1>3, ElementOfSeq, LengthOf
<1> QED
  BY <1>6, <1>7, <1>8

\* The response whose body is being read, when nothing has broken off.
LEMMA BodyClean ==
  ASSUME IInv, NEW c \in chains, c.at = "body", torn = {}
  PROVE  LET len == Client!ContentLen(c.block[1])
         IN  /\ NextUp = issued + 1 /\ c.block[1].of = issued
             /\ c.block[1].r.close = (Says = "close")
             /\ c.block = <<Client!HeadUnit(issued, Reply(len, Says = "close"))>>
             /\ len \in Nat
             /\ link # "reset" => Len(read_buf) + Len(inbound) + Len(queue) = len
<1> DEFINE len == Client!ContentLen(c.block[1])
<1>1. Reading(c)
  BY DEF IInv, WireOK
<1>2. PICK m \in Nat :
        /\ c.block = <<Client!HeadUnit(issued, Reply(m, Says = "close"))>>
        /\ link # "reset" => Len(read_buf) + Len(inbound) + Len(queue) = m
  BY <1>1 DEF Reading
<1>3. len = m /\ c.block[1].of = issued /\ c.block[1].r.close = (Says = "close")
  <2> DEFINE v == c.block[1]
             closes == Says = "close"
  <2>1. v = Client!HeadUnit(issued, Reply(m, closes)) /\ closes \in BOOLEAN /\ issued \in Nat
    BY <1>2, StartedIs DEF IInv
  <2> HIDE DEF v, closes
  <2>2. Client!ContentLen(v) = m /\ v.of = issued /\ v.r.close = closes
    BY <2>1, ReplyHead
  <2> QED
    BY <2>2 DEF v, closes
<1>4. NextUp = issued + 1
  BY <1>1 DEF Reading
<1> QED
  BY <1>2, <1>3, <1>4

\* OnHeaderRead.
LEMMA HeaderKeeps ==
  ASSUME IInv, NEW c \in chains, Client!OnHeaderRead(c), UNCHANGED <<server, plan, history>>
  PROVE  IInv'
<1>1. /\ ClientTypes' /\ Numbered' /\ Started <= Started'
      /\ c.at = "header" /\ connected /\ (connected' => connected)
      /\ UNCHANGED <<issued, link, queue, torn>>
      /\ \E n \in 0..Len(inbound) :
           LET buf == read_buf \o SubSeq(inbound, 1, n)
           IN  \/ UNCHANGED results
               \/ \E i \in 1..Len(buf) : Client!ProcessResponse(c, buf, i)
  BY HeaderStep DEF IInv
<1>2. UNCHANGED <<server, plan, handled>> /\ Sending(c)
  BY <1>1 DEF history, Sending
<1>3. connected' => connected /\ link' # "none"
  BY <1>1 DEF IInv, StreamOK
<1>4. /\ ServerTypes' /\ StreamOK' /\ Aligned' /\ SaysOK' /\ HandledOK'
      /\ NextUp' = NextUp /\ Going' = Going /\ Says' = Says /\ pc' = pc /\ NextUp \in Nat
  BY <1>1, <1>2, <1>3, Sides
<1>5. LinkOK'
  BY <1>1, <1>2, <1>4, LinkKept DEF IInv
<1>6. ASSUME torn = {}
      PROVE  /\ NextUp = issued + 1 /\ link # "reset"
             /\ \/ /\ Ends(issued) /\ read_buf' = <<>> /\ inbound' = <<>> /\ queue = <<>>
                   /\ connected' = (Says # "close")
                \/ /\ connected'
                   /\ \E d : /\ GoesOn(d) /\ d.at = "body"
                             /\ \E m \in Nat :
                                  /\ d.block = <<Client!HeadUnit(issued, Reply(m, Says = "close"))>>
                                  /\ Len(read_buf') < m
                                  /\ Len(read_buf') + Len(inbound') + Len(queue) = m
  BY <1>6, HeaderClean
<1>7. WireOK'
  <2>1. SUFFICES ASSUME torn = {} PROVE WireOK'
    BY <1>1 DEF WireOK
  <2>2. CASE /\ Ends(issued) /\ read_buf' = <<>> /\ inbound' = <<>> /\ queue = <<>>
             /\ connected' = (Says # "close")
    <3>1. chains' = {}
      BY <2>2 DEF Ends
    <3>2. connected' => Settled'
      BY <1>1, <1>4, <1>6, <2>1, <2>2 DEF Settled
    <3>3. ~ connected' => ~ Going'
      BY <1>4, <2>2 DEF IInv, SaysOK
    <3> QED
      BY <2>2, <3>1, <3>2, <3>3 DEF WireOK
  <2>3. CASE /\ connected'
             /\ \E d : /\ GoesOn(d) /\ d.at = "body"
                       /\ \E m \in Nat :
                            /\ d.block = <<Client!HeadUnit(issued, Reply(m, Says = "close"))>>
                            /\ Len(read_buf') < m
                            /\ Len(read_buf') + Len(inbound') + Len(queue) = m
    <3>1. PICK d : /\ GoesOn(d) /\ d.at = "body"
                   /\ \E m \in Nat :
                        /\ d.block = <<Client!HeadUnit(issued, Reply(m, Says = "close"))>>
                        /\ Len(read_buf') < m
                        /\ Len(read_buf') + Len(inbound') + Len(queue) = m
      BY <2>3
    <3>2. chains' = {d}
      BY <3>1 DEF GoesOn
    <3>3. NextUp' = issued' + 1
      BY <1>1, <1>4, <1>6, <2>1
    <3>4. Reading(d)'
      BY <1>1, <1>4, <3>1, <3>3 DEF Reading
    <3> QED
      BY <2>3, <3>1, <3>2, <3>4 DEF WireOK
  <2> QED
    BY <1>6, <2>1, <2>2, <2>3
<1>8. ReportOK'
  <2>1. CASE UNCHANGED results
    BY <1>1, <1>2, <1>4, <2>1, ReportKept DEF IInv, ClientTypes
  <2>2. CASE results' # results
    <3>1. \E r \in Nat : Ends(r)
      BY <2>2, HeaderEnds
    <3>2. PICK r \in Nat : Ends(r)
      BY <3>1
    <3>3. ASSUME torn = {} PROVE r = issued
      <4>1. Ends(issued)
        BY <1>6, <2>2, <3>3 DEF GoesOn
      <4>2. issued \in Nat
        BY StartedIs DEF IInv
      <4> QED
        BY <3>2, <4>1, <4>2, OneResult DEF IInv, Ends
    <3>4. issued # 0
      BY DEF IInv, Numbered
    <3>5. torn \subseteq torn' /\ torn' \subseteq torn \cup {issued}
      BY <1>1
    <3> QED
      BY <1>1, <1>2, <1>4, <3>2, <3>3, <3>4, <3>5, ReportEnds DEF IInv
  <2> QED
    BY <2>1, <2>2
<1> QED
  BY <1>1, <1>4, <1>5, <1>7, <1>8 DEF IInv

\* OnBodyRead.
LEMMA BodyKeeps ==
  ASSUME IInv, NEW c \in chains, Client!OnBodyRead(c), UNCHANGED <<server, plan, history>>
  PROVE  IInv'
<1>1. /\ ClientTypes' /\ Numbered' /\ Started <= Started'
      /\ c.at = "body" /\ connected /\ (connected' => connected) /\ link # "reset"
      /\ UNCHANGED <<issued, link, queue, torn>>
      /\ \E n \in 1..Len(inbound) :
           LET buf == read_buf \o SubSeq(inbound, 1, n)
               len == Client!ContentLen(c.block[1])
           IN  /\ inbound' = SubSeq(inbound, n + 1, Len(inbound))
               /\ \/ /\ Len(buf) < len /\ read_buf' = buf
                     /\ UNCHANGED <<connected, chains, results, pending_callback>>
                  \/ /\ Len(buf) = len /\ Ends(c.block[1].of) /\ read_buf' = <<>>
                     /\ connected' = (connected /\ ~ c.block[1].r.close)
  BY BodyStep DEF IInv
<1>2. UNCHANGED <<server, plan, handled>> /\ Sending(c) /\ chains = {c} /\ issued \in 1..N
  <2>1. UNCHANGED <<server, plan, handled>> /\ Sending(c)
    BY <1>1 DEF history, Sending
  <2>2. issued \in 0..N /\ issued >= 1 /\ chains = {c}
    BY OnlyChain DEF IInv, ClientTypes, Numbered
  <2> QED
    BY <2>1, <2>2, ConstantsAre
<1>3. connected' => connected /\ link' # "none"
  BY <1>1 DEF IInv, StreamOK
<1>4. /\ ServerTypes' /\ StreamOK' /\ Aligned' /\ SaysOK' /\ HandledOK'
      /\ NextUp' = NextUp /\ Going' = Going /\ Says' = Says /\ pc' = pc /\ NextUp \in Nat
  BY <1>1, <1>2, <1>3, Sides
<1>5. LinkOK'
  BY <1>1, <1>2, <1>4, LinkKept DEF IInv
<1>6. PICK n \in 1..Len(inbound) :
           LET buf == read_buf \o SubSeq(inbound, 1, n)
               len == Client!ContentLen(c.block[1])
           IN  /\ inbound' = SubSeq(inbound, n + 1, Len(inbound))
               /\ \/ /\ Len(buf) < len /\ read_buf' = buf
                     /\ UNCHANGED <<connected, chains, results, pending_callback>>
                  \/ /\ Len(buf) = len /\ Ends(c.block[1].of) /\ read_buf' = <<>>
                     /\ connected' = (connected /\ ~ c.block[1].r.close)
  BY <1>1
<1> DEFINE buf == read_buf \o SubSeq(inbound, 1, n)
           len == Client!ContentLen(c.block[1])
<1>7. /\ Len(inbound) \in Nat /\ n \in 0..Len(inbound) /\ n \in Nat /\ Len(queue) \in Nat
      /\ inbound \in Seq(RespUnit) /\ n <= Len(inbound) /\ Len(read_buf) \in Nat
  <2>1. Len(inbound) \in Nat /\ inbound \in Seq(RespUnit) /\ Len(queue) \in Nat /\ Len(read_buf) \in Nat
    BY LenProperties DEF IInv, ClientTypes
  <2> QED
    BY <2>1
<1>8. Len(buf) = Len(read_buf) + n
  BY <1>7, ReadTypes DEF IInv
<1>9. Len(inbound') = Len(inbound) - n /\ inbound' \in Seq(RespUnit)
  BY <1>6, <1>7, Behind
<1>10. \/ /\ Len(buf) < len /\ read_buf' = buf
          /\ UNCHANGED <<connected, chains, results, pending_callback>>
       \/ /\ Len(buf) = len /\ Ends(c.block[1].of) /\ read_buf' = <<>>
          /\ connected' = (connected /\ ~ c.block[1].r.close)
  BY <1>6
<1>11. c.block[1].of \in Nat
  <2>1. c.block \in Seq(RespUnit) /\ c.block # <<>>
    BY <1>1 DEF IInv, ClientTypes, ChainSet, Numbered
  <2>2. c.block[1] \in RespUnit
    BY <2>1, EmptySeq, LenProperties, ElementOfSeq
  <2> QED
    BY <2>2, LengthOf
<1> HIDE DEF buf
<1>12. ASSUME torn = {}
       PROVE  /\ NextUp = issued + 1 /\ c.block[1].of = issued
              /\ c.block[1].r.close = (Says = "close")
              /\ c.block = <<Client!HeadUnit(issued, Reply(len, Says = "close"))>>
              /\ len \in Nat
              /\ Len(read_buf) + Len(inbound) + Len(queue) = len
  BY <1>1, <1>12, BodyClean
<1>13. CASE /\ Len(buf) < len /\ read_buf' = buf
            /\ UNCHANGED <<connected, chains, results, pending_callback>>
  <2>1. ReportOK'
    BY <1>1, <1>2, <1>4, <1>13, ReportKept DEF IInv, ClientTypes
  <2>2. WireOK'
    <3>1. SUFFICES ASSUME torn = {} PROVE WireOK'
      BY <1>1 DEF WireOK
    <3>2. Len(read_buf') + Len(inbound') + Len(queue) = len
      <4>1. Len(read_buf) + Len(inbound) + Len(queue) = len /\ len \in Nat
        BY <1>12, <3>1
      <4>2. Len(read_buf') = Len(read_buf) + n
        BY <1>8, <1>13
      <4> HIDE DEF len
      <4> QED
        BY ONLY <1>7, <1>9, <4>1, <4>2
    <3>3. NextUp' = issued' + 1
      BY <1>1, <1>4, <1>12, <3>1
    <3>4. c.block = <<Client!HeadUnit(issued, Reply(len, Says = "close"))>> /\ len \in Nat
      BY <1>12, <3>1
    <3>5. Len(read_buf') < len
      BY <1>13
    <3> HIDE DEF len
    <3>6. Reading(c)'
      BY <1>1, <1>4, <3>2, <3>3, <3>4, <3>5 DEF Reading
    <3> QED
      BY <1>1, <1>2, <1>13, <3>6 DEF WireOK
  <2> QED
    BY <1>1, <1>4, <1>5, <2>1, <2>2 DEF IInv
<1>14. CASE /\ Len(buf) = len /\ Ends(c.block[1].of) /\ read_buf' = <<>>
            /\ connected' = (connected /\ ~ c.block[1].r.close)
  <2>1. chains' = {}
    BY <1>14 DEF Ends
  <2>2. WireOK'
    <3>1. SUFFICES ASSUME torn = {} PROVE WireOK'
      BY <1>1 DEF WireOK
    <3>2. Len(inbound') = 0 /\ Len(queue) = 0
      BY <1>7, <1>8, <1>9, <1>12, <1>14, <3>1
    <3>3. inbound' = <<>> /\ queue = <<>>
      BY <1>9, <3>2, EmptySeq DEF IInv, ClientTypes
    <3>4. connected' = (Says # "close")
      BY <1>1, <1>12, <1>14, <3>1
    <3>5. connected' => Settled'
      BY <1>1, <1>4, <1>12, <3>1, <3>3, <3>4 DEF Settled
    <3>6. ~ connected' => ~ Going'
      BY <1>4, <3>4 DEF IInv, SaysOK
    <3> QED
      BY <1>14, <2>1, <3>5, <3>6 DEF WireOK
  <2>3. ReportOK'
    <3>1. issued # 0
      BY <1>2
    <3>2. torn \subseteq torn' /\ torn' \subseteq torn \cup {issued}
      BY <1>1
    <3>3. torn = {} => c.block[1].of = issued
      BY <1>12
    <3> QED
      BY <1>1, <1>2, <1>4, <1>11, <1>14, <3>1, <3>2, <3>3, ReportEnds DEF IInv
  <2> QED
    BY <1>1, <1>4, <1>5, <2>2, <2>3 DEF IInv
<1> QED
  BY <1>10, <1>13, <1>14

(***************************************************************************)
(* The steps of the link.                                                  *)
(***************************************************************************)
\* A sequence that is not empty is its head, followed by its tail.
LEMMA HeadThenTail ==
  ASSUME NEW S, NEW s \in Seq(S), s # <<>>
  PROVE  <<Head(s)>> \in Seq(S) /\ Tail(s) \in Seq(S) /\ <<Head(s)>> \o Tail(s) = s
<1> DEFINE a == <<Head(s)>>
           b == Tail(s)
<1>1. /\ Head(s) \in S /\ b \in Seq(S) /\ Len(b) = Len(s) - 1
      /\ \A i \in 1..Len(b) : b[i] = s[i + 1]
  BY HeadTailProperties
<1>2. a \in Seq(S) /\ Len(a) = 1 /\ a[1] = s[1] /\ Len(s) \in Nat /\ Len(b) \in Nat
  BY <1>1, LenProperties
<1> HIDE DEF a, b
<1>3. /\ a \o b \in Seq(S) /\ Len(a \o b) = Len(a) + Len(b)
      /\ \A i \in 1..(Len(a) + Len(b)) :
           (a \o b)[i] = IF i <= Len(a) THEN a[i] ELSE b[i - Len(a)]
  <2>1. a \in Seq(S) /\ b \in Seq(S)
    BY <1>1, <1>2
  <2> QED
    BY ONLY <2>1, ConcatProperties
<1> DEFINE ab == a \o b
<1> HIDE DEF ab
<1>4. ASSUME NEW i \in 1..Len(s) PROVE ab[i] = s[i]
  <2>1. CASE i = 1
    BY <1>1, <1>2, <1>3, <2>1 DEF ab
  <2>2. CASE i # 1
    <3>1. i \in 1..(Len(a) + Len(b)) /\ ~ (i <= Len(a)) /\ i - 1 \in 1..Len(b) /\ (i - 1) + 1 = i
      BY <1>1, <1>2, <2>2
    <3>2. ab[i] = b[i - 1]
      BY <1>2, <1>3, <3>1 DEF ab
    <3> QED
      BY <1>1, <3>1, <3>2
  <2> QED
    BY <2>1, <2>2
<1>5. ab = s
  <2>1. ab \in Seq(S) /\ Len(ab) = Len(s)
    BY <1>1, <1>2, <1>3 DEF ab
  <2> QED
    BY <1>4, <2>1, SeqEqual
<1> QED
  BY <1>1, <1>2, <1>5 DEF a, b, ab

\* What arrives at the server has been written.
LEMMA WritingIs ==
  ASSUME ClientTypes, Numbered, NEW k \in Nat, Writing(k)
  PROVE  k <= Started
<1>1. CASE Client!Called(k)
  <2>1. k \in 1..Len(results)
    BY <1>1, CalledIs
  <2>2. Len(results) \in Nat /\ issued \in Nat /\ Len(results) <= issued
    BY StartedIs DEF Numbered
  <2>3. Len(results) <= Started
    BY <2>2 DEF Started
  <2> QED
    BY <2>1, <2>2, <2>3, StartedIs
<1>2. CASE \E c \in chains : c.k = k /\ c.at \in {"write", "header", "body"}
  <2>1. PICK c \in chains : c.k = k /\ Sending(c)
    BY <1>2 DEF Sending
  <2>2. Started = issued /\ k = issued
    BY <2>1, StartedIs DEF Numbered
  <2> QED
    BY <2>2
<1> QED
  BY <1>1, <1>2 DEF Writing

\* RequestArrives.
LEMMA RequestArrivesKeeps ==
  ASSUME IInv, RequestArrives
  PROVE  IInv'
<1> USE DEF IInv
<1>1. /\ UNCHANGED <<issued, connected, read_buf, pending_request, pending_callback, chains,
                     results, link, queue, inbound, stream, peer, got, srv_buf, pc, header_str,
                     keep_alive, answers, requests_served, plan, handled, torn>>
      /\ sent' = sent + 1 /\ sent < Len(stream)
      /\ Writing(stream[sent + 1].owner)
  BY DEF RequestArrives, Server!PeerSend, client, net, history
<1>2. ClientTypes' /\ Numbered'
  BY <1>1 DEF ClientTypes, Numbered, Sending
<1>3. NextUp' = NextUp /\ Going' = Going /\ Says' = Says /\ Started' = Started
  BY <1>1 DEF NextUp, Going, Says, Started, Sending
<1>4. sent \in Nat /\ got \in Nat /\ got <= sent /\ Len(stream) \in Nat
  BY LenProperties DEF ServerTypes
<1>5. ServerTypes'
  <2>1. sent' \in Nat /\ sent' <= Len(stream') /\ got' <= sent' /\ got' \in Nat
    BY <1>1, <1>4
  <2> QED
    BY <1>1, <2>1 DEF ServerTypes
<1>6. StreamOK'
  <2>1. stream # <<>>
    BY <1>1, <1>4
  <2>2. sent + 1 \in 1..Len(stream) /\ stream[sent + 1].owner \in Nat
    BY <1>1, <1>4, <2>1 DEF StreamOK, Remainder
  <2>3. stream[sent + 1].owner <= Started
    BY <1>1, <2>2, WritingIs
  <2>4. ASSUME NEW u \in 1..sent' PROVE stream[u].owner <= Started
    <3>1. u \in 1..sent \/ u = sent + 1
      BY <1>1, <1>4
    <3> QED
      BY <2>3, <3>1 DEF StreamOK
  <2> QED
    BY <1>1, <1>3, <2>4 DEF StreamOK
<1>7. Aligned' /\ SaysOK' /\ HandledOK' /\ LinkOK'
  BY <1>1, <1>3 DEF Aligned, SaysOK, HandledOK, LinkOK, Sending
<1>8. ReportOK'
  BY <1>1, <1>3 DEF ReportOK, Clean
<1>9. WireOK'
  <2>1. /\ Unanswered' = Unanswered /\ Coming' = Coming /\ Settled' = Settled
        /\ \A d : Reading(d)' = Reading(d)
    BY <1>1, <1>3 DEF Unanswered, Coming, Settled, Reading
  <2> QED
    BY <1>1, <1>3, <2>1 DEF WireOK
<1> QED
  BY <1>2, <1>5, <1>6, <1>7, <1>8, <1>9

\* A step of the link changes neither side.
LEMMA LinkStep ==
  ASSUME IInv, UNCHANGED <<client, server, plan, history>>,
         link' \in {"up", "eof", "reset"}, queue' \in Seq(RespUnit), inbound' \in Seq(RespUnit)
  PROVE  /\ ClientTypes' /\ Numbered' /\ ServerTypes' /\ StreamOK' /\ Aligned' /\ SaysOK'
         /\ HandledOK' /\ ReportOK'
         /\ NextUp' = NextUp /\ Going' = Going /\ Says' = Says /\ pc' = pc
         /\ UNCHANGED <<issued, connected, read_buf, chains, handled, torn>>
<1> USE DEF IInv
<1>1. UNCHANGED <<issued, connected, read_buf, pending_request, pending_callback, chains,
                  results, plan, handled, torn, server>>
  BY DEF client, history
<1>2. ClientTypes' /\ Numbered'
  BY <1>1 DEF ClientTypes, Numbered, Sending
<1>3. Started' = Started /\ Started \in Nat
  BY <1>1, StartedIs DEF Started, Sending
<1>4. connected' => connected /\ link' # "none"
  BY <1>1
<1>5. UNCHANGED <<server, plan, handled>> /\ Started <= Started'
  BY <1>1, <1>3
<1>6. /\ ServerTypes' /\ StreamOK' /\ Aligned' /\ SaysOK' /\ HandledOK'
      /\ NextUp' = NextUp /\ Going' = Going /\ Says' = Says /\ pc' = pc
  BY <1>2, <1>4, <1>5, Sides
<1>7. ReportOK'
  BY <1>1, <1>6 DEF ReportOK, Clean
<1> QED
  BY <1>1, <1>2, <1>6, <1>7

\* ResponseArrives: what is on its way stays in its order.
LEMMA ResponseArrivesKeeps ==
  ASSUME IInv, ResponseArrives
  PROVE  IInv'
<1> USE DEF IInv
<1>1. /\ UNCHANGED <<client, server, plan, history>> /\ link = "up" /\ link' = "up"
      /\ queue # <<>> /\ inbound' = Append(inbound, Head(queue)) /\ queue' = Tail(queue)
  BY DEF ResponseArrives, Client!ServerSend, client, history
<1>2. queue \in Seq(RespUnit) /\ inbound \in Seq(RespUnit)
  BY DEF ClientTypes
<1>3. /\ Head(queue) \in RespUnit /\ queue' \in Seq(RespUnit) /\ Len(queue') = Len(queue) - 1
      /\ Len(queue) \in Nat
  BY <1>1, <1>2, HeadTailProperties, LenProperties
<1>4. /\ inbound' \in Seq(RespUnit) /\ Len(inbound') = Len(inbound) + 1 /\ Len(inbound) \in Nat
  BY <1>1, <1>2, <1>3, AppendProperties, LenProperties
<1>5. /\ ClientTypes' /\ Numbered' /\ ServerTypes' /\ StreamOK' /\ Aligned' /\ SaysOK'
      /\ HandledOK' /\ ReportOK'
      /\ NextUp' = NextUp /\ Going' = Going /\ Says' = Says /\ pc' = pc
      /\ UNCHANGED <<issued, connected, read_buf, chains, handled, torn>>
  BY <1>1, <1>3, <1>4, LinkStep
<1>6. LinkOK'
  BY <1>1 DEF LinkOK
<1>7. ~ Unanswered /\ ~ Settled
  BY <1>1 DEF Unanswered, Settled
<1>8. Coming => Coming'
  <2>1. inbound' \o queue' = inbound \o queue
    <3>1. inbound' = inbound \o <<Head(queue)>>
      BY <1>1, <1>2, <1>3, AppendIsConcat
    <3>2. /\ <<Head(queue)>> \in Seq(RespUnit) /\ Tail(queue) \in Seq(RespUnit)
          /\ <<Head(queue)>> \o Tail(queue) = queue
      BY <1>1, <1>2, HeadThenTail
    <3>3. (inbound \o <<Head(queue)>>) \o Tail(queue) = inbound \o (<<Head(queue)>> \o Tail(queue))
      BY ONLY <1>2, <3>2, ConcatAssociative
    <3> QED
      BY ONLY <1>1, <3>1, <3>2, <3>3
  <2> QED
    BY <1>1, <1>5, <2>1 DEF Coming
<1>9. \A d : Reading(d) => Reading(d)'
  <2>1. ASSUME NEW d, Reading(d) PROVE Reading(d)'
    <3>1. PICK m \in Nat :
            /\ d.block = <<Client!HeadUnit(issued, Reply(m, Says = "close"))>>
            /\ Len(read_buf) < m
            /\ Len(read_buf) + Len(inbound) + Len(queue) = m
      BY <1>1, <2>1 DEF Reading
    <3>2. Len(read_buf) \in Nat
      BY LenProperties DEF ClientTypes
    <3>3. Len(read_buf) + Len(inbound') + Len(queue') = m
      <4>1. PICK a \in Nat, b \in Nat, c \in Nat :
              a = Len(read_buf) /\ b = Len(inbound) /\ c = Len(queue)
        BY ONLY <1>3, <1>4, <3>2
      <4>2. Len(inbound') = b + 1 /\ Len(queue') = c - 1 /\ a + b + c = m
        BY ONLY <1>3, <1>4, <3>1, <4>1
      <4>3. a + (b + 1) + (c - 1) = a + b + c
        OBVIOUS
      <4> QED
        BY ONLY <4>1, <4>2, <4>3
    <3> QED
      BY <1>5, <2>1, <3>1, <3>3 DEF Reading
  <2> QED
    BY <2>1
<1>10. WireOK'
  BY <1>5, <1>7, <1>8, <1>9 DEF WireOK
<1> QED
  BY <1>5, <1>6, <1>10

\* Fin.
LEMMA FinKeeps ==
  ASSUME IInv, Fin
  PROVE  IInv'
<1> USE DEF IInv
<1>1. /\ UNCHANGED <<client, server, plan, history>> /\ link = "up" /\ link' = "eof"
      /\ queue' = queue /\ inbound' = inbound /\ pc = "shutdown" /\ queue = <<>>
  BY DEF Fin
<1>2. /\ ClientTypes' /\ Numbered' /\ ServerTypes' /\ StreamOK' /\ Aligned' /\ SaysOK'
      /\ HandledOK' /\ ReportOK'
      /\ NextUp' = NextUp /\ Going' = Going /\ Says' = Says /\ pc' = pc
      /\ UNCHANGED <<issued, connected, read_buf, chains, handled, torn>>
  BY <1>1, LinkStep DEF ClientTypes
<1>3. LinkOK'
  BY <1>1, <1>2 DEF LinkOK
<1>4. (Unanswered => Unanswered') /\ (Coming => Coming') /\ (Settled => Settled')
  BY <1>1, <1>2 DEF Unanswered, Coming, Settled
<1>5. \A d : Reading(d) => Reading(d)'
  BY <1>1, <1>2 DEF Reading
<1>6. WireOK'
  BY <1>2, <1>4, <1>5 DEF WireOK
<1> QED
  BY <1>2, <1>3, <1>6

\* A reset needs bytes the server has not read: they are of a request that it
\* has not served, or of none.
LEMMA ResetKeeps ==
  ASSUME IInv, Reset
  PROVE  IInv'
<1> USE DEF IInv
<1>1. /\ UNCHANGED <<client, server, plan, history>> /\ link' = "reset"
      /\ queue' = <<>> /\ inbound' = inbound /\ pc = "shutdown" /\ got < sent
  BY DEF Reset
<1>2. queue' \in Seq(RespUnit)
  BY <1>1
<1>3. /\ ClientTypes' /\ Numbered' /\ ServerTypes' /\ StreamOK' /\ Aligned' /\ SaysOK'
      /\ HandledOK' /\ ReportOK'
      /\ NextUp' = NextUp /\ Going' = Going /\ Says' = Says /\ pc' = pc
      /\ UNCHANGED <<issued, connected, read_buf, chains, handled, torn>>
  BY <1>1, <1>2, LinkStep DEF ClientTypes
<1>4. \A j \in 1..Len(handled) : handled[j] # issued
  <2>1. ASSUME NEW j \in 1..Len(handled) PROVE handled[j] # issued
    <3>1. /\ got + 1 \in (got + 1)..Len(stream) /\ got + 1 \in 1..sent
          /\ got + 1 \in 1..Len(stream) /\ stream # <<>>
      <4>1. got \in Nat /\ sent \in Nat /\ sent <= Len(stream) /\ Len(stream) \in Nat
        BY LenProperties DEF ServerTypes
      <4> QED
        BY <1>1, <4>1
    <3>2. stream[got + 1].owner > handled[j]
      BY <3>1 DEF HandledOK
    <3>3. stream[got + 1].owner <= Started /\ stream[got + 1].owner \in Nat
      BY <3>1 DEF StreamOK, Remainder
    <3>4. Started \in Nat /\ Started <= issued /\ issued \in Nat
      BY StartedIs
    <3>5. handled[j] \in Nat
      BY ElementOfSeq DEF ServerTypes
    <3> QED
      BY ONLY <3>2, <3>3, <3>4, <3>5
  <2> QED
    BY <2>1
<1>5. LinkOK'
  BY <1>1, <1>3, <1>4 DEF LinkOK
<1>6. (Unanswered => Unanswered') /\ (Coming => Coming') /\ (Settled => Settled')
  BY <1>1, <1>3 DEF Unanswered, Coming, Settled
<1>7. \A d : Reading(d) => Reading(d)'
  BY <1>1, <1>3 DEF Reading
<1>8. WireOK'
  BY <1>3, <1>6, <1>7 DEF WireOK
<1> QED
  BY <1>3, <1>5, <1>8

(***************************************************************************)
(* The steps of the server.                                                *)
(***************************************************************************)
\* A handler runs on a connection that is open, and leaves the client alone.
LEMMA HandlerSides ==
  ASSUME IInv, ServerHandler, queue' \in Seq(RespUnit)
  PROVE  /\ Served(NextUp) /\ stream # <<>> /\ link \notin {"eof", "reset"}
         /\ UNCHANGED <<issued, connected, read_buf, chains, results, link, inbound, torn, plan>>
         /\ ClientTypes' /\ Numbered' /\ Started' = Started
         /\ StreamOK' /\ LinkOK'
<1> USE DEF IInv
<1>1. Served(NextUp)
  BY HandlerStep DEF ServerHandler
<1>2. /\ UNCHANGED <<issued, connected, read_buf, pending_request, pending_callback, chains,
                     results, link, inbound, torn, plan>>
      /\ UNCHANGED <<stream, sent, peer>> /\ pc # "shutdown"
  BY <1>1 DEF ServerHandler, client, Served
<1>3. stream # <<>> /\ link \notin {"eof", "reset"}
  BY <1>2 DEF StreamOK, LinkOK
<1>4. ClientTypes' /\ Numbered' /\ Started' = Started
  BY <1>2 DEF ClientTypes, Numbered, Started, Sending
<1>5. StreamOK' /\ LinkOK'
  BY <1>2, <1>3, <1>4 DEF StreamOK, LinkOK
<1> QED
  BY <1>1, <1>2, <1>3, <1>4, <1>5

\* A handler that answers nothing.
LEMMA QuietKeeps ==
  ASSUME IInv, ServerHandler, answers' = answers
  PROVE  IInv'
<1> USE DEF IInv
<1>1. queue' = queue /\ handled' = handled
  BY DEF ServerHandler
<1>2. /\ Served(NextUp) /\ stream # <<>> /\ link \notin {"eof", "reset"}
      /\ UNCHANGED <<issued, connected, read_buf, chains, results, link, inbound, torn, plan>>
      /\ ClientTypes' /\ Numbered' /\ Started' = Started
      /\ StreamOK' /\ LinkOK'
  BY <1>1, HandlerSides DEF ClientTypes
<1>3. /\ HandlerTypes' /\ Aligned' /\ got' \in Nat /\ got <= got' /\ got' <= sent
      /\ UNCHANGED <<stream, sent, peer>>
  BY <1>2 DEF Served
<1>4. Going' => Going
  BY <1>2 DEF Served
<1>5. NextUp' = NextUp /\ Says' = Says /\ NextUp \in Nat
  BY <1>3, NextUpIs DEF NextUp, Says
<1>6. ServerTypes'
  BY <1>1, <1>2, <1>3 DEF ServerTypes, HandlerTypes
<1>7. SaysOK'
  BY <1>1, <1>4, <1>5 DEF SaysOK
<1>8. HandledOK'
  <2>1. \A u \in (got' + 1)..Len(stream) : u \in (got + 1)..Len(stream)
    <3>1. got \in Nat /\ got' \in Nat /\ got <= got' /\ Len(stream) \in Nat
      BY <1>3, LenProperties DEF ServerTypes
    <3>2. ASSUME NEW g \in Nat, NEW h \in Nat, NEW l \in Nat, g <= h
          PROVE  \A u \in (h + 1)..l : u \in (g + 1)..l
      BY ONLY <3>2
    <3> QED
      BY ONLY <3>1, <3>2
  <2> QED
    BY <1>1, <1>2, <1>3, <1>5, <2>1 DEF HandledOK
<1>9. WireOK'
  <2>1. /\ Unanswered' = Unanswered /\ Coming' = Coming /\ Settled' = Settled
        /\ \A d : Reading(d)' = Reading(d)
    BY <1>1, <1>2, <1>5 DEF Unanswered, Coming, Settled, Reading
  <2> QED
    BY <1>2, <1>4, <2>1 DEF WireOK
<1>10. ReportOK'
  BY <1>1, <1>2, <1>4, <1>5, ReportKept DEF ClientTypes
<1> QED
  BY <1>2, <1>3, <1>6, <1>7, <1>8, <1>9, <1>10

\* What a handler that answers does to the link and to the history.
LEMMA AnswerEffect ==
  ASSUME IInv, ServerHandler, answers' # answers
  PROVE  /\ Going /\ NextUp \in Nat /\ NextUp <= Started /\ NextUp' = NextUp + 1
         /\ Says' = "close" => ~ Going'
         /\ \E n \in Nat :
              queue' = queue \o Client!ResponseUnits(NextUp, Reply(n, Says' = "close"))
         /\ \/ handled' = handled /\ Says' # "close"
            \/ /\ handled' = Append(handled, NextUp)
               /\ \A u \in (got' + 1)..Len(stream) : stream[u].owner > NextUp
<1> USE DEF IInv
<1>1. Served(NextUp)
  BY HandlerStep DEF ServerHandler
<1>2. Going /\ NextUp <= Started /\ Answering(NextUp) /\ stream' = stream /\ pc # "shutdown"
  BY <1>1 DEF Served
<1>3. PICK a \in Server!AnswerSet :
        /\ answers' = Append(answers, a) /\ Answered(a) = NextUp
        /\ Server!IsServed(a) => \A u \in (got' + 1)..Len(stream) : stream[u].owner > NextUp
        /\ a.says = "close" => ~ Going' /\ Server!IsServed(a)
  BY <1>2 DEF Answering
<1>4. stream # <<>> /\ stream[1].owner \in Nat /\ NextUp \in Nat
  BY <1>2, NextUpIs DEF StreamOK
<1>5. /\ Len(answers') = Len(answers) + 1 /\ answers'[Len(answers')] = a
      /\ NextUp' = NextUp + 1 /\ Len(answers) \in Nat
  BY <1>2, <1>3, <1>4, AnswerAppended DEF ServerTypes
<1>6. Says' = a.says
  <2>1. answers' # <<>>
    BY <1>5
  <2> QED
    BY <1>5, <2>1 DEF Says
<1>7. /\ \E n \in Bodies(a) : queue' = queue \o OnWire(a, n)
      /\ handled' = IF Server!IsServed(a) THEN Append(handled, Answered(a)) ELSE handled
  BY <1>5 DEF ServerHandler
<1>8. \A n : OnWire(a, n) = Client!ResponseUnits(NextUp, Reply(n, Says' = "close"))
  BY <1>3, <1>6 DEF OnWire, Reply
<1>9. Bodies(a) \subseteq Nat
  BY DEF Bodies
<1>10. \E n \in Nat : queue' = queue \o Client!ResponseUnits(NextUp, Reply(n, Says' = "close"))
  BY <1>7, <1>8, <1>9
<1> QED
  BY <1>2, <1>3, <1>4, <1>5, <1>6, <1>7, <1>10

\* A handler that answers: it is the request under way, and it had no response.
LEMMA AnswerKeeps ==
  ASSUME IInv, ServerHandler, answers' # answers
  PROVE  IInv'
<1> USE DEF IInv
<1>1. /\ Going /\ NextUp \in Nat /\ NextUp <= Started /\ NextUp' = NextUp + 1
      /\ Says' = "close" => ~ Going'
      /\ \E n \in Nat :
           queue' = queue \o Client!ResponseUnits(NextUp, Reply(n, Says' = "close"))
      /\ \/ handled' = handled /\ Says' # "close"
         \/ /\ handled' = Append(handled, NextUp)
            /\ \A u \in (got' + 1)..Len(stream) : stream[u].owner > NextUp
  BY AnswerEffect
<1>2. PICK n \in Nat :
        queue' = queue \o Client!ResponseUnits(NextUp, Reply(n, Says' = "close"))
  BY <1>1
<1> DEFINE resp == Client!ResponseUnits(NextUp, Reply(n, Says' = "close"))
<1>3. resp \in Seq(RespUnit) /\ queue' \in Seq(RespUnit)
  <2>1. (Says' = "close") \in BOOLEAN
    OBVIOUS
  <2>2. resp \in Seq(RespUnit)
    BY <1>1, <2>1, ResponseIs
  <2> HIDE DEF resp
  <2>3. queue' = queue \o resp
    BY <1>2 DEF resp
  <2>4. queue \in Seq(RespUnit)
    BY DEF ClientTypes
  <2> QED
    BY <2>2, <2>3, <2>4, ConcatProperties
<1>4. /\ Served(NextUp) /\ stream # <<>> /\ link \notin {"eof", "reset"}
      /\ UNCHANGED <<issued, connected, read_buf, chains, results, link, inbound, torn, plan>>
      /\ ClientTypes' /\ Numbered' /\ Started' = Started
      /\ StreamOK' /\ LinkOK'
  BY <1>3, HandlerSides
<1>5. /\ HandlerTypes' /\ Aligned' /\ got' \in Nat /\ got <= got' /\ got' <= sent
      /\ UNCHANGED <<stream, sent, peer>>
  BY <1>4 DEF Served
<1>6. /\ Started \in Nat /\ Started <= issued /\ issued \in Nat
  BY StartedIs
<1>7. /\ handled \in Seq(Nat) /\ Len(handled) \in Nat
      /\ \A j \in 1..Len(handled) : handled[j] \in Nat /\ handled[j] < NextUp /\ handled[j] <= Started
  BY LenProperties, ElementOfSeq DEF ServerTypes, HandledOK
<1>8. ASSUME handled' = Append(handled, NextUp)
      PROVE  /\ handled' \in Seq(Nat) /\ Len(handled') = Len(handled) + 1
             /\ handled'[Len(handled) + 1] = NextUp
             /\ \A j \in 1..Len(handled) : handled'[j] = handled[j]
  BY <1>1, <1>7, <1>8, AppendProperties
<1>9. handled' \in Seq(Nat)
  BY <1>1, <1>7, <1>8
<1>10. ServerTypes'
  BY <1>4, <1>5, <1>9 DEF ServerTypes, HandlerTypes
<1>11. SaysOK'
  <2>1. SUFFICES ASSUME Says' = "close" PROVE ~ Going' /\ \E j \in 1..Len(handled') : handled'[j] = NextUp' - 1
    BY DEF SaysOK
  <2>2. handled' = Append(handled, NextUp)
    BY <1>1, <2>1
  <2>3. Len(handled) + 1 \in 1..Len(handled') /\ handled'[Len(handled) + 1] = NextUp' - 1
    BY <1>1, <1>7, <1>8, <2>2
  <2> QED
    BY <1>1, <2>1, <2>3
<1>12. \A u \in (got' + 1)..Len(stream) : u \in (got + 1)..Len(stream)
  <2>1. got \in Nat /\ got' \in Nat /\ got <= got' /\ Len(stream) \in Nat
    BY <1>5, LenProperties DEF ServerTypes
  <2>2. ASSUME NEW g \in Nat, NEW h \in Nat, NEW l \in Nat, g <= h
        PROVE  \A u \in (h + 1)..l : u \in (g + 1)..l
    BY ONLY <2>2
  <2> QED
    BY ONLY <2>1, <2>2
<1>13. HandledOK'
  <2>1. CASE handled' = handled
    <3>1. ASSUME NEW j \in 1..Len(handled) PROVE handled[j] < NextUp'
      <4>1. handled[j] \in Nat /\ handled[j] < NextUp
        BY <1>7
      <4> QED
        BY <1>1, <4>1
    <3> QED
      BY <1>4, <1>5, <1>12, <2>1, <3>1 DEF HandledOK
  <2>2. CASE /\ handled' = Append(handled, NextUp)
             /\ \A u \in (got' + 1)..Len(stream) : stream[u].owner > NextUp
    <3>1. /\ Len(handled') = Len(handled) + 1
          /\ handled'[Len(handled) + 1] = NextUp
          /\ \A j \in 1..Len(handled) : handled'[j] = handled[j]
      BY <1>8, <2>2
    <3>2. ASSUME NEW i \in 1..Len(handled'), NEW j \in 1..Len(handled'), i < j
          PROVE  handled'[i] < handled'[j]
      <4>1. i \in 1..Len(handled)
        BY <1>7, <3>1, <3>2
      <4>2. CASE j \in 1..Len(handled)
        BY <3>1, <3>2, <4>1, <4>2 DEF HandledOK
      <4>3. CASE j = Len(handled) + 1
        BY <1>7, <3>1, <4>1, <4>3
      <4> QED
        BY <1>7, <3>1, <4>2, <4>3
    <3>3. ASSUME NEW j \in 1..Len(handled')
          PROVE  /\ handled'[j] < NextUp' /\ handled'[j] <= Started'
                 /\ \A u \in (got' + 1)..Len(stream') : stream'[u].owner > handled'[j]
      <4>0. stream' = stream /\ Started' = Started
        BY <1>4, <1>5
      <4>1. CASE j \in 1..Len(handled)
        <5>1. handled[j] \in Nat /\ handled[j] < NextUp /\ handled[j] <= Started
          BY <1>7, <4>1
        <5>2. \A u \in (got' + 1)..Len(stream) : stream[u].owner > handled[j]
          BY <1>12, <4>1 DEF HandledOK
        <5>3. handled'[j] = handled[j]
          BY <3>1, <4>1
        <5>4. handled[j] < NextUp'
          BY <1>1, <5>1
        <5> QED
          BY ONLY <4>0, <5>1, <5>2, <5>3, <5>4
      <4>2. CASE j = Len(handled) + 1
        <5>1. handled'[j] = NextUp /\ NextUp < NextUp' /\ NextUp <= Started
          BY <1>1, <3>1, <4>2
        <5> QED
          BY ONLY <2>2, <4>0, <5>1
      <4> QED
        BY <1>7, <3>1, <4>1, <4>2
    <3> QED
      BY <3>2, <3>3 DEF HandledOK
  <2> QED
    BY <1>1, <2>1, <2>2
<1>14. WireOK'
  <2>1. SUFFICES ASSUME torn = {} PROVE WireOK'
    BY <1>4 DEF WireOK
  <2>2. NextUp <= issued
    BY <1>1, <1>6
  <2>3. connected /\ chains # {} /\ ~ Coming /\ \A c \in chains : c.at # "body"
    BY <1>1, <1>6, <2>1, <2>2 DEF WireOK, Settled, Coming, Reading
  <2>4. \A c \in chains : c.at \in {"write", "header"}
    BY <2>3 DEF Numbered, Sending
  <2>5. Unanswered /\ read_buf = <<>>
    BY <2>1, <2>3, <2>4 DEF WireOK
  <2>6. Coming'
    <3>1. NextUp = issued /\ inbound = <<>> /\ queue = <<>>
      BY <2>5 DEF Unanswered
    <3>2. inbound' \o queue' = resp
      <4> HIDE DEF resp
      <4>1. queue' = <<>> \o resp /\ inbound' = <<>>
        BY <1>2, <1>4, <3>1 DEF resp
      <4>2. <<>> \o resp = resp
        BY <1>3, ConcatEmptySeq
      <4> QED
        BY <4>1, <4>2
    <3> QED
      BY <1>1, <1>4, <3>1, <3>2 DEF Coming
  <2> QED
    BY <1>4, <2>3, <2>4, <2>5, <2>6 DEF WireOK
<1>15. ReportOK'
  <2>1. ASSUME NEW i \in 1..Len(results'), Clean(i)'
        PROVE  /\ results'[i].with \in {0, i}
               /\ results'[i].with = 0 =>
                    (\A j \in 1..Len(handled') : handled'[j] # i) /\ (Going' => i < NextUp')
    <3>1. Clean(i) /\ i \in 1..Len(results) /\ i \in Nat
      BY <1>4, <2>1, LenProperties DEF Clean
    <3>2. /\ results[i].with \in {0, i}
          /\ results[i].with = 0 =>
               (\A j \in 1..Len(handled) : handled[j] # i) /\ i < NextUp
      BY <1>1, <3>1 DEF ReportOK
    <3>3. ASSUME results[i].with = 0, NEW j \in 1..Len(handled') PROVE handled'[j] # i
      <4>1. i < NextUp /\ \A h \in 1..Len(handled) : handled[h] # i
        BY <3>2, <3>3
      <4>2. CASE handled' = handled
        BY <4>1, <4>2
      <4>3. CASE handled' = Append(handled, NextUp)
        <5>1. j \in 1..Len(handled) \/ j = Len(handled) + 1
          BY <1>7, <1>8, <4>3
        <5> QED
          BY <1>1, <1>8, <3>1, <4>1, <4>3, <5>1
      <4> QED
        BY <1>1, <4>2, <4>3
    <3>4. i < NextUp => i < NextUp'
      BY <1>1, <3>1
    <3> QED
      BY <1>4, <3>2, <3>3, <3>4
  <2> QED
    BY <2>1 DEF ReportOK
<1> QED
  BY <1>4, <1>5, <1>10, <1>11, <1>13, <1>14, <1>15

\* ServerHandler.
LEMMA ServerKeeps ==
  ASSUME IInv, ServerHandler
  PROVE  IInv'
  BY QuietKeeps, AnswerKeeps

\* Before the first request there is no connection and no result.
LEMMA InitHolds == Init => IInv
<1> SUFFICES ASSUME Init PROVE IInv
  OBVIOUS
<1>1. /\ issued = 0 /\ connected = FALSE /\ read_buf = <<>> /\ pending_request = 0
      /\ pending_callback = 0 /\ chains = {} /\ results = <<>>
      /\ link = "none" /\ queue = <<>> /\ inbound = <<>>
      /\ plan \in Plans /\ stream = <<>> /\ sent = 0 /\ peer = "open" /\ got = 0
      /\ srv_buf = <<>> /\ pc = "shutdown" /\ header_str = <<>> /\ keep_alive = FALSE
      /\ requests_served = 0 /\ answers = <<>> /\ handled = <<>> /\ torn = {}
  BY DEF Init, Client!Init
<1>2. Len(results) = 0 /\ Len(handled) = 0 /\ Len(stream) = 0 /\ 1..0 = {}
  BY <1>1
<1>3. ClientTypes
  <2>1. issued \in 0..N /\ pending_request \in Nat /\ pending_callback \in Nat
    BY <1>1, ConstantsAre
  <2>2. /\ read_buf \in Seq(RespUnit) /\ inbound \in Seq(RespUnit) /\ queue \in Seq(RespUnit)
        /\ results \in Seq([for : Nat, with : Nat]) /\ chains \subseteq ChainSet
    BY <1>1
  <2> QED
    BY <1>1, <2>1, <2>2 DEF ClientTypes
<1>4. ServerTypes
  <2>1. sent \in Nat /\ got \in Nat /\ sent <= Len(stream) /\ got <= sent /\ requests_served \in Nat
    BY <1>1, <1>2
  <2>2. /\ stream \in Seq(Unit) /\ srv_buf \in Seq(Unit) /\ header_str \in Seq(Unit)
        /\ answers \in Seq(Server!AnswerSet) /\ handled \in Seq(Nat)
    BY <1>1
  <2> QED
    BY <1>1, <2>1, <2>2 DEF ServerTypes
<1>5. Numbered
  BY <1>1, <1>2 DEF Numbered
<1>6. StreamOK
  <2>1. 1..sent = {}
    BY <1>1
  <2> QED
    BY <1>1, <2>1 DEF StreamOK
<1>7. ~ Going /\ Says = "nothing"
  BY <1>1 DEF Going, Says
<1>8. Aligned /\ SaysOK /\ HandledOK /\ LinkOK /\ ReportOK
  BY <1>1, <1>2, <1>7 DEF Aligned, SaysOK, HandledOK, LinkOK, ReportOK
<1>9. WireOK
  BY <1>1, <1>7 DEF WireOK
<1> QED
  BY <1>3, <1>4, <1>5, <1>6, <1>8, <1>9 DEF IInv

\* A step that changes nothing.
LEMMA StutterKeeps ==
  ASSUME IInv, UNCHANGED vars
  PROVE  IInv'
<1>1. UNCHANGED <<issued, connected, read_buf, pending_request, pending_callback, chains,
                  results, link, queue, inbound, stream, sent, peer, got, srv_buf, pc,
                  header_str, keep_alive, answers, requests_served, plan, handled, torn>>
  BY DEF vars, client, net, server, history
<1>2. /\ NextUp' = NextUp /\ Going' = Going /\ Says' = Says /\ Started' = Started
      /\ Unanswered' = Unanswered /\ Coming' = Coming /\ Settled' = Settled
      /\ \A d : Reading(d)' = Reading(d)
  BY <1>1 DEF NextUp, Going, Says, Started, Sending, Unanswered, Coming, Settled, Reading
<1>3. ClientTypes' /\ ServerTypes' /\ Numbered'
  BY <1>1 DEF IInv, ClientTypes, ServerTypes, Numbered, Sending
<1>4. StreamOK' /\ Aligned' /\ SaysOK'
  BY <1>1, <1>2 DEF IInv, StreamOK, Aligned, SaysOK
<1>5. HandledOK' /\ LinkOK'
  BY <1>1, <1>2 DEF IInv, HandledOK, LinkOK, Sending
<1>6. WireOK' /\ ReportOK'
  BY <1>1, <1>2 DEF IInv, WireOK, ReportOK, Clean
<1> QED
  BY <1>3, <1>4, <1>5, <1>6 DEF IInv

\* The handlers of the client.
LEMMA ClientKeeps ==
  ASSUME IInv, NEW c \in chains, ClientHandler(c)
  PROVE  IInv'
<1>1. CASE OnError(c)
  BY <1>1, ErrorKeeps
<1>2. CASE OnConnected(c)
  BY <1>2, ConnectedKeeps
<1>3. CASE UNCHANGED <<server, plan, history>> /\ Client!OnResolved(c)
  BY <1>3, ResolvedKeeps
<1>4. CASE UNCHANGED <<server, plan, history>> /\ Client!OnHeaderRead(c)
  BY <1>4, HeaderKeeps
<1>5. CASE UNCHANGED <<server, plan, history>> /\ Client!OnBodyRead(c)
  BY <1>5, BodyKeeps
<1>6. CASE UNCHANGED <<server, plan, history>> /\ Client!Written(c) /\ UNCHANGED <<queue, unframed>>
  BY <1>6, WrittenKeeps
<1> QED
  BY <1>1, <1>2, <1>3, <1>4, <1>5, <1>6 DEF ClientHandler

\* Every step.
LEMMA NextKeeps == IInv /\ [Next]_vars => IInv'
<1> SUFFICES ASSUME IInv, [Next]_vars PROVE IInv'
  OBVIOUS
<1>1. CASE Request
  BY <1>1, RequestKeeps
<1>2. CASE \E c \in chains : ClientHandler(c)
  BY <1>2, ClientKeeps
<1>3. CASE RequestArrives
  BY <1>3, RequestArrivesKeeps
<1>4. CASE ResponseArrives
  BY <1>4, ResponseArrivesKeeps
<1>5. CASE Fin
  BY <1>5, FinKeeps
<1>6. CASE Reset
  BY <1>6, ResetKeeps
<1>7. CASE ServerHandler
  BY <1>7, ServerKeeps
<1>8. CASE UNCHANGED vars
  BY <1>8, StutterKeeps
<1> QED
  BY <1>1, <1>2, <1>3, <1>4, <1>5, <1>6, <1>7, <1>8 DEF Next

\* The invariant holds in every reachable state, for any number of requests of
\* any kind, and for any limits of the server.
THEOREM Invariant == Spec => []IInv
<1>1. Init => IInv
  BY InitHolds
<1>2. IInv /\ [Next]_vars => IInv'
  BY NextKeeps
<1> QED
  BY <1>1, <1>2, PTL DEF Spec

\* ServedIsReported: a callback gets the response to its own request or nullopt,
\* no request is served twice, and one whose callback got nullopt has not been
\* and will not be served (client.hpp invoke_callback; server.hpp:80 and :113).
THEOREM ServedIsReportedHolds == Spec => []ServedIsReported
<1>1. IInv => ServedIsReported
  <2> SUFFICES ASSUME IInv PROVE ServedIsReported
    OBVIOUS
  <2>1. ASSUME NEW i \in 1..Len(handled), NEW j \in 1..Len(handled), handled[i] = handled[j]
        PROVE  i = j
    <3>1. handled[i] \in Nat /\ handled[j] \in Nat /\ i \in Nat /\ j \in Nat
      BY ElementOfSeq, LenProperties DEF IInv, ServerTypes
    <3>2. ~ (i < j) /\ ~ (j < i)
      BY <2>1, <3>1 DEF IInv, HandledOK
    <3> QED
      BY <3>1, <3>2
  <2>2. ASSUME NEW i \in 1..Len(results), Clean(results[i].for)
        PROVE  /\ results[i].with \in {0, results[i].for}
               /\ results[i].with = 0 => \A j \in 1..Len(handled) : handled[j] # results[i].for
    <3>1. results[i].for = i
      BY DEF IInv, Numbered
    <3>2. Clean(i)
      BY <2>2, <3>1
    <3> QED
      BY <3>1, <3>2 DEF IInv, ReportOK
  <2> QED
    BY <2>1, <2>2 DEF ServedIsReported
<1> QED
  BY <1>1, Invariant, PTL

\* With a limit of at least one request, a server that shuts down has answered.
LEMMA EndKept ==
  ASSUME MaxKeepAlive > 0, IInv, EndOK, [Next]_vars
  PROVE  EndOK'
<1>1. CASE UNCHANGED server
  <2>1. UNCHANGED <<stream, pc, answers>>
    BY <1>1 DEF server
  <2> QED
    BY <2>1 DEF EndOK
<1>2. CASE \E c \in chains : OnConnected(c)
  <2>1. PICK c \in chains : OnConnected(c)
    BY <1>2
  <2>2. UNCHANGED server \/ pc' = IF 0 >= MaxKeepAlive THEN "shutdown" ELSE "header"
    BY <2>1, ConnectedStep DEF IInv, ServerTypes
  <2>3. ~ (0 >= MaxKeepAlive)
    BY ConstantsAre
  <2>4. UNCHANGED server \/ pc' = "header"
    BY <2>2, <2>3
  <2> QED
    BY <1>1, <2>4 DEF EndOK
<1>3. CASE ServerHandler
  <2>1. Served(NextUp)
    BY <1>3, HandlerStep DEF ServerHandler, IInv
  <2>2. stream' = stream /\ answers \in Seq(Server!AnswerSet)
    BY <2>1 DEF Served, IInv, ServerTypes
  <2>3. CASE answers' = answers /\ (pc' \in {"write", "shutdown"} => pc = "write")
    BY <2>2, <2>3 DEF EndOK
  <2>4. CASE Answering(NextUp)
    <3>1. PICK a \in Server!AnswerSet : answers' = Append(answers, a)
      BY <2>4 DEF Answering
    <3>2. answers' # <<>>
      BY <2>2, <3>1, AppendProperties
    <3> QED
      BY <3>2 DEF EndOK
  <2> QED
    BY <2>1, <2>3, <2>4 DEF Served
<1>4. CASE Request \/ RequestArrives \/ ResponseArrives \/ Fin \/ Reset
  <2>1. CASE RequestArrives
    <3>1. UNCHANGED <<stream, pc, answers>>
      BY <2>1 DEF RequestArrives, Server!PeerSend
    <3> QED
      BY <3>1 DEF EndOK
  <2>2. CASE Request \/ ResponseArrives \/ Fin \/ Reset
    BY <1>1, <2>2 DEF Request, ResponseArrives, Fin, Reset
  <2> QED
    BY <1>4, <2>1, <2>2
<1>5. CASE \E c \in chains : ClientHandler(c)
  BY <1>1, <1>2, <1>5 DEF ClientHandler, OnError
<1>6. CASE UNCHANGED vars
  BY <1>1, <1>6 DEF vars
<1> QED
  BY <1>2, <1>3, <1>4, <1>5, <1>6 DEF Next

\* A failed read or write is that of a connection the server has shut down
\* after an answer that did not say so.
LEMMA ErrorUnannounced ==
  ASSUME IInv, EndOK, NEW c \in chains, OnError(c), torn = {}
  PROVE  /\ pc = "shutdown" /\ answers # <<>>
         /\ answers[Len(answers)].says # "close"
<1>1. /\ \A j \in 1..Len(handled) : handled[j] # issued
      /\ link = "reset" \/ (link = "eof" /\ Unanswered)
  BY ErrorNotServed
<1>2. connected /\ Sending(c)
  BY ErrorStep DEF IInv
<1>3. pc = "shutdown" /\ answers # <<>>
  BY <1>1, <1>2 DEF IInv, LinkOK, StreamOK, EndOK
<1>4. Says # "close"
  <2>1. CASE Unanswered
    BY <2>1 DEF Unanswered
  <2>2. CASE ~ Unanswered
    <3>1. c.at \in {"write", "header", "body"}
      BY <1>2 DEF Sending
    <3>2. NextUp = issued + 1
      BY <2>2, <3>1 DEF IInv, WireOK, Coming, Reading
    <3>3. issued \in Nat
      BY StartedIs DEF IInv
    <3>4. NextUp - 1 = issued
      BY <3>2, <3>3
    <3> QED
      BY <1>1, <3>4 DEF IInv, SaysOK
  <2> QED
    BY <2>1, <2>2
<1> QED
  BY <1>3, <1>4 DEF Says

\* A callback gets nullopt.
LEMMA LossStep ==
  ASSUME IInv, EndOK, [Next]_vars, NEW k \in 1..N,
         results' = Append(results, [for |-> k, with |-> 0]), Clean(k)
  PROVE  \/ \E c \in chains : c.k = k /\ c.at \in {"resolve", "connect"}
         \/ /\ pc = "shutdown" /\ answers # <<>>
            /\ answers[Len(answers)].says # "close"
<1>1. k \in Nat /\ issued \in Nat /\ Len(results) \in Nat
  BY StartedIs, ConstantsAre DEF IInv
<1>2. results' # results
  BY <1>1, OneResult DEF IInv
<1>3. ASSUME NEW r \in Nat, Ends(r) PROVE k = issued /\ r = 0
  BY <1>1, <1>3, OneResult DEF IInv, Ends
<1>4. ASSUME NEW c \in chains, k = issued PROVE c.k = k /\ issued # 0 /\ torn = {}
  <2>1. c.k = k /\ issued >= 1 /\ Len(results) = issued - 1 /\ torn \subseteq 1..Len(results)
    BY <1>4 DEF IInv, Numbered
  <2>2. \A j \in torn : j \in 1..(issued - 1) /\ j >= issued
    BY <1>4, <2>1 DEF Clean
  <2>3. torn = {}
    BY <1>1, <2>2
  <2> QED
    BY <1>1, <2>1, <2>3
<1>5. PICK c \in chains : ClientHandler(c)
  <2>1. ~ UNCHANGED vars
    BY <1>2 DEF vars, client
  <2>2. ~ Request
    BY <1>2, RequestEffect DEF IInv
  <2>3. ~ RequestArrives /\ ~ Fin /\ ~ Reset
    BY <1>2 DEF RequestArrives, Fin, Reset, client
  <2>4. ~ ResponseArrives
    BY <1>2 DEF ResponseArrives, Client!ServerSend
  <2>5. ~ ServerHandler
    BY <1>2 DEF ServerHandler, client
  <2> QED
    BY <2>1, <2>2, <2>3, <2>4, <2>5 DEF Next
<1>6. CASE OnError(c)
  <2>1. Ends(0)
    BY <1>6, ErrorStep DEF IInv
  <2>2. torn = {}
    BY <1>3, <1>4, <2>1
  <2> QED
    BY <1>6, <2>2, ErrorUnannounced
<1>7. CASE OnConnected(c)
  <2>1. c.at = "connect"
    BY <1>7 DEF OnConnected, Client!OnConnected
  <2>2. Ends(0) \/ \E d : GoesOn(d)
    BY <1>7, ConnectedStep DEF IInv, ServerTypes
  <2>3. Ends(0)
    BY <1>2, <2>2 DEF GoesOn
  <2> QED
    BY <1>3, <1>4, <2>1, <2>3
<1>8. CASE Client!OnResolved(c) /\ UNCHANGED <<server, plan, history>>
  <2>1. c.at = "resolve"
    BY <1>8 DEF Client!OnResolved
  <2>2. Ends(0) \/ \E d : GoesOn(d)
    BY <1>8, ResolvedStep DEF IInv
  <2>3. Ends(0)
    BY <1>2, <2>2 DEF GoesOn
  <2> QED
    BY <1>3, <1>4, <2>1, <2>3
<1>9. CASE Client!OnHeaderRead(c) /\ UNCHANGED <<server, plan, history>>
  <2>1. PICK r \in Nat : Ends(r)
    BY <1>2, <1>9, HeaderEnds
  <2>2. k = issued /\ issued # 0 /\ torn = {}
    BY <1>3, <1>4, <2>1
  <2>3. Ends(issued) \/ \E d : GoesOn(d)
    BY <1>9, <2>2, HeaderClean
  <2>4. Ends(issued)
    BY <1>2, <2>3 DEF GoesOn
  <2> QED
    BY <1>1, <1>3, <2>2, <2>4
<1>10. CASE Client!OnBodyRead(c) /\ UNCHANGED <<server, plan, history>>
  <2>1. c.at = "body" /\ (Ends(c.block[1].of) \/ UNCHANGED results)
    BY <1>10, BodyStep DEF IInv
  <2>2. Ends(c.block[1].of)
    BY <1>2, <2>1
  <2>3. c.block[1].of \in Nat
    <3>1. c.block \in Seq(RespUnit) /\ c.block # <<>>
      BY <2>1 DEF IInv, ClientTypes, ChainSet, Numbered
    <3>2. c.block[1] \in RespUnit
      BY <3>1, EmptySeq, LenProperties, ElementOfSeq
    <3> QED
      BY <3>2, LengthOf
  <2>4. k = issued /\ c.block[1].of = 0
    BY <1>3, <2>2, <2>3
  <2>5. issued # 0 /\ torn = {}
    BY <1>4, <2>4
  <2>6. c.block[1].of = issued
    BY <2>1, <2>5, BodyClean
  <2> QED
    BY <2>4, <2>5, <2>6
<1>11. CASE Client!Written(c)
  BY <1>2, <1>11 DEF Client!Written
<1> QED
  BY <1>5, <1>6, <1>7, <1>8, <1>9, <1>10, <1>11 DEF ClientHandler

\* LossOnlyUnannounced: a callback gets nullopt only when resolve or connect has
\* failed, or when the server has shut down after a response that did not say
\* "close" (client.hpp:163 and :172; server.hpp:80).  A server whose max_keepalive_ is 0
\* shuts a connection down without any response, so the limit is at least 1.
THEOREM LossOnlyUnannouncedHolds ==
  ASSUME MaxKeepAlive > 0
  PROVE  Spec => LossOnlyUnannounced
<1>1. Init => EndOK
  BY DEF Init, EndOK
<1>2. IInv /\ EndOK /\ [Next]_vars => EndOK'
  BY EndKept
<1>3. IInv /\ EndOK /\ [Next]_vars =>
        [\A k \in 1..N :
           results' = Append(results, [for |-> k, with |-> 0]) /\ Clean(k) =>
             \/ \E c \in chains : c.k = k /\ c.at \in {"resolve", "connect"}
             \/ /\ pc = "shutdown" /\ answers # <<>>
                /\ answers[Len(answers)].says # "close"]_vars
  BY LossStep
<1> QED
  BY <1>1, <1>2, <1>3, Invariant, PTL DEF Spec, LossOnlyUnannounced
===============================================================================
