------------------------------- MODULE Exchange -------------------------------
(***************************************************************************)
(* HTTPClient (include/client.hpp) talking to HTTPServerConnection         *)
(* (include/server.hpp) over TCP: HttpClient without its free server, and  *)
(* HttpConnection without its free peer, joined by the link between them.  *)
(*                                                                         *)
(* What the client sends is what the server reads: the units of request k  *)
(* can arrive once the write of request k has been started.  What the      *)
(* server writes is what the client reads.  Each connect of the client     *)
(* meets a fresh HTTPServerConnection; the one before it is of no more     *)
(* consequence, for the client has closed its socket.                      *)
(*                                                                         *)
(* The network loses nothing by itself: a resolve or a connect may fail,   *)
(* and a connection ends only because the server shuts it down.            *)
(***************************************************************************)
EXTENDS Naturals, Sequences

CONSTANTS N,             \* how many requests the application makes
          Plans,         \* all its requests, one after the other, as units
          Unit, MaxBody, MaxKeepAlive

VARIABLES
  \* the client
  issued, connected, read_buf, pending_request, pending_callback, chains, results,
  faults, unframed,
  \* the link
  link, queue, inbound,
  \* the server's connection
  stream, sent, peer, got, srv_buf, pc, header_str, keep_alive, requests_served,
  answers, written,
  \* what the application will send, whose requests the router or serve_static
  \* has served, and whose responses broke off half-way
  plan, handled, torn

Client == INSTANCE HttpClient WITH Tls <- FALSE, Overlap <- FALSE, Responses <- {}

Server == INSTANCE HttpConnection WITH Streams <- Plans, read_buf <- srv_buf

client  == <<issued, connected, read_buf, pending_request, pending_callback, chains,
             results, faults, unframed>>
net     == <<link, queue, inbound>>
server  == <<stream, sent, peer, got, srv_buf, pc, header_str, keep_alive,
             requests_served, answers, written>>
history == <<handled, torn>>
vars    == <<client, net, server, plan, history>>

\* Where the requests from k on begin in a plan, and their units.
Begins(s, k) == CHOOSE i \in 1..(Len(s) + 1) : \A j \in 1..Len(s) : s[j].owner >= k <=> j >= i

From(k) == SubSeq(plan, Begins(plan, k), Len(plan))

\* The k-th request in s is one that RequestBuilder makes: its head comes first
\* and, where the server reads a body for it, says how many units follow.
Tidy(s, k) ==
  \E p, q \in 1..Len(s) :
    /\ p <= q /\ Server!Spans(s, k, p, q)
    /\ s[p].head
    /\ s[p].h.parses /\ Server!ContentLen(s[p].h) <= MaxBody =>
         Server!ContentLen(s[p].h) = q - p

ASSUME ExchangeAssumption ==
  /\ N \in Nat \ {0} /\ MaxBody \in Nat /\ MaxKeepAlive \in Nat
  /\ Unit \subseteq [owner : Nat, head : BOOLEAN, glue : BOOLEAN, h : Server!RequestHead]
  /\ \A s \in Plans :
       /\ s \in Seq(Unit) /\ Server!InOrder(s)
       /\ \A j \in 1..Len(s) : s[j].owner <= N
       /\ \A k \in 1..N : Tidy(s, k)

\* There is no connection yet: the server's variables wait for the first one.
Init ==
  /\ Client!Init
  /\ plan \in Plans
  /\ stream = <<>> /\ sent = 0 /\ peer = "open" /\ got = 0
  /\ srv_buf = <<>> /\ pc = "shutdown" /\ header_str = <<>> /\ keep_alive = FALSE
  /\ requests_served = 0 /\ answers = <<>> /\ written = 0
  /\ handled = <<>>
  /\ torn = {}

(***************************************************************************)
(* The client.                                                             *)
(***************************************************************************)
Request == Client!Request /\ UNCHANGED <<server, plan, history>>

OnError(c) ==
  /\ Client!OnError(c)
  /\ torn' = IF c.at = "body" \/ read_buf # <<>> THEN torn \cup {c.k} ELSE torn
  /\ UNCHANGED <<server, plan, handled>>

\* A connection is accepted: HTTPServerConnection is constructed and started.
Accepted(k) ==
  /\ stream' = From(k) /\ sent' = 0 /\ peer' = "open" /\ got' = 0
  /\ srv_buf' = <<>>
  /\ Server!readRequest(0)
  /\ header_str' = <<>> /\ keep_alive' = FALSE
  /\ requests_served' = 0 /\ answers' = <<>> /\ written' = 0

OnConnected(c) ==
  /\ Client!OnConnected(c)
  /\ IF link' = "up" THEN Accepted(c.k) ELSE UNCHANGED server
  /\ UNCHANGED <<plan, history>>

ClientHandler(c) ==
  \/ OnError(c)
  \/ OnConnected(c)
  \/ /\ \/ Client!OnResolved(c) \/ Client!OnHeaderRead(c) \/ Client!OnBodyRead(c)
        \/ Client!Written(c) /\ UNCHANGED <<queue, unframed>>
     /\ UNCHANGED <<server, plan, history>>

(***************************************************************************)
(* The link.                                                               *)
(***************************************************************************)
\* The client has started the write of request k.
Writing(k) == Client!Called(k) \/ \E c \in chains : c.k = k /\ c.at \in {"write", "header", "body"}

\* The next unit arrives at the server.
RequestArrives ==
  /\ link \in {"up", "eof"}
  /\ Server!PeerSend
  /\ Writing(stream[sent + 1].owner)
  /\ UNCHANGED <<client, net, plan, history>>

ResponseArrives == Client!ServerSend /\ UNCHANGED <<server, plan, history>>

\* The server has shut its side down and all it wrote has arrived.
Fin ==
  /\ link = "up" /\ link' = "eof"
  /\ pc = "shutdown" /\ queue = <<>>
  /\ UNCHANGED <<client, queue, inbound, server, plan, history>>

\* Bytes that a connection which is shut down has not read, or that arrive
\* then, are answered with a reset, which overtakes what it wrote last.
Reset ==
  /\ link \in {"up", "eof"} /\ link' = "reset"
  /\ pc = "shutdown" /\ got < sent
  /\ queue' = <<>>
  /\ UNCHANGED <<client, inbound, server, plan, history>>

(***************************************************************************)
(* The server.                                                             *)
(***************************************************************************)
\* The request that a response answers.
Answered(a) == a.raw[CHOOSE i \in 1..Len(a.raw) : Server!HeaderAt(a.raw, i)].owner

\* The units of body of a response: make(PayloadTooLarge) has none,
\* bad_request has a text, and what a handler returns may be anything.
Bodies(a) ==
  CASE a.status = "tooLarge"   -> {0}
    [] a.status = "badRequest" -> {2}
    [] OTHER                   -> {0, 2}

\* serialize always states the length of the body.
OnWire(a, n) ==
  Client!ResponseUnits(Answered(a), [parses |-> TRUE, stated |-> TRUE, n |-> n,
                                     close |-> a.says = "close", quoting |-> FALSE])

\* A handler of the server; the response it may have started to write goes to
\* the client.
ServerHandler ==
  /\ Server!Handler
  /\ IF answers' = answers
     THEN UNCHANGED <<queue, handled>>
     ELSE LET a == answers'[Len(answers')]
          IN  /\ \E n \in Bodies(a) : queue' = queue \o OnWire(a, n)
              /\ handled' = IF Server!IsServed(a) THEN Append(handled, Answered(a)) ELSE handled
  /\ UNCHANGED <<client, link, inbound, plan, torn>>

Next ==
  \/ Request
  \/ \E c \in chains : ClientHandler(c)
  \/ RequestArrives \/ ResponseArrives \/ Fin \/ Reset
  \/ ServerHandler

\* Both event loops run the handlers of what has completed, resolve and
\* connect complete, and what was written arrives.
Spec ==
  /\ Init /\ [][Next]_vars
  /\ WF_vars(\E c \in chains : ClientHandler(c))
  /\ WF_vars(ServerHandler)
  /\ WF_vars(RequestArrives \/ ResponseArrives \/ Fin)

-------------------------------------------------------------------------------
(***************************************************************************)
(* Properties.                                                             *)
(***************************************************************************)
\* A leftover of an earlier response may stand before the response to k: the
\* client does not clear read_buf_ (see HttpClient's NulloptMeansError).
Clean(k) == \A j \in torn : j >= k

\* The application learns what became of its requests: a callback gets the
\* response to its own request or nullopt, a request is served at most once,
\* and one whose callback got nullopt has not been and will not be served, so
\* that the application may make it again.  This is about both sides: the
\* server's limit (server.hpp:80) and its refusals (server.hpp:113) close a
\* connection on which the client goes on writing (client.hpp:131).
ServedIsReported ==
  /\ \A i, j \in 1..Len(handled) : handled[i] = handled[j] => i = j
  /\ \A i \in 1..Len(results) :
       LET k == results[i].for
       IN  Clean(k) =>
             /\ results[i].with \in {0, k}
             /\ results[i].with = 0 => \A j \in 1..Len(handled) : handled[j] # k

\* A request is lost only to a connection whose end was not announced: when a
\* callback gets nullopt, resolve or connect has failed, or the server has shut
\* down after a response that did not say "close" - the last one the limit
\* allows, which says keep-alive, or a 400 or 413, which says nothing.  A
\* response that says so is always the last on its connection for the client,
\* too.
LossOnlyUnannounced ==
  [][\A k \in 1..N :
       results' = Append(results, [for |-> k, with |-> 0]) /\ Clean(k) =>
         \/ \E c \in chains : c.k = k /\ c.at \in {"resolve", "connect"}
         \/ /\ pc = "shutdown" /\ answers # <<>>
            /\ answers[Len(answers)].says # "close"]_vars

\* Every request the application makes is called back, whatever the server
\* makes of it: neither side waits for the other for ever.
EveryRequestCalledBack == \A k \in 1..N : (issued >= k) ~> Client!Called(k)
===============================================================================
