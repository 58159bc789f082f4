------------------------------ MODULE HttpClient ------------------------------
(***************************************************************************)
(* HTTPClient and HTTPSClient of include/client.hpp: one socket, one       *)
(* buffer, one pending request and one pending callback, shared by the     *)
(* chains of completion handlers that the calls of request() start.        *)
(*                                                                         *)
(* A chain is a record in chains: at is the operation whose handler it     *)
(* waits for.  With Overlap = FALSE the application calls request() only   *)
(* when the previous callback has been invoked (from that callback or      *)
(* later: request() only starts operations, so it makes no difference to   *)
(* the erase that follows the callback), and there is at most one chain.   *)
(*                                                                         *)
(* The server is the environment.  It answers the requests it receives in  *)
(* their order, any piece at a time, and may close or reset the connection *)
(* at any point.                                                           *)
(***************************************************************************)
EXTENDS Naturals, Sequences

CONSTANTS N,           \* how many requests the application makes
          Responses,   \* the responses a server may give
          Tls,         \* HTTPSClient rather than HTTPClient
          Overlap      \* request() may be called while a callback is pending

\* What processResponse looks at.  n is how many units of body follow the
\* head, and stated says whether a Content-Length header says so; the last
\* unit of a quoting response's body looks like the head of a response.
ResponseSet == [parses : BOOLEAN, stated : BOOLEAN, n : Nat, close : BOOLEAN,
                quoting : BOOLEAN]

ASSUME ClientAssumption ==
  /\ N \in Nat \ {0}
  /\ Responses \subseteq ResponseSet
  /\ Tls \in BOOLEAN /\ Overlap \in BOOLEAN

VARIABLES issued,            \* how many requests the application has made
          connected,         \* connected_
          read_buf,          \* read_buf_
          pending_request,   \* pending_request_: the request, 0 when moved from
          pending_callback,  \* pending_callback_: whose it is, 0 for nullptr
          chains,            \* the outstanding operations
          results,           \* the callbacks invoked: whose, and with what
          link,              \* the connection: "none", "up", "eof" or "reset"
          queue,             \* what the server has still to send
          inbound,           \* what it has sent and the client has not read
          faults,            \* the requests during which something failed
          unframed           \* those answered without a stated length

vars == <<issued, connected, read_buf, pending_request, pending_callback, chains,
          results, link, queue, inbound, faults, unframed>>

\* A unit of a response: its head, with the blank line, or body bytes.
HeadUnit(k, r) == [of |-> k, head |-> TRUE, r |-> r]

Empty == [parses |-> TRUE, stated |-> TRUE, n |-> 0, close |-> FALSE, quoting |-> FALSE]

BodyUnit(k, r, j) ==
  IF r.quoting /\ j = r.n THEN HeadUnit(k, Empty) ELSE [of |-> k, head |-> FALSE, r |-> r]

ResponseUnits(k, r) == <<HeadUnit(k, r)>> \o [j \in 1..r.n |-> BodyUnit(k, r, j)]

Init ==
  /\ issued = 0
  /\ connected = FALSE
  /\ read_buf = <<>>
  /\ pending_request = 0
  /\ pending_callback = 0
  /\ chains = {}
  /\ results = <<>>
  /\ link = "none"
  /\ queue = <<>>
  /\ inbound = <<>>
  /\ faults = {}
  /\ unframed = {}

server == <<link, queue, inbound>>

\* The callback of request k has been invoked.
Called(k) == \E i \in 1..Len(results) : results[i].for = k

Chain(k, at) == [k |-> k, at |-> at, block |-> <<>>]

(***************************************************************************)
(* The application.                                                        *)
(***************************************************************************)
\* request(): the pending request and callback are overwritten, whatever they
\* were.  sendRequest moves the pending request into the write it starts.
Request ==
  /\ issued < N
  /\ Overlap \/ \A k \in 1..issued : Called(k)
  /\ issued' = issued + 1
  /\ pending_callback' = issued + 1
  /\ IF connected
     THEN /\ chains' = chains \cup {Chain(issued + 1, "write")}
          /\ pending_request' = 0
     ELSE /\ chains' = chains \cup {Chain(issued + 1, "resolve")}
          /\ pending_request' = issued + 1
  /\ UNCHANGED <<connected, read_buf, results, server, faults, unframed>>

(***************************************************************************)
(* The handlers of one chain.                                              *)
(***************************************************************************)
\* invoke_callback: response is the number of the request it answers, or 0 for
\* nullopt.
InvokeCallback(response) ==
  IF pending_callback # 0
  THEN /\ results' = Append(results, [for |-> pending_callback, with |-> response])
       /\ pending_callback' = 0
  ELSE UNCHANGED <<results, pending_callback>>

Continue(c, at) == chains' = (chains \ {c}) \cup {[c EXCEPT !.at = at]}

\* A bug EveryRequestCalledBack must catch: an error handler only returns.
FailedSilently(c) ==
  /\ chains' = chains \ {c}
  /\ faults' = faults \cup {c.k}
  /\ UNCHANGED <<results, pending_callback>>

\* A handler called with an error.
Failed(c) ==
  /\ InvokeCallback(0)
  /\ chains' = chains \ {c}
  /\ faults' = faults \cup {c.k}

OnResolved(c) ==
  /\ c.at = "resolve"
  /\ \/ Failed(c)
     \/ Continue(c, "connect") /\ UNCHANGED <<results, pending_callback, faults>>
  /\ UNCHANGED <<issued, connected, read_buf, pending_request, server, unframed>>

\* sendRequest, from a connect or handshake handler: the write carries
\* whatever request is pending now.
SendRequest(c) ==
  /\ connected' = TRUE
  /\ chains' = (chains \ {c}) \cup {Chain(pending_request, "write")}
  /\ pending_request' = 0

\* async_connect closes the socket and opens a new one.
OnConnected(c) ==
  /\ c.at = "connect"
  /\ queue' = <<>> /\ inbound' = <<>>
  /\ \/ /\ Failed(c)
        /\ link' = "none"
        /\ UNCHANGED <<connected, pending_request>>
     \/ /\ link' = "up"
        /\ IF Tls
           THEN Continue(c, "handshake") /\ UNCHANGED <<connected, pending_request>>
           ELSE SendRequest(c)
        /\ UNCHANGED <<results, pending_callback, faults>>
  /\ UNCHANGED <<issued, read_buf, unframed>>

OnHandshake(c) ==
  /\ c.at = "handshake"
  /\ \/ Failed(c) /\ UNCHANGED <<connected, pending_request>>
     \/ /\ link = "up"
        /\ SendRequest(c)
        /\ UNCHANGED <<results, pending_callback, faults>>
  /\ UNCHANGED <<issued, read_buf, server, unframed>>

\* A failed read or write.  A server that has only closed its side is noticed
\* by a read.
OnError(c) ==
  /\ \/ c.at = "write" /\ link \in {"none", "reset"}
     \/ /\ \/ c.at = "header" /\ \A j \in 1..Len(read_buf) : ~ read_buf[j].head
           \/ c.at = "body"
        /\ link = "reset" \/ (link = "eof" /\ inbound = <<>>)
  /\ connected' = FALSE
  /\ Failed(c)
  /\ UNCHANGED <<issued, read_buf, pending_request, server, unframed>>

\* A write succeeds while the server is there to take it, and also when it has
\* closed and the client's side does not know yet.
Written(c) ==
  /\ c.at = "write"
  /\ link # "reset"
  /\ Continue(c, "header")
  /\ UNCHANGED <<issued, connected, read_buf, pending_request, pending_callback,
                 results, link, inbound, faults>>

\* The same, with the answer of a server of which nothing is known.
OnWritten(c) ==
  /\ Written(c)
  /\ IF link = "up" /\ c.k # 0
     THEN \E r \in Responses :
            /\ queue' = queue \o ResponseUnits(c.k, r)
            /\ unframed' = IF r.stated \/ r.n = 0 THEN unframed ELSE unframed \cup {c.k}
     ELSE UNCHANGED <<queue, unframed>>

\* Bugs of the end of an exchange: the Connection header is not looked at
\* (LossOnlyUnannounced of Exchange), and the callback is not moved while the
\* client reads on (CalledOnceInOrder).
FinishKeepingLink(c, head, rest) ==
  /\ connected' = connected
  /\ InvokeCallback(head.of)
  /\ chains' = chains \ {c}
  /\ read_buf' = rest

FinishAndReadOn(c, head, rest) ==
  /\ connected' = (connected /\ ~ head.r.close)
  /\ results' = Append(results, [for |-> pending_callback, with |-> head.of])
  /\ Continue(c, "header")
  /\ read_buf' = rest
  /\ UNCHANGED pending_callback

\* The end of an exchange: connected_ follows the Connection header, the
\* callback gets the response, the body is erased.
Finish(c, head, rest) ==
  /\ connected' = (connected /\ ~ head.r.close)
  /\ InvokeCallback(head.of)
  /\ chains' = chains \ {c}
  /\ read_buf' = rest

\* A bug OwnResponseWhileClean must catch: the body is taken for one shorter.
ContentLenLessOne(head) == IF head.r.stated /\ head.r.n > 0 THEN head.r.n - 1 ELSE 0

ContentLen(head) == IF head.r.stated THEN head.r.n ELSE 0

\* processResponse, when the header block ends at unit i of buf: it parses only
\* if it is exactly one response head.
ProcessResponse(c, buf, i) ==
  LET head == buf[i]
      rest == SubSeq(buf, i + 1, Len(buf))
      n    == ContentLen(head)
  IN  \/ /\ i > 1 \/ ~ head.r.parses
         /\ InvokeCallback(0)
         /\ chains' = chains \ {c}
         /\ read_buf' = rest
         /\ faults' = faults \cup (IF head.r.parses THEN {} ELSE {c.k})
         /\ UNCHANGED connected
      \/ /\ i = 1 /\ head.r.parses /\ n <= Len(rest)
         /\ Finish(c, head, SubSeq(rest, n + 1, Len(rest)))
         /\ UNCHANGED faults
      \/ /\ i = 1 /\ head.r.parses /\ n > Len(rest)
         /\ read_buf' = rest
         /\ chains' = (chains \ {c}) \cup {[c EXCEPT !.at = "body", !.block = <<head>>]}
         /\ UNCHANGED <<connected, results, pending_callback, faults>>

\* A read takes n units off the link, unless it was reset.
Take(n) == inbound' = SubSeq(inbound, n + 1, Len(inbound))

OnHeaderRead(c) ==
  /\ c.at = "header"
  /\ \E n \in 0..Len(inbound) :
       LET buf   == read_buf \o SubSeq(inbound, 1, n)
           ready == \E j \in 1..Len(read_buf) : read_buf[j].head
       IN  /\ ready <=> n = 0
           /\ n > 0 => link # "reset"
           /\ Take(n)
           /\ \/ /\ \A j \in 1..Len(buf) : ~ buf[j].head
                 /\ read_buf' = buf
                 /\ UNCHANGED <<connected, pending_callback, chains, results, faults>>
              \/ \E i \in 1..Len(buf) :
                   /\ buf[i].head /\ \A j \in 1..(i - 1) : ~ buf[j].head
                   /\ ProcessResponse(c, buf, i)
  /\ UNCHANGED <<issued, pending_request, link, queue, unframed>>

OnBodyRead(c) ==
  /\ c.at = "body"
  /\ link # "reset"
  /\ \E n \in 1..Len(inbound) :
       LET buf == read_buf \o SubSeq(inbound, 1, n)
           len == ContentLen(c.block[1])
       IN  /\ Len(buf) <= len
           /\ Take(n)
           /\ \/ /\ Len(buf) < len
                 /\ read_buf' = buf
                 /\ UNCHANGED <<connected, pending_callback, chains, results>>
              \/ /\ Len(buf) = len
                 /\ Finish(c, c.block[1], SubSeq(buf, len + 1, Len(buf)))
  /\ UNCHANGED <<issued, pending_request, link, queue, faults, unframed>>

Handle(c) ==
  \/ OnResolved(c) \/ OnConnected(c) \/ OnHandshake(c) \/ OnError(c)
  \/ OnWritten(c) \/ OnHeaderRead(c) \/ OnBodyRead(c)

(***************************************************************************)
(* The server.                                                             *)
(***************************************************************************)
ServerSend ==
  /\ link = "up" /\ queue # <<>>
  /\ inbound' = Append(inbound, Head(queue))
  /\ queue' = Tail(queue)
  /\ UNCHANGED <<issued, connected, read_buf, pending_request, pending_callback,
                 chains, results, link, faults, unframed>>

ServerClose ==
  /\ \/ link = "up" /\ link' = "eof"
     \/ link \in {"up", "eof"} /\ link' = "reset"
  /\ queue' = <<>>
  /\ UNCHANGED <<issued, connected, read_buf, pending_request, pending_callback,
                 chains, results, inbound, faults, unframed>>

Next == Request \/ (\E c \in chains : Handle(c)) \/ ServerSend \/ ServerClose

\* Every operation that completes has its handler run; the name service, the
\* connect and the handshake complete; a server that has something to send
\* sends it or closes.
Spec ==
  /\ Init /\ [][Next]_vars
  /\ WF_vars(\E c \in chains : Handle(c))
  /\ WF_vars(ServerSend)

-------------------------------------------------------------------------------
(***************************************************************************)
(* Properties.                                                             *)
(***************************************************************************)
\* Every variable has its type.
TypeOK ==
  /\ issued \in 0..N
  /\ connected \in BOOLEAN
  /\ pending_request \in 0..N /\ pending_callback \in 0..N
  /\ \A c \in chains : /\ c.k \in 0..N
                       /\ c.at \in {"resolve", "connect", "handshake", "write", "header", "body"}
                       /\ (c.at = "body") = (c.block # <<>>)
  /\ \A i \in 1..Len(results) : results[i].for \in 1..N /\ results[i].with \in 0..N
  /\ link \in {"none", "up", "eof", "reset"}
  /\ faults \subseteq 0..N

\* Every request the application has made has had its callback invoked, or
\* still has it pending: "callback receives parsed response (or nullopt on
\* error)" (client.hpp:125).
NoCallbackLost == \A k \in 1..issued : Called(k) \/ pending_callback = k

\* No callback is invoked twice, and callbacks come in the order of the
\* requests: an error reported by one handler is not reported again by
\* another one of the same exchange.
CalledOnceInOrder ==
  \A i, j \in 1..Len(results) : i < j => results[i].for < results[j].for

\* As long as nothing has gone wrong, every callback gets the response to its
\* own request: a response that was read in pieces, or with part of its body
\* already in the buffer, leaves nothing behind that the next exchange could
\* take for a response.  (After a fault it does not hold: see
\* NulloptMeansError.)
OwnResponseWhileClean ==
  \A i \in 1..Len(results) :
    LET k == results[i].for
    IN  (\A j \in 1..(k - 1) : j \notin faults \cup unframed) =>
          results[i].with = IF k \in faults THEN 0 ELSE k

\* A callback that gets nullopt has been told of an error: something in its
\* own exchange failed (a resolve, connect, handshake, read or write, or a
\* response that does not parse).
NulloptMeansError ==
  \A i \in 1..Len(results) : results[i].with = 0 => results[i].for \in faults

\* Every request is called back in the end, if the operations the client
\* starts complete, and a server that does not answer closes.
EveryRequestCalledBack == \A k \in 1..N : (issued >= k) ~> Called(k)
===============================================================================
