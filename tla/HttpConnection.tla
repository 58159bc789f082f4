---------------------------- MODULE HttpConnection ----------------------------
(***************************************************************************)
(* HTTPServerConnection of include/server.hpp: the callback state machine  *)
(* that reads requests off one socket and answers them.                    *)
(*                                                                         *)
(* pc names the asynchronous operation whose completion handler runs next. *)
(* An action is one completion handler with everything it calls before it  *)
(* returns to the event loop: parsing, dispatch, erasing from read_buf_,   *)
(* and starting the next operation.                                        *)
(***************************************************************************)
EXTENDS HttpWire

CONSTANTS Streams,       \* the streams a peer may send
          MaxKeepAlive   \* max_keepalive_

ASSUME ConnectionAssumption ==
  /\ Streams \subseteq Seq(Unit)
  /\ \A s \in Streams : InOrder(s)
  /\ MaxKeepAlive \in Nat

VARIABLES stream,           \* what the peer sends on this connection, in full
          sent,             \* how many units of it have arrived at the socket
          peer,             \* "open", "eof" or "reset"
          got,              \* how many units have been read off the socket
          read_buf,         \* read_buf_
          pc,               \* the outstanding operation, or how the connection ended
          header_str,       \* the header block captured by the body's handler
          keep_alive,       \* the flag captured by sendRaw's handler
          requests_served,  \* requests_served_
          answers,          \* every response handed to async_write, in order
          written           \* how many of them were written in full

vars == <<stream, sent, peer, got, read_buf, pc, header_str, keep_alive,
          requests_served, answers, written>>
environment == <<stream, sent, peer>>

\* How a connection can end: do_shutdown; the last reference dropped without
\* one; handed to a WebSocketConnection; unwound by an exception of a handler.
Ended == {"shutdown", "dropped", "upgraded", "threw"}

\* A bug ServesWithinLimit must catch: one request too many.
readRequestOnceMore(s) == pc' = IF s > MaxKeepAlive THEN "shutdown" ELSE "header"

\* readRequest, called with s requests served.
readRequest(s) == pc' = IF s >= MaxKeepAlive THEN "shutdown" ELSE "header"

\* start() runs readRequest before any byte is read.
Init ==
  /\ stream \in Streams
  /\ sent = 0
  /\ peer = "open"
  /\ got = 0
  /\ read_buf = <<>>
  /\ pc = IF 0 >= MaxKeepAlive THEN "shutdown" ELSE "header"
  /\ header_str = <<>>
  /\ keep_alive = FALSE
  /\ requests_served = 0
  /\ answers = <<>>
  /\ written = 0

(***************************************************************************)
(* The peer.  Units arrive one at a time and a read takes any number of    *)
(* those that are there, so a stream may be cut anywhere.                  *)
(***************************************************************************)
PeerSend ==
  /\ peer = "open" /\ sent < Len(stream)
  /\ sent' = sent + 1
  /\ UNCHANGED <<stream, peer, got, read_buf, pc, header_str, keep_alive,
                 requests_served, answers, written>>

PeerClose ==
  /\ \/ peer = "open" /\ peer' = "eof"
     \/ peer # "reset" /\ peer' = "reset"
  /\ UNCHANGED <<stream, sent, got, read_buf, pc, header_str, keep_alive,
                 requests_served, answers, written>>

(***************************************************************************)
(* Handlers.                                                               *)
(***************************************************************************)
\* A bug ShutdownHasReason must catch: keep_alive is left at its default.
sendRawClosing(answer, op) ==
  /\ answers' = Append(answers, answer)
  /\ keep_alive' = FALSE
  /\ pc' = op
  /\ header_str' = <<>>

\* Starting the async_write of a response.
sendRaw(answer, op) ==
  /\ answers' = Append(answers, answer)
  /\ keep_alive' = answer.keep
  /\ pc' = op
  /\ header_str' = <<>>

\* handleWebSocketUpgrade: 400 without a key, else 101.
handleWebSocketUpgrade(h, raw) ==
  \/ h.upgrade = "noKey" /\ sendRaw(Refusal("badRequest", raw), "write")
  \/ h.upgrade = "key" /\ sendRaw(Switching(raw), "upgradeWrite")

\* dispatchRequest.  The header block is parsed a second time; it is the same
\* text, so the outcome is the same and the second 400 cannot be reached.
dispatchRequest(block, body) ==
  LET h   == HeadOf(block)
      raw == block \o body
  IN  \/ /\ h.upgrade # "no"
         /\ handleWebSocketUpgrade(h, raw)
         /\ UNCHANGED requests_served
      \/ /\ h.upgrade = "no" /\ ~ HandlerThrows(h)
         /\ requests_served' = requests_served + 1
         /\ sendRaw(Served(h, raw), "write")
      \/ /\ h.upgrade = "no" /\ HandlerThrows(h)
         /\ pc' = "threw"
         /\ header_str' = <<>>
         /\ UNCHANGED <<requests_served, answers, keep_alive>>

\* Bugs of BadRequest: no return after the 400 is sent (OneWriteAtATime), and
\* no 400 (CompleteIsAnswered).
BadRequestGoesOn(buf, i) ==
  /\ ~ HeadOf(SubSeq(buf, 1, i)).parses
  /\ read_buf' = <<>>
  /\ sendRaw(Refusal("badRequest", SubSeq(buf, 1, i)), "header")
  /\ UNCHANGED requests_served

BadRequestIgnored(buf, i) ==
  /\ ~ HeadOf(SubSeq(buf, 1, i)).parses
  /\ read_buf' = SubSeq(buf, i + 1, Len(buf))
  /\ UNCHANGED <<pc, header_str, keep_alive, requests_served, answers>>

\* handleRequest, when the header block ends at unit i of buf.
BadRequest(buf, i) ==
  /\ ~ HeadOf(SubSeq(buf, 1, i)).parses
  /\ read_buf' = <<>>
  /\ sendRaw(Refusal("badRequest", SubSeq(buf, 1, i)), "write")
  /\ UNCHANGED requests_served

TooLarge(buf, i) ==
  LET h == HeadOf(SubSeq(buf, 1, i))
  IN  /\ h.parses /\ ContentLen(h) > MaxBody
      /\ read_buf' = <<>>
      /\ sendRaw(Refusal("tooLarge", SubSeq(buf, 1, i)), "write")
      /\ UNCHANGED requests_served

\* A bug BufferIsTail must catch: the header block is not erased.
NeedBodyKeepsHeader(buf, i) ==
  LET h == HeadOf(SubSeq(buf, 1, i))
  IN  /\ h.parses /\ ContentLen(h) <= MaxBody
      /\ ContentLen(h) > Len(buf) - i
      /\ read_buf' = buf
      /\ header_str' = SubSeq(buf, 1, i)
      /\ pc' = "body"
      /\ UNCHANGED <<requests_served, answers, keep_alive>>

NeedBody(buf, i) ==
  LET h == HeadOf(SubSeq(buf, 1, i))
  IN  /\ h.parses /\ ContentLen(h) <= MaxBody
      /\ ContentLen(h) > Len(buf) - i
      /\ read_buf' = SubSeq(buf, i + 1, Len(buf))
      /\ header_str' = SubSeq(buf, 1, i)
      /\ pc' = "body"
      /\ UNCHANGED <<requests_served, answers, keep_alive>>

\* A bug Framing must catch: the body is not erased.
BodyThereKept(buf, i) ==
  LET h == HeadOf(SubSeq(buf, 1, i))
      n == ContentLen(h)
  IN  /\ h.parses /\ n <= MaxBody
      /\ n <= Len(buf) - i
      /\ read_buf' = SubSeq(buf, i + 1, Len(buf))
      /\ dispatchRequest(SubSeq(buf, 1, i), SubSeq(buf, i + 1, i + n))

BodyThere(buf, i) ==
  LET h == HeadOf(SubSeq(buf, 1, i))
      n == ContentLen(h)
  IN  /\ h.parses /\ n <= MaxBody
      /\ n <= Len(buf) - i
      /\ read_buf' = SubSeq(buf, i + n + 1, Len(buf))
      /\ dispatchRequest(SubSeq(buf, 1, i), SubSeq(buf, i + 1, i + n))

handleRequest(buf, i) ==
  BadRequest(buf, i) \/ TooLarge(buf, i) \/ NeedBody(buf, i) \/ BodyThere(buf, i)

\* Bytes a read may return now: none after a reset, else what has arrived.
Arrived == IF peer = "reset" THEN 0 ELSE sent - got

Chunk(n) == SubSeq(stream, got + 1, got + n)

\* readRequest's async_read_until: it reads only while the buffer holds no
\* delimiter, and then any non-empty part of what has arrived.
OnHeaderRead ==
  /\ pc = "header"
  /\ \E n \in 0..Arrived :
       /\ n = 0 <=> ~ NoHeader(read_buf)
       /\ got' = got + n
       /\ LET buf == read_buf \o Chunk(n)
          IN  \/ /\ NoHeader(buf)
                 /\ read_buf' = buf
                 /\ UNCHANGED <<pc, header_str, keep_alive, requests_served, answers>>
              \/ \E i \in 1..Len(buf) : HeaderAt(buf, i) /\ handleRequest(buf, i)
  /\ UNCHANGED <<stream, sent, peer, written>>

\* handleRequest's async_read of exactly the rest of the body.
OnBodyRead ==
  /\ pc = "body"
  /\ \E n \in 1..Arrived :
       LET len == ContentLen(HeadOf(header_str))
           buf == read_buf \o Chunk(n)
       IN  /\ Len(buf) <= len
           /\ got' = got + n
           /\ \/ /\ Len(buf) < len
                 /\ read_buf' = buf
                 /\ UNCHANGED <<pc, header_str, keep_alive, requests_served, answers>>
              \/ /\ Len(buf) = len
                 /\ read_buf' = SubSeq(buf, len + 1, Len(buf))
                 /\ dispatchRequest(header_str, SubSeq(buf, 1, len))
  /\ UNCHANGED <<stream, sent, peer, written>>

\* Either read fails: the handler returns at once and the last reference to
\* the connection goes with it.
OnReadError ==
  /\ \/ pc = "header" /\ NoHeader(read_buf)
     \/ pc = "body"
  /\ \/ peer = "reset"
     \/ peer = "eof" /\ got = sent
  /\ pc' = "dropped"
  /\ UNCHANGED <<stream, sent, peer, got, read_buf, header_str, keep_alive,
                 requests_served, answers, written>>

\* A bug QuietAfterLast must catch: the keep-alive flag is not looked at.
OnWrittenReadsOn ==
  /\ pc = "write"
  /\ written' = written + 1
  /\ readRequest(requests_served)
  /\ UNCHANGED <<stream, sent, peer, got, read_buf, header_str, keep_alive,
                 requests_served, answers>>

\* sendRaw's async_write has completed: read the next request, or do_shutdown.
OnWritten ==
  /\ pc = "write"
  /\ written' = written + 1
  /\ IF keep_alive THEN readRequest(requests_served) ELSE pc' = "shutdown"
  /\ UNCHANGED <<stream, sent, peer, got, read_buf, header_str, keep_alive,
                 requests_served, answers>>

\* A bug ImplementsSession must catch: the 101 is taken for a response.
OnUpgradeWrittenReadsOn ==
  /\ pc = "upgradeWrite"
  /\ written' = written + 1
  /\ readRequest(requests_served)
  /\ UNCHANGED <<stream, sent, peer, got, read_buf, header_str, keep_alive,
                 requests_served, answers>>

\* The 101 is written: the socket moves to a WebSocketConnection, read_buf_
\* stays behind.
OnUpgradeWritten ==
  /\ pc = "upgradeWrite"
  /\ written' = written + 1
  /\ pc' = "upgraded"
  /\ UNCHANGED <<stream, sent, peer, got, read_buf, header_str, keep_alive,
                 requests_served, answers>>

\* Either write fails.
OnWriteError ==
  /\ pc \in {"write", "upgradeWrite"}
  /\ peer = "reset"
  /\ pc' = "dropped"
  /\ UNCHANGED <<stream, sent, peer, got, read_buf, header_str, keep_alive,
                 requests_served, answers, written>>

Handler ==
  \/ OnHeaderRead \/ OnBodyRead \/ OnReadError
  \/ OnWritten \/ OnUpgradeWritten \/ OnWriteError

Next == PeerSend \/ PeerClose \/ Handler

\* io_context::run calls the completion handler of every operation that
\* completes, and the peer reads what it is sent.
Spec == Init /\ [][Next]_vars /\ WF_vars(Handler)

-------------------------------------------------------------------------------
(***************************************************************************)
(* Properties.                                                             *)
(***************************************************************************)
\* Every variable has its type: the buffer and the captured header block are
\* pieces of stream, the answers are responses.
TypeOK ==
  /\ stream \in Streams
  /\ sent \in 0..Len(stream)
  /\ peer \in {"open", "eof", "reset"}
  /\ got \in 0..sent
  /\ read_buf \in Seq(Unit)
  /\ pc \in {"header", "body", "write", "upgradeWrite"} \cup Ended
  /\ header_str \in Seq(Unit)
  /\ keep_alive \in BOOLEAN
  /\ requests_served \in Nat
  /\ answers \in Seq(AnswerSet)
  /\ written \in Nat

\* Units erased from the buffer for good: read, and neither buffered nor held
\* by the handler that waits for a body.
taken == got - Len(read_buf) - Len(header_str)

\* No byte is lost, repeated or reordered between the socket and the parser:
\* what the waiting body handler holds, followed by the buffer, is exactly the
\* latest part of what was read (handleRequest's and dispatch's erase calls,
\* and transfer_exactly's count).
BufferIsTail ==
  /\ Len(read_buf) + Len(header_str) <= got
  /\ header_str \o read_buf = SubSeq(stream, taken + 1, got)

\* The responses are written one at a time: a response is handed to
\* async_write only when all the earlier ones are written in full, so two
\* writes on the socket never overlap and pipelined requests are answered in
\* their order.
OneWriteAtATime ==
  /\ written <= Len(answers)
  /\ Len(answers) <= written + 1
  /\ pc \in {"header", "body", "shutdown", "upgraded"} => written = Len(answers)
  /\ pc \in {"write", "upgradeWrite"} => written + 1 = Len(answers)

\* A connection serves at most max_keepalive_ requests, and it is still
\* reading requests only below that limit and if every response so far kept it
\* open: after a response that closes (400, 413, "Connection: close") no
\* request is ever read or answered.
ServesWithinLimit ==
  /\ requests_served <= MaxKeepAlive
  /\ pc \in {"header", "body"} =>
       /\ requests_served < MaxKeepAlive
       /\ \A k \in 1..Len(answers) : answers[k].keep
  /\ \A k \in 1..Len(answers) : k < Len(answers) => answers[k].keep

\* Framing: as long as the requests state their lengths, the k-th answer is
\* for exactly the bytes the peer sent as its k-th request, whatever these
\* bytes look like, wherever the stream was cut and however far ahead the peer
\* pipelined.
Framing == Framed(stream, answers)

\* The connection is shut down in an orderly way only for a reason the peer
\* can know of: the limit is reached, or the last response was written with
\* keep_alive false.  In particular no 101 is ever followed by do_shutdown.
ShutdownHasReason ==
  pc = "shutdown" =>
    \/ requests_served >= MaxKeepAlive
    \/ answers # <<>> /\ ~ answers[Len(answers)].keep
                      /\ answers[Len(answers)].status # "switching"

\* Once a response that closes has been handed to async_write, the connection
\* takes nothing more off the socket and adds no response.
QuietAfterLast ==
  [][(answers # <<>> /\ ~ answers[Len(answers)].keep)
       => UNCHANGED <<got, read_buf, answers, requests_served>>]_vars

\* Every request that has arrived in full is answered in the end, or the
\* connection has ended (limit, an earlier response that closes, the peer's
\* doing, an exception): no chunking leaves a buffered request waiting for
\* bytes that need not come.
Complete ==
  /\ pc \in {"header", "body"}
  /\ LET rest == SubSeq(stream, taken + 1, sent)
     IN  \E i \in 1..Len(rest) :
           /\ HeaderAt(rest, i)
           /\ LET h == HeadOf(SubSeq(rest, 1, i))
              IN  ~ h.parses \/ ContentLen(h) > MaxBody \/ i + ContentLen(h) <= Len(rest)

CompleteIsAnswered ==
  \A k \in 0..2 :
    (Complete /\ Len(answers) = k) ~> (Len(answers) > k \/ pc \in Ended)

\* What the connection is doing, in the terms of the abstract session.
status ==
  CASE pc \in {"header", "body"} -> "idle"
    [] pc = "write" -> "writing"
    [] pc = "upgradeWrite" -> "switching"
    [] pc = "upgraded" -> "upgraded"
    [] pc = "threw" -> "failed"
    [] OTHER -> "closed"

\* The connection implements the abstract session: buffering, partial reads
\* and the separate read of the body make no difference.
Session == INSTANCE HttpSession WITH served <- requests_served

ImplementsSession == Session!Spec
===============================================================================
