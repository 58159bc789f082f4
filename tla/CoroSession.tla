----------------------------- MODULE CoroSession -----------------------------
(***************************************************************************)
(* run_session of include/coro_server.hpp: the coroutine that serves one   *)
(* connection of a CoroServer.                                             *)
(*                                                                         *)
(* at names the co_await at which the coroutine is suspended, or how it    *)
(* ended.  An action resumes it there and runs it to the next co_await, or *)
(* to its end.  Refusals (400 and 413) leave the loop by break, so they    *)
(* and every failed read or write still reach the shutdown at the end of   *)
(* the function; the branches of the WebSocket upgrade leave by co_return, *)
(* which destroys the socket without one.                                  *)
(***************************************************************************)
EXTENDS HttpWire

CONSTANTS Streams,        \* the streams a peer may send
          MaxKeepAlive,   \* max_keepalive
          HasWsHandler    \* whether on_websocket registered a handler

ASSUME SessionAssumption ==
  /\ Streams \subseteq Seq(Unit)
  /\ MaxKeepAlive \in Nat
  /\ HasWsHandler \in BOOLEAN

VARIABLES stream, sent, peer,   \* as in HttpConnection
          got,                  \* how many units have been read off the socket
          buf,                  \* the coroutine's buffer
          at,                   \* where the coroutine is suspended
          header_str,           \* the header block, while the body is awaited
          keep_alive,           \* of the request being answered
          served,               \* requests served
          answers,              \* every response handed to async_write, in order
          written               \* how many of them were written in full

vars == <<stream, sent, peer, got, buf, at, header_str, keep_alive, served,
          answers, written>>

Suspended == {"readHeader", "readBody", "writeAnswer", "writeRefusal",
              "writeKeyless", "writeSwitching"}
Ended == {"shutdown", "destroyed", "upgraded", "threw"}

\* The head of the while loop.
Loop(n) == at' = IF n < MaxKeepAlive THEN "readHeader" ELSE "shutdown"

Init ==
  /\ stream \in Streams
  /\ sent = 0
  /\ peer = "open"
  /\ got = 0
  /\ buf = <<>>
  /\ at = IF 0 < MaxKeepAlive THEN "readHeader" ELSE "shutdown"
  /\ header_str = <<>>
  /\ keep_alive = FALSE
  /\ served = 0
  /\ answers = <<>>
  /\ written = 0

PeerSend ==
  /\ peer = "open" /\ sent < Len(stream)
  /\ sent' = sent + 1
  /\ UNCHANGED <<stream, peer, got, buf, at, header_str, keep_alive, served,
                 answers, written>>

PeerClose ==
  /\ \/ peer = "open" /\ peer' = "eof"
     \/ peer # "reset" /\ peer' = "reset"
  /\ UNCHANGED <<stream, sent, got, buf, at, header_str, keep_alive, served,
                 answers, written>>

(***************************************************************************)
(* The straight-line code between two suspensions.                         *)
(***************************************************************************)
\* A bug of a write: the response is dropped (AnswersTile).
WriteDropped(answer, where) ==
  /\ UNCHANGED answers
  /\ at' = where
  /\ header_str' = <<>>

\* co_await async_write of a response.
Write(answer, where) ==
  /\ answers' = Append(answers, answer)
  /\ at' = where
  /\ header_str' = <<>>

\* From "Build rich Request" to the next write.
Respond(block, body) ==
  LET h   == HeadOf(block)
      raw == block \o body
  IN  /\ keep_alive' = KeepAlive(h)
      /\ \/ /\ h.upgrade = "noKey"
            /\ Write(Refusal("badRequest", raw), "writeKeyless")
            /\ UNCHANGED served
         \/ /\ h.upgrade = "key"
            /\ Write(Switching(raw), "writeSwitching")
            /\ UNCHANGED served
         \/ /\ h.upgrade = "no" /\ ~ HandlerThrows(h)
            /\ Write(Served(h, raw), "writeAnswer")
            /\ served' = served + 1
         \/ /\ h.upgrade = "no" /\ HandlerThrows(h)
            /\ at' = "threw"
            /\ header_str' = <<>>
            /\ UNCHANGED <<answers, served>>

\* The header block has been read: b is the buffer, in which it ends at unit i.
AfterHeader(b, i) ==
  LET block == SubSeq(b, 1, i)
      rest  == SubSeq(b, i + 1, Len(b))
      h     == HeadOf(block)
      n     == ContentLen(h)
  IN  \/ /\ ~ h.parses
         /\ buf' = rest
         /\ Write(Refusal("badRequest", block), "writeRefusal")
         /\ UNCHANGED <<served, keep_alive>>
      \/ /\ h.parses /\ n > MaxBody
         /\ buf' = rest
         /\ Write(Refusal("tooLarge", block), "writeRefusal")
         /\ UNCHANGED <<served, keep_alive>>
      \/ /\ h.parses /\ n <= MaxBody /\ n > Len(rest)
         /\ buf' = rest
         /\ header_str' = block
         /\ at' = "readBody"
         /\ UNCHANGED <<served, answers, keep_alive>>
      \/ /\ h.parses /\ n <= MaxBody /\ n <= Len(rest)
         /\ buf' = SubSeq(rest, n + 1, Len(rest))
         /\ Respond(block, SubSeq(rest, 1, n))

Arrived == IF peer = "reset" THEN 0 ELSE sent - got

Chunk(n) == SubSeq(stream, got + 1, got + n)

(***************************************************************************)
(* Resumptions.                                                            *)
(***************************************************************************)
ReadHeader ==
  /\ at = "readHeader"
  /\ \E n \in 0..Arrived :
       /\ n = 0 <=> ~ NoHeader(buf)
       /\ got' = got + n
       /\ LET b == buf \o Chunk(n)
          IN  \/ /\ NoHeader(b)
                 /\ buf' = b
                 /\ UNCHANGED <<at, header_str, keep_alive, served, answers>>
              \/ \E i \in 1..Len(b) : HeaderAt(b, i) /\ AfterHeader(b, i)
  /\ UNCHANGED <<stream, sent, peer, written>>

ReadBody ==
  /\ at = "readBody"
  /\ \E n \in 1..Arrived :
       LET len == ContentLen(HeadOf(header_str))
           b   == buf \o Chunk(n)
       IN  /\ Len(b) <= len
           /\ got' = got + n
           /\ \/ /\ Len(b) < len
                 /\ buf' = b
                 /\ UNCHANGED <<at, header_str, keep_alive, served, answers>>
              \/ /\ Len(b) = len
                 /\ buf' = SubSeq(b, len + 1, Len(b))
                 /\ Respond(header_str, SubSeq(b, 1, len))
  /\ UNCHANGED <<stream, sent, peer, written>>

\* The exception of a failed read is caught: break.
ReadFails ==
  /\ \/ at = "readHeader" /\ NoHeader(buf)
     \/ at = "readBody"
  /\ \/ peer = "reset"
     \/ peer = "eof" /\ got = sent
  /\ at' = "shutdown"
  /\ UNCHANGED <<stream, sent, peer, got, buf, header_str, keep_alive, served,
                 answers, written>>

\* A bug ShutdownHasReason must catch: go on only if more has been read.
AnswerWrittenIdle ==
  /\ at = "writeAnswer"
  /\ written' = written + 1
  /\ IF keep_alive /\ buf # <<>> THEN Loop(served) ELSE at' = "shutdown"
  /\ UNCHANGED <<stream, sent, peer, got, buf, header_str, keep_alive, served, answers>>

AnswerWritten ==
  /\ at = "writeAnswer"
  /\ written' = written + 1
  /\ IF keep_alive THEN Loop(served) ELSE at' = "shutdown"
  /\ UNCHANGED <<stream, sent, peer, got, buf, header_str, keep_alive, served, answers>>

RefusalWritten ==
  /\ at \in {"writeRefusal", "writeKeyless"}
  /\ written' = written + 1
  /\ at' = IF at = "writeRefusal" THEN "shutdown" ELSE "destroyed"
  /\ UNCHANGED <<stream, sent, peer, got, buf, header_str, keep_alive, served, answers>>

\* A bug ImplementsSession must catch: the 101 is taken for a response.
SwitchingWrittenReadsOn ==
  /\ at = "writeSwitching"
  /\ written' = written + 1
  /\ Loop(served)
  /\ UNCHANGED <<stream, sent, peer, got, buf, header_str, keep_alive, served, answers>>

\* Without a handler the coroutine returns, and the socket is gone although
\* the 101 has been sent.
SwitchingWritten ==
  /\ at = "writeSwitching"
  /\ written' = written + 1
  /\ at' = IF HasWsHandler THEN "upgraded" ELSE "destroyed"
  /\ UNCHANGED <<stream, sent, peer, got, buf, header_str, keep_alive, served, answers>>

\* The exception of a failed write is caught: break, or co_return in the
\* upgrade branches.
WriteFails ==
  /\ peer = "reset"
  /\ \/ at \in {"writeAnswer", "writeRefusal"} /\ at' = "shutdown"
     \/ at \in {"writeKeyless", "writeSwitching"} /\ at' = "destroyed"
  /\ UNCHANGED <<stream, sent, peer, got, buf, header_str, keep_alive, served,
                 answers, written>>

Resume ==
  \/ ReadHeader \/ ReadBody \/ ReadFails
  \/ AnswerWritten \/ RefusalWritten \/ SwitchingWritten \/ WriteFails

Next == PeerSend \/ PeerClose \/ Resume

\* The executor resumes every coroutine whose operation has completed, and the
\* peer reads what it is sent.
Spec == Init /\ [][Next]_vars /\ WF_vars(Resume)

-------------------------------------------------------------------------------
(***************************************************************************)
(* Properties.                                                             *)
(***************************************************************************)
\* Every variable has its type.
TypeOK ==
  /\ stream \in Streams
  /\ sent \in 0..Len(stream)
  /\ peer \in {"open", "eof", "reset"}
  /\ got \in 0..sent
  /\ buf \in Seq(Unit)
  /\ at \in Suspended \cup Ended
  /\ header_str \in Seq(Unit)
  /\ keep_alive \in BOOLEAN
  /\ served \in Nat
  /\ answers \in Seq(AnswerSet)
  /\ written \in Nat

\* Units erased from buf for good.
taken == got - Len(buf) - Len(header_str)

\* The k-th answer ends where the next one begins: the answers account for the
\* stream from its first byte, each byte at most once and in order (lines
\* 80-81 and 120-121 erase exactly what they take).
AnswersTile ==
  at # "threw" =>
    SubSeq(stream, 1, taken) =
      LET tile[k \in 0..Len(answers)] ==
            IF k = 0 THEN <<>> ELSE tile[k - 1] \o answers[k].raw
      IN  tile[Len(answers)]

\* Towards a peer that is still there the session sends FIN only when every
\* response it has given is written in full, and only for a reason the peer
\* can know of: the limit, or a last response that closes.
ShutdownHasReason ==
  at = "shutdown" /\ peer = "open" =>
    /\ written = Len(answers)
    /\ \/ served >= MaxKeepAlive
       \/ answers # <<>> /\ ~ answers[Len(answers)].keep
                         /\ answers[Len(answers)].status # "switching"

\* What the coroutine is doing, in the terms of the abstract session.
status ==
  CASE at \in {"readHeader", "readBody"} -> "idle"
    [] at \in {"writeAnswer", "writeRefusal", "writeKeyless"} -> "writing"
    [] at = "writeSwitching" -> "switching"
    [] at = "upgraded" -> "upgraded"
    [] at = "threw" -> "failed"
    [] OTHER -> "closed"

\* The coroutine implements the same abstract session as the callback server.
Session == INSTANCE HttpSession

ImplementsSession == Session!Spec
===============================================================================
