----------------------------- MODULE HttpSession -----------------------------
(***************************************************************************)
(* What one HTTP connection promises, whichever server runs it.            *)
(*                                                                         *)
(* A session looks at the stream the peer has sent so far and answers the  *)
(* requests in it one at a time, from the front: the next header block,    *)
(* with as many units of body as its head states, is taken as soon as it   *)
(* is there, answered once, and the answer is written before the next      *)
(* request is looked at.  The session has no buffer and no reads: in which *)
(* pieces the bytes arrive must make no difference.  Both                  *)
(* HTTPServerConnection (HttpConnection.tla) and run_session               *)
(* (CoroSession.tla) are shown to implement it.                            *)
(***************************************************************************)
EXTENDS HttpWire

CONSTANTS Streams,       \* the streams a peer may send
          MaxKeepAlive   \* max_keepalive_

VARIABLES stream,    \* what the peer sends on this connection, in full
          sent,      \* how many units of it the peer has sent
          peer,      \* "open", "eof" (its sending side is closed) or "reset"
          taken,     \* how many units the session has taken off the stream
          served,    \* requests_served_
          answers,   \* the answers given, in order
          written,   \* how many of them are written in full
          status     \* what the session is doing

vars == <<stream, sent, peer, taken, served, answers, written, status>>
environment == <<stream, sent, peer>>

Init ==
  /\ stream \in Streams
  /\ sent = 0
  /\ peer = "open"
  /\ taken = 0
  /\ served = 0
  /\ answers = <<>>
  /\ written = 0
  /\ status = IF MaxKeepAlive = 0 THEN "closed" ELSE "idle"

\* What the peer has sent and the session has not taken.
Rest == SubSeq(stream, taken + 1, sent)

(***************************************************************************)
(* The peer.                                                               *)
(***************************************************************************)
PeerSend ==
  /\ peer = "open" /\ sent < Len(stream)
  /\ sent' = sent + 1
  /\ UNCHANGED <<stream, peer, taken, served, answers, written, status>>

PeerClose ==
  /\ \/ peer = "open" /\ peer' = "eof"
     \/ peer # "reset" /\ peer' = "reset"
  /\ UNCHANGED <<stream, sent, taken, served, answers, written, status>>

(***************************************************************************)
(* The session.                                                            *)
(***************************************************************************)
Give(answer, next) ==
  /\ answers' = Append(answers, answer)
  /\ status' = next
  /\ UNCHANGED <<stream, sent, peer, written>>

\* A header block that does not parse, or that announces too large a body, is
\* refused; what follows it may be thrown away.
Refuse ==
  /\ status = "idle"
  /\ \E i \in 1..Len(Rest) :
       /\ HeaderAt(Rest, i)
       /\ LET block == SubSeq(Rest, 1, i)
              h     == HeadOf(block)
          IN  \/ /\ ~ h.parses
                 /\ Give(Refusal("badRequest", block), "writing")
              \/ /\ h.parses /\ ContentLen(h) > MaxBody
                 /\ Give(Refusal("tooLarge", block), "writing")
       /\ \E t \in (taken + i)..sent : taken' = t
  /\ UNCHANGED served

\* The request at the front of Rest ends at unit n; h and raw are its head and
\* its bytes.
Request(i, n) ==
  /\ HeaderAt(Rest, i)
  /\ HeadOf(SubSeq(Rest, 1, i)).parses
  /\ ContentLen(HeadOf(SubSeq(Rest, 1, i))) <= MaxBody
  /\ n = i + ContentLen(HeadOf(SubSeq(Rest, 1, i)))
  /\ n <= Len(Rest)

Answer ==
  /\ status = "idle"
  /\ \E i, n \in 1..Len(Rest) :
       /\ Request(i, n)
       /\ taken' = taken + n
       /\ LET h   == HeadOf(SubSeq(Rest, 1, i))
              raw == SubSeq(Rest, 1, n)
          IN  \/ /\ h.upgrade = "no" /\ ~ HandlerThrows(h)
                 /\ served' = served + 1
                 /\ Give(Served(h, raw), "writing")
              \/ /\ h.upgrade = "noKey"
                 /\ served' = served
                 /\ Give(Refusal("badRequest", raw), "writing")
              \/ /\ h.upgrade = "key"
                 /\ served' = served
                 /\ Give(Switching(raw), "switching")

\* The handler throws: no answer, and the session is over.
Fail ==
  /\ status = "idle"
  /\ \E i, n \in 1..Len(Rest) :
       /\ Request(i, n)
       /\ LET h == HeadOf(SubSeq(Rest, 1, i)) IN h.upgrade = "no" /\ HandlerThrows(h)
       /\ \E t \in taken..(taken + n) : taken' = t
  /\ status' = "failed"
  /\ UNCHANGED <<stream, sent, peer, served, answers, written>>

\* The answer has been written: the session goes on only if the answer kept
\* the connection and the limit is not reached.
Written ==
  /\ written' = written + 1
  /\ \/ /\ status = "writing"
        /\ status' = IF answers[Len(answers)].keep /\ served < MaxKeepAlive
                     THEN "idle" ELSE "closed"
     \/ /\ status = "switching"
        /\ status' \in {"upgraded", "closed"}
  /\ UNCHANGED <<stream, sent, peer, taken, served, answers>>

\* Something at the front of Rest can be answered or refused now.
Answerable ==
  \E i \in 1..Len(Rest) :
    /\ HeaderAt(Rest, i)
    /\ LET h == HeadOf(SubSeq(Rest, 1, i))
       IN  \/ ~ h.parses
           \/ ContentLen(h) > MaxBody
           \/ i + ContentLen(h) <= Len(Rest)

\* The session gives up: because the peer has reset the connection, or because
\* it has closed its side and nothing it sent is left to answer.
Abandon ==
  /\ \/ peer = "reset" /\ status \in {"idle", "writing", "switching"}
     \/ peer = "eof" /\ status = "idle" /\ ~ Answerable
  /\ status' = "closed"
  /\ UNCHANGED <<stream, sent, peer, taken, served, answers, written>>

Work == Refuse \/ Answer \/ Fail \/ Written \/ Abandon

Next == PeerSend \/ PeerClose \/ Work

Spec == Init /\ [][Next]_vars /\ WF_vars(Work)
=============================================================================
