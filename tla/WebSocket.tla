------------------------------ MODULE WebSocket -------------------------------
(***************************************************************************)
(* WebSocketConnection of include/websocket.hpp: a socket after the        *)
(* upgrade, read by two operations that read_frame() starts together.      *)
(*                                                                         *)
(*   async_read_until  reads into read_buf_ itself.  Its delimiter "\x00"  *)
(*                     is the empty string, which is found at once in a    *)
(*                     buffer that is not empty: then the operation reads  *)
(*                     nothing.  An empty buffer it enlarges by Grow units *)
(*                     before it reads, and cuts down to what was read     *)
(*                     before its handler runs.                            *)
(*   async_read_some   reads into raw_buf_, of Raw units.                  *)
(*                                                                         *)
(* The socket serves the reads waiting for it in the order they were       *)
(* started (readers), and the event loop runs the handlers in the order    *)
(* their operations completed (ready).  process_frames is a loop of one    *)
(* step per frame, during which the peer and the kernel go on.             *)
(*                                                                         *)
(* WebSocketClient of examples/websocket_client.cpp is the other role: it  *)
(* resolves, connects, writes its request and reads the response before it *)
(* is open, and then reads with async_read_some only.  Everything else is  *)
(* the same code.                                                          *)
(*                                                                         *)
(* The wire is a sequence of units, each a frame's number and a position   *)
(* in it: what is here called a unit is at least two bytes, so that a read *)
(* can cut every frame, even an empty one.  WsCodec has the bytes.         *)
(***************************************************************************)
EXTENDS Naturals, Sequences, SequencesExt

CONSTANTS Streams,    \* the sequences of frames a peer may send
          Grow,       \* what async_read_until adds to an empty buffer (512)
          Raw,        \* the size of raw_buf_ (4096)
          Greetings   \* how many frames on_open may send

\* op stands for the opcode: "message" is every one that process_frames hands
\* to on_message.  size is in units.
FrameSet == [op : {"message", "ping", "pong", "close"}, size : Nat \ {0}]

ASSUME WebSocketAssumption ==
  /\ \A s \in Streams : s \in Seq(FrameSet)
  /\ Grow \in Nat \ {0} /\ Raw \in Nat \ {0} /\ Greetings \in Nat

VARIABLES role,       \* "server", "client", or "refused": a client that gets no 101
          stage,      \* what a client waits for, then "open"; "over" if that failed
          early,      \* how many units it had read when it was open
          stream,     \* what this peer sends
          sent,       \* how many units of it the peer has sent
          inbound,    \* those the socket holds
          link,       \* the peer's side: "up", "closed" or "reset"
          shut,       \* shutdown(shutdown_both) was called
          read_buf,   \* read_buf_
          readers,    \* the reads that wait for the socket
          ready,      \* the completed operations whose handlers have not run
          at,         \* where the running handler is; "idle" if none runs
          rearm,      \* it is the one that ends in read_frame()
          handled,    \* the frames decoded, by number
          gone,       \* how often on_close was called because a read failed
          sends,      \* how many frames send() was called with
          writers,    \* what waits for the socket to accept more output
          out,        \* the output the socket has accepted
          overlapped  \* send() was called while an earlier write was under way

reading == <<inbound, read_buf, readers>>
writing == <<writers, out>>
history == <<sends, overlapped>>
session == <<role, stage, early, stream, sent, link>>
vars    == <<session, reading, shut, ready, at, rearm, handled, gone, writing, history>>

Unit(i, j) == [of |-> i, at |-> j]

FrameUnits(i, n) == [j \in 1..n |-> Unit(i, j)]

FramesUpTo(n) == FlattenSeq([i \in 1..n |-> FrameUnits(i, stream[i].size)])

\* A client gets the response to its handshake first; the frames may follow at
\* once.
Preface == IF role = "server" THEN <<>> ELSE FrameUnits(Len(stream) + 1, 2)

Wire == Preface \o FramesUpTo(Len(stream))

\* What resize() puts into the part of read_buf_ that is not read yet.
Filler == Unit(0, 1)

Grown == [j \in 1..Grow |-> Filler]

\* The units of an outgoing frame.
OutUnits(n) == FrameUnits(n, 2)

UntilDone(grown, n) == [op |-> "until", grown |-> grown, n |-> n]
SomeDone(got)       == [op |-> "some", got |-> got]   \* <<>>: an error
Partial(rest)       == [op |-> "write", rest |-> rest]

\* start(), which calls read_frame(), or connect().
Init ==
  /\ role \in {"server", "client", "refused"}
  /\ stage = IF role = "server" THEN "open" ELSE "resolve"
  /\ early = 0
  /\ stream \in Streams
  /\ sent = 0
  /\ inbound = <<>>
  /\ link = "up"
  /\ shut = FALSE
  /\ read_buf = IF role = "server" THEN Grown ELSE <<>>
  /\ readers = IF role = "server" THEN <<"until", "some">> ELSE <<>>
  /\ ready = <<>>
  /\ at = "idle"
  /\ rearm = FALSE
  /\ handled = <<>>
  /\ gone = 0
  /\ sends = 0
  /\ writers = <<>>
  /\ out = <<>>
  /\ overlapped = FALSE

-------------------------------------------------------------------------------
(***************************************************************************)
(* The peer and the kernel.                                                *)
(***************************************************************************)
Connected == stage \notin {"resolve", "connect"}

PeerSend ==
  /\ Connected /\ link = "up"
  /\ sent < Len(Wire)
  /\ sent' = sent + 1
  /\ inbound' = Append(inbound, Wire[sent'])
  /\ UNCHANGED <<role, stage, early, stream, link, read_buf, readers, shut, ready, at, rearm, handled, gone,
                 writing, history>>

\* A reset may cost what the socket holds.
PeerClose ==
  /\ Connected /\ link = "up"
  /\ \/ link' = "closed" /\ UNCHANGED inbound
     \/ link' = "reset" /\ inbound' \in {inbound, <<>>}
  /\ UNCHANGED <<role, stage, early, stream, sent, read_buf, readers, shut, ready, at, rearm, handled, gone,
                 writing, history>>

\* The first waiting read gets what the socket holds, as much as fits, or an
\* error once there is nothing and nothing more will come.
Take(n) ==
  /\ inbound' = SubSeq(inbound, n + 1, Len(inbound))
  /\ IF Head(readers) = "until"
       THEN /\ ready' = Append(ready, UntilDone(Grow, n))
            /\ read_buf' = [j \in DOMAIN read_buf |-> IF j <= n THEN inbound[j] ELSE read_buf[j]]
       ELSE /\ ready' = Append(ready, SomeDone(SubSeq(inbound, 1, n)))
            /\ UNCHANGED read_buf

Receive ==
  /\ readers # <<>>
  /\ \/ \E n \in 1..Len(inbound) : n <= (IF Head(readers) = "until" THEN Grow ELSE Raw) /\ Take(n)
     \/ inbound = <<>> /\ (link # "up" \/ shut) /\ Take(0)
  /\ readers' = Tail(readers)
  /\ UNCHANGED <<session, shut, at, rearm, handled, gone, writing, history>>

WriteFails == shut \/ link = "reset"

\* The write at the head of the queue can go on, or fails.
Transmit ==
  /\ writers # <<>>
  /\ writers' = Tail(writers)
  /\ \/ WriteFails /\ UNCHANGED <<out, ready>>
     \/ \E n \in 1..Len(Head(writers)) :
          LET rest == SubSeq(Head(writers), n + 1, Len(Head(writers)))
          IN  /\ ~ WriteFails
              /\ out' = out \o SubSeq(Head(writers), 1, n)
              /\ ready' = IF rest = <<>> THEN ready ELSE Append(ready, Partial(rest))
  /\ UNCHANGED <<session, reading, shut, at, rearm, handled, gone, history>>

-------------------------------------------------------------------------------
(***************************************************************************)
(* The operations the handlers start.                                      *)
(***************************************************************************)
\* A bug of the write: async_write_some in its place, so that what the socket does
\* not accept is dropped (OutFramesWhole).
WriteSome(wire, queue) ==
  /\ ready' = queue
  /\ UNCHANGED writers
  /\ IF WriteFails THEN UNCHANGED out
     ELSE \E n \in 0..Len(wire) : out' = out \o SubSeq(wire, 1, n)

\* async_write (or the rest of one) is started, queue being what is ready
\* besides.  If no other write waits, the socket is tried at once; what it does
\* not accept is waited for (nothing accepted) or written by the next step of
\* the operation (some of it accepted).
Write(wire, queue) ==
  \/ /\ WriteFails
     /\ ready' = queue
     /\ UNCHANGED writing
  \/ /\ ~ WriteFails /\ writers # <<>>
     /\ writers' = Append(writers, wire)
     /\ ready' = queue
     /\ UNCHANGED out
  \/ /\ ~ WriteFails /\ writers = <<>>
     /\ \E n \in 0..Len(wire) :
          LET rest == SubSeq(wire, n + 1, Len(wire))
          IN  /\ out' = out \o SubSeq(wire, 1, n)
              /\ writers' = IF n = 0 THEN <<wire>> ELSE <<>>
              /\ ready' = IF n = 0 \/ rest = <<>> THEN queue ELSE Append(queue, Partial(rest))

WriteUnderWay == writers # <<>> \/ \E i \in DOMAIN ready : ready[i].op = "write"

send ==
  /\ sends' = sends + 1
  /\ overlapped' = (overlapped \/ WriteUnderWay)
  /\ Write(OutUnits(sends'), ready)

NoSend == UNCHANGED <<ready, writing, history>>

\* send(Close), then shutdown_both: the frame leaves if the socket accepts it at
\* once.
close == send /\ shut' = TRUE

\* A bug of read_frame: the raw read is only started when the other one reads, too
\* (EveryFrameHandled).
read_frameSometimes ==
  IF read_buf = <<>>
    THEN /\ read_buf' = Grown
         /\ readers' = readers \o <<"until", "some">>
         /\ UNCHANGED ready
    ELSE /\ ready' = Append(ready, UntilDone(0, 0))
         /\ UNCHANGED <<read_buf, readers>>

read_frame ==
  IF read_buf = <<>>
    THEN /\ read_buf' = Grown
         /\ readers' = readers \o <<"until", "some">>
         /\ UNCHANGED ready
    ELSE /\ readers' = Append(readers, "some")
         /\ ready' = Append(ready, UntilDone(0, 0))
         /\ UNCHANGED read_buf

\* A client does not use async_read_until once it is open.
read_frames == readers' = Append(readers, "some") /\ UNCHANGED <<read_buf, ready>>

-------------------------------------------------------------------------------
(***************************************************************************)
(* The client's handshake.  Where it fails, nobody is told.                *)
(***************************************************************************)
Over == stage' = "over" /\ UNCHANGED <<reading, at, early>>

NextStage == [resolve |-> "connect", connect |-> "write", write |-> "head"]

\* The handlers of async_resolve, async_connect and the write of the request.
Handshake ==
  /\ \/ stage \in DOMAIN NextStage /\ stage' = NextStage[stage]
        /\ UNCHANGED <<reading, at, early>>
     \/ stage \in {"resolve", "connect"} /\ Over
     \/ stage = "write" /\ link = "reset" /\ Over
  /\ UNCHANGED <<role, stream, sent, link, shut, ready, rearm, handled, gone, writing, history>>

\* read_handshake_response: read up to the end of the head, and with it what
\* came behind; check it; erase the head; on_open.
ReadResponse ==
  /\ stage = "head"
  /\ \/ \E n \in 1..Len(inbound) :
          LET buf == read_buf \o SubSeq(inbound, 1, n)
          IN  /\ n <= Grow
              /\ inbound' = SubSeq(inbound, n + 1, Len(inbound))
              /\ \/ /\ Len(buf) < Len(Preface)
                    /\ read_buf' = buf
                    /\ UNCHANGED <<stage, at, early>>
                 \/ /\ Len(buf) >= Len(Preface) /\ role = "refused"
                    /\ read_buf' = buf
                    /\ stage' = "over"
                    /\ UNCHANGED <<at, early>>
                 \/ /\ Len(buf) >= Len(Preface) /\ role = "client"
                    /\ read_buf' = SubSeq(buf, Len(Preface) + 1, Len(buf))
                    /\ stage' = "open"
                    /\ early' = sent - Len(inbound')
                    /\ at' = "open"
              /\ UNCHANGED readers
     \/ inbound = <<>> /\ link # "up" /\ Over
  /\ UNCHANGED <<role, stream, sent, link, shut, ready, rearm, handled, gone, writing, history>>

\* on_open sends what it likes, and then the frames are read.
OnOpen ==
  /\ at = "open"
  /\ \/ sends < Greetings /\ send /\ UNCHANGED <<reading, at>>
     \/ read_frames /\ at' = "idle" /\ UNCHANGED <<inbound, writing, history>>
  /\ UNCHANGED <<session, shut, rearm, handled, gone>>

-------------------------------------------------------------------------------
(***************************************************************************)
(* The handlers.                                                           *)
(***************************************************************************)
Completed(op) == at = "idle" /\ ready # <<>> /\ Head(ready).op = op

\* A bug of the first read: read_buf_ keeps the size it was given (StreamInOrder).
OnUntilUncut ==
  /\ Completed("until")
  /\ ready' = Tail(ready)
  /\ at' = "frames"
  /\ rearm' = FALSE
  /\ UNCHANGED <<session, reading, shut, handled, gone, writing, history>>

\* The handler of async_read_until does not look at the error.
OnUntil ==
  /\ Completed("until")
  /\ LET c == Head(ready)
     IN  read_buf' = SubSeq(read_buf, 1, Len(read_buf) - (c.grown - c.n))
  /\ ready' = Tail(ready)
  /\ at' = "frames"
  /\ rearm' = FALSE
  /\ UNCHANGED <<session, inbound, readers, shut, handled, gone, writing, history>>

\* A bug of the raw read's handler: no return after on_close
\* (ImplementsChannel).
OnSomeGoesOn ==
  /\ Completed("some")
  /\ gone' = gone + (IF Head(ready).got = <<>> THEN 1 ELSE 0)
  /\ read_buf' = read_buf \o Head(ready).got
  /\ at' = "frames"
  /\ rearm' = TRUE
  /\ ready' = Tail(ready)
  /\ UNCHANGED <<session, inbound, readers, shut, handled, writing, history>>

\* The handler of async_read_some: on_close, or the bytes for process_frames.
OnSome ==
  /\ Completed("some")
  /\ LET got == Head(ready).got
     IN  IF got = <<>>
           THEN gone' = gone + 1 /\ UNCHANGED <<read_buf, at, rearm>>
           ELSE /\ read_buf' = read_buf \o got
                /\ at' = "frames"
                /\ rearm' = TRUE
                /\ UNCHANGED gone
  /\ ready' = Tail(ready)
  /\ UNCHANGED <<session, inbound, readers, shut, handled, writing, history>>

\* The next step of a composed async_write.
OnWrite ==
  /\ Completed("write")
  /\ Write(Head(ready).rest, Tail(ready))
  /\ UNCHANGED <<session, reading, shut, at, rearm, handled, gone, history>>

\* What decode returns: 0 if the frame at the front of the buffer is not whole.
\* A unit that is not the first of a frame would be taken for a frame.
Consumed ==
  IF read_buf = <<>> THEN 0
  ELSE LET u    == Head(read_buf)
           size == IF u.of # 0 /\ u.at = 1 THEN stream[u.of].size ELSE 1
       IN  IF size <= Len(read_buf) THEN size ELSE 0

\* One turn of process_frames with a whole frame.  On a message the application
\* may call send() or close(), or neither; after a close() of its own the loop
\* goes on.
process_frames ==
  /\ at = "frames"
  /\ Consumed > 0
  /\ read_buf' = SubSeq(read_buf, Consumed + 1, Len(read_buf))
  /\ LET i  == Head(read_buf).of
         op == IF i = 0 THEN "message" ELSE stream[i].op
     IN  /\ handled' = Append(handled, i)
         /\ \/ op = "close" /\ close /\ at' = "leave"
            \/ op = "ping" /\ send /\ UNCHANGED <<shut, at>>
            \/ op = "pong" /\ NoSend /\ UNCHANGED <<shut, at>>
            \/ op = "message" /\ (send \/ NoSend) /\ UNCHANGED <<shut, at>>
            \/ op = "message" /\ close /\ UNCHANGED at
  /\ UNCHANGED <<session, inbound, readers, rearm, gone>>

\* A bug of the loop: the handler of async_read_until calls read_frame(), too
\* (OneReadPerBuffer).
LeaveReading ==
  /\ at = "leave" \/ (at = "frames" /\ Consumed = 0)
  /\ at' = "idle"
  /\ read_frame
  /\ rearm' = FALSE
  /\ UNCHANGED <<session, inbound, shut, handled, gone, writing, history>>

\* process_frames returns, after a Close frame or for want of data; the handler
\* of async_read_some then reads on, whatever the frames were.
Leave ==
  /\ at = "leave" \/ (at = "frames" /\ Consumed = 0)
  /\ at' = "idle"
  /\ \/ rearm /\ role = "server" /\ read_frame
     \/ rearm /\ role # "server" /\ read_frames
     \/ ~ rearm /\ UNCHANGED <<read_buf, readers, ready>>
  /\ rearm' = FALSE
  /\ UNCHANGED <<session, inbound, shut, handled, gone, writing, history>>

\* The application calls close() (bound: once).
AppClose ==
  /\ stage = "open" /\ at = "idle"
  /\ ~ shut
  /\ close
  /\ UNCHANGED <<session, reading, at, rearm, handled, gone>>

EventLoop ==
  \/ Handshake \/ ReadResponse \/ OnOpen
  \/ OnUntil \/ OnSome \/ OnWrite \/ process_frames \/ Leave

Next == PeerSend \/ PeerClose \/ Receive \/ Transmit \/ EventLoop \/ AppClose

\* The kernel serves a read that can be served, and the event loop runs; the
\* peer need not send, nor read what it is sent.
Spec == Init /\ [][Next]_vars /\ WF_vars(Receive) /\ WF_vars(EventLoop)

-------------------------------------------------------------------------------
(***************************************************************************)
(* Properties.                                                             *)
(***************************************************************************)
\* The reads into a buffer that are under way: those that wait for the socket,
\* and the completed ones whose handlers have not run.
UnderWay(op) == {<<"socket", i>> : i \in {i \in DOMAIN readers : readers[i] = op}}
           \cup {<<"loop", i>> : i \in {i \in DOMAIN ready : ready[i].op = op}}

\* Every variable has its type.
TypeOK ==
  /\ stream \in Streams
  /\ role \in {"server", "client", "refused"}
  /\ stage \in {"resolve", "connect", "write", "head", "open", "over"}
  /\ early \in 0..sent /\ sent \in 0..Len(Wire)
  /\ link \in {"up", "closed", "reset"}
  /\ shut \in BOOLEAN /\ rearm \in BOOLEAN /\ overlapped \in BOOLEAN
  /\ \A i \in DOMAIN readers : readers[i] \in {"until", "some"}
  /\ \A i \in DOMAIN ready : ready[i].op \in {"until", "some", "write"}
  /\ at \in {"idle", "open", "frames", "leave"}
  /\ Len(handled) <= Len(stream) /\ gone \in 0..1
  /\ sends \in 0..(Greetings + Len(stream) + 1)

\* There is one read into read_buf_ and one into raw_buf_ at a time, completed
\* ones whose handlers have not run included: neither buffer is written by two
\* operations, and read_buf_ is not decoded, cut or appended to while the kernel
\* may still write into it.
OneReadPerBuffer ==
  /\ \A op \in {"until", "some"} : \A p, q \in UnderWay(op) : p = q
  /\ at # "idle" => UnderWay("until") = {}

\* What read_buf_ holds of the stream, in front of what was only made room for.
Buffered == SubSeq(read_buf, 1, Cardinality({j \in DOMAIN read_buf : read_buf[j] # Filler}))

\* What raw_buf_ holds (there is one read at most, see above).
InRaw ==
  LET done == {i \in DOMAIN ready : ready[i].op = "some"}
  IN  IF done = {} THEN <<>> ELSE ready[CHOOSE i \in done : TRUE].got

\* The frames decoded, what read_buf_ and raw_buf_ hold and what the socket
\* holds are together what the peer has sent, in order, nothing missing (but for
\* what a reset costs) and nothing twice: two reads into two buffers do not
\* reorder the stream.
StreamInOrder ==
  LET decoded == FlattenSeq([k \in DOMAIN handled |->
                   IF handled[k] = 0 THEN <<Filler>>
                   ELSE FrameUnits(handled[k], stream[handled[k]].size)])
      head    == IF stage = "open" THEN Preface ELSE <<>>
      taken   == head \o decoded \o Buffered \o InRaw
  IN  IF link = "reset" THEN IsPrefix(taken, Wire)
      ELSE taken \o inbound = SubSeq(Wire, 1, sent)

\* As long as no send() was called while a write was under way, what leaves is
\* the frames sent, whole and in order (the last one perhaps in part), however
\* little the socket accepts at a time.
OutFramesWhole ==
  ~ overlapped => IsPrefix(out, FlattenSeq([n \in 1..sends |-> OutUnits(n)]))

Channel == INSTANCE WsChannel WITH
  arrived   <- Cardinality({i \in 1..Len(stream) :
                 sent >= Len(Preface \o FramesUpTo(i))}),
  ended     <- stage = "open" /\ (link # "up" \/ shut),
  delivered <- handled,
  reported  <- gone

\* The connection is the channel WsChannel describes: every frame is handed over
\* once, whole and in order, nothing after the end was reported, and an end, of
\* either side's making, is reported once.  (on_close is called for a Close
\* frame besides.)
ImplementsChannel == Channel!Spec

\* Frame i has arrived whole.
Whole(i) == i <= Len(stream) /\ sent >= Len(Preface \o FramesUpTo(i))

FrameNumbers == 1..Max({Len(s) : s \in Streams})

Excused == shut \/ link = "reset" \/ stage = "over"

\* A frame that has arrived whole is handled, even if nothing more arrives,
\* unless the connection is shut down or reset before or the handshake fails.
\* (A client that has read everything there is along with the response to its
\* handshake does not look at it before the next read.)
EveryFrameHandled ==
  \A i \in FrameNumbers :
    Whole(i) ~> (Contains(handled, i) \/ Excused \/ (role = "client" /\ sent = early))

\* The same without the exception: the example "works with [...] any
\* RFC-6455-compliant server" (websocket_client.cpp:4), one that sends a frame
\* right after its 101 included.  A further configuration shows that it is not
\* so.
GreetingHandled == \A i \in FrameNumbers : Whole(i) ~> (Contains(handled, i) \/ Excused)
===============================================================================
