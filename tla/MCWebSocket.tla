------------------------------ MODULE MCWebSocket -----------------------------
(***************************************************************************)
(* Streams of frames for model checking WebSocket.                         *)
(***************************************************************************)
EXTENDS WebSocket

Message(n) == [op |-> "message", size |-> n]
Control(o) == [op |-> o, size |-> 1]

\* A message longer than either buffer takes, behind a short one; a ping that
\* is answered; a Close with frames behind it, and one more Close.
MCStreams ==
  {<<Message(1), Message(3)>>,
   <<Control("ping"), Message(1)>>,
   <<Message(2), Control("close"), Control("close")>>,
   <<Control("close"), Message(1), Control("pong")>>}
===============================================================================
