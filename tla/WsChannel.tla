------------------------------ MODULE WsChannel -------------------------------
(***************************************************************************)
(* What a WebSocketConnection promises the application that registered     *)
(* on_message and on_close: the peer's frames, whole and in their order,   *)
(* and then, once, the news that the connection is gone.                   *)
(***************************************************************************)
EXTENDS Naturals, Sequences

VARIABLES arrived,   \* how many whole frames have been sent to the socket
          ended,     \* the peer has closed, or the connection was shut down
          delivered, \* the frames handed over, by number
          reported   \* how often the end of the connection was reported

vars == <<arrived, ended, delivered, reported>>

Init ==
  /\ arrived = 0
  /\ ended = FALSE
  /\ delivered = <<>>
  /\ reported = 0

Arrive ==
  /\ arrived' = arrived + 1
  /\ UNCHANGED <<ended, delivered, reported>>

End ==
  /\ ended' = TRUE
  /\ UNCHANGED <<arrived, delivered, reported>>

Deliver ==
  /\ reported = 0
  /\ Len(delivered) < arrived
  /\ delivered' = Append(delivered, Len(delivered) + 1)
  /\ UNCHANGED <<arrived, ended, reported>>

\* A frame that is delivered may also be what ends the connection.
DeliverLast ==
  /\ reported = 0
  /\ Len(delivered) < arrived
  /\ delivered' = Append(delivered, Len(delivered) + 1)
  /\ ended' = TRUE
  /\ UNCHANGED <<arrived, reported>>

Report ==
  /\ ended
  /\ reported = 0
  /\ reported' = 1
  /\ UNCHANGED <<arrived, ended, delivered>>

Next == Arrive \/ End \/ Deliver \/ DeliverLast \/ Report

\* An end is reported in the end.
Spec == Init /\ [][Next]_vars /\ WF_vars(Report)
===============================================================================
