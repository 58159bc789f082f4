----------------------------- MODULE MCCoroServer -----------------------------
(***************************************************************************)
(* Three clients, one of which stalls in its handshake.                    *)
(***************************************************************************)
EXTENDS CoroServer, TLC

CONSTANTS c1, c2, c3

MCClients == {c1, c2, c3}
MCStalling == {c1}
===============================================================================
