--------------------------- MODULE MCHttpConnection ---------------------------
(***************************************************************************)
(* Peers for model checking HttpConnection: workloads of one to three      *)
(* requests chosen so that every branch of the handlers is taken, and so   *)
(* that requests of every kind are pipelined behind one that keeps the     *)
(* connection open.                                                        *)
(***************************************************************************)
EXTENDS HttpConnection, MCWorkloads, Functions

MCStreams == WorkloadStreams
MCUnit == UNION {Range(s) : s \in MCStreams}
===============================================================================
