---------------------------- MODULE MCCoroSession ----------------------------
(***************************************************************************)
(* The workloads of MCWorkloads, sent to the coroutine session.            *)
(***************************************************************************)
EXTENDS CoroSession, MCWorkloads, Functions

MCStreams == WorkloadStreams
MCUnit == UNION {Range(s) : s \in MCStreams}
===============================================================================
