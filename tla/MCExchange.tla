------------------------------ MODULE MCExchange ------------------------------
(***************************************************************************)
(* Three requests of every kind for model checking Exchange: kept alive,   *)
(* closing, with a body, with one that is too large, and one that does not *)
(* parse and has a body the server never reads.                            *)
(***************************************************************************)
EXTENDS Exchange, MCWorkloads, Functions

Kinds == {Plain, Closing, Form, Huge, Spoilt}

MCPlans == {StreamOf(<<a, b, c>>) : a \in Kinds, b \in Kinds, c \in Kinds}
MCUnit == UNION {Range(s) : s \in MCPlans}
===============================================================================
