------------------------------ MODULE ByteRange -------------------------------
(***************************************************************************)
(* parse_range of include/static_files.hpp.                                *)
(*                                                                         *)
(* What follows "bytes=" in a Range header is a sequence of tokens: a      *)
(* number, a dash or another character (which is not one that stoull skips *)
(* in front of a number: a blank or a plus sign).  A number that does not  *)
(* fit into unsigned long long is "huge".                                  *)
(***************************************************************************)
EXTENDS Integers, Sequences, SequencesExt

CONSTANT Ull   \* how many values an unsigned long long has

ASSUME UllAssumption == Ull \in Nat \ {0}

Num(n) == [kind |-> "number", value |-> n]
Dash   == [kind |-> "dash", value |-> 0]
Huge   == [kind |-> "huge", value |-> 0]
Other  == [kind |-> "other", value |-> 0]

None == [some |-> FALSE]
Some(first, last) == [some |-> TRUE, first |-> first, last |-> last]

\* stoull: the number at the front, whatever comes after it, negated in an unsigned
\* if there is a dash before it; it throws if there is none, or if it is huge.
Unsigned(s) == IF s # <<>> /\ s[1] = Dash THEN Tail(s) ELSE s

Throws(s) == Unsigned(s) = <<>> \/ Unsigned(s)[1].kind # "number"

stoull(s) ==
  LET n == Unsigned(s)[1].value IN IF s[1] = Dash THEN (Ull - n) % Ull ELSE n

\* A bug of the check: the last byte may be the one after the end.
parse_rangeOver(toks, total) ==
  LET dash  == SelectInSeq(toks, LAMBDA t : t = Dash)
      left  == SubSeq(toks, 1, dash - 1)
      right == SubSeq(toks, dash + 1, Len(toks))
      bad(s) == s # <<>> /\ Throws(s)
      first == IF left = <<>> THEN 0 ELSE stoull(left)
      last  == IF right = <<>> THEN total - 1 ELSE stoull(right)
  IN  IF total = 0 \/ dash = 0 \/ bad(left) \/ bad(right) \/ first > last \/ last > total THEN None
      ELSE Some(first, last)

\* The range before and after the first dash; an empty side has its default.
parse_range(toks, total) ==
  LET dash  == SelectInSeq(toks, LAMBDA t : t = Dash)
      left  == SubSeq(toks, 1, dash - 1)
      right == SubSeq(toks, dash + 1, Len(toks))
      bad(s) == s # <<>> /\ Throws(s)
      first == IF left = <<>> THEN 0 ELSE stoull(left)
      last  == IF right = <<>> THEN total - 1 ELSE stoull(right)
  IN  IF total = 0 \/ dash = 0 \/ bad(left) \/ bad(right) \/ first > last \/ last >= total THEN None
      ELSE Some(first, last)
===============================================================================
