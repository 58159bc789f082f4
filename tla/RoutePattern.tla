----------------------------- MODULE RoutePattern -----------------------------
(***************************************************************************)
(* Route patterns of include/router.hpp: how a pattern and a path are cut  *)
(* into segments and compared.                                             *)
(*                                                                         *)
(* Paths and patterns are sequences of tokens: "/", ":" and "*" stand for  *)
(* themselves, any other token for a piece of a segment that holds none of *)
(* them.  A segment is the sequence of the tokens between two slashes.     *)
(***************************************************************************)
EXTENDS Naturals, Sequences, SequencesExt

\* A bug PrefixGuards must catch: all the slashes at the front go.
StripAll(s) ==
  LET words == {i \in 1..Len(s) : s[i] # "/"}
  IN  IF words = {} THEN <<>> ELSE SubSeq(s, Min(words), Max(words))

\* s without one slash at its front, and one at its back.
Strip(s) ==
  LET front == IF s # <<>> /\ Head(s) = "/" THEN Tail(s) ELSE s
  IN  IF front # <<>> /\ Last(front) = "/" THEN Front(front) ELSE front

\* The segments of a path: between two adjacent slashes there is an empty one.
split(s) ==
  LET t == Strip(s)
      upTo[i \in 0..Len(t)] ==
        IF i = 0 THEN << <<>> >>
        ELSE LET parts == upTo[i - 1]
             IN  IF t[i] = "/" THEN Append(parts, <<>>)
                 ELSE [parts EXCEPT ![Len(parts)] = Append(@, t[i])]
  IN  IF t = <<>> THEN <<>> ELSE upTo[Len(t)]

\* Segments put back together, from the i-th on.
Rest(segments, i) ==
  FlattenSeq([j \in 1..(Len(segments) - i + 1) |->
                IF j = 1 THEN segments[i] ELSE <<"/">> \o segments[i + j - 1]])

IsWildcard(segment) == segment = <<"*">>
IsParam(segment) == segment # <<>> /\ Head(segment) = ":"

\* What match returns: whether the path matches, and the captured parameters
\* by name.
NoMatch == [found |-> FALSE, params |-> <<>>]
Match(params) == [found |-> TRUE, params |-> params]

\* A value is captured, unless the name has one from further behind.
Capture(params, name, value) ==
  [n \in DOMAIN params \cup {name} |-> IF n \in DOMAIN params THEN params[n] ELSE value]

\* A bug MatchIsSubstitution must catch: the path may be longer.
matchAnyTail(pattern, path) ==
  LET ps == split(pattern)
      rs == split(path)
      from[i \in 1..(Len(ps) + 1)] ==
        IF i > Len(ps) THEN Match(<<>>)
        ELSE IF IsWildcard(ps[i]) THEN Match(Capture(<<>>, <<"*">>, Rest(rs, i)))
        ELSE IF i > Len(rs) THEN NoMatch
        ELSE IF IsParam(ps[i])
        THEN [from[i + 1] EXCEPT !.params = Capture(@, Tail(ps[i]), rs[i])]
        ELSE IF ps[i] = rs[i] THEN from[i + 1] ELSE NoMatch
  IN  from[1]

\* match: from[i] is the outcome of the loop from the i-th segment on.  A name
\* that occurs twice is captured where it occurs last.
match(pattern, path) ==
  LET ps == split(pattern)
      rs == split(path)
      from[i \in 1..(Len(ps) + 1)] ==
        IF i > Len(ps) THEN IF Len(ps) = Len(rs) THEN Match(<<>>) ELSE NoMatch
        ELSE IF IsWildcard(ps[i]) THEN Match(Capture(<<>>, <<"*">>, Rest(rs, i)))
        ELSE IF i > Len(rs) THEN NoMatch
        ELSE IF IsParam(ps[i])
        THEN [from[i + 1] EXCEPT !.params = Capture(@, Tail(ps[i]), rs[i])]
        ELSE IF ps[i] = rs[i] THEN from[i + 1] ELSE NoMatch
  IN  from[1]
===============================================================================
