------------------------------- MODULE MCRouter -------------------------------
(***************************************************************************)
(* Overlapping patterns and prefixes for model checking Router.            *)
(***************************************************************************)
EXTENDS Router

MCPatterns == {<<"/", "a">>, <<"/", "a", "/", "*">>, <<"/", ":", "x">>}
MCGuarded == {<<>>, <<"/", "a">>}
MCRequests ==
  {[method |-> "get", path |-> <<"/", "a">>],
   [method |-> "get", path |-> <<"/", "a", "/", "b">>],
   [method |-> "get", path |-> <<"/", "/", "a">>],
   [method |-> "get", path |-> <<"a", "/", "b">>],
   [method |-> "post", path |-> <<"/", "a">>]}
===============================================================================
