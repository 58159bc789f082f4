----------------------------- MODULE MCHttpClient -----------------------------
(***************************************************************************)
(* Responses for model checking HttpClient.                                *)
(***************************************************************************)
EXTENDS HttpClient

Response(p, s, n, c, q) ==
  [parses |-> p, stated |-> s, n |-> n, close |-> c, quoting |-> q]

\* Well-formed responses: without a body, with one, and closing.
GoodResponses == {Response(TRUE, TRUE, 0, FALSE, FALSE), Response(TRUE, TRUE, 2, FALSE, TRUE),
                  Response(TRUE, TRUE, 1, TRUE, FALSE)}

\* Also one that does not parse, and one whose body's length is not stated (a
\* chunked one).
AllResponses == GoodResponses \cup {Response(FALSE, TRUE, 1, FALSE, FALSE),
                                    Response(TRUE, FALSE, 1, FALSE, FALSE)}
===============================================================================
