----------------------------- MODULE MCWorkloads -----------------------------
(***************************************************************************)
(* The workloads with which the servers are model checked.                 *)
(***************************************************************************)
LOCAL INSTANCE Naturals
LOCAL INSTANCE Sequences
LOCAL INSTANCE SequencesExt

LOCAL GET == [parses |-> TRUE, minor |-> 1, conn |-> "absent", length |-> "absent",
        n |-> 0, upgrade |-> "no", routed |-> TRUE, any |-> FALSE, get |-> TRUE, throws |-> FALSE]

Unit1(k, isHead, glued, head) == [owner |-> k, head |-> isHead, glue |-> glued, h |-> head]

LOCAL Text(k, glued) == Unit1(k, FALSE, glued, GET)

\* A request: its head and the units of its body, as functions of its number.
LOCAL Bare(h) == [h |-> h, body |-> <<>>]

Plain      == Bare(GET)
StaticFile == Bare([GET EXCEPT !.routed = FALSE])
NoRoute    == Bare([GET EXCEPT !.routed = FALSE, !.get = FALSE, !.minor = 0, !.conn = "keep-alive"])
Closing    == Bare([GET EXCEPT !.conn = "close"])
Old        == Bare([GET EXCEPT !.minor = 0, !.conn = "other"])
Garbled    == Bare([GET EXCEPT !.parses = FALSE])
Throwing   == Bare([GET EXCEPT !.throws = TRUE])
Keyless    == Bare([GET EXCEPT !.upgrade = "noKey"])
Upgrading  == Bare([GET EXCEPT !.upgrade = "key"])
Anywhere   == Bare([GET EXCEPT !.any = TRUE])
Huge       == [h |-> [GET EXCEPT !.length = "canonical", !.n = 3], body |-> <<"text", "text">>]

Post(form, body) == [h |-> [GET EXCEPT !.get = FALSE, !.length = form, !.n = Len(body)], body |-> body]

\* A body of plain text, one that holds the text of a request, and bodies
\* whose length the server cannot see.
Form      == Post("canonical", <<"text", "text">>)
Quoting   == Post("canonical", <<"text", "head">>)
Lowercase == Post("otherCase", <<"token">>)
Wordy     == Post("notANumber", <<"text">>)
Chunked   == Post("absent", <<"head">>)
Wrapped   == Post("overflow", <<"token", "text">>)
Spoilt    == [h |-> Garbled.h, body |-> <<"text">>]
Failing   == [h |-> [Form.h EXCEPT !.throws = TRUE], body |-> Form.body]

LOCAL Units(k, r) ==
  <<Unit1(k, TRUE, FALSE, r.h)>> \o
  [j \in 1..Len(r.body) |->
     CASE r.body[j] = "head" -> Unit1(k, TRUE, FALSE, GET)
       [] r.body[j] = "token" -> Text(k, TRUE)
       [] OTHER -> Text(k, FALSE)]

StreamOf(rs) == FlattenSeq([k \in 1..Len(rs) |-> Units(k, rs[k])])

LOCAL Single == {StaticFile, NoRoute, Closing, Old, Garbled, Throwing, Keyless, Upgrading,
           Huge, Form, Quoting, Lowercase, Wordy, Chunked, Wrapped, Failing}

Workloads ==
  {<<r, Plain>> : r \in Single} \cup {<<Form, r>> : r \in Single}
  \cup {<<Plain, Plain, Plain>>, <<Plain, Quoting, Closing>>, <<Form, Form, Plain>>,
        <<Lowercase, Anywhere>>, <<Lowercase, Bare([Throwing.h EXCEPT !.any = TRUE])>>}

WorkloadStreams == {StreamOf(rs) : rs \in Workloads}
===============================================================================
