------------------------------- MODULE Messages -------------------------------
(***************************************************************************)
(* The messages both sides make and take apart: RequestBuilder             *)
(* (include/client.hpp), parse_request with HTTPRequest (request.hpp,      *)
(* picohttpwrapper.hpp), Response (response.hpp) and HTTPResponse.         *)
(*                                                                         *)
(* A message is its first line, its header lines in their order and the    *)
(* size of its body.  A value is tagged with its kind, and a target is a   *)
(* sequence of characters, of which only "?" matters.  Both ends of a line *)
(* are what picohttpparser finds: names, values and targets have no        *)
(* characters that end them.                                               *)
(***************************************************************************)
EXTENDS Integers, Sequences, SequencesExt

Text(t) == <<"text", t>>
Size(n) == <<"size", n>>

Method == {"GET", "POST", "PUT", "DEL", "PATCH", "HEAD", "OPTIONS", "UNKNOWN"}

method_to_string(m) == IF m = "DEL" THEN "DELETE" ELSE m

method_from_string(s) ==
  IF \E m \in Method : method_to_string(m) = s THEN CHOOSE m \in Method : method_to_string(m) = s
  ELSE "UNKNOWN"

\* Each setter is the fields it assigns; header() appends.
NewRequest ==
  [method |-> "GET", path |-> <<"/">>, host |-> Text(""), body |-> 0,
   content_type |-> Text("plain"), keep_alive |-> FALSE, headers |-> <<>>]

method(m)       == [method |-> m]
get(p)          == [method |-> "GET", path |-> p]
post(p)         == [method |-> "POST", path |-> p]
put(p)          == [method |-> "PUT", path |-> p]
del(p)          == [method |-> "DEL", path |-> p]
target(p)       == [path |-> p]
host(h)         == [host |-> h]
body(n, type)   == [body |-> n, content_type |-> type]
json(n)         == body(n, Text("json"))
keep_alive(v)   == [keep_alive |-> v]
header(name, v) == [headers |-> <<name, v>>]

Set(r, call) ==
  [f \in DOMAIN r |-> IF f \notin DOMAIN call THEN r[f]
                      ELSE IF f = "headers" THEN Append(r[f], call[f]) ELSE call[f]]

\* A bug MessagesComeOut must catch: the length goes with a POST only.
HasEntityIfPost(r) == r.method = "POST"

HasEntity(r) == r.body > 0

\* The header lines that build() writes itself, before the application's.
OwnLines(r) ==
  (IF r.host = Text("") THEN <<>> ELSE <<<<"Host", r.host>>>>)
  \o <<<<"Connection", Text(IF r.keep_alive THEN "keep-alive" ELSE "close")>>>>
  \o (IF ~ HasEntity(r) THEN <<>>
      ELSE <<<<"Content-Type", r.content_type>>, <<"Content-Length", Size(r.body)>>>>)

build(r) ==
  [method |-> method_to_string(r.method),
   target |-> IF r.path = <<>> THEN <<"/">> ELSE r.path,
   lines  |-> OwnLines(r) \o r.headers,
   body   |-> r.body]

\* headers[name] = value.
SetHeader(map, name, value) ==
  [n \in DOMAIN map \cup {name} |-> IF n = name THEN value ELSE map[n]]

\* The header map of either parser: a later line replaces an earlier one.
HeaderMap(lines) ==
  LET upTo[i \in 0..Len(lines)] ==
        IF i = 0 THEN <<>> ELSE SetHeader(upTo[i - 1], lines[i][1], lines[i][2])
  IN  upTo[Len(lines)]

\* header(name): empty if there is none.
Lookup(map, name) == IF name \in DOMAIN map THEN map[name] ELSE Text("")

parse_request(m) ==
  LET q == SelectInSeq(m.target, LAMBDA c : c = "?")
  IN  [method  |-> method_from_string(m.method),
       path    |-> IF q = 0 THEN m.target ELSE SubSeq(m.target, 1, q - 1),
       query   |-> IF q = 0 THEN <<>> ELSE SubSeq(m.target, q + 1, Len(m.target)),
       headers |-> HeaderMap(m.lines)]

\* Response: its headers are a map, and body() sets their type, unless it is
\* empty.
NewResponse == [status |-> "OK", body |-> 0, headers |-> <<>>]

SetResponse(r, call) ==
  [status  |-> IF "status" \in DOMAIN call THEN call.status ELSE r.status,
   body    |-> IF "body" \in DOMAIN call THEN call.body ELSE r.body,
   headers |-> IF "headers" \in DOMAIN call
               THEN SetHeader(r.headers, call.headers[1], call.headers[2])
               ELSE IF "body" \in DOMAIN call /\ call.body > 0
               THEN SetHeader(r.headers, "Content-Type", call.content_type) ELSE r.headers]

status(c) == [status |-> c]
html(n)   == body(n, Text("html"))

serialize(r) ==
  [status |-> r.status,
   lines  |-> <<<<"Content-Length", Size(r.body)>>>>
              \o SetToSeq({<<name, r.headers[name]>> : name \in DOMAIN r.headers}),
   body   |-> r.body]

parse_response(m) == [status |-> m.status, headers |-> HeaderMap(m.lines)]

\* What either side takes for the size of the body that follows a head.
ContentLength(headers) ==
  LET v == Lookup(headers, "Content-Length") IN IF v[1] = "size" THEN v[2] ELSE 0
===============================================================================
