------------------------------ MODULE HttpWire ------------------------------
(***************************************************************************)
(* What both servers see of the bytes a peer sends, and what the shared    *)
(* request helpers (picohttpwrapper.hpp, request.hpp) make of them.        *)
(*                                                                         *)
(* A byte stream is a sequence of units.  A unit with head = TRUE stands   *)
(* for the bytes of one request head up to and including its blank line,   *)
(* so it is the only kind of unit in which the delimiter of                *)
(* async_read_until can be found.  Any other unit stands for body bytes;   *)
(* glue says that those bytes are token characters, which phr takes for    *)
(* part of the method when they happen to stand before a request line.     *)
(* owner is the request (1, 2, ...) for which the peer sent the unit.  A   *)
(* body may contain a unit with head = TRUE: text that looks like a        *)
(* request.                                                                *)
(***************************************************************************)
EXTENDS Naturals, Sequences

CONSTANTS Unit,     \* the units that may appear in a stream
          MaxBody   \* max_body_size, in units

\* How the head states the length of the body that follows it: not at all (or
\* by Transfer-Encoding), as "Content-Length: n", under another spelling of
\* the name, with a value stoul cannot parse, or with one above ULONG_MAX.
LengthForm == {"absent", "canonical", "otherCase", "notANumber", "overflow"}

ConnectionValue == {"absent", "close", "keep-alive", "other"}

UpgradeValue == {"no", "noKey", "key"}

\* What the handlers look at in a request head.  routed, any, get and throws say
\* whether a route matches, whether one registered by any() does, whether the
\* method is GET, and whether running the matched handler (or serve_static)
\* throws.
RequestHead == [parses : BOOLEAN, minor : {0, 1}, conn : ConnectionValue,
         length : LengthForm, n : Nat, upgrade : UpgradeValue,
         routed : BOOLEAN, any : BOOLEAN, get : BOOLEAN, throws : BOOLEAN]

ASSUME MaxBodyAssumption == MaxBody \in Nat

ASSUME UnitAssumption ==
  Unit \subseteq [owner : Nat, head : BOOLEAN, glue : BOOLEAN, h : RequestHead]

(***************************************************************************)
(* Finding the header block.                                               *)
(***************************************************************************)

\* No delimiter in s: async_read_until has to read more.
NoHeader(s) == \A i \in 1..Len(s) : ~ s[i].head

\* The delimiter's first occurrence in s ends at unit i: header_bytes.
HeaderAt(s, i) ==
  /\ i \in 1..Len(s)
  /\ s[i].head
  /\ \A j \in 1..(i - 1) : ~ s[j].head

\* What HTTPRequest::parse and the router make of a header block.  Stray
\* bytes before the request line either make phr fail or run into the method
\* token, whose method is then UNKNOWN and matched by the routes of any() alone.
HeadOf(block) ==
  LET h == block[Len(block)].h
  IN  IF Len(block) = 1 THEN h
      ELSE [h EXCEPT !.parses = h.parses /\ \A j \in 1..(Len(block) - 1) : block[j].glue,
                     !.get    = FALSE,
                     !.routed = h.any]

\* content_len: only the canonical spelling is found in the header map, and an
\* exception of stoul (no digits, or out of range) leaves 0.
ContentLen(h) == IF h.length = "canonical" THEN h.n ELSE 0

\* Request::keepAlive.
KeepAlive(h) ==
  \/ h.conn = "keep-alive"
  \/ h.conn # "close" /\ h.minor >= 1

(***************************************************************************)
(* Answers.  says is the Connection header of the response; keep is the    *)
(* flag with which it is written; raw is the piece of the stream, header   *)
(* block and body, that the response answers.                              *)
(***************************************************************************)
Status == {"routed", "file", "notFound", "badRequest", "tooLarge", "switching"}

AnswerSet == [status : Status, says : {"keep-alive", "close", "nothing", "upgrade"},
              keep : BOOLEAN, raw : Seq(Unit)]

\* A bug TypeOK must catch: the response echoes the request's Connection.
ServedEchoing(h, raw) ==
  [status |-> IF h.routed THEN "routed" ELSE IF h.get THEN "file" ELSE "notFound",
   says |-> h.conn, keep |-> KeepAlive(h), raw |-> raw]

\* The response made by the router, serve_static or not_found, as dispatch
\* completes it: the Connection header always repeats the keep decision.
Served(h, raw) ==
  [status |-> IF h.routed THEN "routed" ELSE IF h.get THEN "file" ELSE "notFound",
   says   |-> IF KeepAlive(h) THEN "keep-alive" ELSE "close",
   keep   |-> KeepAlive(h),
   raw    |-> raw]

\* A response sent with Response::make/bad_request and keep_alive = false: it
\* carries no Connection header.
Refusal(status, raw) ==
  [status |-> status, says |-> "nothing", keep |-> FALSE, raw |-> raw]

Switching(raw) ==
  [status |-> "switching", says |-> "upgrade", keep |-> FALSE, raw |-> raw]

IsServed(a) == a.status \in {"routed", "file", "notFound"}

\* Only the matched handler and serve_static can throw: not_found cannot.
HandlerThrows(h) == h.throws /\ (h.routed \/ h.get)
(***************************************************************************)
(* What the peer means.                                                    *)
(***************************************************************************)
\* The peer numbers its requests and sends one after the other.
InOrder(s) ==
  \A i, j \in 1..Len(s) : s[i].owner >= 1 /\ (i <= j => s[i].owner <= s[j].owner)

\* Units p to q of s, and no others, are for its k-th request.
Spans(s, k, p, q) == p..q = {j \in 1..Len(s) : s[j].owner = k}

\* The k-th request is one the server can frame: its head comes first and says
\* how many units follow in the one form that is understood.
Unambiguous(s, k) ==
  \E p, q \in 1..Len(s) :
    /\ p <= q /\ Spans(s, k, p, q)
    /\ s[p].head /\ s[p].h.parses
    /\ ContentLen(s[p].h) = q - p
    /\ ContentLen(s[p].h) <= MaxBody

\* As far as that goes, the k-th of the answers is for exactly the k-th request.
Framed(s, as) ==
  \A k \in 1..Len(as) :
    (\A j \in 1..k : Unambiguous(s, j)) =>
      \E p, q \in 1..Len(s) : Spans(s, k, p, q) /\ as[k].raw = SubSeq(s, p, q)
=============================================================================
