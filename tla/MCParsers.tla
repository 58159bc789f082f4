------------------------------ MODULE MCParsers -------------------------------
(***************************************************************************)
(* The functions that make messages and text and take them apart: match of *)
(* router.hpp, decode and base64_encode of websocket.hpp, parse_range of   *)
(* static_files.hpp, parse_query, the builders and parsers of messages,    *)
(* and the formats of crypto.hpp.  Each is given inputs that grow by one   *)
(* token, byte or call at a time, so that every prefix of an input is one  *)
(* too.                                                                    *)
(*                                                                         *)
(* With Base = 8, Short = 1, Mid = 1 and Long = 2 the three forms of a     *)
(* frame's length meet at 1|2 and 7|8, as they do at 125|126 and           *)
(* 65535|65536.                                                            *)
(*                                                                         *)
(* Its initial states, steps and specification are Start, Extend and       *)
(* Inputs: RouterProofs and ParserProofs are about other modules, too, and *)
(* those have the usual names.                                             *)
(***************************************************************************)
EXTENDS RoutePattern, WsCodec, ByteRange, QueryString, Messages, SealedBox, TextCodec, FiniteSets

CONSTANTS Letter,     \* the tokens of paths besides "/"
          MaxPath,    \* bound: the tokens of a path
          Opcodes,    \* the opcodes of frames
          MaxPayload, \* bound: the longest payload
          MaxTotal,   \* bound: the size of a file
          MaxNumber,  \* bound: the numbers in a Range header
          MaxHeader,  \* bound: the tokens of a Range header
          MaxQuery,   \* bound: the tokens of a query string
          MaxSetters, \* bound: the calls that make a message
          MaxBytes    \* bound: the bytes of a text

\* No frame is larger than a size_t can say.
ASSUME FramesAssumption == MaxPayload \in Nat /\ 2 + Long + KeyLen + MaxPayload < SizeT

VARIABLES subject,  \* the function and what it is given besides its input
          input     \* a path, the bytes of two frames, ...

inputs == <<subject, input>>

MCPatterns ==
  {<<>>, <<"/">>, <<"/", "a">>, <<"/", "a", "/">>, <<"/", "a", "/", "b">>, <<"/", "a", "b">>,
   <<"/", ":", "x">>, <<"/", "a", "/", ":", "x">>, <<"/", ":", "x", "/", "b">>,
   <<"/", ":", "x", "/", ":", "y">>, <<"/", ":", "x", "/", ":", "x">>,
   <<"/", "*">>, <<"/", "a", "/", "*">>, <<"/", ":", "x", "/", "*">>,
   <<"/", "*", "/", "b">>, <<"/", "a", "*">>, <<"/", ":">>, <<"a">>}

\* A frame, sent by the server or by a client.
Payload(n) == [i \in 1..n |-> IF i % 3 = 0 THEN 1 ELSE (i \div 4) % 2]

Key == <<1, 0, 0, 1>>

SentFrames ==
  [frame  : {[fin |-> fin, opcode |-> op, payload |-> Payload(n)] :
               fin \in BOOLEAN, op \in Opcodes, n \in 0..MaxPayload},
   masked : BOOLEAN]

Wire(s) == IF s.masked THEN encode_client_frame(s.frame, Key) ELSE encode(s.frame)

\* Bytes of a query string's keys and values, and the marks between them.
Sep == 256
Eq  == 257

QueryTokens == {97, 233, Blank, Amp, Equals, Percent, Sep, Eq}

\* What an application may call to make a message.
Headers == {header("X", Text("1")), header("X", Text("2")), header("Connection", Text("close")),
            header("Content-Type", Text("own")), header("Content-Length", Size(9))}

Bodies == {body(0, Text("plain")), body(2, Text("plain")), json(3)}

RequestCalls ==
  {get(<<>>), post(<<"/", "?", "a", "?">>), put(<<"a">>), del(<<"/">>), target(<<"/", "?">>),
   method("HEAD"), host(Text("h")), keep_alive(TRUE), keep_alive(FALSE)} \cup Headers \cup Bodies

ResponseCalls == {status("NotFound"), html(1)} \cup Headers \cup Bodies

\* Messages that one party seals for another, or signs.
Party  == {"alice", "bob", "carol"}
Plains == {<<>>, <<1>>, <<1, 0>>}
IV     == [i \in 1..NONCE_BYTES |-> <<"iv", i>>]

SealedMessages ==
  [parser : {"box"}, plain : Plains, from : Party, to : Party]
  \cup [parser : {"sign"}, plain : Plains, from : Party]

Sealed(s) ==
  IF s.parser = "box" THEN box_encrypt(s.plain, s.to, s.from, IV) ELSE sign_combined(s.plain, s.from)

Start ==
  /\ input = <<>>
  /\ \/ \E p \in MCPatterns : subject = [parser |-> "match", pattern |-> p]
     \/ \E s, t \in SentFrames :
          /\ t.frame.fin /\ Len(t.frame.payload) \in {0, Short + 1}
          /\ subject = [parser |-> "decode", first |-> s, second |-> t]
     \/ \E n \in 0..MaxTotal : subject = [parser |-> "parse_range", total |-> n]
     \/ subject \in {[parser |-> p] : p \in {"query", "request", "response", "text"}}
     \/ subject \in SealedMessages

IsNumber(t) == t.kind \in {"number", "huge"}

\* Two numbers never meet in a header: their digits would be one number.
HeaderTokens ==
  LET all == {Num(n) : n \in 0..MaxNumber} \cup {Huge, Dash, Other}
  IN  IF input # <<>> /\ IsNumber(Last(input)) THEN {t \in all : ~ IsNumber(t)} ELSE all

ExtendPath ==
  /\ subject.parser = "match"
  /\ Len(input) < MaxPath
  /\ \E c \in Letter \cup {"/"} : input' = Append(input, c)
  /\ UNCHANGED subject

ExtendWire ==
  /\ subject.parser = "decode"
  /\ LET wire == Wire(subject.first) \o Wire(subject.second)
     IN  Len(input) < Len(wire) /\ input' = Append(input, wire[Len(input) + 1])
  /\ UNCHANGED subject

ExtendHeader ==
  /\ subject.parser = "parse_range"
  /\ Len(input) < MaxHeader
  /\ \E t \in HeaderTokens : input' = Append(input, t)
  /\ UNCHANGED subject

ExtendQuery ==
  /\ subject.parser = "query"
  /\ Len(input) < MaxQuery
  /\ \E t \in QueryTokens : input' = Append(input, t)
  /\ UNCHANGED subject

ExtendCalls ==
  /\ subject.parser \in {"request", "response"}
  /\ Len(input) < MaxSetters
  /\ \E c \in (IF subject.parser = "request" THEN RequestCalls ELSE ResponseCalls) :
       input' = Append(input, c)
  /\ UNCHANGED subject

ExtendSealed ==
  /\ subject.parser \in {"box", "sign"}
  /\ Len(input) < Len(Sealed(subject)) /\ input' = Append(input, Sealed(subject)[Len(input) + 1])
  /\ UNCHANGED subject

ExtendText ==
  /\ subject.parser = "text"
  /\ Len(input) < MaxBytes
  /\ \E b \in {0, 1, Nibble, Byte - 1} : input' = Append(input, b)
  /\ UNCHANGED subject

Extend ==
  \/ ExtendPath \/ ExtendWire \/ ExtendHeader
  \/ ExtendQuery \/ ExtendCalls \/ ExtendSealed \/ ExtendText

Inputs == Start /\ [][Extend]_inputs

-------------------------------------------------------------------------------
(***************************************************************************)
(* match.                                                                  *)
(***************************************************************************)
pattern == subject.pattern
path    == input

\* How many segments of the pattern come before its wildcard.
Before ==
  LET ps    == split(pattern)
      stars == {i \in 1..Len(ps) : IsWildcard(ps[i])}
  IN  IF stars = {} THEN Len(ps) ELSE Min(stars) - 1

HasWildcard == Before < Len(split(pattern))

\* A parameter's name occurs once, and is not the wildcard's.
Distinct ==
  LET ps == split(pattern)
  IN  \A i, j \in 1..Before :
        IsParam(ps[i]) => (ps[i] = ps[j] => i = j) /\ (HasWildcard => Tail(ps[i]) # <<"*">>)

\* What match is for, said without its loop.  A pattern gives a path if the
\* path's segments are the pattern's with some values put for the parameters
\* (and, after a wildcard, any more segments).  Every path that it gives with
\* values that are not empty is found, and no path is found that it does not
\* give; and the values captured, put into the pattern, give back the whole path
\* but for its outer slashes.  Whether a parameter may be empty is left open:
\* see ParamsNonEmpty.  (A name that occurs twice keeps only its last value:
\* then nothing is said.)
MatchIsSubstitution ==
  LET m     == match(pattern, path)
      ps    == SubSeq(split(pattern), 1, Before)
      rs    == split(path)
      value == {ps[i] : i \in {j \in 1..Before : IsParam(ps[j])}}
      Put(v) == [i \in 1..Before |-> IF ps[i] \in value THEN v[ps[i]] ELSE ps[i]]
      Gives(v) == IF HasWildcard THEN IsPrefix(Put(v), rs) ELSE Put(v) = rs
  IN  subject.parser = "match" /\ Distinct =>
        /\ (\E v \in [value -> ToSet(rs) \ {<<>>}] : Gives(v)) => m.found
        /\ m.found => \E v \in [value -> ToSet(rs)] : Gives(v)
        /\ m.found =>
             LET filled == Put([s \in value |-> m.params[Tail(s)]])
             IN  Strip(path) =
                   Rest(IF Len(rs) > Before THEN Append(filled, m.params[<<"*">>]) ELSE filled, 1)

\* ":name" matches a non-empty segment: "':name' -> matches any non-empty
\* segment; captured as name" (router.hpp:117).  The loop takes an empty one,
\* too; a further configuration shows that it is not so.
ParamsNonEmpty ==
  LET m == match(pattern, path)
  IN  subject.parser = "match" /\ m.found =>
        \A name \in DOMAIN m.params \ {<<"*">>} : m.params[name] # <<>>

-------------------------------------------------------------------------------
(***************************************************************************)
(* decode.                                                                 *)
(***************************************************************************)
\* What decode makes of buf, when what is to come out first is s: nothing as
\* long as s is not whole, then s, and exactly its bytes are consumed.
Yields(buf, s) ==
  IF Len(buf) < Len(Wire(s)) THEN decode(buf) = NeedMore
  ELSE decode(buf) = [consumed |-> Len(Wire(s)), frame |-> s.frame]

\* The two frames come out of the stream as they went in, whatever follows them
\* and however much of them has arrived: no length form, no mask and no cut
\* makes decode take a part for a whole, or a byte too many or too few.
FramesComeOut ==
  subject.parser = "decode" =>
    /\ Yields(input, subject.first)
    /\ Len(input) >= Len(Wire(subject.first)) =>
         Yields(SubSeq(input, decode(input).consumed + 1, Len(input)), subject.second)

-------------------------------------------------------------------------------
(***************************************************************************)
(* parse_range.                                                            *)
(***************************************************************************)
\* "N-M" and "N-": one range with its first byte.
Single ==
  /\ Len(input) \in {2, 3}
  /\ IsNumber(input[1]) /\ input[2] = Dash
  /\ Len(input) = 3 => IsNumber(input[3])

\* The bytes of the file that the header asks for, by its own words.
Asked ==
  CASE \E i \in {1, 3} \cap DOMAIN input : input[i] = Huge -> {}
    [] OTHER -> IF Len(input) = 2 THEN input[1].value..(subject.total - 1)
                ELSE input[1].value..input[3].value

\* A single range with a first byte is accepted exactly if it names at least one
\* byte and only bytes of the file, and then it is these bytes, for every size
\* down to the empty file; and whatever the header, a range that is accepted lies
\* within the file, so that the read that follows stays inside.
RangesRight ==
  LET r == parse_range(input, subject.total)
  IN  subject.parser = "parse_range" =>
        /\ Single => /\ r.some <=> Asked # {} /\ Asked \subseteq 0..(subject.total - 1)
                     /\ r.some => r.first..r.last = Asked
        /\ r.some => 0 <= r.first /\ r.first <= r.last /\ r.last < subject.total

\* Anything but a single range with a first byte is not supported: "Returns
\* nullopt for unsupported or out-of-bounds ranges" (static_files.hpp:131).
UnsupportedRefused ==
  subject.parser = "parse_range" /\ ~ Single => ~ parse_range(input, subject.total).some

-------------------------------------------------------------------------------
(***************************************************************************)
(* parse_query.                                                            *)
(***************************************************************************)
HexChar(d, lower) == IF d < 10 THEN 48 + d ELSE (IF lower THEN 87 ELSE 55) + d

\* How a client writes a token: marks and letters as they are, everything else
\* escaped, with digits of either case.
Written(t) ==
  CASE t = Sep -> <<Amp>> [] t = Eq -> <<Equals>> [] t = Blank -> <<Plus>> [] t = 97 -> <<t>>
    [] OTHER -> <<Percent, HexChar(t \div 16, t > 127), HexChar(t % 16, t > 127)>>

\* The numbers of the tokens that end a pair.
Ends == {i \in 1..Len(input) : input[i] = Sep} \cup {Len(input) + 1}

Pairs ==
  {SubSeq(input, p[1], p[2] - 1) : p \in {q \in (1..Len(input)) \X Ends :
     q[1] \in {e + 1 : e \in Ends} \cup {1} /\ \A k \in q[1]..(q[2] - 1) : k \notin Ends}} \ {<<>>}

KeyOf(pair) ==
  LET eq == SelectInSeq(pair, LAMBDA t : t = Eq)
  IN  IF eq = 0 THEN pair ELSE SubSeq(pair, 1, eq - 1)

\* A mark of a value that is not the first in its pair stands for itself.
ValueOf(pair) ==
  [i \in 1..(Len(pair) - Len(KeyOf(pair)) - (IF KeyOf(pair) = pair THEN 0 ELSE 1)) |->
     LET t == pair[Len(KeyOf(pair)) + 1 + i] IN IF t = Eq THEN Equals ELSE t]

\* Whatever bytes the keys and values have, at the end of the text or next to a
\* mark, the map has exactly the keys that were written, each with a value that
\* was written for it: the only one, if there is only one.
QueryComesOut ==
  LET out == parse_query(FlattenSeq([i \in 1..Len(input) |-> Written(input[i])]))
  IN  subject.parser = "query" =>
        /\ DOMAIN out = {KeyOf(p) : p \in Pairs}
        /\ \A k \in DOMAIN out : out[k] \in {ValueOf(p) : p \in {q \in Pairs : KeyOf(q) = k}}

-------------------------------------------------------------------------------
(***************************************************************************)
(* The messages.                                                           *)
(***************************************************************************)
\* What the calls make of a new message.
RequestMade ==
  LET made[i \in 0..Len(input)] == IF i = 0 THEN NewRequest ELSE Set(made[i - 1], input[i])
  IN  made[Len(input)]

ResponseMade ==
  LET made[i \in 0..Len(input)] == IF i = 0 THEN NewResponse ELSE SetResponse(made[i - 1], input[i])
  IN  made[Len(input)]

LastSet(f, default) ==
  LET calls == {i \in 1..Len(input) : f \in DOMAIN input[i]}
  IN  IF calls = {} THEN default ELSE input[Max(calls)][f]

\* The values that the application has given a header, and the last of them.
Given(name) == {i \in 1..Len(input) : "headers" \in DOMAIN input[i] /\ input[i].headers[1] = name}

GivenStands(headers, names) ==
  \A name \in names :
    Given(name) # {} => Lookup(headers, name) = input[Max(Given(name))].headers[2]

\* What one side builds the other side gets, whatever the setters were called
\* with and in whichever order: the method, the two parts of the target, the
\* headers the application has given, the Connection header that decides on
\* keep-alive, and the size of the body that follows the head - unless the
\* application has given that one itself.
RequestComesOut ==
  LET r     == parse_request(build(RequestMade))
      asked == LastSet("path", <<"/">>)
  IN  /\ r.method = LastSet("method", "GET")
      /\ ~ Contains(r.path, "?")
      /\ (IF asked = <<>> THEN <<"/">> ELSE asked) \in {r.path, r.path \o <<"?">> \o r.query}
      /\ GivenStands(r.headers, {"X", "Connection", "Content-Type", "Content-Length"})
      /\ Given("Connection") = {} =>
           Lookup(r.headers, "Connection") =
             Text(IF LastSet("keep_alive", FALSE) THEN "keep-alive" ELSE "close")
      /\ Given("Content-Length") = {} => ContentLength(r.headers) = LastSet("body", 0)

\* Of a type and a body, the later call decides on the type.
ResponseComesOut ==
  LET r == parse_response(serialize(ResponseMade))
      typed == Given("Content-Type")
               \cup {i \in 1..Len(input) : "body" \in DOMAIN input[i] /\ input[i].body > 0}
  IN  /\ r.status = LastSet("status", "OK")
      /\ GivenStands(r.headers, {"X", "Connection", "Content-Length"})
      /\ typed # {} =>
           LET c == input[Max(typed)]
           IN  Lookup(r.headers, "Content-Type") =
                 IF "body" \in DOMAIN c THEN c.content_type ELSE c.headers[2]
      /\ Given("Content-Length") = {} => ContentLength(r.headers) = LastSet("body", 0)

MessagesComeOut ==
  /\ subject.parser = "request" => RequestComesOut
  /\ subject.parser = "response" => ResponseComesOut

-------------------------------------------------------------------------------
(***************************************************************************)
(* Sealed and signed messages, and bytes as text.                          *)
(***************************************************************************)
\* A sealed message opens for the two parties it is between and a signed one for
\* the signer's public key, with the plaintext that went in, an empty one
\* included; and no part of either, wherever it was cut, opens for anybody.
SealedOpens ==
  LET whole(right) == IF input = Sealed(subject) /\ right THEN <<subject.plain>> ELSE <<>>
  IN  /\ subject.parser = "box" =>
           \A a, b \in Party : box_decrypt(input, a, b) = whole({a, b} = {subject.from, subject.to})
      /\ subject.parser = "sign" =>
           \A a \in Party : verify_combined(input, a) = whole(a = subject.from)

\* The number that digits are in a base.
Value(digits, base) ==
  LET sum[i \in 0..Len(digits)] == IF i = 0 THEN 0 ELSE sum[i - 1] * base + digits[i]
  IN  sum[Len(digits)]

Zeros(n) == [i \in 1..n |-> 0]

\* The text has the bytes back, whatever their number is modulo three: as many
\* characters as whole groups need, padding in place of the bytes that are
\* missing and nowhere else, and the bytes' bits in their order.
BytesComeOut ==
  LET n       == Len(input)
      text64  == base64_encode(input)
      missing == (3 - (n % 3)) % 3
      digits  == SubSeq(text64, 1, Len(text64) - missing)
  IN  subject.parser = "text" =>
        /\ Len(text64) = 4 * ((n + 2) \div 3)
        /\ \A i \in 1..Len(text64) : text64[i] = Pad <=> i > Len(digits)
        /\ Value(digits \o Zeros(missing), Digit) = Value(input \o Zeros(missing), Byte)
        /\ Len(to_hex(input)) = 2 * n /\ Value(to_hex(input), Nibble) = Value(input, Byte)
===============================================================================
