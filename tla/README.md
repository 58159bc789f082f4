# picohttpasio in TLA+

picohttpasio is a header-only C++20 HTTP/1.1 library on Asio: two servers (one
written with callbacks, one with coroutines), a client with and without TLS, a
router with middleware, WebSocket connections and static files. This directory
holds its formal model: TLA+ modules translated from `include/*.hpp`, TLC
configurations that check them on small instances, and proofs for every
instance that TLAPS checks. `PROJECT.json` lists the runs, the theorems, which
lines each definition stands for, the hazards the properties are aimed at, and,
for each property, a bug in the code that makes it fail.

## 1. The system

| part | state | operations | talks to | what makes it correct |
|---|---|---|---|---|
| `HTTPServerConnection` (server.hpp) | socket, `read_buf_`, `requests_served_` | completion handlers: header read, body read, response written, 101 written, errors | peer over TCP; router, `serve_static`; hands the socket to `WebSocketConnection` | requests are framed as the peer meant them, answered once and in order, within the limit; every complete request is answered |
| `HTTPServer` (server.hpp) | acceptor, TLS context, router | accept, handshake, start of a session | kernel backlog, every session through one `io_context` | exactly one accept outstanding or owed; every client accepted |
| `run_session` (coro_server.hpp) | `buf`, `served`, the suspended `co_await` | resumptions | as the callback connection | the same promise as the callback connection |
| `CoroServer` (coro_server.hpp) | acceptor, spawned coroutines | `accept_loop`, per-connection coroutine | as `HTTPServer` | one slow client holds up nobody; the loop ends only when it should |
| `HTTPClient`, `HTTPSClient` (client.hpp) | `connected_`, `read_buf_`, `pending_request_`, `pending_callback_` | `request`, handlers for resolve, connect, handshake, write, header, body | a server | each request is called back once, with its own response |
| `Router` (router.hpp) | `routes_`, `middlewares_`; per dispatch `active_mw`, `idx` | `add`, `use`, `dispatch`, `run_next`, `match`, `split` | the application's middlewares and handlers | first route wins; the handler runs behind all its middlewares; `match` inverts substitution |
| `Request`, `Response`, `picohttpwrapper` | values | parse, header lookup, keep-alive, serialize | picohttpparser (external) | what the handlers read is what the peer said |
| `WebSocketConnection`, frame codec (websocket.hpp) | `read_buf_`, `raw_buf_`, two outstanding reads | read, `process_frames`, `send`, `close` | the peer, after the upgrade | frames come out whole and in order; the end is reported once, last |
| `serve_static` (static_files.hpp) | none; reads the file system | conditional GET, ranges, listing | files another process may change | a 304 or 206 speaks of the file that is there |
| `RequestBuilder` (client.hpp) | the fields of a request | setters, `build` | the client | the server reads what was asked for |
| WebSocket client (examples/websocket_client.cpp) | `read_buf_`, `raw_buf_` | `connect`, handshake, `read_frames`, `send`, `close` | a WebSocket server | every frame after the 101 is handled |
| `crypto` (crypto.hpp) | none | `secretbox`, `box`, `sign`, digests, hex | OpenSSL | what was sealed opens, whole, and nothing else does |
| `ssl_context` | none | configuration | OpenSSL | (not modelled) |

**What is hard here.** Everything is asynchronous on one `io_context`. TCP cuts
the byte stream anywhere, so header block, body and the following requests
arrive in any pieces, and three paths erase different parts of the buffer.
Errors arrive at every suspension. The client keeps its request, callback and
buffer in the object, shared by all the chains of handlers that calls of
`request` start, and its buffer survives a broken connection. The server may
shut a connection down on which the client is already writing its next request. The accept chain
of the TLS server is continued by the handshake's handler. The middleware chain
shares one index between nested calls. The hazards are listed at their lines
in `PROJECT.json`.

## 2. Modules

| module | models | kind |
|---|---|---|
| `HttpWire` | byte streams, `HTTPRequest::parse`, `keepAlive`, length and answers | operators shared by both servers |
| `HttpSession` | what a connection promises | abstract specification |
| `HttpConnection` | `HTTPServerConnection` | state machine, implements `HttpSession` |
| `CoroSession` | `run_session` | state machine, implements `HttpSession` |
| `CallbackServer` | `HTTPServer`: accept chain, handshakes, event loop | state machine |
| `CoroServer` | `CoroServer`: accept loop and coroutines | state machine |
| `HttpClient` | `HTTPClient`, `HTTPSClient` and a server as environment | state machine |
| `Exchange` | `HttpClient` and `HttpConnection` joined by a link | composition of the two |
| `RoutePattern` | `split`, `match` | operators |
| `Router` | registration, dispatch and the middleware chain | state machine |
| `WsChannel` | what a WebSocket connection promises | abstract specification |
| `WebSocket` | `WebSocketConnection` and the example's `WebSocketClient`, the peer and the socket | state machine, implements `WsChannel` |
| `WsCodec` | `encode`, `decode`, `encode_client_frame` | operators |
| `ByteRange` | `parse_range` | operators |
| `QueryString` | `parse_query`, `url_decode` | operators |
| `Messages` | `RequestBuilder`, `parse_request`, `Response`, `HTTPResponse` | operators |
| `SealedBox` | the formats of `secretbox`, `box` and `sign` | operators |
| `TextCodec` | `base64_encode`, `to_hex` | operators |
| `StaticFiles` | `serve_static`, a writer and a client with a cache | state machine |
| `HttpConnectionProofs`, `CoroSessionProofs`, `HttpClientProofs`, `RouterProofs`, `WebSocketProofs`, `ExchangeProofs` | theorems about the module they are named after; `RouterProofs` also about `match` | proofs |
| `ParserProofs` | theorems about what `MCParsers` calls, but for `match`, and about `CallbackServer` | proofs |
| `SliceLemmas` | facts about slices of sequences, induction over sets of numbers | lemmas |
| `MC*` | streams, responses, patterns, clients for TLC | instances |

### Correspondence

*Bytes.* A stream is a sequence of units (`HttpWire`): one unit for the bytes of
a request head with its blank line, one for each piece of a body. A read takes
any number of the units that have arrived. Whether a unit's bytes contain the
delimiter `\r\n\r\n` is what `async_read_until` decides on, and a body unit may
contain it (a body that quotes a request). What the handlers look up in a head
is a record: does it parse, its version, `Connection`, how it states its
length, `Upgrade` and key, whether a route matches and whether the handler
throws. `ContentLen` follows the code: only the spelling `Content-Length` is
found in the map, and a failing `stoul` leaves 0.

*HttpConnection.* `pc` names the outstanding operation; each action is the
completion handler of one, with everything it calls before it returns to the
event loop: `OnHeaderRead` is the lambda of `readRequest` with `handleRequest`
and, when the body is there, `dispatchRequest`; `OnBodyRead` is the lambda of
`async_read`; `OnWritten` that of `sendRaw`. `header_str` and `keep_alive` are
what these lambdas capture. `answers` and `written` are histories of the calls
of `async_write` and of their completions. `sent`, `peer` and `got` are the
socket.

*CoroSession.* `at` names the `co_await`; each action resumes the coroutine there
and runs it to the next one. `break` ends in `shutdown`, `co_return` in
`destroyed`.

*HttpClient.* A chain of handlers is a record with the operation it waits for.
`faults` and `unframed` are histories that say when something failed and when a
response did not state its length. The server answers in order, piece by piece,
and may close or reset at any point.

*Exchange.* The two machines are instances over one set of variables: the
client's without its free server, the server's without its free peer. `queue` is
what the server has written and the link has not delivered; the next unit of a
request arrives at the server once the client has started to write it
(`RequestArrives`). Each connect meets a fresh `HTTPServerConnection`
(`Accepted`). A connection that is shut down sends a FIN when all it wrote has
arrived (`Fin`), or a reset if there are bytes it has not read (`Reset`), which
overtakes the rest. Nothing else is lost. `handled` is the history of what the
router or `serve_static` was called for, `torn` of responses that broke off.

*CallbackServer, CoroServer.* `client` says where each client is: backlog,
handshake, session, gone. A session is its lifetime; `HttpConnection` and
`CoroSession` have its content.

*Router.* `stack` holds the nested calls of `run_next`: middlewares call next up
to `MaxCalls` times, return, or throw. Registration is interleaved with
requests.

*WebSocket.* `readers` are the reads that wait for the socket, which serves them
in their order; `ready` the completed operations whose handlers have not run.
`async_read_until` with its empty delimiter is modelled by what Asio does with it:
on an empty `read_buf_` it enlarges the string (`Grown`) and reads into it, on any
other it completes without reading. `process_frames` is one action per frame, and
`Leave` its end, with the `read_frame()` of the raw read's handler. A write is
tried at once if none waits; what the socket does not take goes on later, behind
whatever was written meanwhile. The wire is cut into units; `WsCodec` has the
bytes, and its property is what the units of `WebSocket` rest on.
`role` says whose connection it is: a server's, or a client's whose handshake
succeeds or is refused. A client goes through `stage` first: resolve, connect,
the write of the request and `ReadResponse`, which may take bytes behind the 101
into `read_buf_`; `OnOpen` may send, and starts `read_frames`. The application's
`on_message` may call `send` or `close` in the middle of the loop, which goes on. The client has
`process_frames`, `send` and `close` in the same form, and reads with
`async_read_some` alone. A handshake that fails tells nobody: `on_close` is not
called.

*Messages.* A message is its first line, its header lines in order and the size
of its body. A setter is the record of the fields it assigns, applied by `Set`
or `SetResponse`; `build` and `serialize` say which lines are written and in
which order, the parsers which of them a reader finds.

*QueryString, SealedBox, TextCodec.* `parse_query` works on bytes, `strtol` on two
characters included. In `SealedBox`, what OpenSSL computes is a free term, equal
to another only if it was made from the same parts: what is checked is what the
code puts together, cuts and compares. `TextCodec` has the alphabets' sizes as
constants, three bytes being four digits, and `Value` reads digits as a number.

*StaticFiles.* `at` names the next file system call; between any two, another
process may write the file in its place, replace it or delete it. A content is its
version, byte by byte. The client keeps the last whole file with its tag and date.

## 3. Runs

| run | instance | shows |
|---|---|---|
| `connection` | 37 streams of one to three requests, MaxBody 2, MaxKeepAlive 2 | see below |
| `coro_session` | the same streams, no WebSocket handler | the coroutine keeps the same promise |
| `client` | three requests, TLS, five kinds of response | once, in order, own response, liveness |
| `client_stale` | two requests | violated: nullopt without an error |
| `exchange` | three requests of five kinds, MaxBody 2, MaxKeepAlive 2 | see below |
| `accept_tls` | three clients, TLS, one stalls, one failing accept | accept chain; only a stalled handshake holds anybody up |
| `coro_accept` | three clients, one stalls | nobody else waits |
| `coro_accept_exit` | the same | violated: one failed accept ends the loop |
| `parsers` | see below | `match` inverts substitution; frames come out as they went in; a range is what the header names, and inside the file; queries, messages, sealed messages and texts come out as they went in |
| `router` | two routes, two middlewares, two requests | order, completeness and guards of the chain |
| `websocket` | four streams of two or three frames, buffers of 2 units; server, client, refused client | see below |
| `static_files` | two requests, two changes of the file, 4 ticks of the clock | see below |

**Properties of a connection.** `BufferIsTail`: no byte is lost, repeated or
reordered between socket and parser. `Framing`: while requests state their
length in the form the server understands, the k-th answer is for exactly the
bytes of the k-th request. `OneWriteAtATime`, `QuietAfterLast`,
`ServesWithinLimit`, `ShutdownHasReason`: order, silence after a closing
response, the limit, and no unexplained close. `CompleteIsAnswered`: a request
that is there in full never waits for more bytes. `ImplementsSession`: the
detailed machines refine `HttpSession`, in which there is no buffer and no
partial read at all, so chunking cannot matter. For the coroutine,
which is checked with `AnswersTile`, `ShutdownHasReason` and the refinement, the
answered pieces tile the stream from its first byte.

**Properties of the exchange.** These are about both sides at once.
`ServedIsReported`: a request is served at most once, its callback gets its own
response or nullopt, and after nullopt it has not been and will not be served, so
that the application may repeat it. (A callback behind a response that broke off
is excused, for the bytes that `client_stale` is about; without the excuse the
property is violated here, too.) `LossOnlyUnannounced`: a request is lost
only when resolve or connect fails or the server has shut down after a response that did not
say `close` — the last one its limit allows, which says keep-alive, a 400 or a
413. The client makes no request on a connection whose end was announced.
`EveryRequestCalledBack`: neither side waits for the other for ever.

**Properties of the parsers.** `MCParsers` feeds each function one token, byte or
call at a time. `MatchIsSubstitution`: every path that a
pattern becomes with values of its parameters that are not empty matches it, no path
matches that it does not become, and the values are what `match`
returns (18 patterns, all paths of at most five tokens over `/ : * a b`). Whether a
parameter may be empty is left open (section 5).
`FramesComeOut`: of a frame with a payload of every length up to 11 and a second,
shorter one behind it, from the server or from a client, `decode` gives each when it
is whole and not before. `RangesRight`: of every
header of at most five tokens and file of at most four bytes, a single range comes out
as the bytes it names, and none reaches beyond the file. `QueryComesOut`: whatever bytes the keys and values of
a query have, percent-encoded in either case, the map has exactly them.
`MessagesComeOut`: whatever setters were called, up to four of them, in
whichever order, the other side reads the method, target, status, headers and body
size that were meant. `SealedOpens`: a sealed or signed message opens for the right keys with its
plaintext, the empty one included, and nothing cut from it opens for anybody.
`BytesComeOut`: base64 and hex keep every bit, for each of the three remainders.

**Properties of the router.** `EnteredOnceInOrder`, `NoneSkipped`,
`HandlerBehindChain`: whatever middlewares do with next, the chain is entered in order,
whole before the handler, and the handler is inside it. `EarlierRouteStands`: the first
route wins for good. `PrefixGuards`: a middleware on `/a` is active for a request with a
route below `/a` exactly if the path begins with a slash. So `//a`, `/a/` and whatever
else `split` makes of a path cannot get past a guard, but the target `a/b`, which has the
route `/a/b`, does.

**Properties of the accept loops.** `OneAcceptChain`: one accept is outstanding or owed.
`EveryClientAccepted`: with TLS the callback server accepts every client that waits, unless
one that stalls in its handshake holds the acceptor; one client of the run does stall.
For the coroutine server there is no such exception. A handler that throws stops the
callback server for all; the property excuses that.

**Properties of a WebSocket.** `StreamInOrder`: what was decoded, what both
buffers hold and what the socket holds is what the peer sent. `OneReadPerBuffer`:
no buffer is written by two reads, nor decoded while it may still be written into.
`OutFramesWhole`: frames leave whole while no two sends overlap (when they do, the
model, like the code, lets the second one in between the parts of the first).
`ImplementsChannel`: frames are handed over in order, and the failed read that ends
the connection is reported once, after all of them; `EveryFrameHandled`: a whole
frame never waits for more bytes, but for those a client got together with the 101
(section 5).

**Type invariants.** Every state machine states `TypeOK`. That of `HttpConnection`
is checked in `connection` and proved. Those of the other modules are left out of
the runs, which ask about what could be wrong; each holds when `INVARIANT TypeOK`
is added to the configuration of the module's run.

**Properties of static files.** `AnswersWhatIsThere`: a request during which nobody
touches the file gets exactly its bytes or the range it named. `NotModifiedIsTrue`:
however the file changes between the calls, of this request or of the one that
filled the cache, a 304 confirms only a copy of what the file was during the
request; it holds because the tag is computed before the file is opened, and as
long as tags and dates tell the files apart.

**Bounds.** Two requests before the limit and three in a stream are enough for
one kept-alive, one at the limit and one beyond; a limit of two units of body
gives bodies that are empty, split, exactly full and too large (three). The
workloads put each of the 16 kinds of request alone in front of another one and
behind a POST with a body, so every branch is met with a fresh and with a used
buffer. Three clients with room for two sockets make the backlog, the room and
the handshake interfere. Five tokens make paths with up to two inner slashes
and empty segments in any place. `MaxErrors` (one failing accept), `MaxCalls`
(a middleware calls next at most twice), `MaxRequests`, `MaxRoutes` and
`MaxMiddlewares` are bounds of the models only.
Three requests let one follow a lost one and one follow a kept-alive one, and five
kinds of them meet the limit, a refused head and a refused body; a response has no
body or one of two units, so that it may be cut inside.
A message of three units is longer than either WebSocket buffer, and a 101 of two
units is cut inside or read with the first frame; two Closes, and frames behind a Close, make the loop go on after it.
Base 8 with one and two length bytes has the three forms of a length meet at 1|2
and 7|8. Five tokens of a query are a key, a value with an escape and a second pair, with an
escape at every end; four calls set a header twice between two others; five bytes are a whole
group and each remainder. `SealedBox` and `TextCodec` have short nonces, tags and
alphabets, whose sizes only enter as the lengths that are cut.
Two requests are what a stale 304 needs, one to fill the cache and one to
confirm it; two changes of the file can fall before, into and after each. Two
ticks are a second, so that changes fall into the same second and into different
ones.

**Fairness.** `WF(Handler)` and `WF(Resume)`: `io_context::run` calls the handler
of every operation that has completed, and a peer reads what it is sent.
Nothing is assumed about the peer's sending. `SF` of accepts: the kernel's
backlog is a queue, so a waiting client is reached whenever accepts go on.
`WF` of handshakes is only assumed of clients that do not stall, `WF` of a
session's end because clients leave. For the client, weak fairness of its
handlers and of the server's sending: the name service, connect and handshake
complete, and a server that has something to send sends it or closes. In
`Exchange` nothing is assumed of a server beyond what the code does: both event
loops run their handlers, and what was written, or a FIN, arrives.
For the WebSocket, `WF(Receive)` and `WF(EventLoop)`: the kernel completes a read
that can be completed and the event loop runs; the peer need not send, nor read
what it is sent. Deadlock is not checked where connections, clients and servers rightly end.

## 4. Proofs

The runs look at small instances; the theorems hold for every value of the
constants that satisfies the assumptions below: streams of any length, buffers,
limits, tables and numbers of clients of any size. 29 of the 40 properties the runs
check are theorems, and of the three refinements the part about steps. Each
inductive invariant was checked with TLC on the instance of the module's run
before it was proved.

### Assumptions

They are `ASSUME`s of the modules, evaluated in every run. `UnitAssumption`,
`MaxBodyAssumption`, `SessionAssumption`, `ConnectionAssumption`: the units of a
stream have their fields and the limits are numbers; in addition `InOrder`, which only
`Framing` rests on: a peer numbers its requests from 1 and sends one behind the other.
`ServerAssumption`: there is room for a socket, and stalling clients are clients.
`ClientAssumption`: at least one request, and responses of the form of
`ResponseSet`. `RouterAssumption`: there is a request, patterns, prefixes and paths are sequences of
tokens, and the bounds are numbers.
`WebSocketAssumption`: streams are sequences of frames that are not empty (a frame has a
header), and no buffer is of size 0.
`ExchangeAssumption`: a plan is what `RequestBuilder` writes for requests 1 to N, one
behind the other. Each starts with its head, and where the server is going to read a body for
it, the head states the length of what follows (`Tidy`): `build` does so whenever there is a
body. An application that sets `Content-Length` itself, to something else, is excluded.

`LossOnlyUnannouncedHolds` has the hypothesis `MaxKeepAlive > 0`. With a limit of 0 the
server shuts each connection down without a response, and the property is false; TLC shows it
with that value in `MCExchange.cfg`.

`CodecAssumption`: the second byte of a frame has room for the lengths up to `Short` and two
more codes, and the second extended form of a length is the longer one. `FramesAssumption`: no
frame is larger than a `size_t` can say. `TextCodecAssumption`: as with 256, 64 and 16, three bytes are four digits,
a digit divides a byte, and two hexadecimal digits are a byte. `UllAssumption` and `SizesAssumption`: an `unsigned long long` has values, and a nonce, a
tag and a signature are not empty.

`OwnResponse`, `NoneLost` and the `Invariance` of `HttpClientProofs` have the hypothesis
`~ Overlap`: the application waits for the callback before it calls `request`
again. With overlapping requests they are false: `MCHttpClientOverlap.cfg` shows it of
`NoCallbackLost`, and with `OwnResponseWhileClean` in its place of that. `TypeCorrect` and `CallbacksInOrder` do not need it.

### The two servers

`HttpConnectionProofs` proves `TypeOK`, `BufferIsTail`, `OneWriteAtATime`,
`ServesWithinLimit`, `ShutdownHasReason`, `QuietAfterLast`, `Framing` and the steps of
`ImplementsSession`; `CoroSessionProofs` proves `TypeOK`, `AnswersTile`,
`ShutdownHasReason` and the same refinement. None of these is inductive alone. For
the callback connection

    IInv == TypeOK /\ Slices /\ Holding /\ OneWriteAtATime
            /\ ServesWithinLimit /\ Writing /\ ShutdownHasReason

`Slices` says of which part of the stream the buffer and the captured header
block are cut; `Holding` that a header block is held exactly
while a body is awaited, and is then a parsed head whose body does not fit the
buffer; `Writing` ties the captured keep-alive flag to the last answer, which
`OnWritten` needs to know that reading on is allowed. The coroutine has the same
parts in its own terms and `Tiled`: `AnswersTile` computes what was answered by a
recursive function, so the proof keeps that there is such a function and that any
such function ends at what was taken from the stream.

*Refinement.* Under `IInv` every action is matched with one action of `HttpSession` or
with none: `readRequest` and partial reads are stutters, whole requests are
`Answer` or `Refuse`. What is not obvious is that a header block found in a partial
buffer is the one that the session, which sees all that was sent, would find, and that
a request that is cut within its body is served later with the same bytes;
`HeaderOfPrefix` says that (`HeaderAt` of a slice and of a longer one).

*Framing.* It is proved of the session's steps and holds of the connection by the
refinement. Alone it is not inductive: `Aligned` adds that while requests state
their lengths, what was taken from the stream ends exactly where the last answered
request does, so that the next block starts the next request.

### The accept chain

`OneAcceptChain` is a statement about a cardinality. `ParserProofs` keeps instead
who holds the chain (`Holder`): nobody is in a handshake while an accept is
outstanding, and exactly one client is while `startAccept` is held back. That holds for
an unbounded set of clients, too; those with an open socket are finitely many.

### The client

`CalledOnceInOrder` needs `Ordered`: the pending callback is the latest request's, and the
ones called belong to earlier requests. For `OwnResponseWhileClean`, `Exclusive` says
that there is one chain of handlers while a callback is pending and none otherwise;
`OnlyOwn` that as long as nothing failed and every length was stated, what is in the
buffer, on the link and at the server are three adjacent pieces of the one response to
the request under way, and nothing at all between two requests. So whatever the client
cuts off as a response can only be the right one.

### The router

`RouterProofs` has no bound on tables, nesting or calls of next. `Entering` says that
exactly the first `idx` of the active middlewares have been entered, in order, whatever
they do with next: hence `EnteredOnceInOrder` and `NoneSkipped`. `Nested` says that if
nobody calls next twice, the calls under way are the middlewares one inside the
other: hence `HandlerBehindChain`. The loop that collects the active ones is a fold; its
result is shown to be increasing and complete by induction over the table.
`EarlierRouteStands` needs no invariant: appending to the table does not change which
entry matches first.

`PrefixGuards` holds for every path, those without a first slash included: they have no
prefix that begins with one. For the others it compares texts by their segments: matching cuts pattern and path with
`split`, the prefix test compares the path as it is. The proof follows two runs of `split`,
over the prefix and over the path, token by token (`SamePieces`): what has become a segment
is only ever continued (`Extends`), so that two texts, of which the segments of one are the
first of the other, cannot differ in any token. `LiteralMatch` says that what matches has
the pattern's literal segments at its front, `Chosen` that the route of the request under
way matches it. "Literal" is a condition of the property: a prefix with `:name` in it is
compared as text, and guards nothing but paths that spell it so.

### The parsers, codecs and builders

`ParserProofs`, and for `match` the end of `RouterProofs`, are about `MCParsers`, which
calls its specification `Inputs` because they extend another module each. The invariants
only say what inputs there are: a header is a sequence of tokens (`RangeInput`), what a decoder is given is the front
of a message somebody has made (`SealedInput`), a pattern and a path are sequences of
tokens (`PathInput`), the bytes are the front of two frames (`WireInput`), or are bytes
(`TextInput`), the tokens of a query (`QueryInput`) or calls of setters (`CallInput`). The
rest is about one call each.
`RangesRight`: `ParseRangeIs` says what `parse_range` returns in terms of what stands left
and right of the first dash; `RangeWithin` follows whatever that is, `SingleRange` for two
or three tokens. The size of the file, the numbers and the length of the header are any.
`SealedOpens`: `BoxOpens` and `SignedOpens` cut the front of a message where the decoder
cuts it. A piece too short for the fixed part is refused; any other has the whole nonce and
tag, and the tag is that of the ciphertext as a whole (`TagSays`), so only the whole of it
is accepted, with the key it was made with.
`MatchIsSubstitution`: `PathMatches` proves it of any pattern and any path; the theorem has
the 18 patterns of `Start`. What `split` takes apart `Rest` puts together (`RestOfSplit`,
token by token). What the loop of `match` returns is followed from the last segment before
the wildcard back to the first: there is a match from the `i`-th on exactly if the segments
from there on fit, and the parameters hold their segments (`Found`, `FoundBefore`). That
is of the code as it is, which takes empty segments; the property asks for less. It
needs that no two values have one name, which is `Distinct`: in `/:*/*`, which is not among
the patterns, the parameter is called `*` like what the wildcard takes, and is lost.
`FramesComeOut`: the provers have no facts of `^`, so `WsCodec` has the powers of the base
as a recursive function, `Power`. A length that is below `Power(k)` comes back from its `k` bytes
(`NumberOfDigits`): after `i` of them `Number` has the length divided by `Power(k - i)`, because
dividing by a product is dividing twice (`DivideTwice`), and nothing wraps around. `WireIs`
says where each byte of a frame lies, `DecodeIs` that `decode` looks for it there, with
however many bytes it is given.
`BytesComeOut`: `EqualPieces` finds the digits of a byte and the characters of a group by
counting. The four characters of a group are the number its three bytes are
(`CharsAreNumber`, by three divisions), and a character in whose place padding stands would
have been 0 (`NoBits`). So the text and the bytes, followed by zeros for the bytes that are
missing, are one number after every whole group (`TextValue`), and after every two
hexadecimal digits (`HexHasValue`).
`MessagesComeOut`: after any number of calls a field is what the last call that sets it
has set (`SetTo`, call by call), and the header lines of a request end with the
last one of each name the application has given (`Sofar`). The parser's map has the last line of
each name (`LookupIs`), `build` puts its own lines in front (`LinesJoin`). The headers of
a response are a map to begin with, and finite (`Answered`), so its lines are one for each
name in whichever order they are enumerated (`LinesOfMap`).
`QueryComesOut`: `Encodes` says where in the text each token of the query ends (`QueryEncodes`:
there are such places). They grow with the tokens, so a separator or an equals sign in the
text is a mark among the tokens and never part of an escape (`ByteIsOf`), and the parts
between the separators are the pairs (`PartWritten`, `PartOfTokens`; `PartsAre` that
`SplitAmp` finds them all). Reading a part from its end, `url_decode` gives one byte for each
token (`TokensRead`): an escape that was written is whole, so it is recognised even as the last thing
in a part. The map is followed pair by pair (`PairPut`).

### The WebSocket connection

    IInv == Types /\ Lines /\ Ends /\ Counted /\ Numbered /\ Places /\ Outs

Three positions divide what the peer has sent (`Places`): up to `Start` the wire is
decoded, from there to `p` it is in `read_buf_`, to `q` in `raw_buf_` or on its way to a
handler, to `sent` in the socket. Two reads are under way at once, into different buffers;
that the bytes still lie in this order rests on `Lines`: of the reads that
`read_frame` starts, the one into `read_buf_` is in front of the other, while they wait for
the socket and when their handlers wait for the event loop. `OneReadPerBuffer` and
`StreamInOrder` follow. For `OutFramesWhole`, `GoesOut` says that what the socket has
accepted followed by what waits is all that was sent, in every handler in between.
`Counted` and `Numbered` bound what is handled by what arrived.
`ImplementsChannelSteps` matches each action with one of `WsChannel`: a unit
that completes a frame is an arrival, the call of a frame's handler its delivery, the failed
read that ends the connection its end. `FlattenSeq` and the boundaries of frames are
recursive functions, of which the lemmas say all that is needed.

### The exchange

    IInv == ClientTypes /\ ServerTypes /\ Numbered /\ StreamOK /\ Aligned
            /\ SaysOK /\ HandledOK /\ LinkOK /\ WireOK /\ ReportOK

`ServedIsReported` relates what the client's callbacks were told to what the server did,
and each side only sees its own half; the invariant says why the two agree. `NextUp` is the
request the server answers next, computed from its stream and the number of its answers.
`Aligned`: the server stands at the end of a request, so what it takes for the next head
is one; with `Tidy` requests it never reads a byte of one as part of another. `WireOK`:
as long as no response broke off, the exchange under way is in one of four states, which say
where its response is and that `NextUp` is `issued` or the one after: nothing of it exists
(`Unanswered`), the whole of it is on the link (`Coming`), its head has been read and the rest
is in the buffer or on the link (`Reading`), it has been reported (`Settled`).

A request whose callback got `nullopt` must not have been served, although its answer may
just have been lost. `LinkOK` excludes that: a reset needs bytes that the server has not
read, which by `HandledOK` are bytes behind every request it served, and the client writes
none of these before the response has been read; so a reset never takes the answer of a
request that was served. It must not be served later either: `ReportOK` keeps that a server
which goes on is past it (`Going => i < NextUp`), and `SaysOK` that a response that says
"close", after which the client is told nothing more, was to a request that was served and
is the server's last. Everything is conditional on `torn`: the client does not clear its
buffer after a broken response, and what it reports then may be false (section 5).

`LossOnlyUnannounced` needs one thing more, `EndOK`: with a limit of at least one, a server
shuts down only after it has answered. `IInv` and `EndOK` hold in the 97610 states of the
run `exchange`.

### What the lemmas are for

`SliceLemmas`: a slice of a slice is a slice, two adjacent ones join, a slice is
cut in two (`Slice`, `SliceOfSlice`, `Join`, `Cut`), since every buffer here is a slice of
a stream. The induction theorems of the library take an operator, which the provers
cannot instantiate; `SetInduction` states induction for the SET of the numbers that
have a property, which they can: `{n \in Nat : ...}` contains 0 and is closed under
successor. All recursive functions are reasoned about in that way.

### Only model-checked

* Liveness, and the fairness in both refinements: `CompleteIsAnswered`,
  `EveryRequestCalledBack`, `EveryClientAccepted`, `EveryFrameHandled`, the `WF` of
  `ImplementsSession` and `ImplementsChannel`. They need `ENABLED`, which the prover does
  not have. `CoroServer` has no other property.
* `StaticFiles`: the tag is computed with `Bitwise`, which no module with a proof may use.

## 5. What the code does otherwise than it says

Shown by runs that expect a violation:

* `client.hpp:125` ties `nullopt` to an error; stale bytes of a broken response give
  it to the next, healthy exchange (`client_stale`).
* `coro_server.hpp:284` calls the exception of an accept "acceptor closed"; any
  failed accept ends the loop (`coro_accept_exit`).

Shown by further configurations, which are not among the runs:

* `MCHttpClientOverlap.cfg` (module `MCHttpClient`, violates `NoCallbackLost`):
  `client.hpp:125` promises a callback per request; an overlapping `request` drops
  one.
* `MCStaticFilesTag.cfg` (module `MCStaticFiles`, violates `TagDecides`):
  `static_files.hpp:45` honours If-None-Match; a date that still matches overrules a
  tag that does not.
* `MCParsersRange.cfg` (module `MCParsers`, violates `UnsupportedRefused`):
  `static_files.hpp:131` refuses unsupported ranges; `bytes=-5`, `bytes=0-1,3-4` and
  `bytes=-` are accepted, as other ranges than they name.
* `MCWebSocketGreeting.cfg` (module `MCWebSocket`, violates `GreetingHandled`):
  `websocket_client.cpp:4` works with any compliant server; a frame that arrives
  together with the 101 waits until the server sends something else.
* `MCParsersEmpty.cfg` (module `MCParsers`, violates `ParamsNonEmpty`):
  `router.hpp:117` has `:name` match non-empty segments; it matches empty ones.

Not against what the code says, but worth knowing: `router.hpp:58` runs a middleware only
when the path starts with its prefix, and `split` takes a path without its first slash for
the same as with it, so a target `a/b` is routed like `/a/b` and passes a guard on `/a` by
(`PrefixGuards`).

Read off the code: `websocket.hpp:207` promises `SIZE_MAX` on error; `decode` casts
any four bits to an opcode (line 214) and returns it for nothing.

## 6. Not modelled

The characters of head lines and picohttpparser, MIME types, the text of a
directory listing and compression, SHA-1 and what OpenSSL computes,
`ssl_context`, TLS below "the handshake succeeds or fails", object lifetimes
(handlers that capture `this`, a kept `next`), several threads running one
`io_context`, bytes that followed an upgrade request, and the examples but for
the WebSocket client. Two overlapping reads into one `std::string` are
undefined in C++; the model with `Overlap = TRUE` gives them an order and is
only used to show a lost callback, which needs none of it.

## 7. Plan

1. (done) The callback connection, its abstract session, the coroutine session,
   the client, the accept loops, the router; proofs about the connection.
2. (done) `WsCodec` and `WebSocket` against an abstract in-order channel;
   `ByteRange` and `StaticFiles`. The pure functions share one run, `parsers`.
3. (done) `Exchange`; the WebSocket client; `QueryString`, `Messages`, `SealedBox` and
   `TextCodec` as further subjects of `MCParsers`.
4. (done) Proofs: the refinement of `HttpSession` by both servers, framing, the accept
   chain, the client, the chain of middlewares, the WebSocket connection against its
   channel.
5. (done) Proofs about `Exchange`: its invariant, from those of its two sides and of the
   link, for `ServedIsReported` and `LossOnlyUnannounced`.
