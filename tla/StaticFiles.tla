----------------------------- MODULE StaticFiles ------------------------------
(***************************************************************************)
(* serve_static of include/static_files.hpp, one file system call a step,  *)
(* beside a process that writes, replaces and deletes the file, and a      *)
(* client that keeps what it was sent and asks again with its validators.  *)
(*                                                                         *)
(* The requested path is a file, a directory or nothing; a directory may   *)
(* have an index.html, which is then the file that is served.  The content *)
(* of a file is its version, once for every byte: what a reader can get is *)
(* bytes of one version or of another.                                     *)
(***************************************************************************)
EXTENDS ByteRange, Bitwise

CONSTANTS Sizes,       \* the sizes of files
          Second,      \* how many ticks of the file clock make a second
          Ranges,      \* Range headers, as ByteRange's tokens; <<>> is none
          Configs,     \* the StaticConfigs: caching, range_requests, ...
          MaxClock,    \* bound: the time
          MaxWrites,   \* bound: how often the file is changed
          MaxRequests  \* bound: how many requests the client makes

ConfigSet == [caching : BOOLEAN, range_requests : BOOLEAN, directory_listing : BOOLEAN,
              compression : BOOLEAN]

ASSUME StaticAssumption ==
  /\ Sizes \subseteq Nat \ {0} /\ Second \in Nat \ {0}
  /\ Configs \subseteq ConfigSet
  /\ MaxClock \in Nat /\ MaxWrites \in Nat /\ MaxRequests \in Nat

\* mtime is 0 only where there is no file.
File(v, size, mtime) == [kind |-> "file", version |-> v, size |-> size, mtime |-> mtime]
NoFile    == [kind |-> "none", version |-> 0, size |-> 0, mtime |-> 0]
Directory == [kind |-> "directory", version |-> 0, size |-> 0, mtime |-> 0]

VARIABLES config,    \* the StaticConfig
          path,      \* what is at the requested path
          index,     \* what is at path/index.html, if path is a directory
          clock,     \* the file clock
          writes,    \* how often the file has been changed
          at,        \* the next file system call, or "idle"
          request,   \* the request being served
          fpath,     \* "path" or "index": the file chosen
          mtime, file_size, etag, last_modified,   \* the locals
          file,      \* what the ifstream reads
          response,  \* the last response
          cache,     \* what the client keeps
          requests,  \* how many requests the client has made
          seen,      \* the versions there were during this request
          versions   \* all files there have been

fs     == <<config, path, index, clock, writes>>
locals == <<fpath, mtime, file_size, etag, last_modified, file>>
client == <<request, cache, requests>>
vars   == <<fs, at, locals, client, response, seen, versions>>

At(name) == IF name = "path" THEN path ELSE index

\* The file that a request comes to, if nobody changes it.
Target == IF path.kind = "directory" THEN index ELSE path

\* mtime ^ size.
make_etag(t, size) == t ^^ size

\* The two clocks are read one after the other, so that the time may come out a
\* tick late; the text has no fractions of a second.
format_http_date(t) == {t \div Second, (t + 1) \div Second}

\* Bytes first to last of a file: each is a version and a place, or a zero where
\* the file has none.
Byte(f, k) == IF k < f.size THEN <<f.version, k>> ELSE <<0, 0>>

\* A bug of the range: no seekg (AnswersWhatIsThere).
BytesOfFront(f, first, last) == [k \in 1..(last - first + 1) |-> Byte(f, k - 1)]

Bytes(f, first, last) == [k \in 1..(last - first + 1) |-> Byte(f, first + k - 1)]

Contents(f) == Bytes(f, 0, f.size - 1)

\* A response.  tag and date are 0 where there is no such header.
Answer(status, body) ==
  [status |-> status, body |-> body, tag |-> 0, date |-> 0, first |-> 0, total |-> 0, gzip |-> FALSE]

NoCache == [held |-> FALSE]

Init ==
  /\ config \in Configs
  /\ \/ path \in {File(1, n, Second) : n \in Sizes} \cup {NoFile} /\ index = NoFile
     \/ path = Directory /\ index \in {File(1, n, Second) : n \in Sizes} \cup {NoFile}
  /\ clock = Second
  /\ writes = 0
  /\ at = "idle"
  /\ request = [inside |-> TRUE, inm |-> "none", ims |-> "none", range |-> <<>>, gzip |-> FALSE]
  /\ fpath = "path"
  /\ mtime = 0 /\ file_size = 0 /\ etag = 0 /\ last_modified = 0
  /\ file = NoFile
  /\ response = Answer(0, <<>>)
  /\ cache = NoCache
  /\ requests = 0
  /\ seen = {}
  /\ versions = {path, index} \ {NoFile, Directory}

-------------------------------------------------------------------------------
(***************************************************************************)
(* The rest of the world.                                                  *)
(***************************************************************************)
Tick ==
  /\ clock < MaxClock
  /\ clock' = clock + 1
  /\ UNCHANGED <<config, path, index, writes, at, locals, client, response, seen, versions>>

PutFile(f) ==
  IF path.kind = "directory" THEN index' = f /\ UNCHANGED path ELSE path' = f /\ UNCHANGED index

\* The file is written: in its place, where a reader that has it open finds the
\* new content, or beside it and renamed, or it is created.
WriteFile ==
  /\ writes < MaxWrites
  /\ writes' = writes + 1
  /\ \E n \in Sizes :
       LET f == File(writes + 2, n, clock)
       IN  /\ PutFile(f)
           /\ file' \in {file} \cup (IF file # NoFile /\ file = Target THEN {f} ELSE {})
           /\ seen' = seen \cup {f.version}
           /\ versions' = versions \cup {f}
  /\ UNCHANGED <<config, clock, at, fpath, mtime, file_size, etag, last_modified, client, response>>

DeleteFile ==
  /\ writes < MaxWrites
  /\ Target.kind = "file"
  /\ writes' = writes + 1
  /\ PutFile(NoFile)
  /\ seen' = seen \cup {NoFile.version}
  /\ UNCHANGED <<config, clock, at, locals, client, response, versions>>

\* A request, with what the client keeps as its validators, or without.
Request ==
  /\ at = "idle"
  /\ requests < MaxRequests
  /\ requests' = requests + 1
  /\ \E inm \in {"none", "any"} \cup (IF cache.held THEN {"cached"} ELSE {}),
        ims \in {"none"} \cup (IF cache.held THEN {"cached"} ELSE {}),
        range \in Ranges, gzip \in {FALSE, config.compression}, inside \in BOOLEAN :
       request' = [inside |-> inside, inm |-> inm, ims |-> ims, range |-> range, gzip |-> gzip]
  /\ at' = "status"
  /\ fpath' = "path"
  /\ seen' = {Target.version}
  /\ UNCHANGED <<fs, mtime, file_size, etag, last_modified, file, response, cache, versions>>

-------------------------------------------------------------------------------
(***************************************************************************)
(* serve_static.                                                           *)
(***************************************************************************)
\* The client gets the answer, and keeps a whole file.
Respond(r) ==
  /\ response' = r
  /\ cache' = IF r.status = 200 /\ r.tag # 0
                THEN [held |-> TRUE, tag |-> r.tag, date |-> r.date, body |-> r.body]
                ELSE cache
  /\ at' = "idle"
  /\ UNCHANGED <<request, requests>>

Goto(next) == at' = next /\ UNCHANGED <<response, client>>

NotFound == Respond(Answer(404, <<>>))

\* A path with "..", or one that leads out of the root, is refused; then comes
\* fs::status(fpath).
Status ==
  /\ at = "status"
  /\ \/ ~ request.inside /\ Respond(Answer(400, <<>>))
     \/ request.inside /\ path.kind = "directory" /\ Goto("exists")
     \/ request.inside /\ path.kind = "none" /\ NotFound
     \/ request.inside /\ path.kind = "file" /\ Goto("mtime")
  /\ UNCHANGED <<fs, locals, seen, versions>>

\* fs::exists(index), else the listing or 404.
Exists ==
  /\ at = "exists"
  /\ \/ index.kind = "file" /\ fpath' = "index" /\ Goto("index")
     \/ index.kind # "file" /\ UNCHANGED fpath
        /\ IF config.directory_listing THEN Respond(Answer(200, <<>>)) ELSE NotFound
  /\ UNCHANGED <<fs, mtime, file_size, etag, last_modified, file, seen, versions>>

\* fs::status(index).
IndexStatus ==
  /\ at = "index"
  /\ IF index.kind = "file" THEN Goto("mtime") ELSE NotFound
  /\ UNCHANGED <<fs, locals, seen, versions>>

\* fs::last_write_time, whose error the next call overwrites.
LastWriteTime ==
  /\ at = "mtime"
  /\ mtime' = At(fpath).mtime
  /\ Goto("size")
  /\ UNCHANGED <<fs, fpath, file_size, etag, last_modified, file, seen, versions>>

NotModified(tag, date) == [Answer(304, <<>>) EXCEPT !.tag = tag, !.date = date]

\* Do the client's validators hold?  inm is compared first; ims also if inm is
\* there and did not match.
Unmodified(tag, date) ==
  \/ request.inm = "any"
  \/ request.inm = "cached" /\ cache.tag = tag
  \/ request.ims = "cached" /\ cache.date = date

\* fs::file_size, then the conditional requests.
FileSize ==
  /\ at = "size"
  /\ file_size' = At(fpath).size
  /\ IF At(fpath).kind # "file" THEN NotFound /\ UNCHANGED <<etag, last_modified>>
     ELSE IF ~ config.caching THEN Goto("open") /\ etag' = 0 /\ last_modified' = 0
     ELSE /\ etag' = make_etag(mtime, file_size')
          /\ last_modified' \in format_http_date(mtime)
          /\ IF Unmodified(etag', last_modified')
               THEN Respond(NotModified(etag', last_modified')) ELSE Goto("open")
  /\ UNCHANGED <<fs, fpath, mtime, file, seen, versions>>

\* std::ifstream file(fpath), and the refusal of a Range header.
Open ==
  /\ at = "open"
  /\ IF At(fpath).kind # "file" THEN NotFound
     ELSE IF config.range_requests /\ request.range # <<>> /\ ~ parse_range(request.range, file_size).some
       THEN Respond([Answer(416, <<>>) EXCEPT !.total = file_size])
     ELSE Goto("read")
  /\ file' = IF at' = "read" THEN At(fpath) ELSE NoFile
  /\ UNCHANGED <<fs, fpath, mtime, file_size, etag, last_modified, seen, versions>>

\* A bug of the order: the tag and the date are computed after the file was
\* opened (NotModifiedIsTrue).
ReadTaggingLate ==
  /\ at = "read"
  /\ last_modified' \in format_http_date(At(fpath).mtime)
  /\ LET tagged(r) == [r EXCEPT !.tag = make_etag(At(fpath).mtime, At(fpath).size),
                                !.date = last_modified']
         range     == parse_range(request.range, file_size)
     IN  IF config.range_requests /\ request.range # <<>>
           THEN Respond(tagged([Answer(206, Bytes(file, range.first, range.last))
                                  EXCEPT !.first = range.first, !.total = file_size]))
           ELSE Respond(tagged(Answer(200, Contents(file))))
  /\ file' = NoFile
  /\ UNCHANGED <<fs, fpath, mtime, file_size, etag, seen, versions>>

\* The bytes are read: the range, as far as they are there, or all there is.
Read ==
  /\ at = "read"
  /\ LET tagged(r) == [r EXCEPT !.tag = etag, !.date = last_modified]
         range     == parse_range(request.range, file_size)
     IN  IF config.range_requests /\ request.range # <<>>
           THEN Respond(tagged([Answer(206, Bytes(file, range.first, range.last))
                                  EXCEPT !.first = range.first, !.total = file_size]))
           ELSE \E gzip \in {FALSE, request.gzip} :
                  Respond(tagged([Answer(200, Contents(file)) EXCEPT !.gzip = gzip]))
  /\ file' = NoFile
  /\ UNCHANGED <<fs, fpath, mtime, file_size, etag, last_modified, seen, versions>>

serve_static == Status \/ Exists \/ IndexStatus \/ LastWriteTime \/ FileSize \/ Open \/ Read

Next == Tick \/ WriteFile \/ DeleteFile \/ Request \/ serve_static

Spec == Init /\ [][Next]_vars

-------------------------------------------------------------------------------
(***************************************************************************)
(* Properties.                                                             *)
(***************************************************************************)
\* Every variable has its type.
TypeOK ==
  /\ config \in Configs
  /\ at \in {"idle", "status", "exists", "index", "mtime", "size", "open", "read"}
  /\ fpath \in {"path", "index"}
  /\ path.kind \in {"file", "none", "directory"} /\ index.kind \in {"file", "none"}
  /\ file_size \in Sizes \cup {0}
  /\ response.status \in {0, 200, 206, 304, 400, 404, 416}
  /\ (response.status = 206) => response.body # <<>> /\ response.first < response.total
  /\ (file.kind = "file") = (at = "read")

Responds == at # "idle" /\ at' = "idle"

\* What the Range header asks for, in a file of this size.
Asked(f) == parse_range(request.range, f.size)

\* The answer to a request during which nobody touched the file.
RightAnswer(r, f) ==
  CASE ~ request.inside -> r.status = 400
    [] request.inside /\ f.kind # "file" -> r.status \in {200, 404} /\ r.body = <<>>
    [] OTHER ->
         /\ r.status \in {200, 206, 304, 416}
         /\ r.status = 200 => r.body = Contents(f)
         /\ r.status = 206 => /\ r.first = Asked(f).first /\ r.total = f.size
                              /\ r.body = SubSeq(Contents(f), Asked(f).first + 1, Asked(f).last + 1)
         /\ r.status = 416 => ~ Asked(f).some

\* A request during which the file is left alone is answered with what is in it:
\* all of it, or exactly the bytes the range names, and never with padding.
AnswersWhatIsThere ==
  [][Responds /\ seen = {Target.version} => RightAnswer(response', Target)]_vars

\* Tags and dates tell the files apart there have been: no two files have the
\* same time of change (for dates, not within the same second), and no tag is
\* that of another time and size.
TagsDistinct ==
  /\ \A f, g \in versions : f # g => f.mtime # g.mtime
  /\ \A f, g, h, k \in versions \cup {NoFile} :
       make_etag(f.mtime, g.size) = make_etag(h.mtime, k.size) => f.mtime = h.mtime /\ g.size = k.size

DatesDistinct ==
  \A f, g \in versions \cup {NoFile} :
    f # g => format_http_date(f.mtime) \cap format_http_date(g.mtime) = {}

\* A 304 confirms what the client keeps: its copy is a content the file had at
\* some moment of this request, whenever the file was changed between the calls
\* that looked at it, in this request and in the one that filled the cache.
\* This needs the tag to be computed before the file is read, and validators
\* that tell files apart.  (A file that is gone when its time is read, and back
\* when its size is, has a tag without a time, which says nothing.)
NotModifiedIsTrue ==
  [][(Responds /\ response'.status = 304 /\ request.inm # "any" /\ mtime # 0
        /\ TagsDistinct /\ DatesDistinct)
       => \E f \in versions : f.version \in seen /\ cache.body = Contents(f)]_vars

\* A client whose tag is not the file's tag gets no 304: the code is to "honour
\* If-None-Match / If-Modified-Since conditional requests"
\* (static_files.hpp:45).
TagDecides ==
  (at = "idle" /\ response.status = 304 /\ request.inm = "cached") => cache.tag = response.tag
===============================================================================
