--------------------------- MODULE StaticHandler ----------------------------
(***************************************************************************)
(* The handler of static files (http/static_handler.cc), run by the        *)
(* threads of the handler stage over one IOCache, and the HttpResponse     *)
(* (http/http_wrapper.cc) it fills.                                        *)
(*                                                                         *)
(* A request names its target by the entries of its decoded path.  Of the  *)
(* answer the model keeps the status lines, the Content-Length header, the *)
(* number of body bytes, which bytes of the copy in the cache were read    *)
(* and who owns the file descriptor.                                       *)
(***************************************************************************)
EXTENDS IOCache, SequencesExt

CONSTANTS
  Requests,     \* the requests: see RequestType
  Root,         \* Root[entries of a path]: what stat64 finds under doc_root
  ErrorPages,   \* status codes that have a page under error_root
  PageBytes,    \* size of an error page, of a message, of a directory listing
  Packed,       \* Packed[v]: size of version v deflated, or an outcome below
  allow_index, allow_compression

VARIABLES
  req,          \* req[t]: the request that t handles
  honest        \* history: was every answer Honest?

staticVars == <<cacheVars, req, honest>>

\* Outcomes of deflate that give nothing: an error, or a loop that never ends.
DeflateError == -1
DeflateSpins == -2

Methods == {"GET", "HEAD", "POST", "PUT"}

\* range is where the wanted bytes begin, or -1; since is the time in
\* If-Modified-Since, or -1 when it is absent or not a date.
RequestType == [method : Methods, path : Seq(STRING), since : Int, range : Int,
                gzip : BOOLEAN]

\* The codes of the table of common responses.
HttpResponseStatus ==
  (100..101) \cup (200..206) \cup (300..307 \ {306}) \cup (400..417) \cup (500..505)

-----------------------------------------------------------------------------
(* HttpResponse.                                                           *)

\* reset().  prepared: bytes in prepare_buffer_; direct: it is switched off.
NewResponse == [status |-> <<>>, length |-> -1, prepared |-> 0, direct |-> FALSE,
                body |-> 0, to |-> 0, fd |-> "none"]

\* respond: the header, with the length of the prepared body if none was set,
\* then that body.
respond(r, code) ==
  [r EXCEPT !.status = Append(@, code),
            !.length = IF @ < 0 THEN r.prepared ELSE @,
            !.direct = TRUE, !.body = @ + r.prepared]

write_data(r, n) ==
  IF r.direct THEN [r EXCEPT !.body = @ + n] ELSE [r EXCEPT !.prepared = @ + n]

respond_with_message(r, code) ==
  respond(write_data([NewResponse EXCEPT !.status = r.status, !.body = r.body,
                                         !.fd = r.fd], PageBytes), code)

\* The page for the status, if there is one, or a message.
respond_error(r, code) ==
  IF code \in ErrorPages
  THEN [respond([r EXCEPT !.direct = TRUE, !.length = PageBytes], code)
          EXCEPT !.body = @ + PageBytes]
  ELSE respond_with_message(r, code)

-----------------------------------------------------------------------------
(* Reading the request.                                                    *)

\* Entries "." and ".." after a slash are emptied, what is before the first
\* slash is kept.
string_remove_dots(path) ==
  [i \in DOMAIN path |-> IF i > 1 /\ path[i] \in {".", ".."} THEN "" ELSE path[i]]

\* What the path names: empty entries name the directory they are in.
Target(path) ==
  LET names == SelectSeq(string_remove_dots(path), LAMBDA e : e # "")
  IN  IF names \in DOMAIN Root THEN Root[names] ELSE "missing"

\* The byte after "-" is never read: the range runs to the end of the file.
parse_range(range, size) == [offset |-> range, length |-> size - range]

\* The date is compared after mktime, which may take an hour off it: tm_isdst
\* of what was parsed is not initialized.
validate_client_cache(r, mtime, hour) == r.since >= 0 /\ mtime <= r.since - hour

is_request_compression(r) == allow_compression /\ r.method # "HEAD" /\ r.gzip

-----------------------------------------------------------------------------
(* respond_file_content, once the cache has been asked.                    *)

\* The descriptor goes to the FileSender, or bytes of the copy are written.
WriteBody(r, copy, g) ==
  IF copy = NULL THEN [r EXCEPT !.body = @ + g.length, !.fd = "stream"]
  ELSE [write_data(r, g.length) EXCEPT !.to = g.offset + g.length]

\* The body as it is.
Plain(r, copy, q, g, code) ==
  LET head == respond([r EXCEPT !.direct = TRUE, !.length = g.length], code)
  IN  IF q.method = "HEAD" THEN head ELSE WriteBody(head, copy, g)

\* A gzip header of ten bytes and the n bytes that deflate put out.
write_data_compression(r, g, n, code) ==
  LET head == respond([r EXCEPT !.direct = TRUE, !.length = n + 10], code)
  IN  [write_data(head, n + 10) EXCEPT !.to = g.offset + g.length]

\* Does the answer go through deflate, and with which result?
Deflates(copy, q) == copy # NULL /\ is_request_compression(q)

RespondContent(r, copy, q, a) ==
  LET g == IF q.range = -1 THEN [offset |-> 0, length |-> a.size]
           ELSE parse_range(q.range, a.size)
      code == IF q.range = -1 THEN 200 ELSE 206
  IN  IF g.offset + g.length > a.size THEN respond_error(r, 416)
      ELSE IF Deflates(copy, q) /\ Packed[copy.data] # DeflateError
      THEN write_data_compression(r, g, Packed[copy.data], code)
      ELSE Plain(r, copy, q, g, code)

\* done: the descriptor is closed if there was a copy.
Closed(r, copy) ==
  IF copy = NULL THEN r
  ELSE [r EXCEPT !.fd = IF @ = "open" THEN "closed" ELSE "not ours"]

respond_file_content(r, copy, q, hour, a, opens) ==
  IF q.method # "HEAD" /\ ~opens THEN respond_error(r, 403)
  ELSE LET s == [r EXCEPT !.fd = IF q.method = "HEAD" THEN "zero" ELSE "open"]
       IN  Closed(IF validate_client_cache(q, a.mtime, hour) THEN respond(s, 304)
                  ELSE RespondContent(s, copy, q, a), copy)

\* The listing is prepared, or for HEAD only counted, from the -1 that stands
\* for no length.
respond_directory_list(r, q) ==
  respond(IF q.method = "HEAD" THEN [r EXCEPT !.length = @ + PageBytes]
          ELSE write_data(r, PageBytes), 200)

-----------------------------------------------------------------------------
(* The steps of a thread.                                                  *)

\* Is r an answer to q that keeps what AnswerIsHonest says?
Honest(q, r, copy) ==
  q.method # "PUT" =>
    /\ Len(r.status) = 1 /\ r.status[1] \in HttpResponseStatus
    /\ q.method # "HEAD" => r.body = r.length
    /\ q.method = "HEAD" => r.body = 0 \/ r.status[1] >= 400
    /\ r.to <= IF copy = NULL THEN 0 ELSE copy.size
    /\ r.fd # "not ours"

Answer(q, r, copy) == honest' = (honest /\ Honest(q, r, copy))

\* handle_request of another method answers 400, and goes on.
FirstAnswer(q) ==
  IF q.method \in {"GET", "POST", "HEAD"} THEN NewResponse
  ELSE respond_error(NewResponse, 400)

\* Anything but a regular file is answered at once.  Among the OTHER are
\* directories that opendir refuses.
HandleOther(t, q) ==
  /\ pc[t] = "idle" /\ Target(q.path) \notin Paths
  /\ Answer(q, CASE Target(q.path) = "missing" -> respond_error(FirstAnswer(q), 404)
                 [] Target(q.path) = "directory" /\ allow_index ->
                      respond_directory_list(FirstAnswer(q), q)
                 [] OTHER -> respond_error(FirstAnswer(q), 403), NULL)
  /\ UNCHANGED <<cacheVars, req>>

HandleFile(t, q) ==
  /\ Target(q.path) \in Paths
  /\ IF q.method = "HEAD" THEN Bypass(t, Target(q.path)) ELSE Lookup(t, Target(q.path))
  /\ req' = [req EXCEPT ![t] = q]
  /\ UNCHANGED honest

\* deflate will have no room for its output, and be called again and again.
Spins(t, hour) ==
  /\ Deflates(cached[t], req[t]) /\ Packed[cached[t].data] = DeflateSpins
  /\ Readable[file[asked[t].path]]
  /\ ~validate_client_cache(req[t], asked[t].mtime, hour)

Respond(t, hour) ==
  /\ ~Spins(t, hour)
  /\ Done(t)
  /\ Answer(req[t], respond_file_content(FirstAnswer(req[t]), cached[t], req[t], hour,
                                         asked[t], Readable[file[asked[t].path]]),
            cached[t])
  /\ req' = [req EXCEPT ![t] = NULL]

Spin(t, hour) == Hang(t) /\ Spins(t, hour) /\ UNCHANGED <<req, honest>>

StaticInit ==
  /\ CacheInit
  /\ req = [t \in Threads |-> NULL]
  /\ honest = TRUE

StaticStep(t) ==
  \/ access_cache(t) /\ UNCHANGED <<req, honest>>
  \/ \E hour \in {0, 1} : Respond(t, hour) \/ Spin(t, hour)

StaticNext ==
  \/ \E t \in Threads : StaticStep(t)
  \/ \E t \in Threads, q \in Requests : HandleOther(t, q) \/ HandleFile(t, q)
  \/ \E p \in Mutable : Rewrite(p) /\ UNCHANGED <<req, honest>>

-----------------------------------------------------------------------------
(* Properties.                                                             *)

\* Types; and a thread has a request exactly while it is not idle, an entry of
\* its own exactly between create_cache_entry and add_entry.
StaticTypeOK ==
  /\ \A t \in Threads :
       /\ pc[t] \in {"idle", "access", "load", "add", "open", "spin"}
       /\ req[t] \in Requests \cup {NULL} /\ (req[t] = NULL) = (pc[t] = "idle")
       /\ (created[t] = NULL) = (pc[t] # "add")
  /\ honest \in BOOLEAN


\* Every request is answered in the end, however loads of the same file
\* interleave, unless deflate spins on it.
StaticAnswers ==
  \A t \in Threads : pc[t] # "idle" ~> pc[t] \in {"idle", "spin"}
=============================================================================
