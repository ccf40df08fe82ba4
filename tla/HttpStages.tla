----------------------------- MODULE HttpStages -----------------------------
(***************************************************************************)
(* One HTTP connection on its way through the parser stage and the handler *)
(* stage (http/http_stages.cc, http/connection.cc), with the controller    *)
(* that both of them report the load to.  The connection's lock makes the  *)
(* steps of the stages atomic; what the pollers and the write back stage   *)
(* do is in Pipeline.                                                      *)
(*                                                                         *)
(* The client sends the requests of one script.  A handler answers         *)
(* ("static"), suspends the request and answers when it is resumed         *)
(* ("fcgi"), does nothing ("off", a fcgi handler without a script), or     *)
(* reads the body with read_data and answers ("reader").                   *)
(***************************************************************************)
EXTENDS HttpParser, Configuration, Controller

CONSTANTS
  Scripts,                      \* sequences of requests: see Render
  kMaxBodySize,
  Cuts,                         \* bound: where a buffer of a length may be cut in pages
  kMaxContinuesRequestNumber

VARIABLES
  script,     \* the requests that the client sends
  coming,     \* tokens that have not been read
  buf,        \* in_stream().buffer()
  parser,     \* parser_ and what it has collected
  requests,   \* requests_
  skip,       \* bytes_should_skip_
  to_parse,   \* is the connection queued for the parser stage?
  to_handle,  \* ... for the handler stage?
  cont,       \* the continuation: "none", "suspended" or "ready"
  state,      \* "open", "inactive" or "gone"
  close_after_finish,
  served,     \* history: requests that are finished
  read_body   \* history: has a handler read a body with read_data?

connVars == <<script, coming, buf, parser, requests, skip, to_parse, to_handle, cont,
              state, close_after_finish, served, read_body>>
httpVars == <<connVars, controllerVars>>

-----------------------------------------------------------------------------
(* What a client sends: a request is [method, path, query, fragment,       *)
(* minor, headers, length, chunks], the headers being pairs of a name and  *)
(* a value, and query and fragment <<>> when they are absent.  The method  *)
(* "junk" is not one.                                                      *)

AllHeaders(r) ==
  r.headers
    \o (IF r.length = 0 THEN <<>> ELSE <<<<<<"Content-Length">>, <<ToString(r.length)>>>>>>)
    \o (IF r.chunks = <<>> THEN <<>> ELSE <<<<<<"Transfer-Encoding">>, <<"chunked">>>>>>)

Uri(r) == r.path \o (IF r.query = <<>> THEN <<>> ELSE <<"?">> \o r.query)

Render(r) ==
  LET header(h) == h[1] \o <<":", " ">> \o h[2] \o <<CRLF>>
      hs == AllHeaders(r)
      chunk(c) == <<ToString(Len(c)), CRLF>> \o c \o <<CRLF>>
  IN  <<r.method, " ">> \o Uri(r)
        \o (IF r.fragment = <<>> THEN <<>> ELSE <<"#">> \o r.fragment)
        \o <<" ", Versions[r.minor + 1], CRLF>>
        \o FlattenSeq([i \in DOMAIN hs |-> header(hs[i])]) \o <<CRLF>>
        \o [i \in 1..r.length |-> "data"]
        \o FlattenSeq([i \in DOMAIN r.chunks |-> chunk(r.chunks[i])])
        \o (IF r.chunks = <<>> THEN <<>> ELSE <<"0", CRLF, CRLF>>)

ValueOf(r, name) ==
  LET i == SelectInSeq(r.headers, LAMBDA h : h[1] = <<name>>)
  IN  IF i = 0 THEN <<>> ELSE r.headers[i][2]

-----------------------------------------------------------------------------
(* HttpConnection.                                                         *)

\* finish_parse: the rule is found by the Host header, from 1.1 on.
finish_parse(r) ==
  LET host == IF r.minor = 1 /\ ValueOf(r, "Host") # <<>> THEN ValueOf(r, "Host")
              ELSE <<"default">>
      m == match_host(host, r)
  IN  [method |-> r.method, minor |-> r.minor, length |-> r.length,
       keep_alive |-> r.keep_alive, query_string |-> r.query_string,
       fragment |-> r.fragment, headers |-> r.headers, chunk |-> r.chunk,
       complete_uri |-> r.uri, uri |-> m.uri, path |-> m.path, rule |-> m.rule]

HasBody(reqs) == reqs # <<>> /\ Last(reqs).length > 0

SkipsAll(c) == [c EXCEPT !.skip = @ - Len(c.buf), !.buf = <<>>]

\* Bytes of a body that its handler has left are skipped.
SkipBody(c) ==
  IF Len(c.buf) > c.skip
  THEN [c EXCEPT !.buf = SubSeq(@, c.skip + 1, Len(@)), !.skip = 0]
  ELSE [c EXCEPT !.skip = @ - Len(c.buf), !.buf = <<>>]

\* The requests that http_parser_execute has completed are appended.
Collect(c, r) ==
  [c EXCEPT !.parser = [r.parser EXCEPT !.done = <<>>],
            !.requests = @ \o [i \in DOMAIN r.parser.done |-> finish_parse(r.parser.done[i])],
            !.consumed = @ + r.consumed]

\* A page of the buffer, which is left after a request that has a body and
\* after an error.
ParsePage(c, page) ==
  IF page = <<>> \/ HasBody(c.requests) \/ http_parser_has_error(c.parser) THEN c
  ELSE Apply(LAMBDA seg : Apply(LAMBDA r : Collect(c, r), http_parser_execute(c.parser, seg)),
             page)

\* A buffer of two pages that meet after cut tokens.
ParseBuffer(c, cut) ==
  LET first == SmallerOf(cut, Len(c.buf))
      Second(d) == ParsePage(d, SubSeq(d.buf, first + 1, Len(d.buf)))
      Pop(d) == [d EXCEPT !.buf = SubSeq(@, d.consumed + 1, Len(@))]
  IN  Apply(Pop, Apply(Second, ParsePage(c, SubSeq(c.buf, 1, first))))

do_parse(cut) ==
  LET start == [buf |-> buf, skip |-> skip, parser |-> parser, requests |-> requests,
                consumed |-> 0]
  IN  IF HasBody(requests) THEN start
      ELSE Apply(LAMBDA c : IF c.skip > 0 THEN c ELSE ParseBuffer(c, cut),
                 IF skip = 0 THEN start ELSE SkipBody(start))

\* A body below kMaxBodySize is waited for.
is_ready(c) ==
  /\ c.requests # <<>>
  /\ ~(Last(c.requests).length < kMaxBodySize /\ Len(c.buf) < Last(c.requests).length)

-----------------------------------------------------------------------------
(* The stages.                                                             *)

\* PollInStage reads, and queues the connection for the parser stage.
Read(n) ==
  /\ state = "open" /\ cont # "suspended"
  /\ n <= Len(coming)
  /\ buf' = buf \o SubSeq(coming, 1, n)
  /\ coming' = SubSeq(coming, n + 1, Len(coming))
  /\ to_parse' = TRUE
  /\ UNCHANGED <<script, parser, requests, skip, to_handle, cont, state,
                 close_after_finish, served, read_body, controllerVars>>


\* The requests that are new since the stage began.
Delta(c) == Len(c.requests) - Len(requests)

\* HttpParserStage::process_task.  With an error active_close makes the
\* connection inactive; the requests before it may still be handled.
Parse(cut) ==
  /\ to_parse /\ cont # "suspended"
  /\ to_parse' = FALSE
  /\ \E c \in {do_parse(cut)} :
       LET failed == http_parser_has_error(c.parser)
       IN  /\ buf' = c.buf /\ skip' = c.skip /\ parser' = c.parser
           /\ requests' = c.requests
           /\ increase_load((IF failed THEN -Len(c.requests) ELSE 0)
                            + (IF is_ready(c) THEN Delta(c) ELSE 0))
           /\ state' = IF failed /\ state = "open" THEN "inactive" ELSE state
           /\ to_handle' = (to_handle \/ is_ready(c))
  /\ UNCHANGED <<script, coming, cont, close_after_finish, served, read_body, tuneVars>>

\* trigger_handler: the first handler of the chain that does anything.  No
\* rule, and a chain in which none does, are answered 503.
Triggered(r) == SelectInSeq(r.rule.chain, LAMBDA h : h # "off")
Outcome(r) == IF Triggered(r) = 0 THEN "unavailable" ELSE r.rule.chain[Triggered(r)]

\* read_data for a whole body: a copy from the buffer, and got bytes from the
\* socket when the buffer has too few; without any read returns -1.
read_data(h, r, got) ==
  LET copied == SmallerOf(Len(h.buf), r.length)
      nread == IF copied = r.length THEN copied ELSE copied + (IF got = 0 THEN -1 ELSE got)
  IN  [h EXCEPT !.skip = r.length - (IF nread > 0 THEN nread ELSE 0),
                !.coming = IF copied = r.length THEN @ ELSE SubSeq(@, got + 1, Len(@)),
                !.read_body = TRUE]

\* The constructor of HttpRequest, the handler that answers, and pop_front.
Answer(h, got) ==
  LET r == Head(h.requests)
      handled == IF Outcome(r) = "reader" /\ r.length > 0 THEN read_data(h, r, got)
                 ELSE [h EXCEPT !.skip = r.length]
  IN  [handled EXCEPT !.requests = Tail(@), !.served = @ + 1, !.cont = "none",
                      !.closes = ~r.keep_alive]

RECURSIVE Serve(_, _, _)
Serve(h, got, i) ==
  IF i = 0 \/ h.requests = <<>> \/ h.closes THEN h
  ELSE IF Outcome(Head(h.requests)) = "fcgi" /\ h.cont = "none"
  THEN [h EXCEPT !.cont = "suspended", !.skip = Head(h.requests).length]
  ELSE Apply(LAMBDA next : Serve(next, got, i - 1), Answer(h, got))

\* What read may return for a body that is not in the buffer.
Rest == IF HasBody(requests) THEN SmallerOf(Len(coming), Last(requests).length) ELSE 0

NeverRequeues(h) == FALSE

\* What is left is for the next turn, unless the connection is to be closed.
Requeues(h) == h.requests # <<>> /\ h.cont = "none" /\ ~h.closes

\* HttpHandlerStage::process_task.
Handle(got) ==
  /\ to_handle /\ cont # "suspended"
  /\ got <= Rest
  /\ \E h \in {Serve([requests |-> requests, skip |-> skip, coming |-> coming, buf |-> buf,
                      cont |-> cont, served |-> served, read_body |-> read_body,
                      closes |-> FALSE], got, kMaxContinuesRequestNumber)} :
       /\ requests' = h.requests /\ skip' = h.skip /\ coming' = h.coming
       /\ cont' = h.cont /\ served' = h.served /\ read_body' = h.read_body
       /\ close_after_finish' = (close_after_finish \/ h.closes)
       /\ to_handle' = Requeues(h)
       /\ decrease_load(Len(requests) - Len(h.requests))
  /\ UNCHANGED <<script, buf, parser, to_parse, state, tuneVars>>

\* HttpHandlerStage::resched_continuation.
resched_continuation ==
  /\ cont = "suspended"
  /\ cont' = "ready" /\ to_handle' = TRUE
  /\ UNCHANGED <<script, coming, buf, parser, requests, skip, to_parse, state,
                 close_after_finish, served, read_body, controllerVars>>

\* The client hangs up, or all is written after close_after_finish.
Close ==
  /\ state = "open" /\ cont # "suspended"
  /\ state' = "inactive"
  /\ UNCHANGED <<script, coming, buf, parser, requests, skip, to_parse, to_handle, cont,
                 close_after_finish, served, read_body, controllerVars>>

\* HttpHandlerStage::sched_remove, when the connection is disposed of.
sched_remove ==
  /\ state = "inactive" /\ cont # "suspended"
  /\ state' = "gone" /\ to_parse' = FALSE /\ to_handle' = FALSE /\ requests' = <<>>
  /\ increase_load(-Len(requests))
  /\ UNCHANGED <<script, coming, buf, parser, skip, cont, close_after_finish, served,
                 read_body, tuneVars>>

\* The controller's own thread, and a thread that it has started.
Tune == (check_thread \/ exit_auto_thread) /\ UNCHANGED connVars

HttpInit ==
  /\ script \in Scripts
  /\ coming = FlattenSeq([i \in DOMAIN script |-> Render(script[i])])
  /\ buf = <<>> /\ parser = http_parser_init /\ requests = <<>> /\ skip = 0
  /\ to_parse = FALSE /\ to_handle = FALSE /\ cont = "none" /\ state = "open"
  /\ close_after_finish = FALSE /\ served = 0 /\ read_body = FALSE
  /\ ControllerInit

HttpNext ==
  \/ \E n \in 1..Len(coming) : Read(n)
  \/ \E cut \in Cuts[Len(buf)] : Parse(cut)
  \/ \E got \in 0..Len(coming) : Handle(got)
  \/ resched_continuation
  \/ Close
  \/ sched_remove
  \/ Tune

\* The poller and the threads of the stages run, and a suspended request is
\* resumed (FcgiHandler).  A step that takes the connection from the queue of
\* the parser stage is Parse, or the end of the connection.
HttpSpec ==
  /\ HttpInit /\ [][HttpNext]_httpVars
  /\ WF_httpVars(\E n \in 1..Len(coming) : Read(n))
  /\ WF_to_parse(to_parse /\ cont # "suspended" /\ to_parse' = FALSE)
  /\ WF_httpVars(\E got \in 0..Len(coming) : Handle(got))
  /\ WF_httpVars(resched_continuation)

-----------------------------------------------------------------------------
(* What should become of a script.                                         *)

TooLong(r) ==
  \/ Len(Uri(r)) > MAX_FIELD_SIZE \/ Len(r.fragment) > MAX_FIELD_SIZE
  \/ \E i \in DOMAIN r.headers, j \in 1..2 : Len(r.headers[i][j]) > MAX_FIELD_SIZE

\* The requests that precede what the grammar or MAX_FIELD_SIZE refuses.
Accepted ==
  LET bad == SelectInSeq(script, LAMBDA r : r.method \notin Methods \/ TooLong(r))
  IN  IF bad = 0 THEN script ELSE SubSeq(script, 1, bad - 1)

KeepsAlive(r) == LET c == ValueOf(r, "Connection")
                 IN  c = <<"Keep-Alive">> \/ (c # <<"close">> /\ r.minor = 1)

AsSent(r) ==
  finish_parse([method |-> r.method, minor |-> r.minor, length |-> r.length,
                keep_alive |-> KeepsAlive(r), uri |-> Uri(r), path |-> r.path,
                query_string |-> r.query, fragment |-> r.fragment,
                headers |-> AllHeaders(r), chunk |-> FlattenSeq(r.chunks)])

\* The state of the connection, of the stages and of the controller.
HttpTypeOK ==
  /\ script \in Scripts /\ skip \in Nat /\ served \in 0..Len(script)
  /\ cont \in {"none", "suspended", "ready"} /\ state \in {"open", "inactive", "gone"}
  /\ {to_parse, to_handle, close_after_finish, read_body} \subseteq BOOLEAN
  /\ load \in Int /\ speed \in Nat /\ auto \in 0..kMaxThread + 1
  /\ Len(history) <= kMaxFeedback /\ reserve \in 0..kMaxFeedback
  /\ cont # "none" /\ state # "gone" => Outcome(Head(requests)) = "fcgi"

\* However the bytes are cut into reads and pages, the requests that wait are
\* the ones that the client has sent and that have not been served, in that
\* order: method, paths, headers, length, chunks, rule.  (After a handler has
\* read a body with read_data, the body is parsed again.)
RequestsAsSent ==
  read_body \/ requests = [i \in 1..Len(requests) |-> AsSent(Accepted[served + i])]



\* A body only at the end, and no connection that should be closed before it:
\* the requests that the stages have to serve without another read.
Regular ==
  /\ Accepted = script
  /\ \A i \in 1..Len(script) - 1 : script[i].length = 0 /\ KeepsAlive(script[i])

\* Every request of a connection that stays open is answered: it does not stay
\* in the buffer, in requests_ or suspended with no stage to go on with it.
HttpServed == Regular => <>(served = Len(script) \/ state # "open")
=============================================================================
