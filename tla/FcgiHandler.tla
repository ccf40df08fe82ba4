---------------------------- MODULE FcgiHandler -----------------------------
(***************************************************************************)
(* The FastCGI handler of modules/mod_fcgi for one client connection: the  *)
(* handler run by the handler stage (fcgi_handler.cc), the completion      *)
(* stage that polls the client or the upstream socket while the handler is *)
(* suspended (fcgi_completion_stage.cc), the pool of upstream sockets      *)
(* (connection_pool.cc), the framing (fcgi_proto.cc) and the parser of the *)
(* answer's headers (fcgi_content_parser.rl).                              *)
(*                                                                         *)
(* Bytes are cells.  A record from upstream is kRecordSize cells of header *)
(* (the first one is the record itself) and then its content and padding;  *)
(* the bytes of the content are "h" and "s" (header lines, "s" one that    *)
(* makes the answer streaming), "x" (not a header), "n" (the empty line)   *)
(* and anything else (the body).                                           *)
(***************************************************************************)
EXTENDS Integers, Sequences, SequencesExt

CONSTANTS
  PoolSize,          \* connection_pool_size
  EnvSize,           \* cells of the records before the body
  kRecordSize,
  kTaskBufferLimit,
  Bodies,            \* request bodies: [length, buffered] with buffered <= length
  Answers,           \* answers of the application: sequences of records
  MaxRequests        \* bound: requests on the connection

ASSUME FcgiAssumption ==
  /\ {PoolSize, EnvSize, kTaskBufferLimit, MaxRequests} \subseteq Nat
  /\ kRecordSize \in Nat \ {0}

VARIABLES
  where,      \* "idle", "queued" for the handler stage, or "suspended"
  cont,       \* the FcgiCompletionContinuation, or NULL
  polled,     \* what the completion stage polls: "none", "client", "write", "read"
  timer,      \* is the idle callback set?
  active,     \* active_connections_
  inactive,   \* inactive_connections_
  coming,     \* body cells that the client has still to send
  sending,    \* cells that the application has still to send
  answer,     \* the answer of the application
  wire,       \* what was appended to the client's output stream
  upset,      \* history: what kept this answer from arriving as it was sent
  served      \* requests so far

fcgiVars == <<where, cont, polled, timer, active, inactive, coming, sending, answer,
              wire, upset, served>>

NoCont == [status |-> "none"]

-----------------------------------------------------------------------------
(* Framing.                                                                *)

Record(type, content, pad) == [type |-> type, content |-> content, pad |-> pad]

total_length(rec) == Len(rec.content) + rec.pad

\* A record as append_to_buffer and append_to_buffer_content_data lay it out.
Cells(rec) ==
  LET cell(b) == [byte |-> b]
      Zeros(n) == [i \in 1..n |-> cell("0")]
  IN  <<rec>> \o Zeros(kRecordSize - 1)
        \o [i \in DOMAIN rec.content |-> cell(rec.content[i])] \o Zeros(rec.pad)

Stream(records) == FlattenSeq([i \in DOMAIN records |-> Cells(records[i])])

\* extract_record finds a record: the length compared with is that of the
\* content and padding, without the header, which is still in the buffer.
CanExtract(task) ==
  /\ Len(task) >= kRecordSize
  /\ Len(task) >= total_length(task[1])

\* It is found before all of it is there.
IsTorn(task) == Len(task) < kRecordSize + total_length(task[1])

-----------------------------------------------------------------------------
(* FcgiContentParser: header lines up to the empty line.                   *)

HeaderEnd(cells) == SelectInSeq(cells, LAMBDA c : c = "n")

StopsAtBlank(cells) == LET n == HeaderEnd(cells) IN IF n = 0 THEN Len(cells) ELSE n - 1

\* The cells that parse consumes.
Consumed(cells) == LET n == HeaderEnd(cells) IN IF n = 0 THEN Len(cells) ELSE n

parse(c, cells) ==
  LET eaten == SubSeq(cells, 1, Consumed(cells))
  IN  [c EXCEPT !.done = HeaderEnd(cells) > 0,
                !.error = Contains(eaten, "x"),
                !.streaming = @ \/ Contains(eaten, "s")]

\* run_parser of the completion stage, on a record that can be extracted.  A
\* wrong header leaves the content in place, and so does a record that is torn:
\* pop fails, and what follows is not a record.
run_parser(c) ==
  LET rec == c.task[1]
      rest == SubSeq(c.task, kRecordSize + 1, Len(c.task))
      there == [i \in 1..Min({Len(rec.content), Len(rest)}) |-> rest[i].byte]
      after == IF total_length(rec) <= Len(rest)
               THEN SubSeq(rest, total_length(rec) + 1, Len(rest)) ELSE rest
      d == [c EXCEPT !.torn = IsTorn(c.task)]
      p == IF c.done THEN d ELSE parse(d, there)
      eaten == IF c.done THEN 0 ELSE Consumed(there)
  IN  CASE rec.type = "end" ->
             [d EXCEPT !.task = after, !.len = IF c.done THEN 0 ELSE @]
        [] rec.type \in {"stdout", "stderr"} /\ p.error -> [p EXCEPT !.task = rest]
        [] rec.type \in {"stdout", "stderr"} /\ ~p.error ->
             [p EXCEPT !.task = after,
                       !.out = @ \o SubSeq(there, eaten + 1, Len(there))]
        [] OTHER -> [d EXCEPT !.task = after]

-----------------------------------------------------------------------------
(* ConnectionPool.                                                         *)

\* Is there a socket, which one, and is it connected?
HasSocket == active # <<>> \/ inactive # <<>>
NextSocket == IF active = <<>> THEN Last(inactive) ELSE Last(active)

alloc_connection ==
  IF active = <<>> THEN inactive' = Front(inactive) /\ UNCHANGED active
  ELSE active' = Front(active) /\ UNCHANGED inactive

\* process_eof reclaims the socket before and after it answers.
ReclaimTwice(s) == active' = active \o <<s, s>> /\ UNCHANGED inactive

reclaim_connection(s) == active' = Append(active, s) /\ UNCHANGED inactive


\* Closed, and replaced by a new socket, which gets the same number.
reclaim_inactive_connection(s) ==
  inactive' = Append(inactive, s) /\ UNCHANGED active

-----------------------------------------------------------------------------
(* Suspending and resuming.                                                *)

\* sched_add of the completion stage: what it polls for a status.
Poll(status) == CASE status = "ReadClient" -> "client"
                  [] status = "WriteFcgi" -> "write"
                  [] status = "ReadFcgi" -> "read"

yield(c) ==
  /\ cont' = c
  /\ polled' = Poll(c.status)
  /\ timer' = TRUE
  /\ where' = "suspended"

FinishKeeps ==
  /\ where' = "idle" /\ sending' = <<>>
  /\ UNCHANGED <<cont, polled, timer, coming, answer, served>>

Finish ==
  /\ cont' = NoCont /\ where' = "idle" /\ sending' = <<>>
  /\ UNCHANGED <<polled, timer, coming, answer, served>>

-----------------------------------------------------------------------------
(* The handler: process_continuation_start.                                *)

\* The model does not follow a socket on which a record was torn.
NewRequest(b, a) ==
  /\ where = "idle" /\ served < MaxRequests /\ "torn" \notin upset
  /\ served' = served + 1
  /\ coming' = b.length - b.buffered
  /\ sending' = Stream(a) /\ answer' = a
  /\ upset' = {}

\* There is no socket, or connect fails and the socket goes back.
StartFails(b, a) ==
  /\ NewRequest(b, a)
  /\ active = <<>>
  /\ wire' = <<"page">>
  /\ UNCHANGED <<where, cont, polled, timer, active, inactive>>

\* What task_len still expects is less than the body by the size of the
\* environment, which is in task_buffer too.
Start(b, a) ==
  /\ NewRequest(b, a)
  /\ HasSocket /\ alloc_connection
  /\ LET n == EnvSize + b.buffered
         len == IF n < b.length THEN b.length - n ELSE 0
     IN  yield([sock |-> NextSocket, reconnect |-> FALSE,
                status |-> IF len > 0 THEN "ReadClient" ELSE "WriteFcgi",
                task |-> [i \in 1..n |-> [byte |-> "up"]], len |-> len,
                done |-> FALSE, error |-> FALSE, streaming |-> FALSE,
                torn |-> FALSE, out |-> <<>>, lent |-> <<>>])
  /\ wire' = <<>>

\* A suspended handler runs again.
Resumed(status) == where = "queued" /\ cont.status = status

Eof(c, sent) ==
  /\ ReclaimTwice(c.sock)
  /\ wire' = sent \o (IF c.streaming THEN <<>> ELSE <<"head">>) \o c.out
  /\ Finish

\* Records that wait, and are whole as far as extract_record can tell.
More(c) == ~c.torn /\ ~c.error /\ CanExtract(c.task)

RECURSIVE Drain(_)
Drain(c) ==
  IF ~More(c) \/ c.len = 0 THEN c
  ELSE CHOOSE d \in {Drain(e) : e \in {run_parser(c)}} : TRUE

Upsets(c) == upset' = upset \cup (IF c.torn THEN {"torn"} ELSE {})

process_headers_done ==
  LET c == Drain(cont)
      sent == IF c.streaming THEN Append(wire, "head") ELSE wire
  IN  /\ Resumed("HeadersDone")
      /\ Upsets(c)
      /\ IF c.len = 0 THEN Eof(c, sent)
         ELSE /\ yield([c EXCEPT !.status = "ReadFcgi"])
              /\ wire' = sent
              /\ UNCHANGED <<active, inactive, coming, sending, answer, served>>

process_continue ==
  /\ Resumed("Continue")
  /\ yield([cont EXCEPT !.status = "ReadFcgi"])
  /\ UNCHANGED <<active, inactive, coming, sending, answer, wire, upset, served>>

process_eof == Resumed("EOF") /\ Eof(cont, wire) /\ UNCHANGED upset

\* While streaming, close() is called and nothing is answered here: then the
\* handler stage finds no answer and sends a page of its own.
process_abort ==
  /\ where = "queued" /\ cont.status \in {"Error", "Timeout"}
  /\ IF cont.reconnect THEN reclaim_inactive_connection(cont.sock)
     ELSE reclaim_connection(cont.sock)
  /\ wire' = Append(wire, "page")
  /\ upset' = upset \cup (IF cont.reconnect /\ cont.streaming THEN {"aborted"} ELSE {})
  /\ Finish

-----------------------------------------------------------------------------
(* The completion stage.                                                   *)


\* The idle callback moves only when the clock has ticked since last_active.
update_idle_handler(tick) == timer' = (timer \/ tick)

KeepsPolling(c) == cont' = c /\ timer' = FALSE /\ where' = "queued" /\ UNCHANGED polled

Resched(c) == cont' = c /\ polled' = "none" /\ timer' = FALSE /\ where' = "queued"

ReadClient(n, tick) ==
  LET c == [cont EXCEPT !.task = @ \o [i \in 1..n |-> [byte |-> "up"]], !.len = @ - n]
  IN  /\ polled = "client" /\ n <= coming
      /\ coming' = coming - n
      /\ IF Len(c.task) > kTaskBufferLimit \/ c.len = 0
         THEN cont' = [c EXCEPT !.status = "WriteFcgi"] /\ polled' = "write"
              /\ timer' = FALSE
         ELSE cont' = c /\ UNCHANGED polled /\ update_idle_handler(tick)
      /\ UNCHANGED <<where, active, inactive, sending, answer, wire, upset, served>>

handle_write(n, tick) ==
  LET c == [cont EXCEPT !.task = SubSeq(@, n + 1, Len(@))]
  IN  /\ polled = "write" /\ n <= Len(cont.task)
      /\ IF c.task = <<>> /\ c.len = 0
         THEN cont' = [c EXCEPT !.status = "ReadFcgi", !.len = -1] /\ polled' = "read"
         ELSE cont' = c /\ UNCHANGED polled
      /\ update_idle_handler(tick)
      /\ UNCHANGED <<where, active, inactive, coming, sending, answer, wire, upset,
                     served>>

INT_MAX == 2147483647

\* transfer_status after a record.  stream_write_back lends output_buffer to
\* the output stream and does not clear it.
AfterRecord(c) ==
  IF c.status # "ReadFcgi" \/ ~c.done THEN c
  ELSE IF c.len = -1 THEN [c EXCEPT !.status = "HeadersDone", !.len = INT_MAX]
  ELSE IF c.len = 0 THEN [c EXCEPT !.status = "EOF"]
  ELSE IF c.streaming /\ Len(c.out) > kTaskBufferLimit
  THEN [c EXCEPT !.status = "Continue", !.lent = c.out]
  ELSE c

RECURSIVE ReadLoop(_)
ReadLoop(c) ==
  IF ~More(c) \/ c.status = "HeadersDone" THEN c
  ELSE CHOOSE d \in {ReadLoop(e) : e \in {AfterRecord(run_parser(c))}} : TRUE

\* The loop goes on after the status has become Continue; what it finds then
\* is in output_buffer but not in what was lent, and an end is not noticed.
handle_read(n, tick) ==
  /\ polled = "read" /\ ~cont.torn /\ ~cont.error
  /\ n <= Len(sending)
  /\ sending' = SubSeq(sending, n + 1, Len(sending))
  /\ \E c \in {ReadLoop([cont EXCEPT !.task = @ \o SubSeq(sending, 1, n)])} :
       /\ CASE c.status = "ReadFcgi" ->
                /\ cont' = c /\ update_idle_handler(tick)
                /\ UNCHANGED <<polled, where, wire>>
           [] c.status \in {"HeadersDone", "EOF"} -> Resched(c) /\ UNCHANGED wire
           [] c.status = "Continue" ->
                /\ cont' = [c EXCEPT !.lent = <<>>]
                /\ polled' = "none" /\ timer' = FALSE
                /\ wire' = wire \o c.lent /\ UNCHANGED where
       /\ upset' = upset \cup (IF c.torn THEN {"torn"} ELSE {})
                         \cup (IF c.status = "Continue" THEN {"continued"} ELSE {})
  /\ UNCHANGED <<active, inactive, coming, answer, served>>

\* The write-back stage has written what it was given.
WriteBackDone ==
  /\ where = "suspended" /\ cont.status = "Continue"
  /\ where' = "queued"
  /\ UNCHANGED <<cont, polled, timer, active, inactive, coming, sending, answer, wire,
                 upset, served>>

abort(status) ==
  /\ Resched([cont EXCEPT !.status = status,
                          !.reconnect = polled \in {"write", "read"}])
  /\ UNCHANGED <<active, inactive, coming, sending, answer, wire, upset, served>>

handle_error == polled # "none" /\ abort("Error")

cleanup_idle_callback == timer /\ abort("Timeout")

-----------------------------------------------------------------------------
FcgiInit ==
  /\ where = "idle" /\ cont = NoCont /\ polled = "none" /\ timer = FALSE
  /\ active = <<>> /\ inactive = [i \in 1..PoolSize |-> i]
  /\ coming = 0 /\ sending = <<>> /\ answer = <<>>
  /\ wire = <<>> /\ upset = {} /\ served = 0

HandlerRuns ==
  process_headers_done \/ process_continue \/ process_eof \/ process_abort

MaxCells ==
  Max({Len(Stream(a)) : a \in Answers} \cup {b.length + EnvSize : b \in Bodies})

FcgiNext ==
  \/ \E b \in Bodies, a \in Answers : StartFails(b, a) \/ Start(b, a)
  \/ HandlerRuns
  \/ \E n \in 1..MaxCells, tick \in BOOLEAN :
       ReadClient(n, tick) \/ handle_read(n, tick)
  \/ \E n \in 0..MaxCells, tick \in BOOLEAN : handle_write(n, tick)
  \/ WriteBackDone
  \/ handle_error
  \/ cleanup_idle_callback

\* The handler threads run, the client takes what it is sent, and the poller
\* fires a callback that is due.  (The application keeps its socket open, or it
\* is reported as hung up: one that is only half closed stays readable, and
\* every event moves the callback on.)
FcgiFairness ==
  /\ WF_fcgiVars(HandlerRuns)
  /\ WF_fcgiVars(WriteBackDone)
  /\ WF_fcgiVars(cleanup_idle_callback)

-----------------------------------------------------------------------------
(* Properties.                                                             *)

Statuses == {"ReadClient", "WriteFcgi", "ReadFcgi", "HeadersDone", "Continue", "EOF",
             "Error", "Timeout"}

\* Every variable has its type, and a connection has a continuation exactly
\* while its request is suspended or queued to be resumed.  (task_len may fall
\* below zero: it starts too small by the size of the environment.)
FcgiTypeOK ==
  /\ where \in {"idle", "queued", "suspended"}
  /\ (where = "idle") = (cont = NoCont)
  /\ cont # NoCont =>
       /\ cont.sock \in 1..PoolSize /\ cont.status \in Statuses
       /\ cont.len \in Int /\ cont.len <= INT_MAX
       /\ cont.out \in Seq(STRING) /\ cont.lent = <<>>
  /\ polled \in {"none", "client", "write", "read"}
  /\ timer \in BOOLEAN
  /\ active \in Seq(1..PoolSize) /\ inactive \in Seq(1..PoolSize)
  /\ coming \in Nat /\ wire \in Seq(STRING)
  /\ upset \subseteq {"torn", "continued", "aborted"}
  /\ served \in 0..MaxRequests

\* The completion stage polls exactly the descriptor that the continuation's
\* status asks for, and lets go of descriptor and idle callback before the
\* handler runs again: a descriptor left registered would let the poller's
\* thread and a handler thread use one continuation at a time.
PolledMatchesStatus ==
  /\ where = "suspended" /\ cont.status # "Continue" => polled = Poll(cont.status)
  /\ where # "suspended" \/ cont.status = "Continue" => polled = "none"
  /\ timer => polled # "none"

\* The body of an answer: all content after the empty line, what the
\* application wrote to its stderr included.
Body(a) ==
  LET output(rec) == IF rec.type \in {"stdout", "stderr"} THEN rec.content ELSE <<>>
      all == FlattenSeq([i \in DOMAIN a |-> output(a[i])])
  IN  SubSeq(all, HeaderEnd(all) + 1, Len(all))

\* However the upstream bytes are split into reads, the client is sent the
\* head and then the whole body, once and in order, or nothing but an error
\* page; the exceptions are the three histories recorded in upset (a record
\* extracted before all of it is there, a streaming answer handed over in
\* parts, and one that is aborted).
AnswerAsSent ==
  upset = {} =>
    /\ wire \in {<<>>, <<"page">>} \/ IsPrefix(wire, <<"head">> \o Body(answer))
    /\ where = "idle" /\ served > 0 =>
         wire \in {<<"page">>, <<"head">> \o Body(answer)}


=============================================================================
