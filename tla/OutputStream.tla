---------------------------- MODULE OutputStream ----------------------------
(***************************************************************************)
(* The output side of a connection: OutputStream's list of writeables      *)
(* (core/stream.cc), which are Buffers (core/buffer.cc) or FileSenders     *)
(* (core/filesender.cc), filled through Response (core/wrapper.cc) and     *)
(* emptied by the write-back stage or by Response::flush_data.             *)
(*                                                                         *)
(* A handler also owns a Buffer of its own (prepare_buffer_ of             *)
(* HttpResponse, output_buffer of the FastCGI continuation), fills it, and *)
(* appends it to the stream.  The copy shares the pages (cow_info_), and   *)
(* only the copy is marked borrowed_: it copies the pages before it writes *)
(* to them, the owner does not.  So an owner must not touch a Buffer while *)
(* a copy shares its pages; HttpResponse keeps to that, and the actions on *)
(* the owner's Buffer here are guarded by it.                              *)
(*                                                                         *)
(* Bytes are numbers in the order they are produced, the bytes of the file *)
(* are negative, so that any loss, duplicate or reordering shows.          *)
(***************************************************************************)
EXTENDS Buffer, FiniteSets

CONSTANTS
  MaxBytes,    \* bound: bytes the handler produces
  Spans,       \* bound: the numbers of bytes in one call
  MaxOut,      \* bound: writeables in the stream
  MaxLent,     \* bound: bytes appended with append_buffer
  MaxMemory,   \* Response::kMaxMemorySizes
  UsageRange,  \* memory_usage_ is a size_t: it counts modulo 2^64
  FileSize     \* size of the file that is sent

ASSUME OutputStreamAssumption ==
  {MaxBytes, MaxOut, MaxLent, MaxMemory, UsageRange, FileSize} \cup Spans \subseteq Nat

VARIABLES
  buf,       \* the handler's Buffer
  out,       \* writeables_
  usage,     \* memory_usage_
  phase,     \* who has the connection: "handler", its "flush", "writeback"
  file,      \* current size of the file
  produced,  \* bytes produced so far
  held,      \* history: what was put into buf and not taken from it
  due,       \* history: bytes appended to the stream, not yet accepted
  garbled,   \* history: has the socket been given any other byte?
  lent       \* history: bytes that came through append_buffer

vars == <<buf, out, usage, phase, file, produced, held, due, garbled, lent>>

-----------------------------------------------------------------------------
(* Buffers that share pages: objects with the same cow.  Each carries the  *)
(* cells, and a write in place is seen by all that share them.             *)

NewBuffer(cow, borrowed) ==
  [cow |-> cow, borrowed |-> borrowed, cells |-> EmptyPages, left |-> 0,
   right |-> PageSize, size |-> 0]

IsBuffer(w) == w.kind = "buffer"
Buffers == {i \in DOMAIN out : IsBuffer(out[i])}

\* cow_info_.use_count().
use_count(cow) == Cardinality({i \in Buffers : out[i].b.cow = cow})
                    + (IF buf.cow = cow THEN 1 ELSE 0)

\* An unused cow_info_.
FreshCow == CHOOSE n \in 1..(MaxOut + 2) :
              n # buf.cow /\ \A i \in Buffers : out[i].b.cow # n

need_copy_for_write(b) == b.borrowed /\ use_count(b.cow) > 1

\* An object about to be written: copy_for_write gives it pages of its own.
Writable(b) == IF need_copy_for_write(b)
               THEN [b EXCEPT !.cow = FreshCow, !.borrowed = FALSE] ELSE b

\* Object b once v has been written.
Sees(b, v) == IF b.cow = v.cow THEN [b EXCEPT !.cells = v.cells] ELSE b
StreamSees(ws, v) ==
  [i \in DOMAIN ws |-> IF IsBuffer(ws[i]) THEN [ws[i] EXCEPT !.b = Sees(@, v)]
                       ELSE ws[i]]

Fresh(n) == [k \in 1..n |-> produced + k]

-----------------------------------------------------------------------------
(* The handler's own Buffer.                                               *)

\* Does a writeable share the pages of buf?
Lent == use_count(buf.cow) > 1

UpdateBuf(v) == buf' = v /\ out' = StreamSees(out, v)

BufAppend(n) ==
  /\ phase = "handler" /\ ~Lent
  /\ produced + n <= MaxBytes
  /\ UpdateBuf(append(Writable(buf), Fresh(n)))
  /\ produced' = produced + n
  /\ held' = held \o Fresh(n)
  /\ UNCHANGED <<usage, phase, file, due, garbled, lent>>

BufRead(n) ==
  /\ phase = "handler" /\ ~Lent
  /\ produced + n <= MaxBytes
  /\ n <= buf.right + PageSize
  /\ UpdateBuf(read_from_fd(Writable(buf), Fresh(n)))
  /\ produced' = produced + n
  /\ held' = held \o Fresh(n)
  /\ UNCHANGED <<usage, phase, file, due, garbled, lent>>

\* pop, pop_page (n = PageSize - left) and clear (n = size).
BufPop(n) ==
  /\ phase = "handler" /\ ~Lent
  /\ UpdateBuf(pop(Writable(buf), n))
  /\ held' = IF n <= Len(held) THEN SubSeq(held, n + 1, Len(held)) ELSE held
  /\ UNCHANGED <<usage, phase, file, produced, due, garbled, lent>>

\* buf = Buffer(): the pages of a temporary, which is then destroyed.
BufReset ==
  /\ phase = "handler"
  /\ buf' = NewBuffer(FreshCow, TRUE)
  /\ held' = <<>>
  /\ UNCHANGED <<out, usage, phase, file, produced, due, garbled, lent>>

-----------------------------------------------------------------------------
(* Appending to the stream.                                                *)

\* The object at the back takes the data (a FileSender refuses it), else a
\* new Buffer does.
append_data(data) ==
  LET fits == out # <<>> /\ IsBuffer(Last(out))
      v == append(IF fits THEN Writable(Last(out).b) ELSE NewBuffer(FreshCow, FALSE),
                  data)
      w == [kind |-> "buffer", b |-> v]
  IN  /\ out' = StreamSees(Append(IF fits THEN Front(out) ELSE out, w), v)
      /\ buf' = Sees(buf, v)
      /\ usage' = (usage + Len(data)) % UsageRange

\* Response::write_data, which flushes once the stream uses too much memory.
WriteData(n) ==
  /\ phase = "handler"
  /\ produced + n <= MaxBytes /\ Len(out) < MaxOut
  /\ append_data(Fresh(n))
  /\ phase' = IF usage' > MaxMemory THEN "flush" ELSE phase
  /\ produced' = produced + n
  /\ due' = due \o Fresh(n)
  /\ UNCHANGED <<file, held, garbled, lent>>

\* append_buffer: the copy constructor shares the pages.
AppendBuffer ==
  /\ phase = "handler" /\ Len(out) < MaxOut
  /\ lent + buf.size <= MaxLent
  /\ out' = Append(out, [kind |-> "buffer", b |-> [buf EXCEPT !.borrowed = TRUE]])
  /\ due' = due \o held
  /\ lent' = lent + buf.size
  /\ UNCHANGED <<buf, usage, phase, file, produced, held, garbled>>

FileBytes(from, n) == [k \in 1..n |-> -(from + k)]

\* write_file, append_file: length -1 stands for the rest of the file.
WriteFile(offset, length) ==
  /\ phase = "handler" /\ Len(out) < MaxOut
  /\ offset <= file
  /\ LET len == IF length = -1 THEN file - offset ELSE length
     IN  /\ out' = Append(out, [kind |-> "file", offset |-> offset, len |-> len])
         /\ due' = due \o FileBytes(offset, len)
  /\ UNCHANGED <<buf, usage, phase, file, produced, held, garbled, lent>>

-----------------------------------------------------------------------------
(* Writing to the socket.                                                  *)

Min2(a, b) == IF a < b THEN a ELSE b

\* What the front writeable offers the socket: writev of at most two pages,
\* or sendfile of at most a page, cut short where the file ends.
Offer(w) ==
  IF IsBuffer(w) THEN writev_offer(w.b)
  ELSE FileBytes(w.offset, IF w.offset >= file THEN 0
                           ELSE Min2(file - w.offset, Min2(w.len, PageSize)))

\* The front writeable after the socket took n bytes of it.
Sent(w, n) ==
  IF IsBuffer(w) THEN [w EXCEPT !.b = pop(Writable(@), n)]
  ELSE [w EXCEPT !.offset = @ + n, !.len = @ - n]

size(w) == IF IsBuffer(w) THEN w.b.size ELSE w.len
memory_usage(w) == IF IsBuffer(w) THEN w.b.size ELSE 0

Accept(bytes) ==
  /\ garbled' = (garbled \/ ~IsPrefix(bytes, due))
  /\ due' = SubSeq(due, Len(bytes) + 1, Len(due))

WriteKeepsEof(n) ==
  /\ out # <<>> /\ n <= Len(Offer(out[1]))
  /\ LET w == Sent(out[1], n)
     IN  /\ usage' = (usage - (memory_usage(out[1]) - memory_usage(w))) % UsageRange
         /\ out' = <<w>> \o Tail(out)
  /\ Accept(SubSeq(Offer(out[1]), 1, n))


\* n bytes are taken; n = 0 when the socket is full or nothing is offered.
write_into_output(n) ==
  /\ out # <<>> /\ n <= Len(Offer(out[1]))
  /\ LET w == Sent(out[1], n)
     IN  /\ usage' = (usage - (memory_usage(out[1]) - memory_usage(w))) % UsageRange
         /\ out' = IF size(w) = 0 THEN Tail(out) ELSE <<w>> \o Tail(out)
  /\ Accept(SubSeq(Offer(out[1]), 1, n))

\* Response::~Response hands the connection over if anything is to be sent.
HandOver ==
  /\ phase = "handler" /\ out # <<>>
  /\ phase' = "writeback"
  /\ UNCHANGED <<buf, out, usage, file, produced, held, due, garbled, lent>>

\* The write-back stage writes until the stream is done.
WriteBack(n) ==
  /\ phase = "writeback"
  /\ write_into_output(n)
  /\ phase' = IF out' = <<>> THEN "handler" ELSE phase
  /\ UNCHANGED <<buf, file, produced, held, lent>>

\* Response::flush_data writes until a write takes nothing or fails (n = 0),
\* so also when the front writeable is empty and others follow.
Flush(n) ==
  /\ phase = "flush"
  /\ write_into_output(n)
  /\ phase' = IF n > 0 THEN phase ELSE "handler"
  /\ UNCHANGED <<buf, file, produced, held, lent>>

\* Nothing is left to write.
FlushDone ==
  /\ phase = "flush" /\ out = <<>>
  /\ phase' = "handler"
  /\ UNCHANGED <<buf, out, usage, file, produced, held, due, garbled, lent>>

\* Somebody truncates the file while it is served.
Truncate ==
  /\ file = FileSize /\ Buffers # DOMAIN out
  /\ file' = 0
  /\ UNCHANGED <<buf, out, usage, phase, produced, held, due, garbled, lent>>

-----------------------------------------------------------------------------

Init ==
  /\ buf = NewBuffer(1, FALSE)
  /\ out = <<>>
  /\ usage = 0
  /\ phase = "handler"
  /\ file = FileSize
  /\ produced = 0
  /\ held = <<>> /\ due = <<>>
  /\ garbled = FALSE
  /\ lent = 0

Taken == 0..(2 * PageSize)

Next ==
  \/ \E n \in Spans : BufAppend(n)
  \/ \E n \in Spans : BufRead(n)
  \/ \E n \in Spans : BufPop(n)
  \/ BufReset
  \/ \E n \in Spans : WriteData(n)
  \/ AppendBuffer
  \/ WriteFile(0, -1)
  \/ WriteFile(1, 1)
  \/ HandOver
  \/ \E n \in Taken : WriteBack(n)
  \/ \E n \in Taken : Flush(n)
  \/ FlushDone
  \/ Truncate

Spec == Init /\ [][Next]_vars

\* A peer that reads: the write-back stage is told again and again that the
\* socket has room, and then some of what is offered is taken.
Progress == \E n \in Taken :
              /\ out # <<>> => (n > 0 \/ Offer(out[1]) = <<>>)
              /\ WriteBack(n) \/ Flush(n)

FairSpec == Spec /\ WF_vars(Progress) /\ WF_vars(FlushDone)

-----------------------------------------------------------------------------
(* Properties.                                                             *)

BufferType == [cow : 1..(MaxOut + 2), borrowed : BOOLEAN, cells : Seq(Int),
               left : 0..(PageSize - 1), right : 0..PageSize, size : Nat]

TypeOK ==
  /\ buf \in BufferType
  /\ \A i \in DOMAIN out :
       \/ IsBuffer(out[i]) /\ out[i].b \in BufferType
       \/ out[i].kind = "file" /\ {out[i].offset, out[i].len} \subseteq Nat
  /\ usage \in 0..(UsageRange - 1)
  /\ phase \in {"handler", "flush", "writeback"}
  /\ file \in {0, FileSize}

\* The offsets, the number of pages and size_ of every Buffer agree, whatever
\* mix of append, read_from_fd, pop and write_to_fd it went through and
\* whoever shares its pages (core/buffer.cc keeps the four apart).
SizeMatchesPages ==
  \A b \in {buf} \cup {out[i].b : i \in Buffers} :
    b.size = Len(b.cells) - b.left - b.right

\* What a writeable still holds.
Remaining(w) == IF IsBuffer(w) THEN Content(w.b) ELSE FileBytes(w.offset, w.len)

\* The client receives the bytes that were appended, once each and in order,
\* across appended data, lent buffers and files, partial writes, flushes and
\* copies of shared pages; and a handler finds in its own Buffer what it put
\* there.
BytesInOrder ==
  /\ ~garbled
  /\ FlattenSeq([i \in DOMAIN out |-> Remaining(out[i])]) = due
  /\ Content(buf) = held
  /\ \A n \in 0..buf.size : copy_front(buf, n) = SubSeq(held, 1, n)

TotalMemory(ws) == FoldLeft(LAMBDA sum, w : sum + memory_usage(w), 0, ws)


\* With a peer that reads, a stream handed to the write-back stage is written
\* to its end, also through empty writeables, unless a file was truncated
\* while it was being sent: FileSender then waits for bytes that never come.
Drained == phase = "writeback" ~> (phase = "handler" \/ file # FileSize)
=============================================================================
