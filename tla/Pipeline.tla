------------------------------ MODULE Pipeline ------------------------------
(***************************************************************************)
(* The life of a connection as it travels through the stages: accepted by  *)
(* the server, polled and read by PollInStage, parsed, handled, written    *)
(* back by PollOutStage or suspended in a completion stage, polled again,  *)
(* and at last closed, recycled and destroyed (core/stages.cc,             *)
(* core/pipeline.cc, core/server.cc, http/http_stages.cc).                 *)
(*                                                                         *)
(* The queues of the parser and handler stages are sets here: the module   *)
(* QueueScheduler shows that a stage delivers a queued connection to one   *)
(* worker at a time and only while its lock is free.  A stage's worker is  *)
(* identified with the lock it holds.  Between taking and releasing a      *)
(* connection's lock a thread changes only that connection and, under the  *)
(* mutex of PollInStage, the pollers; such a section is one step, except   *)
(* where it lasts (parsing, handling, suspension, writing back) and where  *)
(* the poller's thread holds the mutex over several connections.           *)
(*                                                                         *)
(* Pollers of PollInStage can find a connection in each other's state      *)
(* through stale events and are modelled one by one.  Those of             *)
(* PollOutStage cannot: a connection is in one of them from sched_add to   *)
(* its removal by the thread of that poller, so one stands for all.        *)
(***************************************************************************)
EXTENDS Poller

CONSTANTS
  Conns,         \* the connections that are ever accepted
  NumIn,         \* number of poll_in threads, each with a poller
  IdleTimeout,   \* timeout_ of a connection, in units of the timer
  MaxRecycle,    \* PollInStage::kMaxRecycleCount
  MaxTime,       \* bound: time units that pass
  StreamErrors,  \* may an upstream fail while its answer is streamed?
  Flushes,       \* may a handler write out an answer over kMaxMemorySizes itself?
  Prompt         \* do the stages catch up before a time unit (2 s) ends?

InPollers == 0..(NumIn - 1)

ASSUME PipelineAssumption ==
  /\ NumIn \in Nat \ {0}
  /\ IdleTimeout \in Nat
  /\ MaxRecycle \in Nat \ {0}
  /\ MaxTime \in Nat
  /\ {StreamErrors, Flushes, Prompt} \subseteq BOOLEAN

VARIABLES
  life,        \* "new", "open" or "dead" (destroyed)
  lock,        \* who holds Connection::mutex_
  active,      \* kFlagActive
  shut,        \* sockets shutdown() was called on
  closeAfter,  \* kFlagCloseAfterFinish
  cont,        \* connections with continuation_data_
  lastActive,  \* last_active_
  now,         \* Timer::current_timer_unit()
  parserQ, handlerQ,  \* the tasks of the two queue schedulers
  in,          \* the pollers of PollInStage
  current,     \* PollInStage::current_poller_
  pc,          \* where the thread of each poll_in poller is
  batch,       \* the events its epoll_wait returned and it has not handled
  todo,        \* callbacks left in its pass over the timer
  pos, count,  \* its position in the expired list, and disposals in this pass
  out          \* the poller of PollOutStage

connVars == <<life, active, shut, closeAfter, cont>>
inVars == <<in, current>>
threadVars == <<pc, batch, todo, pos, count>>
queues == <<parserQ, handlerQ>>
vars == <<life, lock, active, shut, closeAfter, cont, lastActive, now, parserQ,
          handlerQ, in, current, pc, batch, todo, pos, count, out>>

Holders == {"free", "parser", "handler", "completion", "out"}
Events == {"read", "hup"}

\* mutex_ of PollInStage is held from step to step only in the two passes of
\* post_handle_connection.
MutexFree == \A p \in InPollers : pc[p] \notin {"timers", "dispose"}

\* Connection::timer_sched_time.
SchedTime(c) == lastActive[c] + IdleTimeout

-----------------------------------------------------------------------------
(* PollInStage as the other stages call it.                                *)

\* Mutant: current_poller_ is not wrapped around.
SchedAddNoWrap(c, time) ==
  /\ MutexFree
  /\ current' = current + 1
  /\ in' = [in EXCEPT ![current % NumIn] = AddFd(TimerReplace(@, time, c), c)]

\* PollInStage::sched_add: the pollers take turns.
SchedAdd(c, time) ==
  /\ MutexFree
  /\ current' = (current + 1) % NumIn
  /\ in' = [in EXCEPT ![current'] = AddFd(TimerReplace(@, time, c), c)]

\* Mutant: the entry in the timer stays.
SchedRemoveKeepsTimer(c, recycle) ==
  LET gone(p) == RemoveFd(in[p], c) IN
  /\ MutexFree
  /\ in' = [p \in InPollers |->
             IF recycle /\ c \in in[p].fds THEN Recycle(gone(p), c) ELSE gone(p)]
  /\ UNCHANGED current

\* PollInStage::sched_remove_nolock.
SchedRemove(c, recycle) ==
  LET owners == {p \in InPollers : c \in in[p].fds}
      gone(p) == TimerRemove(RemoveFd(in[p], c), SchedTime(c), c)
  IN
  /\ MutexFree
  /\ \/ /\ owners # {}
        /\ LET p == CHOOSE q \in owners : \A r \in owners : q <= r IN
             in' = [in EXCEPT ![p] = IF recycle THEN Recycle(gone(p), c) ELSE gone(p)]
        /\ UNCHANGED current
     \/ /\ owners = {} /\ recycle
        /\ in' = [in EXCEPT ![current] = Recycle(@, c)]
        /\ current' = (current + 1) % NumIn
     \/ /\ owners = {} /\ ~recycle
        /\ UNCHANGED inVars

\* Mutants: an inactive connection is recycled again; nothing is recycled.
ActiveCloseAgain(c) ==
  /\ active' = active \ {c}
  /\ shut' = shut \cup {c}
  /\ SchedRemove(c, TRUE)

ActiveCloseNoRecycle(c) ==
  /\ active' = active \ {c}
  /\ shut' = shut \cup {c}
  /\ SchedRemove(c, FALSE)

\* Connection::active_close.
ActiveClose(c) ==
  \/ /\ c \in active
     /\ active' = active \ {c}
     /\ shut' = shut \cup {c}
     /\ SchedRemove(c, TRUE)
  \/ /\ c \notin active
     /\ UNCHANGED <<active, shut, in, current>>

\* Pipeline::enable_poll.
EnablePoll(c) ==
  \/ c \in active /\ SchedAdd(c, SchedTime(c))
  \/ c \notin active /\ UNCHANGED inVars

\* Server::main_loop: accept, create the connection and poll it.
Accept(c) ==
  /\ life[c] = "new"
  /\ life' = [life EXCEPT ![c] = "open"]
  /\ active' = active \cup {c}
  /\ lastActive' = [lastActive EXCEPT ![c] = now]
  /\ SchedAdd(c, now + IdleTimeout)
  /\ UNCHANGED <<lock, shut, closeAfter, cont, now, queues, threadVars, out>>

-----------------------------------------------------------------------------
(* The thread of a poll_in poller: EpollPoller::handle_event.              *)

\* epoll_wait returns events of watched connections, one for each.
PollWait(p) ==
  /\ pc[p] = "wait"
  /\ \E ready \in SUBSET in[p].fds : \E evt \in [ready -> Events] :
       batch' = [batch EXCEPT ![p] = {<<c, evt[c]>> : c \in ready}]
  /\ pc' = [pc EXCEPT ![p] = "handle"]
  /\ UNCHANGED <<connVars, lock, lastActive, now, queues, inVars, todo, pos, count, out>>

HandledEvent(p, c, evt) ==
  /\ pc[p] = "handle"
  /\ <<c, evt>> \in batch[p]
  /\ batch' = [batch EXCEPT ![p] = @ \ {<<c, evt>>}]

\* try_lock fails: the event is dropped.
SkipEvent(p, c, evt) ==
  /\ HandledEvent(p, c, evt)
  /\ lock[c] # "free"
  /\ UNCHANGED <<connVars, lock, lastActive, now, queues, inVars, pc, todo, pos, count, out>>

\* Mutant: the callback is removed and not set again.
UpdatedNoReplace(p, c) ==
  IF lastActive[c] = now THEN in[p] ELSE TimerRemove(in[p], SchedTime(c), c)

\* PollStage::update_connection: the poller after it.
Updated(p, c) ==
  IF lastActive[c] = now THEN in[p]
  ELSE MoveTimer(in[p], SchedTime(c), now + IdleTimeout, c)

\* read_connection up to EAGAIN: the connection goes to the parser.
ReadConnection(p, c) ==
  /\ HandledEvent(p, c, "read")
  /\ lock[c] = "free" /\ c \notin shut
  /\ MutexFree
  /\ lastActive' = [lastActive EXCEPT ![c] = now]
  /\ in' = [in EXCEPT ![p] = Updated(p, c)]
  /\ parserQ' = parserQ \cup {c}
  /\ UNCHANGED <<connVars, lock, now, handlerQ, current, pc, todo, pos, count, out>>

\* Mutant: the descriptor stays in the poller.
CleanUpKeepsFd(p, c, poller, time) ==
  /\ active' = active \ {c}
  /\ shut' = shut \cup {c}
  /\ in' = [in EXCEPT ![p] =
              IF c \in active THEN Recycle(TimerRemove(poller, time, c), c) ELSE poller]

\* PollInStage::cleanup_connection(poller, conn), on the poller it was given.
CleanUp(p, c, poller, time) ==
  \/ /\ c \in active
     /\ active' = active \ {c}
     /\ shut' = shut \cup {c}
     /\ in' = [in EXCEPT ![p] = Recycle(TimerRemove(RemoveFd(poller, c), time, c), c)]
  \/ /\ c \notin active
     /\ in' = [in EXCEPT ![p] = poller]
     /\ UNCHANGED <<active, shut>>

\* read_connection that meets the end of the stream or an error.
ReadEnd(p, c) ==
  /\ HandledEvent(p, c, "read")
  /\ lock[c] = "free"
  /\ MutexFree
  /\ lastActive' = [lastActive EXCEPT ![c] = now]
  /\ CleanUp(p, c, Updated(p, c), now + IdleTimeout)
  /\ UNCHANGED <<life, closeAfter, cont, lock, now, queues, current, pc, todo, pos,
                 count, out>>

\* The hang-up branch of handle_connection.
HangUp(p, c) ==
  /\ HandledEvent(p, c, "hup")
  /\ lock[c] = "free"
  /\ MutexFree
  /\ CleanUp(p, c, in[p], SchedTime(c))
  /\ UNCHANGED <<life, closeAfter, cont, lock, lastActive, now, queues, current, pc,
                 todo, pos, count, out>>

-----------------------------------------------------------------------------
(* PollInStage::post_handle_connection.                                    *)

\* trigger_timer_callback gets the mutex ...
BeginTimers(p) ==
  /\ pc[p] = "handle" /\ batch[p] = {}
  /\ MutexFree
  /\ todo' = [todo EXCEPT ![p] = Due(in[p], now)]
  /\ pc' = [pc EXCEPT ![p] = "timers"]
  /\ UNCHANGED <<connVars, lock, lastActive, now, queues, inVars, batch, pos, count, out>>

\* ... or does not (another thread is in a critical section of the stage), or
\* has run the callbacks of this time unit already.
SkipTimers(p) ==
  /\ pc[p] = "handle" /\ batch[p] = {}
  /\ pc' = [pc EXCEPT ![p] = "recycle"]
  /\ UNCHANGED <<connVars, lock, lastActive, now, queues, inVars, batch, todo, pos,
                 count, out>>

\* cleanup_idle_connection_callback; it returns false on a locked connection,
\* and then the timer keeps the entry.
IdleCallback(p) ==
  /\ pc[p] = "timers"
  /\ \E key \in todo[p] :
       LET c == key[2] IN
       /\ todo' = [todo EXCEPT ![p] = @ \ {key}]
       /\ \/ /\ lock[c] = "free"
             /\ shut' = shut \cup {c}
             /\ in' = [in EXCEPT ![p] =
                        Recycle(RemoveFd(TimerRemove(@, key[1], c), c), c)]
          \/ lock[c] # "free" /\ UNCHANGED <<shut, in>>
  /\ UNCHANGED <<life, active, closeAfter, cont, lock, lastActive, now, queues, current,
                 pc, batch, pos, count, out>>

EndTimers(p) ==
  /\ pc[p] = "timers" /\ todo[p] = {}
  /\ pc' = [pc EXCEPT ![p] = "recycle"]
  /\ UNCHANGED <<connVars, lock, lastActive, now, queues, inVars, batch, todo, pos,
                 count, out>>

BeginDispose(p) ==
  /\ pc[p] = "recycle"
  /\ MutexFree
  /\ pc' = [pc EXCEPT ![p] = "dispose"]
  /\ pos' = [pos EXCEPT ![p] = 1]
  /\ count' = [count EXCEPT ![p] = 0]
  /\ UNCHANGED <<connVars, lock, lastActive, now, queues, inVars, batch, todo, out>>

SkipDispose(p) ==
  /\ pc[p] = "recycle"
  /\ pc' = [pc EXCEPT ![p] = "wait"]
  /\ UNCHANGED <<connVars, lock, lastActive, now, queues, inVars, batch, todo, pos,
                 count, out>>

Disposing(p) ==
  pc[p] = "dispose" /\ pos[p] <= Len(in[p].expired) /\ count[p] < MaxRecycle


\* Pipeline::dispose_connection: the connection leaves the queues and is
\* destroyed, if it can be locked.
Dispose(p) ==
  LET c == in[p].expired[pos[p]] IN
  /\ Disposing(p)
  /\ lock[c] = "free"
  /\ life' = [life EXCEPT ![c] = "dead"]
  /\ parserQ' = parserQ \ {c}
  /\ handlerQ' = handlerQ \ {c}
  /\ in' = [in EXCEPT ![p].expired = RemoveAt(@, pos[p])]
  /\ count' = [count EXCEPT ![p] = @ + 1]
  /\ UNCHANGED <<lock, active, shut, closeAfter, cont, lastActive, now, current, pc,
                 batch, todo, pos, out>>

SkipLocked(p) ==
  /\ Disposing(p)
  /\ lock[in[p].expired[pos[p]]] # "free"
  /\ pos' = [pos EXCEPT ![p] = @ + 1]
  /\ UNCHANGED <<connVars, lock, lastActive, now, queues, inVars, pc, batch, todo,
                 count, out>>

EndDispose(p) ==
  /\ pc[p] = "dispose" /\ ~Disposing(p)
  /\ pc' = [pc EXCEPT ![p] = "wait"]
  /\ pos' = [pos EXCEPT ![p] = 0]
  /\ count' = [count EXCEPT ![p] = 0]
  /\ UNCHANGED <<connVars, lock, lastActive, now, queues, inVars, batch, todo, out>>

-----------------------------------------------------------------------------
(* The workers of the parser and handler stages: Stage::main_loop.         *)

\* pick_task of the parser stage: the task leaves the queue, locked.
ParserPick(c) ==
  /\ c \in parserQ /\ lock[c] = "free"
  /\ parserQ' = parserQ \ {c}
  /\ lock' = [lock EXCEPT ![c] = "parser"]
  /\ UNCHANGED <<connVars, lastActive, now, handlerQ, inVars, threadVars, out>>

\* HttpParserStage::process_task: a request may be complete or not, also after
\* an error; the lock is released whatever happened.
ParserDone(c) ==
  /\ lock[c] = "parser"
  /\ \/ ActiveClose(c)
     \/ UNCHANGED <<active, shut, inVars>>
  /\ handlerQ' \in {handlerQ, handlerQ \cup {c}}
  /\ lock' = [lock EXCEPT ![c] = "free"]
  /\ UNCHANGED <<life, closeAfter, cont, lastActive, now, parserQ, threadVars, out>>

HandlerPick(c) ==
  /\ c \in handlerQ /\ lock[c] = "free"
  /\ handlerQ' = handlerQ \ {c}
  /\ lock' = [lock EXCEPT ![c] = "handler"]
  /\ UNCHANGED <<connVars, lastActive, now, parserQ, inVars, threadVars, out>>

\* HttpHandlerStage::process_task after its last request: either that request
\* asked for the connection to be closed, or requests may be left over.
Finished(c) ==
  \/ closeAfter' = closeAfter \cup {c} /\ UNCHANGED handlerQ
  \/ handlerQ' \in {handlerQ, handlerQ \cup {c}} /\ UNCHANGED closeAfter

\* PollOutStage::sched_add, after the disable_poll in it.
WriteBack(c) ==
  /\ lock' = [lock EXCEPT ![c] = "out"]
  /\ lastActive' = [lastActive EXCEPT ![c] = now]
  /\ out' = AddFd(out, c)

\* Pipeline::disable_poll by the handler stage.  When a resumed request came to
\* its end, its handler has polled the connection again just before
\* (FcgiHttpHandler::process_eof, process_abort) or not (process_headers_done).
DisablePoll(c) ==
  \/ SchedRemove(c, FALSE)
  \/ /\ c \in cont \cap active
     /\ MutexFree
     /\ current' = (current + 1) % NumIn
     /\ UNCHANGED in

\* process_task left output behind (Response::response_code): ~Response hands
\* the connection to the write-back stage.
HandlerRespond(c) ==
  /\ lock[c] = "handler"
  /\ Finished(c)
  /\ cont' = cont \ {c}
  /\ DisablePoll(c)
  /\ WriteBack(c)
  /\ UNCHANGED <<life, active, shut, now, parserQ, threadVars>>

\* Response::flush_data has written all of the output, so the stage releases
\* the lock.  A resumed request was followed by enable_poll.
HandlerRelease(c) ==
  /\ Flushes
  /\ lock[c] = "handler"
  /\ Finished(c)
  /\ IF c \in cont THEN EnablePoll(c) ELSE UNCHANGED inVars
  /\ cont' = cont \ {c}
  /\ lock' = [lock EXCEPT ![c] = "free"]
  /\ UNCHANGED <<life, active, shut, lastActive, now, parserQ, threadVars, out>>

\* Mutant: no disable_poll before the yield.
HandlerSuspendPolled(c) ==
  /\ lock[c] = "handler"
  /\ cont' = cont \cup {c}
  /\ lock' = [lock EXCEPT ![c] = "completion"]
  /\ UNCHANGED <<life, active, shut, closeAfter, lastActive, now, queues, inVars,
                 threadVars, out>>

\* FcgiHttpHandler::yield: the lock stays with the continuation.  The first
\* yield of a request comes after disable_poll, a later one finds the poll
\* disabled.
HandlerSuspend(c) ==
  /\ lock[c] = "handler"
  /\ cont' = cont \cup {c}
  /\ DisablePoll(c)
  /\ lock' = [lock EXCEPT ![c] = "completion"]
  /\ UNCHANGED <<life, active, shut, closeAfter, lastActive, now, queues, threadVars, out>>

\* FcgiHttpHandler::process_abort when the upstream fails while its answer is
\* streamed: Response::close, and no enable_poll.
HandlerAbortStream(c) ==
  /\ StreamErrors
  /\ lock[c] = "handler" /\ c \in cont
  /\ Finished(c)
  /\ cont' = cont \ {c}
  /\ lock' = [lock EXCEPT ![c] = "free"]
  /\ UNCHANGED <<life, active, shut, lastActive, now, parserQ, inVars, threadVars, out>>

-----------------------------------------------------------------------------
(* The completion stage, as the pipeline sees it.                          *)

\* HttpHandlerStage::resched_continuation.
CompletionResume(c) ==
  /\ lock[c] = "completion"
  /\ handlerQ' = handlerQ \cup {c}
  /\ lock' = [lock EXCEPT ![c] = "free"]
  /\ UNCHANGED <<connVars, lastActive, now, parserQ, inVars, threadVars, out>>

\* FcgiCompletionStage::stream_write_back.
CompletionStream(c) ==
  /\ lock[c] = "completion"
  /\ SchedRemove(c, FALSE)
  /\ WriteBack(c)
  /\ UNCHANGED <<connVars, now, queues, threadVars>>

-----------------------------------------------------------------------------
(* The thread of the write-back poller.                                    *)

\* update_connection on the write-back poller.
OutUpdated(c) ==
  IF lastActive[c] = now THEN out
  ELSE MoveTimer(out, SchedTime(c), now + IdleTimeout, c)

\* Writing stops at EAGAIN or at kMaxWriteThreshold with output left.
WriteSome(c) ==
  /\ c \in out.fds /\ c \notin shut
  /\ lastActive' = [lastActive EXCEPT ![c] = now]
  /\ out' = OutUpdated(c)
  /\ UNCHANGED <<connVars, lock, now, queues, inVars, threadVars>>


\* The output is written, or writing failed: PollOutStage::handle_connection
\* resumes the continuation, closes the connection or polls it again, and
\* then PollOutStage::cleanup_connection releases it.
WriteDone(c) ==
  /\ c \in out.fds
  /\ lastActive' = [lastActive EXCEPT ![c] = now]
  /\ out' = TimerRemove(RemoveFd(OutUpdated(c), c), now + IdleTimeout, c)
  /\ \/ /\ c \in cont
        /\ handlerQ' = handlerQ \cup {c}
        /\ UNCHANGED <<active, shut, inVars>>
     \/ /\ c \notin cont
        /\ ActiveClose(c)
        /\ UNCHANGED handlerQ
     \/ /\ c \notin cont /\ c \notin closeAfter /\ c \in active \ shut
        /\ SchedAdd(c, now + IdleTimeout)
        /\ UNCHANGED <<active, shut, handlerQ>>
  /\ lock' = [lock EXCEPT ![c] = "free"]
  /\ UNCHANGED <<life, closeAfter, cont, now, parserQ, threadVars>>

\* Mutant: the lock is not released.
OutHangUpLocked(c) ==
  /\ c \in out.fds
  /\ ActiveClose(c)
  /\ out' = TimerRemove(RemoveFd(out, c), SchedTime(c), c)
  /\ UNCHANGED <<life, lock, closeAfter, cont, lastActive, now, queues, threadVars>>

\* The hang-up branch of handle_connection.
OutHangUp(c) ==
  /\ c \in out.fds
  /\ ActiveClose(c)
  /\ out' = TimerRemove(RemoveFd(out, c), SchedTime(c), c)
  /\ lock' = [lock EXCEPT ![c] = "free"]
  /\ UNCHANGED <<life, closeAfter, cont, lastActive, now, queues, threadVars>>

\* PollOutStage::cleanup_idle_connection_callback.
OutIdle(c) ==
  /\ \E key \in Due(out, now) :
       /\ key[2] = c
       /\ out' = RemoveFd(TimerRemove(out, key[1], c), c)
  /\ ActiveClose(c)
  /\ lock' = [lock EXCEPT ![c] = "free"]
  /\ UNCHANGED <<life, closeAfter, cont, lastActive, now, queues, threadVars>>

-----------------------------------------------------------------------------
\* No connection is queued or worked on and no event waits to be handled.
Settled ==
  /\ parserQ = {} /\ handlerQ = {}
  /\ \A c \in Conns : lock[c] \notin {"parser", "handler"}
  /\ \A p \in InPollers : batch[p] = {}

\* A time unit passes; in a prompt server only once everything has settled.
\* Writing back and waiting for an upstream may always last longer.
Tick ==
  /\ now < MaxTime
  /\ Prompt => Settled
  /\ now' = now + 1
  /\ UNCHANGED <<connVars, lock, lastActive, queues, inVars, threadVars, out>>

Init ==
  /\ life = [c \in Conns |-> "new"]
  /\ lock = [c \in Conns |-> "free"]
  /\ active = {} /\ shut = {} /\ closeAfter = {} /\ cont = {}
  /\ lastActive = [c \in Conns |-> 0]
  /\ now = 0
  /\ parserQ = {} /\ handlerQ = {}
  /\ in = [p \in InPollers |-> EmptyPoller]
  /\ current = 0
  /\ pc = [p \in InPollers |-> "wait"]
  /\ batch = [p \in InPollers |-> {}]
  /\ todo = [p \in InPollers |-> {}]
  /\ pos = [p \in InPollers |-> 0]
  /\ count = [p \in InPollers |-> 0]
  /\ out = EmptyPoller

HandleEvent(p) ==
  \E c \in Conns :
    \/ \E evt \in Events : SkipEvent(p, c, evt)
    \/ ReadConnection(p, c) \/ ReadEnd(p, c) \/ HangUp(p, c)

PostHandle(p) ==
  \/ BeginTimers(p) \/ SkipTimers(p) \/ IdleCallback(p) \/ EndTimers(p)
  \/ BeginDispose(p) \/ SkipDispose(p) \/ Dispose(p) \/ SkipLocked(p)
  \/ EndDispose(p)

HandlerDone(c) ==
  HandlerRespond(c) \/ HandlerRelease(c) \/ HandlerSuspend(c) \/ HandlerAbortStream(c)

Completion(c) == CompletionResume(c) \/ CompletionStream(c)

Out(c) == WriteSome(c) \/ WriteDone(c) \/ OutHangUp(c) \/ OutIdle(c)

Next ==
  \/ \E p \in InPollers : PollWait(p) \/ HandleEvent(p) \/ PostHandle(p)
  \/ \E c \in Conns :
       \/ Accept(c) \/ ParserPick(c) \/ ParserDone(c) \/ HandlerPick(c)
       \/ HandlerDone(c) \/ Completion(c) \/ Out(c)
  \/ Tick

Spec == Init /\ [][Next]_vars

\* The threads keep running and time keeps passing.  Who waits for the mutex of
\* PollInStage gets it in the end, and try_lock of it does not fail every time:
\* it is held for short sections, again and again, hence strong fairness.  An
\* upstream answers or times out.  A socket that was shut down reports a
\* hang-up, so writing to it ends; nothing makes a client read its answer.
Fairness ==
  /\ WF_vars(Tick)
  /\ \A p \in InPollers :
       /\ WF_vars(PollWait(p)) /\ SF_vars(HandleEvent(p)) /\ WF_vars(PostHandle(p))
       /\ SF_vars(BeginTimers(p)) /\ SF_vars(BeginDispose(p))
  /\ \A c \in Conns :
       /\ WF_vars(ParserPick(c)) /\ SF_vars(ParserDone(c))
       /\ WF_vars(HandlerPick(c)) /\ SF_vars(HandlerDone(c))
       /\ SF_vars(Completion(c))
       /\ SF_vars(c \in shut /\ (WriteDone(c) \/ OutHangUp(c))) /\ SF_vars(OutIdle(c))

FairSpec == Spec /\ Fairness

-----------------------------------------------------------------------------
(* The properties.                                                         *)

PollerType ==
  [fds : SUBSET Conns,
   timer : SUBSET ((0..(MaxTime + IdleTimeout)) \X Conns),
   expired : Seq(Conns)]

\* Every variable stays in its range.
TypeOK ==
  /\ life \in [Conns -> {"new", "open", "dead"}]
  /\ lock \in [Conns -> Holders]
  /\ {active, shut, closeAfter, cont, parserQ, handlerQ} \subseteq SUBSET Conns
  /\ lastActive \in [Conns -> 0..MaxTime]
  /\ now \in 0..MaxTime
  /\ in \in [InPollers -> PollerType]
  /\ current \in InPollers
  /\ pc \in [InPollers -> {"wait", "handle", "timers", "recycle", "dispose"}]
  /\ batch \in [InPollers -> SUBSET (Conns \X Events)]
  /\ todo \in [InPollers -> SUBSET ((0..(MaxTime + IdleTimeout)) \X Conns)]
  /\ pos \in [InPollers -> Nat]
  /\ count \in [InPollers -> 0..MaxRecycle]
  /\ out \in PollerType

Refers(poller, c) ==
  \/ c \in poller.fds
  \/ \E key \in poller.timer : key[2] = c
  \/ c \in ToSet(poller.expired)

Expired(c) == \E p \in InPollers : c \in ToSet(in[p].expired)
Polled(c) == \E p \in InPollers : c \in in[p].fds


\* A connection is in the recycle lists at most once, however many stages give
\* it up at the same time: the second dispose would use freed memory.
ExpiredOnce ==
  \A p, q \in InPollers :
    \A i \in DOMAIN in[p].expired : \A j \in DOMAIN in[q].expired :
      in[p].expired[i] = in[q].expired[j] => p = q /\ i = j

\* cleanup_connection and the idle callbacks take a connection off its poller
\* before they recycle it.
ExpiredIsNotPolled == \A c \in Conns : Expired(c) => ~Polled(c)

\* A poller's timer has exactly the entry of each connection it polls, at the
\* time timer_sched_time gives: sched_remove finds it by that time.
TimerMatchesPoller ==
  \A p \in InPollers : in[p].timer = {<<SchedTime(c), c>> : c \in in[p].fds}

\* While the write-back stage owns a connection nobody else does: it is locked
\* for that stage and not polled for reading.
WriteBackIsExclusive ==
  \A c \in Conns : (c \in out.fds <=> lock[c] = "out")
                   /\ (lock[c] \in {"out", "completion"} => ~Polled(c))

\* No connection is forgotten: an open connection that no stage holds is polled,
\* queued or on its way to disposal.
NotForgotten ==
  \A c \in Conns :
    life[c] = "open" /\ lock[c] = "free" =>
      Polled(c) \/ Expired(c) \/ c \in parserQ \cup handlerQ


\* The requests of a connection come to an end.
FiniteRequests == <>[][\A c \in Conns : ~HandlerPick(c) /\ ~ParserPick(c)]_vars

\* Recycling ends in dispose_connection: a connection in a recycle list is
\* destroyed, although a pass skips it while a stage holds its lock.
ExpiredIsDisposed ==
  FiniteRequests => \A c \in Conns : Expired(c) ~> life[c] = "dead"

IdleReader(c) == Polled(c) /\ now >= SchedTime(c)
IdleWriter(c) == c \in out.fds /\ now >= SchedTime(c)

\* A polled connection that has been idle for its timeout is closed or gets
\* active again ("server will close the connection", doc/manual/conf.rst).
IdleReaderIsClosed ==
  FiniteRequests => \A c \in Conns : IdleReader(c) ~> ~IdleReader(c)

\* The same for a connection that is written to ("This is the maximum time
\* server can tolerent idle connection", doc/manual/conf.rst): PollOutStage
\* leaves out the timer entry that would make it true.
IdleWriterIsClosed ==
  \A c \in Conns : IdleWriter(c) ~> ~IdleWriter(c)
=============================================================================
