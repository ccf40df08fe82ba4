--------------------------- MODULE QueueScheduler ---------------------------
(***************************************************************************)
(* The locking task queue that feeds the thread pool of a stage            *)
(* (QueueScheduler in core/pipeline.cc), the worker loop that drains it    *)
(* (Stage::main_loop in core/stages.cc) and the threads of the other       *)
(* stages that add, cancel and wake tasks.                                 *)
(*                                                                         *)
(* A task is a connection.  A connection carries a lock, which is handed   *)
(* from stage to stage with the connection: the queue may hold connections *)
(* whose lock is taken, a worker takes the first one it can lock, and a    *)
(* worker that finds none sleeps on the condition variable although the    *)
(* queue is not empty.  add_task wakes the sleepers only when the queue    *)
(* was empty, so it is the reschedule() after every unlock that keeps a    *)
(* task from being stranded.                                               *)
(*                                                                         *)
(* The scan of the queue is one step per connection, because connection    *)
(* locks change hands while the scanner holds only the queue's mutex.  A   *)
(* critical section that touches nothing but the queue is one step.        *)
(***************************************************************************)
EXTENDS Naturals, Sequences, SequencesExt

CONSTANTS
  Conns,      \* the connections
  Pool,       \* the permanent threads of the stage (Stage::start_thread_pool)
  Spare,      \* the threads the controller may start (Controller::check_thread)
  Clients,    \* threads of the other stages: pollers and writers
  NoThread,   \* an unlocked mutex
  WriteBack,  \* holder of a connection lock handed to the write-back stage
  Suspended,  \* the same, for a connection that has a continuation
  NoConn      \* "no connection"

StageThreads == Pool \cup Spare
Threads == StageThreads \cup Clients

ASSUME ThreadsAssumption ==
  /\ Pool # {}
  /\ Pool \cap Spare = {}
  /\ StageThreads \cap Clients = {}
  /\ NoThread \notin Threads \cup {WriteBack, Suspended}
  /\ WriteBack \notin Threads \cup {Suspended}
  /\ Suspended \notin Threads
  /\ NoConn \notin Conns

VARIABLES
  list,     \* list_: the queued connections, front first
  nodes,    \* nodes_: the connections the fd map has an entry for
  mutex,    \* mutex_ of the scheduler
  waiting,  \* the threads blocked on cond_
  lock,     \* Connection::mutex_, per connection
  closed,   \* connections that wait for dispose_connection
  auto,     \* Controller::auto_threads_
  pc,       \* where each thread is
  cur,      \* the connection each thread works on
  pos       \* how far a scanning thread has come in list

vars == <<list, nodes, mutex, waiting, lock, closed, auto, pc, cur, pos>>

StagePC == {"off", "pick", "scan", "wait", "twait", "process", "readd",
            "unlock", "resched"}
ClientPC == {"idle", "reading", "writing", "resuming", "disposing", "unlock",
             "resched"}

\* The program counters at which a thread owns the lock of cur[t].
OwnerPC == {"process", "readd", "reading", "writing", "resuming", "disposing",
            "unlock"}

-----------------------------------------------------------------------------
\* list_.erase(it) for the node of c.
Erase(s, c) == RemoveAt(s, CHOOSE i \in DOMAIN s : s[i] = c)

\* The critical section of add_task: a queued connection moves to the front
\* and nobody is woken; a new one goes to the back, and the sleepers are woken
\* only if the queue was empty.
AddTask(c) ==
  /\ mutex = NoThread
  /\ \/ /\ c \in nodes
        /\ list' = Cons(c, Erase(list, c))
        /\ UNCHANGED <<nodes, waiting>>
     \/ /\ c \notin nodes
        /\ list' = Append(list, c)
        /\ nodes' = nodes \cup {c}
        /\ waiting' = IF list = <<>> THEN {} ELSE waiting
  /\ UNCHANGED mutex

\* Mutant: the fd map keeps a pointer to the erased list node.
RemoveTaskKeepsNode(c) ==
  /\ mutex = NoThread
  /\ list' = IF c \in nodes THEN Erase(list, c) ELSE list
  /\ UNCHANGED <<nodes, mutex, waiting>>

\* The critical section of remove_task.
RemoveTask(c) ==
  /\ mutex = NoThread
  /\ \/ /\ c \in nodes
        /\ list' = Erase(list, c)
        /\ nodes' = nodes \ {c}
     \/ /\ c \notin nodes
        /\ UNCHANGED <<list, nodes>>
  /\ UNCHANGED <<mutex, waiting>>

Goto(t, label) == pc' = [pc EXCEPT ![t] = label]

-----------------------------------------------------------------------------
(* The worker loop of the stage.                                           *)

\* pick_task_lock_connection takes the mutex.  Its first loop (wait while the
\* queue is empty) and its scan (wait if nothing can be locked) behave alike
\* on an empty queue, so one scan stands for both.
PickTask(w) ==
  /\ pc[w] = "pick"
  /\ mutex = NoThread
  /\ mutex' = w
  /\ pos' = [pos EXCEPT ![w] = 1]
  /\ Goto(w, "scan")
  /\ UNCHANGED <<list, nodes, waiting, lock, closed, auto, cur>>

\* Mutant: the first task is taken whoever has its lock.
ScanTakeLocked(w) ==
  /\ pc[w] = "scan"
  /\ pos[w] <= Len(list)
  /\ LET c == list[pos[w]] IN
       /\ lock' = [lock EXCEPT ![c] = w]
       /\ cur' = [cur EXCEPT ![w] = c]
       /\ nodes' = nodes \ {c}
  /\ list' = RemoveAt(list, pos[w])
  /\ mutex' = NoThread
  /\ pos' = [pos EXCEPT ![w] = 0]
  /\ Goto(w, "process")
  /\ UNCHANGED <<waiting, closed, auto>>

\* conn->try_lock() succeeds: the task leaves the queue with its lock held.
ScanTake(w) ==
  /\ pc[w] = "scan"
  /\ pos[w] <= Len(list)
  /\ LET c == list[pos[w]] IN
       /\ lock[c] = NoThread
       /\ lock' = [lock EXCEPT ![c] = w]
       /\ cur' = [cur EXCEPT ![w] = c]
       /\ nodes' = nodes \ {c}
  /\ list' = RemoveAt(list, pos[w])
  /\ mutex' = NoThread
  /\ pos' = [pos EXCEPT ![w] = 0]
  /\ Goto(w, "process")
  /\ UNCHANGED <<waiting, closed, auto>>

\* conn->try_lock() fails: look at the next task.
ScanSkip(w) ==
  /\ pc[w] = "scan"
  /\ pos[w] <= Len(list)
  /\ lock[list[pos[w]]] # NoThread
  /\ pos' = [pos EXCEPT ![w] = @ + 1]
  /\ UNCHANGED <<list, nodes, mutex, waiting, lock, closed, auto, pc, cur>>

\* Mutant: permanent threads sleep with a timeout too.
AutoWaitAlwaysTimed(w) ==
  /\ pc[w] = "scan"
  /\ pos[w] > Len(list)
  /\ waiting' = waiting \cup {w}
  /\ mutex' = NoThread
  /\ pos' = [pos EXCEPT ![w] = 0]
  /\ Goto(w, "twait")
  /\ UNCHANGED <<list, nodes, lock, closed, auto, cur>>

\* auto_wait: no task could be locked.  A thread of the controller sleeps with
\* a timeout.
AutoWait(w) ==
  /\ pc[w] = "scan"
  /\ pos[w] > Len(list)
  /\ waiting' = waiting \cup {w}
  /\ mutex' = NoThread
  /\ pos' = [pos EXCEPT ![w] = 0]
  /\ Goto(w, IF w \in auto THEN "twait" ELSE "wait")
  /\ UNCHANGED <<list, nodes, lock, closed, auto, cur>>

\* A notified thread gets the mutex back and rescans from the front.
WakeUp(w) ==
  /\ pc[w] \in {"wait", "twait"}
  /\ w \notin waiting
  /\ mutex = NoThread
  /\ mutex' = w
  /\ pos' = [pos EXCEPT ![w] = 1]
  /\ Goto(w, "scan")
  /\ UNCHANGED <<list, nodes, waiting, lock, closed, auto, cur>>

\* pthread_cond_wait may return without a notification.
SpuriousWakeUp(w) ==
  /\ w \in waiting
  /\ waiting' = waiting \ {w}
  /\ UNCHANGED <<list, nodes, mutex, lock, closed, auto, pc, cur, pos>>

\* The timed wait of a controller thread ends with ETIMEDOUT: exit_auto_thread,
\* pick_task returns NULL and main_loop returns.
TimeOut(w) ==
  /\ pc[w] = "twait"
  /\ mutex = NoThread
  /\ waiting' = waiting \ {w}
  /\ auto' = auto \ {w}
  /\ Goto(w, "off")
  /\ UNCHANGED <<list, nodes, mutex, lock, closed, cur, pos>>

\* process_task closes the connection (Connection::active_close).
ProcessClose(w) ==
  /\ pc[w] = "process"
  /\ closed' = closed \cup {cur[w]}
  /\ UNCHANGED <<list, nodes, mutex, waiting, lock, auto, pc, cur, pos>>

\* process_task queues its connection again (HttpHandlerStage::process_task
\* with requests left over).
ProcessReadd(w) ==
  /\ pc[w] = "process"
  /\ AddTask(cur[w])
  /\ Goto(w, "readd")
  /\ UNCHANGED <<lock, closed, auto, cur, pos>>

\* process_task returned >= 0: main_loop will unlock and reschedule.
ProcessRelease(w) ==
  /\ pc[w] \in {"process", "readd"}
  /\ Goto(w, "unlock")
  /\ UNCHANGED <<list, nodes, mutex, waiting, lock, closed, auto, cur, pos>>

\* process_task returned < 0: the lock went to the write-back stage, or stays
\* with the continuation of the request (which is not queued again), and
\* main_loop touches the connection no more.
ProcessKeepLock(w) ==
  /\ \/ /\ pc[w] \in {"process", "readd"}
        /\ lock' = [lock EXCEPT ![cur[w]] = WriteBack]
     \/ /\ pc[w] = "process"
        /\ lock' = [lock EXCEPT ![cur[w]] = Suspended]
  /\ cur' = [cur EXCEPT ![w] = NoConn]
  /\ Goto(w, "pick")
  /\ UNCHANGED <<list, nodes, mutex, waiting, closed, auto, pos>>

\* check_thread starts a thread, and only then records its id.
StartThread(w) ==
  /\ w \in Spare
  /\ pc[w] = "off"
  /\ Goto(w, "pick")
  /\ UNCHANGED <<list, nodes, mutex, waiting, lock, closed, auto, cur, pos>>

RecordThread(w) ==
  /\ w \in Spare \ auto
  /\ pc[w] # "off"
  /\ auto' = auto \cup {w}
  /\ UNCHANGED <<list, nodes, mutex, waiting, lock, closed, pc, cur, pos>>

-----------------------------------------------------------------------------
(* The other stages.                                                       *)

\* try_lock of read_connection, handle_connection and the idle callback.
TryLock(t, c) ==
  /\ pc[t] = "idle"
  /\ c \notin closed
  /\ lock[c] = NoThread
  /\ lock' = [lock EXCEPT ![c] = t]
  /\ cur' = [cur EXCEPT ![t] = c]
  /\ Goto(t, "reading")
  /\ UNCHANGED <<list, nodes, mutex, waiting, closed, auto, pos>>

\* Mutant: the reader unlocks the connection before it queues it.
ReadTaskUnlocked(t) ==
  /\ pc[t] = "reading"
  /\ AddTask(cur[t])
  /\ lock' = [lock EXCEPT ![cur[t]] = NoThread]
  /\ cur' = [cur EXCEPT ![t] = NoConn]
  /\ Goto(t, "resched")
  /\ UNCHANGED <<closed, auto, pos>>

\* read_connection got data: sched_add.
ReadTask(t) ==
  /\ pc[t] = "reading"
  /\ AddTask(cur[t])
  /\ Goto(t, "unlock")
  /\ UNCHANGED <<lock, closed, auto, cur, pos>>

\* read_connection failed: cleanup_connection.
ReadError(t) ==
  /\ pc[t] = "reading"
  /\ closed' = closed \cup {cur[t]}
  /\ Goto(t, "unlock")
  /\ UNCHANGED <<list, nodes, mutex, waiting, lock, auto, cur, pos>>

\* The hang-up branch of PollInStage::handle_connection and both idle
\* callbacks: the connection is given up and unlocked, and nobody is woken.
HangUp(t) ==
  /\ pc[t] \in {"reading", "writing", "resuming"}
  /\ closed' = closed \cup {cur[t]}
  /\ lock' = [lock EXCEPT ![cur[t]] = NoThread]
  /\ cur' = [cur EXCEPT ![t] = NoConn]
  /\ Goto(t, "idle")
  /\ UNCHANGED <<list, nodes, mutex, waiting, auto, pos>>

\* A thread of the write-back or completion stage works on a connection it was
\* handed.
WriteTake(t, c) ==
  /\ pc[t] = "idle"
  /\ \/ lock[c] = WriteBack /\ Goto(t, "writing")
     \/ lock[c] = Suspended /\ Goto(t, "resuming")
  /\ lock' = [lock EXCEPT ![c] = t]
  /\ cur' = [cur EXCEPT ![t] = c]
  /\ UNCHANGED <<list, nodes, mutex, waiting, closed, auto, pos>>

\* The output is written, or failed and the connection is closed.
WriteDone(t) ==
  /\ pc[t] = "writing"
  /\ closed' \in {closed, closed \cup {cur[t]}}
  /\ Goto(t, "unlock")
  /\ UNCHANGED <<list, nodes, mutex, waiting, lock, auto, cur, pos>>

\* HttpHandlerStage::resched_continuation.
WriteContinue(t) ==
  /\ pc[t] = "resuming"
  /\ AddTask(cur[t])
  /\ Goto(t, "unlock")
  /\ UNCHANGED <<lock, closed, auto, cur, pos>>

\* Pipeline::dispose_connection: try_lock, then sched_remove, unlock and
\* destroy.  The connection that accept() makes next may reuse the fd.
DisposeTryLock(t, c) ==
  /\ pc[t] = "idle"
  /\ c \in closed
  /\ lock[c] = NoThread
  /\ lock' = [lock EXCEPT ![c] = t]
  /\ cur' = [cur EXCEPT ![t] = c]
  /\ Goto(t, "disposing")
  /\ UNCHANGED <<list, nodes, mutex, waiting, closed, auto, pos>>

Dispose(t) ==
  /\ pc[t] = "disposing"
  /\ RemoveTask(cur[t])
  /\ lock' = [lock EXCEPT ![cur[t]] = NoThread]
  /\ closed' = closed \ {cur[t]}
  /\ cur' = [cur EXCEPT ![t] = NoConn]
  /\ Goto(t, "idle")
  /\ UNCHANGED <<auto, pos>>

\* Mutants: unlock without the reschedule, and a reschedule that wakes nobody.
UnlockOnly(t) ==
  /\ pc[t] = "unlock"
  /\ lock' = [lock EXCEPT ![cur[t]] = NoThread]
  /\ cur' = [cur EXCEPT ![t] = NoConn]
  /\ Goto(t, IF t \in Clients THEN "idle" ELSE "pick")
  /\ UNCHANGED <<list, nodes, mutex, waiting, closed, auto, pos>>


\* conn->unlock(), then reschedule_all().
Unlock(t) ==
  /\ pc[t] = "unlock"
  /\ lock' = [lock EXCEPT ![cur[t]] = NoThread]
  /\ cur' = [cur EXCEPT ![t] = NoConn]
  /\ Goto(t, "resched")
  /\ UNCHANGED <<list, nodes, mutex, waiting, closed, auto, pos>>

Reschedule(t) ==
  /\ pc[t] = "resched"
  /\ mutex = NoThread
  /\ waiting' = {}
  /\ Goto(t, IF t \in Clients THEN "idle" ELSE "pick")
  /\ UNCHANGED <<list, nodes, mutex, lock, closed, auto, cur, pos>>

-----------------------------------------------------------------------------
Init ==
  /\ list = <<>>
  /\ nodes = {}
  /\ mutex = NoThread
  /\ waiting = {}
  /\ lock = [c \in Conns |-> NoThread]
  /\ closed = {}
  /\ auto = {}
  /\ pc = [t \in Threads |-> IF t \in Pool THEN "pick"
                             ELSE IF t \in Spare THEN "off" ELSE "idle"]
  /\ cur = [t \in Threads |-> NoConn]
  /\ pos = [w \in StageThreads |-> 0]

\* One turn of a worker, without the spurious ones.
Worker(w) ==
  \/ PickTask(w) \/ ScanTake(w) \/ ScanSkip(w) \/ AutoWait(w) \/ WakeUp(w)
  \/ ProcessClose(w) \/ ProcessReadd(w) \/ ProcessRelease(w)
  \/ ProcessKeepLock(w)

\* A client finishes what it began.
ClientStep(t) ==
  \/ ReadTask(t) \/ ReadError(t) \/ HangUp(t)
  \/ WriteDone(t) \/ WriteContinue(t) \/ Dispose(t)

Release(t) == Unlock(t) \/ Reschedule(t)

Next ==
  \/ \E w \in StageThreads :
       Worker(w) \/ SpuriousWakeUp(w) \/ TimeOut(w) \/ StartThread(w)
         \/ RecordThread(w)
  \/ \E t \in Clients :
       \/ ClientStep(t)
       \/ \E c \in Conns : TryLock(t, c) \/ WriteTake(t, c) \/ DisposeTryLock(t, c)
  \/ \E t \in Threads : Release(t)

Spec == Init /\ [][Next]_vars

\* Threads keep running, and the write-back stage gets round to what it was
\* handed.
Fairness ==
  /\ \A w \in StageThreads :
       /\ WF_vars(PickTask(w)) /\ WF_vars(WakeUp(w))
       /\ WF_vars(ScanTake(w)) /\ WF_vars(ScanSkip(w)) /\ WF_vars(AutoWait(w))
       /\ WF_vars(ProcessRelease(w) \/ ProcessKeepLock(w))
  /\ \A t \in Clients : WF_vars(ClientStep(t))
  /\ \A t \in Threads : WF_vars(Release(t))
  /\ \A c \in Conns : SF_vars(\E t \in Clients : WriteTake(t, c))

FairSpec == Spec /\ Fairness

-----------------------------------------------------------------------------
(* The properties.                                                         *)

\* Every variable stays in its range; in particular no client ever runs the
\* worker loop and no permanent thread ever leaves it.
TypeOK ==
  /\ list \in Seq(Conns)
  /\ nodes \subseteq Conns
  /\ mutex \in StageThreads \cup {NoThread}
  /\ waiting \subseteq StageThreads
  /\ lock \in [Conns -> Threads \cup {NoThread, WriteBack, Suspended}]
  /\ closed \subseteq Conns
  /\ auto \subseteq Spare
  /\ pc \in [Threads -> StagePC \cup ClientPC]
  /\ \A w \in StageThreads : pc[w] \in StagePC
  /\ \A w \in Pool : pc[w] \notin {"off", "twait"}
  /\ \A t \in Clients : pc[t] \in ClientPC
  /\ cur \in [Threads -> Conns \cup {NoConn}]
  /\ pos \in [StageThreads -> Nat]

\* The list and the fd map describe the same set of tasks and no connection is
\* queued twice, whatever the order of add_task, remove_task and pick_task:
\* a stale node would make add_task or remove_task erase a freed list node.
ListMatchesNodes ==
  /\ nodes = ToSet(list)
  /\ IsInjective(list)

\* A connection is worked on by one thread at a time, across stages: whoever
\* is between pick_task/try_lock and unlock is alone with its connection.
ExclusiveConnection ==
  \A t, u \in Threads :
    pc[t] \in OwnerPC /\ pc[u] \in OwnerPC /\ cur[t] = cur[u] => t = u

\* Thread w has not yet decided to sleep without having looked at c.
WillLook(w, c) ==
  /\ w \notin waiting
  /\ pc[w] # "off"
  /\ pc[w] = "scan" => \E i \in DOMAIN list : i >= pos[w] /\ list[i] = c

\* A permanent thread of the stage is still going to look at c, or some thread
\* is about to call reschedule().
Attended(c) ==
  \/ \E w \in Pool : WillLook(w, c)
  \/ \E t \in Threads : pc[t] = "resched"

\* No lost wake-up: while an open connection is queued and unlocked, some
\* thread will still look for it.  (add_task alone does not ensure this: it
\* notifies only if the queue was empty, and so a reschedule() has to follow
\* the unlock.)
NoLostWakeUp ==
  \A c \in ToSet(list) \ closed : lock[c] = NoThread => Attended(c)

\* From some moment on no task is added and no wait ends spuriously.
Quiet ==
  <>[][/\ \A t \in Clients : ~ReadTask(t) /\ ~WriteContinue(t)
       /\ \A w \in StageThreads : ~ProcessReadd(w) /\ ~SpuriousWakeUp(w)]_vars


\* The queue implements the abstract pool: only the owner of a connection
\* queues or cancels it, and pick_task hands it to one owner, never while it
\* has another.
Abstract == INSTANCE TaskPool
  WITH pending <- nodes, owned <- {c \in Conns : lock[c] # NoThread}
ImplementsTaskPool == Abstract!Spec
=============================================================================
