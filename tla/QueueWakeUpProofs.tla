------------------------- MODULE QueueWakeUpProofs --------------------------
(***************************************************************************)
(* The theorems about QueueScheduler.  The last conjunct of the inductive  *)
(* invariant, NoLostWakeUp, is shown here action by action; the others are *)
(* in QueueSchedulerProofs.  The refinement of TaskPool follows from the   *)
(* same invariant.                                                         *)
(***************************************************************************)
EXTENDS QueueSchedulerProofs

\* A step of thread t that wakes nobody up but puts nobody to sleep either,
\* and pulls the list from under no scan, leaves c attended if t itself does
\* not turn away from it.
LEMMA KeepsAttended ==
  ASSUME TypeOK, TypeOK', NEW t \in Threads, NEW c, Attended(c),
         waiting' \subseteq waiting \cup {t},
         list' = list \/ \A u \in Pool \ {t} : pc[u] # "scan",
         \A u \in Threads \ {t} : pc'[u] = pc[u],
         \A u \in StageThreads \ {t} : pos'[u] = pos[u],
         pc[t] # "resched",
         t \in Pool /\ WillLook(t, c) => WillLook(t, c)'
  PROVE  Attended(c)'
<1>1. CASE \E u \in Threads : pc[u] = "resched"
  BY <1>1 DEF Attended
<1>2. ASSUME NEW v \in Pool, WillLook(v, c) PROVE Attended(c)'
  <2>1. CASE v = t
    BY <1>2, <2>1 DEF Attended
  <2>2. CASE v # t
    <3>1. WillLook(v, c)'
      BY <1>2, <2>2 DEF WillLook, Threads, StageThreads
    <3> QED BY <3>1 DEF Attended
  <2> QED BY <2>1, <2>2
<1> QED BY <1>1, <1>2 DEF Attended

\* No step loses a wake-up.
LEMMA NextWakeUp ==
  ASSUME IInv, [Next]_vars
  PROVE  NoLostWakeUp'
<1>0. /\ TypeOK /\ ListMatchesNodes /\ MutexInv /\ OwnerInv /\ WaitInv
      /\ NoLostWakeUp /\ TypeOK'
  BY NextThreads DEF IInv
<1> SUFFICES ASSUME NEW c \in ToSet(list') \ closed', lock'[c] = NoThread
             PROVE  Attended(c)'
  BY DEF NoLostWakeUp
<1>a. ASSUME c \in ToSet(list) \ closed, lock[c] = NoThread PROVE Attended(c)
  BY <1>0, <1>a DEF NoLostWakeUp
<1> USE ThreadsAssumption DEF Threads, StageThreads
<1>1. ASSUME NEW w \in StageThreads, PickTask(w) PROVE Attended(c)'
  <2>1. Attended(c)
    BY <1>0, <1>a, <1>1 DEF PickTask, TypeOK, OwnerInv, OwnerPC
  <2>2. w \in Pool /\ WillLook(w, c) => WillLook(w, c)'
    BY <1>0, <1>1 DEF PickTask, Goto, WillLook, TypeOK, MutexInv, WaitInv, ToSet
  <2> QED BY <1>0, <1>1, <2>1, <2>2, KeepsAttended DEF PickTask, Goto, TypeOK
<1>2. ASSUME NEW w \in StageThreads, ScanTake(w) PROVE Attended(c)'
  <2>1. pos[w] \in 1..Len(list)
    BY <1>0, <1>2 DEF ScanTake, TypeOK, MutexInv
  <2>2. ToSet(list') = ToSet(list) \ {list[pos[w]]} /\ list[pos[w]] \in Conns
    BY <1>0, <1>2, <2>1, RemoveAtList DEF ScanTake, TypeOK, ListMatchesNodes
  <2>3. Attended(c)
    BY <1>0, <1>a, <1>2, <2>2 DEF ScanTake, TypeOK
  <2>4. \A u \in StageThreads \ {w} : pc[u] # "scan"
    BY <1>0, <1>2 DEF ScanTake, MutexInv
  <2>5. w \in Pool /\ WillLook(w, c) => WillLook(w, c)'
    BY <1>0, <1>2 DEF ScanTake, Goto, WillLook, TypeOK
  <2> QED BY <1>0, <1>2, <2>3, <2>4, <2>5, KeepsAttended DEF ScanTake, Goto, TypeOK
<1>3. ASSUME NEW w \in StageThreads, ScanSkip(w) PROVE Attended(c)'
  <2>1. Attended(c)
    BY <1>0, <1>a, <1>3 DEF ScanSkip, TypeOK, OwnerInv, OwnerPC
  <2>2. w \in Pool /\ WillLook(w, c) => WillLook(w, c)'
    BY <1>0, <1>3 DEF ScanSkip, Goto, WillLook, TypeOK, MutexInv, WaitInv, ToSet
  <2> QED BY <1>0, <1>3, <2>1, <2>2, KeepsAttended DEF ScanSkip, Goto, TypeOK
<1>4. ASSUME NEW w \in StageThreads, AutoWait(w) PROVE Attended(c)'
  <2>1. Attended(c)
    BY <1>0, <1>a, <1>4 DEF AutoWait, TypeOK, OwnerInv, OwnerPC
  <2>2. w \in Pool /\ WillLook(w, c) => WillLook(w, c)'
    BY <1>0, <1>4 DEF AutoWait, Goto, WillLook, TypeOK, MutexInv, WaitInv, ToSet
  <2> QED BY <1>0, <1>4, <2>1, <2>2, KeepsAttended DEF AutoWait, Goto, TypeOK
<1>5. ASSUME NEW w \in StageThreads, WakeUp(w) PROVE Attended(c)'
  <2>1. Attended(c)
    BY <1>0, <1>a, <1>5 DEF WakeUp, TypeOK, OwnerInv, OwnerPC
  <2>2. w \in Pool /\ WillLook(w, c) => WillLook(w, c)'
    BY <1>0, <1>5 DEF WakeUp, Goto, WillLook, TypeOK, MutexInv, WaitInv, ToSet
  <2> QED BY <1>0, <1>5, <2>1, <2>2, KeepsAttended DEF WakeUp, Goto, TypeOK
<1>6. ASSUME NEW w \in StageThreads, SpuriousWakeUp(w) PROVE Attended(c)'
  <2>1. Attended(c)
    BY <1>0, <1>a, <1>6 DEF SpuriousWakeUp, TypeOK, OwnerInv, OwnerPC
  <2>2. w \in Pool /\ WillLook(w, c) => WillLook(w, c)'
    BY <1>0, <1>6 DEF SpuriousWakeUp, Goto, WillLook, TypeOK, MutexInv, WaitInv, ToSet
  <2> QED BY <1>0, <1>6, <2>1, <2>2, KeepsAttended DEF SpuriousWakeUp, TypeOK, WaitInv
<1>7. ASSUME NEW w \in StageThreads, TimeOut(w) PROVE Attended(c)'
  <2>1. Attended(c)
    BY <1>0, <1>a, <1>7 DEF TimeOut, TypeOK, OwnerInv, OwnerPC
  <2>2. w \in Pool /\ WillLook(w, c) => WillLook(w, c)'
    BY <1>0, <1>7 DEF TimeOut, Goto, WillLook, TypeOK, MutexInv, WaitInv, ToSet
  <2> QED BY <1>0, <1>7, <2>1, <2>2, KeepsAttended DEF TimeOut, Goto, TypeOK
<1>8. ASSUME NEW w \in StageThreads, ProcessClose(w) PROVE Attended(c)'
  <2>1. Attended(c)
    BY <1>0, <1>a, <1>8 DEF ProcessClose, TypeOK, OwnerInv, OwnerPC
  <2>2. w \in Pool /\ WillLook(w, c) => WillLook(w, c)'
    BY <1>0, <1>8 DEF ProcessClose, Goto, WillLook, TypeOK, MutexInv, WaitInv, ToSet
  <2> QED BY <1>0, <1>8, <2>1, <2>2, KeepsAttended DEF ProcessClose, Goto, TypeOK
<1>9. ASSUME NEW w \in StageThreads, ProcessReadd(w) PROVE Attended(c)'
  <2>1. cur[w] \in Conns /\ lock[cur[w]] # NoThread
    BY <1>0, <1>9 DEF ProcessReadd, OwnerInv, OwnerPC, TypeOK
  <2>2. mutex = NoThread /\ nodes' = nodes \cup {cur[w]} /\ waiting' \subseteq waiting /\ ListMatchesNodes'
    BY <1>0, <1>9, <2>1, AddTaskQueue DEF ProcessReadd
  <2>3. Attended(c)
    BY <1>0, <1>a, <1>9, <2>1, <2>2 DEF ProcessReadd, ListMatchesNodes
  <2>4. \A u \in StageThreads : pc[u] # "scan"
    BY <1>0, <2>2 DEF MutexInv
  <2>5. w \in Pool /\ WillLook(w, c) => WillLook(w, c)'
    BY <1>0, <1>9, <2>2 DEF ProcessReadd, Goto, WillLook, TypeOK
  <2> QED BY <1>0, <1>9, <2>2, <2>3, <2>4, <2>5, KeepsAttended DEF ProcessReadd, Goto, TypeOK
<1>10. ASSUME NEW w \in StageThreads, ProcessRelease(w) PROVE Attended(c)'
  <2>1. Attended(c)
    BY <1>0, <1>a, <1>10 DEF ProcessRelease, TypeOK, OwnerInv, OwnerPC
  <2>2. w \in Pool /\ WillLook(w, c) => WillLook(w, c)'
    BY <1>0, <1>10 DEF ProcessRelease, Goto, WillLook, TypeOK, MutexInv, WaitInv, ToSet
  <2> QED BY <1>0, <1>10, <2>1, <2>2, KeepsAttended DEF ProcessRelease, Goto, TypeOK
<1>11. ASSUME NEW w \in StageThreads, ProcessKeepLock(w) PROVE Attended(c)'
  <2>0. c \in Conns /\ c \in ToSet(list) \ closed
    BY <1>0, <1>11 DEF ProcessKeepLock, TypeOK, ListMatchesNodes
  <2>1. Attended(c)
    BY <1>0, <1>a, <1>11, <2>0 DEF ProcessKeepLock, TypeOK
  <2>2. w \in Pool /\ WillLook(w, c) => WillLook(w, c)'
    BY <1>0, <1>11 DEF ProcessKeepLock, Goto, WillLook, TypeOK, MutexInv, WaitInv, ToSet
  <2> QED BY <1>0, <1>11, <2>1, <2>2, KeepsAttended DEF ProcessKeepLock, Goto, TypeOK
<1>12. ASSUME NEW w \in StageThreads, StartThread(w) PROVE Attended(c)'
  <2>1. Attended(c)
    BY <1>0, <1>a, <1>12 DEF StartThread, TypeOK, OwnerInv, OwnerPC
  <2>2. w \in Pool /\ WillLook(w, c) => WillLook(w, c)'
    BY <1>0, <1>12 DEF StartThread, Goto, WillLook, TypeOK, MutexInv, WaitInv, ToSet
  <2> QED BY <1>0, <1>12, <2>1, <2>2, KeepsAttended DEF StartThread, Goto, TypeOK
<1>13. ASSUME NEW w \in StageThreads, RecordThread(w) PROVE Attended(c)'
  BY <1>a, <1>13 DEF RecordThread, Attended, WillLook
<1>14. ASSUME NEW t \in Clients, ReadTask(t) PROVE Attended(c)'
  <2>1. cur[t] \in Conns /\ lock[cur[t]] # NoThread
    BY <1>0, <1>14 DEF ReadTask, OwnerInv, OwnerPC, TypeOK
  <2>2. mutex = NoThread /\ nodes' = nodes \cup {cur[t]} /\ waiting' \subseteq waiting /\ ListMatchesNodes'
    BY <1>0, <1>14, <2>1, AddTaskQueue DEF ReadTask
  <2>3. Attended(c)
    BY <1>0, <1>a, <1>14, <2>1, <2>2 DEF ReadTask, ListMatchesNodes
  <2>4. \A u \in StageThreads : pc[u] # "scan"
    BY <1>0, <2>2 DEF MutexInv
  <2>5. t \in Pool /\ WillLook(t, c) => WillLook(t, c)'
    BY <1>0, <1>14, <2>2 DEF ReadTask, Goto, WillLook, TypeOK
  <2> QED BY <1>0, <1>14, <2>2, <2>3, <2>4, <2>5, KeepsAttended DEF ReadTask, Goto, TypeOK
<1>15. ASSUME NEW t \in Clients, WriteContinue(t) PROVE Attended(c)'
  <2>1. cur[t] \in Conns /\ lock[cur[t]] # NoThread
    BY <1>0, <1>15 DEF WriteContinue, OwnerInv, OwnerPC, TypeOK
  <2>2. mutex = NoThread /\ nodes' = nodes \cup {cur[t]} /\ waiting' \subseteq waiting /\ ListMatchesNodes'
    BY <1>0, <1>15, <2>1, AddTaskQueue DEF WriteContinue
  <2>3. Attended(c)
    BY <1>0, <1>a, <1>15, <2>1, <2>2 DEF WriteContinue, ListMatchesNodes
  <2>4. \A u \in StageThreads : pc[u] # "scan"
    BY <1>0, <2>2 DEF MutexInv
  <2>5. t \in Pool /\ WillLook(t, c) => WillLook(t, c)'
    BY <1>0, <1>15, <2>2 DEF WriteContinue, Goto, WillLook, TypeOK
  <2> QED BY <1>0, <1>15, <2>2, <2>3, <2>4, <2>5, KeepsAttended DEF WriteContinue, Goto, TypeOK
<1>16. ASSUME NEW t \in Clients, ReadError(t) PROVE Attended(c)'
  <2>1. Attended(c)
    BY <1>0, <1>a, <1>16 DEF ReadError, TypeOK, OwnerInv, OwnerPC
  <2>2. t \in Pool /\ WillLook(t, c) => WillLook(t, c)'
    BY <1>0, <1>16 DEF ReadError, Goto, WillLook, TypeOK, MutexInv, WaitInv, ToSet
  <2> QED BY <1>0, <1>16, <2>1, <2>2, KeepsAttended DEF ReadError, Goto, TypeOK
<1>17. ASSUME NEW t \in Clients, HangUp(t) PROVE Attended(c)'
  <2>1. Attended(c)
    BY <1>0, <1>a, <1>17 DEF HangUp, TypeOK, OwnerInv, OwnerPC
  <2>2. t \in Pool /\ WillLook(t, c) => WillLook(t, c)'
    BY <1>0, <1>17 DEF HangUp, Goto, WillLook, TypeOK, MutexInv, WaitInv, ToSet
  <2> QED BY <1>0, <1>17, <2>1, <2>2, KeepsAttended DEF HangUp, Goto, TypeOK
<1>18. ASSUME NEW t \in Clients, WriteDone(t) PROVE Attended(c)'
  <2>1. Attended(c)
    BY <1>0, <1>a, <1>18 DEF WriteDone, TypeOK, OwnerInv, OwnerPC
  <2>2. t \in Pool /\ WillLook(t, c) => WillLook(t, c)'
    BY <1>0, <1>18 DEF WriteDone, Goto, WillLook, TypeOK, MutexInv, WaitInv, ToSet
  <2> QED BY <1>0, <1>18, <2>1, <2>2, KeepsAttended DEF WriteDone, Goto, TypeOK
<1>19. ASSUME NEW t \in Clients, Dispose(t) PROVE Attended(c)'
  <2>1. cur[t] \in Conns
    BY <1>0, <1>19 DEF Dispose, OwnerInv, OwnerPC, TypeOK
  <2>2. mutex = NoThread /\ nodes' = nodes \ {cur[t]} /\ waiting' = waiting /\ ListMatchesNodes'
    BY <1>0, <1>19, <2>1, RemoveTaskQueue DEF Dispose
  <2>3. Attended(c)
    BY <1>0, <1>a, <1>19, <2>1, <2>2 DEF Dispose, ListMatchesNodes, TypeOK
  <2>4. \A u \in StageThreads : pc[u] # "scan"
    BY <1>0, <2>2 DEF MutexInv
  <2> QED BY <1>0, <1>19, <2>2, <2>3, <2>4, KeepsAttended DEF Dispose, Goto, TypeOK
<1>20. ASSUME NEW t \in Clients, NEW d \in Conns, TryLock(t, d) PROVE Attended(c)'
  <2>1. Attended(c)
    BY <1>0, <1>a, <1>20 DEF TryLock, TypeOK, OwnerInv, OwnerPC
  <2>2. t \in Pool /\ WillLook(t, c) => WillLook(t, c)'
    BY <1>0, <1>20 DEF TryLock, Goto, WillLook, TypeOK, MutexInv, WaitInv, ToSet
  <2> QED BY <1>0, <1>20, <2>1, <2>2, KeepsAttended DEF TryLock, Goto, TypeOK
<1>21. ASSUME NEW t \in Clients, NEW d \in Conns, WriteTake(t, d) PROVE Attended(c)'
  <2>1. Attended(c)
    BY <1>0, <1>a, <1>21 DEF WriteTake, TypeOK, OwnerInv, OwnerPC
  <2>2. t \in Pool /\ WillLook(t, c) => WillLook(t, c)'
    BY <1>0, <1>21 DEF WriteTake, Goto, WillLook, TypeOK, MutexInv, WaitInv, ToSet
  <2> QED BY <1>0, <1>21, <2>1, <2>2, KeepsAttended DEF WriteTake, Goto, TypeOK
<1>22. ASSUME NEW t \in Clients, NEW d \in Conns, DisposeTryLock(t, d) PROVE Attended(c)'
  <2>1. Attended(c)
    BY <1>0, <1>a, <1>22 DEF DisposeTryLock, TypeOK, OwnerInv, OwnerPC
  <2>2. t \in Pool /\ WillLook(t, c) => WillLook(t, c)'
    BY <1>0, <1>22 DEF DisposeTryLock, Goto, WillLook, TypeOK, MutexInv, WaitInv, ToSet
  <2> QED BY <1>0, <1>22, <2>1, <2>2, KeepsAttended DEF DisposeTryLock, Goto, TypeOK
<1>23. ASSUME NEW t \in Threads, Unlock(t) PROVE Attended(c)'
  BY <1>0, <1>23 DEF Unlock, Goto, Attended, TypeOK
<1>24. ASSUME NEW t \in Threads, Reschedule(t) PROVE Attended(c)'
  <2>1. PICK w : w \in Pool
    OBVIOUS
  <2>2. WillLook(w, c)'
    BY <1>0, <1>24, <2>1 DEF Reschedule, Goto, WillLook, TypeOK, MutexInv
  <2> QED BY <2>1, <2>2 DEF Attended
<1>25. CASE UNCHANGED vars
  BY <1>0, <1>a, <1>25 DEF vars, Attended, WillLook
<1> QED
  BY <1>1, <1>2, <1>3, <1>4, <1>5, <1>6, <1>7, <1>8, <1>9, <1>10, <1>11, <1>12, <1>13, <1>14, <1>15, <1>16, <1>17, <1>18, <1>19, <1>20, <1>21, <1>22, <1>23, <1>24, <1>25
     DEF Next, Worker, ClientStep, Release
-----------------------------------------------------------------------------
(* The theorems.                                                           *)

LEMMA Inductive == Spec => []IInv
<1>1. IInv /\ [Next]_vars => IInv'
  BY NextThreads, NextWakeUp DEF IInv
<1> QED BY InitIInv, <1>1, PTL DEF Spec

\* For any number of threads and connections, the worker loop, the clients and
\* the controller keep every variable of the queue in its range.
THEOREM TypeCorrect == Spec => []TypeOK
BY Inductive, PTL DEF IInv

\* list_ and nodes_ describe the same set of tasks after every add_task,
\* remove_task and pick_task.
THEOREM QueueConsistent == Spec => []ListMatchesNodes
BY Inductive, PTL DEF IInv

\* The connection lock makes its holder the only thread that works on the
\* connection, in whatever stage that thread is.
THEOREM MutualExclusion == Spec => []ExclusiveConnection
<1>1. IInv => ExclusiveConnection
  BY DEF IInv, OwnerInv, ExclusiveConnection
<1> QED BY Inductive, <1>1, PTL

\* An open, unlocked, queued connection is always going to be looked at: the
\* conditional notify of add_task and the reschedule after unlock suffice.
THEOREM WakeUpsAreNotLost == Spec => []NoLostWakeUp
BY Inductive, PTL DEF IInv

-----------------------------------------------------------------------------
\* A step that leaves the queue alone and moves one lock is Acquire, Release
\* or nothing to the abstract pool.
LEMMA LockStep ==
  ASSUME TypeOK, NEW c \in Conns, NEW v,
         lock' = [lock EXCEPT ![c] = v], nodes' = nodes
  PROVE  [Abstract!Next]_(Abstract!vars)
<1>1. CASE lock[c] = NoThread /\ v # NoThread
  <2>1. Abstract!Acquire(c)
    BY <1>1 DEF Abstract!Acquire, TypeOK
  <2> QED BY <2>1 DEF Abstract!Next
<1>2. CASE lock[c] # NoThread /\ v = NoThread
  <2>1. Abstract!Release(c)
    BY <1>2 DEF Abstract!Release, TypeOK
  <2> QED BY <2>1 DEF Abstract!Next
<1>3. CASE lock[c] = NoThread <=> v = NoThread
  BY <1>3 DEF Abstract!vars, TypeOK
<1> QED BY <1>1, <1>2, <1>3

\* add_task is only called by the owner.
LEMMA SubmitStep ==
  ASSUME TypeOK, NEW c \in Conns, lock[c] # NoThread,
         nodes' = nodes \cup {c}, lock' = lock
  PROVE  [Abstract!Next]_(Abstract!vars)
<1>1. Abstract!Submit(c)
  BY DEF Abstract!Submit
<1> QED BY <1>1 DEF Abstract!Next

LEMMA StepRefines ==
  ASSUME IInv, [Next]_vars
  PROVE  [Abstract!Next]_(Abstract!vars)
<1> USE ThreadsAssumption DEF Threads, StageThreads
<1>0. TypeOK /\ ListMatchesNodes /\ MutexInv /\ OwnerInv
  BY DEF IInv
<1>a. ASSUME UNCHANGED <<nodes, lock>> PROVE [Abstract!Next]_(Abstract!vars)
  BY <1>a DEF Abstract!vars
<1>1. ASSUME NEW w \in StageThreads,
             \/ PickTask(w) \/ ScanSkip(w) \/ AutoWait(w) \/ WakeUp(w)
             \/ SpuriousWakeUp(w) \/ TimeOut(w) \/ ProcessClose(w)
             \/ ProcessRelease(w) \/ StartThread(w) \/ RecordThread(w)
      PROVE  [Abstract!Next]_(Abstract!vars)
  BY <1>a, <1>1 DEF PickTask, ScanSkip, AutoWait, WakeUp, SpuriousWakeUp, TimeOut,
     ProcessClose, ProcessRelease, StartThread, RecordThread
<1>2. ASSUME NEW w \in StageThreads, ScanTake(w)
      PROVE  [Abstract!Next]_(Abstract!vars)
  <2>1. pos[w] \in 1..Len(list) /\ list[pos[w]] \in Conns
    BY <1>0, <1>2 DEF ScanTake, TypeOK, MutexInv
  <2>2. PICK c \in Conns : c = list[pos[w]]
    BY <2>1
  <2>3. c \in nodes
    BY <1>0, <2>1, <2>2 DEF ListMatchesNodes, ToSet, TypeOK
  <2>4. Abstract!Deliver(c)
    BY <1>0, <1>2, <2>2, <2>3 DEF Abstract!Deliver, ScanTake, TypeOK
  <2> QED BY <2>4 DEF Abstract!Next
<1>3. ASSUME NEW t \in Threads, ProcessReadd(t) \/ ReadTask(t) \/ WriteContinue(t)
      PROVE  [Abstract!Next]_(Abstract!vars)
  <2>1. cur[t] \in Conns /\ lock[cur[t]] # NoThread /\ lock' = lock /\ AddTask(cur[t])
    BY <1>0, <1>3 DEF ProcessReadd, ReadTask, WriteContinue, OwnerInv, OwnerPC, TypeOK
  <2>2. nodes' = nodes \cup {cur[t]}
    BY <1>0, <2>1, AddTaskQueue
  <2> QED BY <1>0, <2>1, <2>2, SubmitStep
<1>4. ASSUME NEW t \in Threads, ProcessKeepLock(t) \/ HangUp(t) \/ Unlock(t)
      PROVE  [Abstract!Next]_(Abstract!vars)
  <2>1. cur[t] \in Conns
    BY <1>0, <1>4 DEF ProcessKeepLock, HangUp, Unlock, OwnerInv, OwnerPC
  <2>2. PICK v : lock' = [lock EXCEPT ![cur[t]] = v]
    BY <1>4 DEF ProcessKeepLock, HangUp, Unlock
  <2> QED BY <1>0, <1>4, <2>1, <2>2, LockStep DEF ProcessKeepLock, HangUp, Unlock
<1>5. ASSUME NEW t \in Clients, NEW c \in Conns,
             TryLock(t, c) \/ WriteTake(t, c) \/ DisposeTryLock(t, c)
      PROVE  [Abstract!Next]_(Abstract!vars)
  BY <1>0, <1>5, LockStep DEF TryLock, WriteTake, DisposeTryLock
<1>6. ASSUME NEW t \in Threads, ReadError(t) \/ WriteDone(t) \/ Reschedule(t)
      PROVE  [Abstract!Next]_(Abstract!vars)
  BY <1>a, <1>6 DEF ReadError, WriteDone, Reschedule
<1>7. ASSUME NEW t \in Clients, Dispose(t)
      PROVE  [Abstract!Next]_(Abstract!vars)
  <2>1. cur[t] \in Conns /\ lock[cur[t]] # NoThread
    BY <1>0, <1>7 DEF Dispose, OwnerInv, OwnerPC
  <2>2. nodes' = nodes \ {cur[t]}
    BY <1>0, <1>7, <2>1, RemoveTaskQueue DEF Dispose
  <2>3. PICK c \in Conns : c = cur[t]
    BY <2>1
  <2>4. Abstract!Cancel(c)
    BY <1>0, <1>7, <2>1, <2>2, <2>3 DEF Abstract!Cancel, Dispose, TypeOK
  <2> QED BY <2>4 DEF Abstract!Next
<1>8. CASE UNCHANGED vars
  BY <1>a, <1>8 DEF vars
<1> QED
  BY <1>1, <1>2, <1>3, <1>4, <1>5, <1>6, <1>7, <1>8
     DEF Next, Worker, ClientStep, Release

\* The queue with its two data structures, its condition variable and its
\* connection locks implements the abstract pool: only an owner queues or
\* cancels, and a connection is delivered only while it has no owner.
THEOREM Refinement == Spec => ImplementsTaskPool
<1>1. Init => Abstract!Init
  BY DEF Init, Abstract!Init
<1>2. IInv /\ [Next]_vars => [Abstract!Next]_(Abstract!vars)
  BY StepRefines
<1> QED BY Inductive, <1>1, <1>2, PTL DEF Spec, ImplementsTaskPool, Abstract!Spec
=============================================================================
