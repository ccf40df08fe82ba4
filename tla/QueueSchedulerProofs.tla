------------------------ MODULE QueueSchedulerProofs ------------------------
(***************************************************************************)
(* Proofs about QueueScheduler, for any number of connections, workers,    *)
(* controller threads and client threads.                                  *)
(***************************************************************************)
EXTENDS QueueScheduler, SequenceTheorems, TLAPS

(***************************************************************************)
(* Lemmas about the list operations.                                       *)
(***************************************************************************)

\* Taking out one position of a duplicate-free list (list_.erase) leaves a
\* duplicate-free list of the other elements.
LEMMA RemoveAtList ==
  ASSUME NEW S, NEW s \in Seq(S), NEW i \in 1..Len(s), IsInjective(s)
  PROVE  /\ RemoveAt(s, i) \in Seq(S)
         /\ IsInjective(RemoveAt(s, i))
         /\ ToSet(RemoveAt(s, i)) = ToSet(s) \ {s[i]}
<1> DEFINE r == RemoveAt(s, i)
<1>1. /\ r \in Seq(S)
      /\ Len(r) = Len(s) - 1
      /\ \A j \in 1..(Len(s) - 1) : r[j] = IF j < i THEN s[j] ELSE s[j + 1]
  <2> DEFINE a == SubSeq(s, 1, i - 1)
             b == SubSeq(s, i + 1, Len(s))
  <2>1. Len(s) \in Nat /\ \A j \in 1..Len(s) : s[j] \in S
    BY ElementOfSeq
  <2>2. /\ a \in Seq(S) /\ Len(a) = i - 1
        /\ \A j \in 1..(i - 1) : a[j] = s[j]
    BY <2>1, SubSeqProperties
  <2>3. /\ b \in Seq(S) /\ Len(b) = Len(s) - i
        /\ \A j \in 1..(Len(s) - i) : b[j] = s[i + j]
    BY <2>1, SubSeqProperties
  <2> HIDE DEF a, b
  <2>4. /\ a \o b \in Seq(S)
        /\ Len(a \o b) = Len(s) - 1
        /\ \A j \in 1..(Len(s) - 1) :
             (a \o b)[j] = IF j <= i - 1 THEN a[j] ELSE b[j - (i - 1)]
    <3>1. /\ a \o b \in Seq(S)
          /\ Len(a \o b) = Len(a) + Len(b)
          /\ \A j \in 1..(Len(a) + Len(b)) :
               (a \o b)[j] = IF j <= Len(a) THEN a[j] ELSE b[j - Len(a)]
      BY <2>2, <2>3, ConcatProperties
    <3>2. Len(a) + Len(b) = Len(s) - 1
      BY <2>1, <2>2, <2>3
    <3> QED BY <2>2, <3>1, <3>2
  <2>5. r = a \o b
    BY DEF RemoveAt, a, b
  <2>6. ASSUME NEW j \in 1..(Len(s) - 1)
        PROVE  r[j] = IF j < i THEN s[j] ELSE s[j + 1]
    <3>1. CASE j < i
      BY <2>1, <2>2, <2>4, <2>5, <3>1
    <3>2. CASE j >= i
      BY <2>1, <2>3, <2>4, <2>5, <3>2
    <3> QED BY <2>1, <3>1, <3>2
  <2> QED BY <2>4, <2>5, <2>6
<1>2. DOMAIN r = 1..(Len(s) - 1) /\ DOMAIN s = 1..Len(s) /\ Len(s) \in Nat
  BY <1>1
<1> HIDE DEF r
<1>3. IsInjective(r)
  <2> SUFFICES ASSUME NEW j \in 1..(Len(s) - 1), NEW k \in 1..(Len(s) - 1),
                      r[j] = r[k]
               PROVE  j = k
    BY <1>2 DEF IsInjective
  <2> DEFINE f(n) == IF n < i THEN n ELSE n + 1
  <2>1. f(j) \in DOMAIN s /\ f(k) \in DOMAIN s /\ r[j] = s[f(j)] /\ r[k] = s[f(k)]
    BY <1>1, <1>2
  <2>2. f(j) = f(k)
    BY <2>1 DEF IsInjective
  <2> QED BY <1>2, <2>2
<1>4. ToSet(r) \subseteq ToSet(s) \ {s[i]}
  <2> SUFFICES ASSUME NEW j \in 1..(Len(s) - 1)
               PROVE  r[j] \in ToSet(s) \ {s[i]}
    BY <1>2 DEF ToSet
  <2>1. PICK k \in 1..Len(s) : k # i /\ r[j] = s[k]
    <3>1. CASE j < i
      BY <1>1, <1>2, <3>1
    <3>2. CASE j >= i
      <4>1. j + 1 \in 1..Len(s) /\ j + 1 # i /\ r[j] = s[j + 1]
        BY <1>1, <1>2, <3>2
      <4> QED BY <4>1
    <3> QED BY <1>2, <3>1, <3>2
  <2> QED BY <1>2, <2>1 DEF IsInjective, ToSet
<1>5. ASSUME NEW j \in 1..Len(s), j # i
      PROVE  s[j] \in ToSet(r)
  <2>1. CASE j < i
    BY <1>1, <1>2, <2>1 DEF ToSet
  <2>2. CASE j > i
    <3>1. j - 1 \in DOMAIN r /\ r[j - 1] = s[j]
      BY <1>1, <1>2, <2>2
    <3> QED BY <3>1 DEF ToSet
  <2> QED BY <1>5, <2>1, <2>2
<1>6. ToSet(s) \ {s[i]} \subseteq ToSet(r)
  BY <1>2, <1>5 DEF ToSet
<1> QED BY <1>1, <1>3, <1>4, <1>6 DEF r

\* The same for the element the fd map points to.
LEMMA EraseList ==
  ASSUME NEW S, NEW s \in Seq(S), NEW c \in ToSet(s), IsInjective(s)
  PROVE  /\ Erase(s, c) \in Seq(S)
         /\ IsInjective(Erase(s, c))
         /\ ToSet(Erase(s, c)) = ToSet(s) \ {c}
<1> DEFINE i == CHOOSE k \in DOMAIN s : s[k] = c
<1>1. i \in 1..Len(s) /\ s[i] = c
  BY DEF ToSet
<1> HIDE DEF i
<1>2. /\ RemoveAt(s, i) \in Seq(S)
      /\ IsInjective(RemoveAt(s, i))
      /\ ToSet(RemoveAt(s, i)) = ToSet(s) \ {s[i]}
  BY <1>1, RemoveAtList
<1> QED BY <1>1, <1>2 DEF Erase, i

\* Pushing a new element on either end.
LEMMA PushList ==
  ASSUME NEW S, NEW s \in Seq(S), NEW c \in S, c \notin ToSet(s), IsInjective(s)
  PROVE  /\ Append(s, c) \in Seq(S)
         /\ IsInjective(Append(s, c))
         /\ ToSet(Append(s, c)) = ToSet(s) \cup {c}
         /\ Cons(c, s) \in Seq(S)
         /\ IsInjective(Cons(c, s))
         /\ ToSet(Cons(c, s)) = ToSet(s) \cup {c}
<1>0. Len(s) \in Nat /\ DOMAIN s = 1..Len(s)
  OBVIOUS
<1>1. /\ Append(s, c) \in Seq(S)
      /\ DOMAIN Append(s, c) = 1..(Len(s) + 1)
      /\ \A j \in 1..Len(s) : Append(s, c)[j] = s[j]
      /\ Append(s, c)[Len(s) + 1] = c
  OBVIOUS
<1>2. /\ Cons(c, s) \in Seq(S)
      /\ DOMAIN Cons(c, s) = 1..(Len(s) + 1)
      /\ \A j \in 1..(Len(s) + 1) : Cons(c, s)[j] = IF j = 1 THEN c ELSE s[j - 1]
  BY DEF Cons
<1>3. IsInjective(Append(s, c))
  BY <1>0, <1>1 DEF IsInjective, ToSet
<1>4. IsInjective(Cons(c, s))
  <2> SUFFICES ASSUME NEW j \in 1..(Len(s) + 1), NEW k \in 1..(Len(s) + 1),
                      Cons(c, s)[j] = Cons(c, s)[k]
               PROVE  j = k
    BY <1>2 DEF IsInjective
  <2>1. \A n \in 1..Len(s) : s[n] # c
    BY <1>0 DEF ToSet
  <2>2. CASE j = 1 \/ k = 1
    BY <1>0, <1>2, <2>1, <2>2
  <2>3. CASE j # 1 /\ k # 1
    <3>1. j - 1 \in DOMAIN s /\ k - 1 \in DOMAIN s /\ s[j - 1] = s[k - 1]
      BY <1>0, <1>2, <2>3
    <3> QED BY <1>0, <3>1 DEF IsInjective
  <2> QED BY <2>2, <2>3
<1>5. ToSet(Append(s, c)) = ToSet(s) \cup {c}
  BY <1>0, <1>1 DEF ToSet
<1>6. ToSet(Cons(c, s)) \subseteq ToSet(s) \cup {c}
  BY <1>0, <1>2 DEF ToSet
<1>7. ASSUME NEW j \in 1..Len(s) PROVE s[j] \in ToSet(Cons(c, s))
  <2>1. j + 1 \in DOMAIN Cons(c, s) /\ Cons(c, s)[j + 1] = s[j]
    BY <1>0, <1>2
  <2> QED BY <2>1 DEF ToSet
<1>8. c \in ToSet(Cons(c, s))
  BY <1>0, <1>2 DEF ToSet
<1>9. ToSet(s) \cup {c} \subseteq ToSet(Cons(c, s))
  BY <1>0, <1>7, <1>8 DEF ToSet
<1> QED BY <1>1, <1>2, <1>3, <1>4, <1>5, <1>6, <1>9

-----------------------------------------------------------------------------
(***************************************************************************)
(* The inductive invariant: besides the properties themselves it says who  *)
(* holds the queue's mutex (only a scanning worker, between steps), who    *)
(* holds a connection's lock, and that a sleeping thread is in auto_wait.  *)
(***************************************************************************)
MutexInv ==
  \A w \in StageThreads :
    /\ pc[w] = "scan" <=> mutex = w
    /\ pc[w] = "scan" => pos[w] >= 1

OwnerInv ==
  \A t \in Threads : pc[t] \in OwnerPC => cur[t] \in Conns /\ lock[cur[t]] = t

WaitInv == \A w \in waiting : pc[w] \in {"wait", "twait"}

IInv ==
  /\ TypeOK
  /\ ListMatchesNodes
  /\ MutexInv
  /\ OwnerInv
  /\ WaitInv
  /\ NoLostWakeUp

\* What the critical section of add_task does to the queue.
LEMMA AddTaskQueue ==
  ASSUME TypeOK, ListMatchesNodes, NEW c \in Conns, AddTask(c)
  PROVE  /\ mutex = NoThread /\ mutex' = mutex
         /\ list' \in Seq(Conns)
         /\ nodes' = nodes \cup {c}
         /\ waiting' \subseteq waiting
         /\ ListMatchesNodes'
<1> USE DEF TypeOK, ListMatchesNodes
<1>1. CASE c \in nodes
  <2>1. /\ Erase(list, c) \in Seq(Conns)
        /\ IsInjective(Erase(list, c))
        /\ ToSet(Erase(list, c)) = ToSet(list) \ {c}
    BY <1>1, EraseList
  <2> DEFINE e == Erase(list, c)
  <2>2. c \notin ToSet(e)
    BY <2>1
  <2> HIDE DEF e
  <2>3. /\ Cons(c, e) \in Seq(Conns)
        /\ IsInjective(Cons(c, e))
        /\ ToSet(Cons(c, e)) = ToSet(e) \cup {c}
    BY <2>1, <2>2, PushList DEF e
  <2>4. list' = Cons(c, e)
    BY <1>1 DEF AddTask, e
  <2>5. ToSet(Cons(c, e)) = ToSet(list)
    BY <1>1, <2>1, <2>3 DEF e
  <2> QED BY <1>1, <2>3, <2>4, <2>5 DEF AddTask
<1>2. CASE c \notin nodes
  <2>1. /\ Append(list, c) \in Seq(Conns)
        /\ IsInjective(Append(list, c))
        /\ ToSet(Append(list, c)) = ToSet(list) \cup {c}
    BY <1>2, PushList
  <2>2. list' = Append(list, c)
    BY <1>2 DEF AddTask
  <2> QED BY <1>2, <2>1, <2>2 DEF AddTask
<1> QED BY <1>1, <1>2

\* What the critical section of remove_task does to the queue.
LEMMA RemoveTaskQueue ==
  ASSUME TypeOK, ListMatchesNodes, NEW c \in Conns, RemoveTask(c)
  PROVE  /\ mutex = NoThread /\ mutex' = mutex
         /\ list' \in Seq(Conns)
         /\ nodes' = nodes \ {c}
         /\ waiting' = waiting
         /\ ListMatchesNodes'
<1> USE DEF TypeOK, ListMatchesNodes
<1>1. CASE c \in nodes
  <2>1. /\ Erase(list, c) \in Seq(Conns)
        /\ IsInjective(Erase(list, c))
        /\ ToSet(Erase(list, c)) = ToSet(list) \ {c}
    BY <1>1, EraseList
  <2> QED BY <1>1, <2>1 DEF RemoveTask
<1>2. CASE c \notin nodes
  BY <1>2 DEF RemoveTask
<1> QED BY <1>1, <1>2
-----------------------------------------------------------------------------
LEMMA InitIInv == Init => IInv
<1> SUFFICES ASSUME Init PROVE IInv
  OBVIOUS
<1>1. TypeOK
  BY ThreadsAssumption DEF Init, TypeOK, StagePC, ClientPC, Threads, StageThreads
<1>2. ToSet(list) = {} /\ IsInjective(list)
  BY DEF Init, ToSet, IsInjective
<1>3. MutexInv /\ OwnerInv /\ WaitInv
  BY ThreadsAssumption
     DEF Init, MutexInv, OwnerInv, WaitInv, OwnerPC, Threads, StageThreads
<1> QED BY <1>1, <1>2, <1>3 DEF IInv, ListMatchesNodes, NoLostWakeUp, Init

\* The part of the invariant that is about the threads: it survives every step.
LEMMA NextThreads ==
  ASSUME IInv, [Next]_vars
  PROVE  TypeOK' /\ ListMatchesNodes' /\ MutexInv' /\ OwnerInv' /\ WaitInv'
<1> DEFINE Goal == TypeOK' /\ ListMatchesNodes' /\ MutexInv' /\ OwnerInv' /\ WaitInv'
<1> USE ThreadsAssumption DEF StagePC, ClientPC, OwnerPC, Threads, StageThreads
<1>0. TypeOK /\ ListMatchesNodes /\ MutexInv /\ OwnerInv /\ WaitInv
  BY DEF IInv
<1>1. ASSUME NEW w \in StageThreads, PickTask(w) PROVE Goal
  <2>1. TypeOK'
    BY <1>0, <1>1 DEF PickTask, Goto, TypeOK, OwnerInv
  <2>2. ListMatchesNodes'
    BY <1>0, <1>1 DEF PickTask, ListMatchesNodes
  <2>3. MutexInv'
    BY <1>0, <1>1 DEF PickTask, Goto, TypeOK, MutexInv
  <2>4. OwnerInv'
    BY <1>0, <1>1 DEF PickTask, Goto, TypeOK, OwnerInv
  <2>5. WaitInv'
    BY <1>0, <1>1 DEF PickTask, Goto, TypeOK, WaitInv, MutexInv
  <2> QED BY <2>1, <2>2, <2>3, <2>4, <2>5
<1>2. ASSUME NEW w \in StageThreads, ScanTake(w) PROVE Goal
  <2>1. pos[w] \in 1..Len(list)
    BY <1>0, <1>2 DEF ScanTake, TypeOK, MutexInv
  <2>2. /\ list[pos[w]] \in Conns
        /\ list' \in Seq(Conns)
        /\ ListMatchesNodes'
    BY <1>0, <1>2, <2>1, RemoveAtList DEF ScanTake, TypeOK, ListMatchesNodes
  <2>3. TypeOK'
    BY <1>0, <1>2, <2>1, <2>2 DEF ScanTake, Goto, TypeOK, OwnerInv
  <2>4. MutexInv'
    BY <1>0, <1>2, <2>1, <2>2 DEF ScanTake, Goto, TypeOK, MutexInv
  <2>5. OwnerInv'
    BY <1>0, <1>2, <2>1, <2>2 DEF ScanTake, Goto, TypeOK, OwnerInv
  <2>6. WaitInv'
    BY <1>0, <1>2, <2>1, <2>2 DEF ScanTake, Goto, TypeOK, WaitInv, MutexInv
  <2> QED BY <2>2, <2>3, <2>4, <2>5, <2>6
<1>3. ASSUME NEW w \in StageThreads, ScanSkip(w) PROVE Goal
  <2>1. TypeOK'
    BY <1>0, <1>3 DEF ScanSkip, Goto, TypeOK, OwnerInv
  <2>2. ListMatchesNodes'
    BY <1>0, <1>3 DEF ScanSkip, ListMatchesNodes
  <2>3. MutexInv'
    BY <1>0, <1>3 DEF ScanSkip, Goto, TypeOK, MutexInv
  <2>4. OwnerInv'
    BY <1>0, <1>3 DEF ScanSkip, Goto, TypeOK, OwnerInv
  <2>5. WaitInv'
    BY <1>0, <1>3 DEF ScanSkip, Goto, TypeOK, WaitInv, MutexInv
  <2> QED BY <2>1, <2>2, <2>3, <2>4, <2>5
<1>4. ASSUME NEW w \in StageThreads, AutoWait(w) PROVE Goal
  <2>1. TypeOK'
    BY <1>0, <1>4 DEF AutoWait, Goto, TypeOK, OwnerInv
  <2>2. ListMatchesNodes'
    BY <1>0, <1>4 DEF AutoWait, ListMatchesNodes
  <2>3. MutexInv'
    BY <1>0, <1>4 DEF AutoWait, Goto, TypeOK, MutexInv
  <2>4. OwnerInv'
    BY <1>0, <1>4 DEF AutoWait, Goto, TypeOK, OwnerInv
  <2>5. WaitInv'
    BY <1>0, <1>4 DEF AutoWait, Goto, TypeOK, WaitInv, MutexInv
  <2> QED BY <2>1, <2>2, <2>3, <2>4, <2>5
<1>5. ASSUME NEW w \in StageThreads, WakeUp(w) PROVE Goal
  <2>1. TypeOK'
    BY <1>0, <1>5 DEF WakeUp, Goto, TypeOK, OwnerInv
  <2>2. ListMatchesNodes'
    BY <1>0, <1>5 DEF WakeUp, ListMatchesNodes
  <2>3. MutexInv'
    BY <1>0, <1>5 DEF WakeUp, Goto, TypeOK, MutexInv
  <2>4. OwnerInv'
    BY <1>0, <1>5 DEF WakeUp, Goto, TypeOK, OwnerInv
  <2>5. WaitInv'
    BY <1>0, <1>5 DEF WakeUp, Goto, TypeOK, WaitInv, MutexInv
  <2> QED BY <2>1, <2>2, <2>3, <2>4, <2>5
<1>6. ASSUME NEW w \in StageThreads, SpuriousWakeUp(w) PROVE Goal
  <2>1. TypeOK'
    BY <1>0, <1>6 DEF SpuriousWakeUp, Goto, TypeOK, OwnerInv
  <2>2. ListMatchesNodes'
    BY <1>0, <1>6 DEF SpuriousWakeUp, ListMatchesNodes
  <2>3. MutexInv'
    BY <1>0, <1>6 DEF SpuriousWakeUp, Goto, TypeOK, MutexInv
  <2>4. OwnerInv'
    BY <1>0, <1>6 DEF SpuriousWakeUp, Goto, TypeOK, OwnerInv
  <2>5. WaitInv'
    BY <1>0, <1>6 DEF SpuriousWakeUp, Goto, TypeOK, WaitInv, MutexInv
  <2> QED BY <2>1, <2>2, <2>3, <2>4, <2>5
<1>7. ASSUME NEW w \in StageThreads, TimeOut(w) PROVE Goal
  <2>1. TypeOK'
    BY <1>0, <1>7 DEF TimeOut, Goto, TypeOK, OwnerInv
  <2>2. ListMatchesNodes'
    BY <1>0, <1>7 DEF TimeOut, ListMatchesNodes
  <2>3. MutexInv'
    BY <1>0, <1>7 DEF TimeOut, Goto, TypeOK, MutexInv
  <2>4. OwnerInv'
    BY <1>0, <1>7 DEF TimeOut, Goto, TypeOK, OwnerInv
  <2>5. WaitInv'
    BY <1>0, <1>7 DEF TimeOut, Goto, TypeOK, WaitInv, MutexInv
  <2> QED BY <2>1, <2>2, <2>3, <2>4, <2>5
<1>8. ASSUME NEW w \in StageThreads, ProcessClose(w) PROVE Goal
  <2>1. TypeOK'
    BY <1>0, <1>8 DEF ProcessClose, Goto, TypeOK, OwnerInv
  <2>2. ListMatchesNodes'
    BY <1>0, <1>8 DEF ProcessClose, ListMatchesNodes
  <2>3. MutexInv'
    BY <1>0, <1>8 DEF ProcessClose, Goto, TypeOK, MutexInv
  <2>4. OwnerInv'
    BY <1>0, <1>8 DEF ProcessClose, Goto, TypeOK, OwnerInv
  <2>5. WaitInv'
    BY <1>0, <1>8 DEF ProcessClose, Goto, TypeOK, WaitInv, MutexInv
  <2> QED BY <2>1, <2>2, <2>3, <2>4, <2>5
<1>9. ASSUME NEW w \in StageThreads, ProcessReadd(w) PROVE Goal
  <2>1. cur[w] \in Conns
    BY <1>0, <1>9 DEF ProcessReadd, OwnerInv, TypeOK
  <2>2. /\ mutex = NoThread /\ mutex' = mutex
        /\ list' \in Seq(Conns)
        /\ nodes' = nodes \cup {cur[w]}
        /\ waiting' \subseteq waiting
        /\ ListMatchesNodes'
    BY <1>0, <1>9, <2>1, AddTaskQueue DEF ProcessReadd
  <2>3. TypeOK'
    BY <1>0, <1>9, <2>1, <2>2 DEF ProcessReadd, Goto, TypeOK, OwnerInv
  <2>4. MutexInv'
    BY <1>0, <1>9, <2>1, <2>2 DEF ProcessReadd, Goto, TypeOK, MutexInv
  <2>5. OwnerInv'
    BY <1>0, <1>9, <2>1, <2>2 DEF ProcessReadd, Goto, TypeOK, OwnerInv
  <2>6. WaitInv'
    BY <1>0, <1>9, <2>1, <2>2 DEF ProcessReadd, Goto, TypeOK, WaitInv, MutexInv
  <2> QED BY <2>2, <2>3, <2>4, <2>5, <2>6
<1>10. ASSUME NEW w \in StageThreads, ProcessRelease(w) PROVE Goal
  <2>1. TypeOK'
    BY <1>0, <1>10 DEF ProcessRelease, Goto, TypeOK, OwnerInv
  <2>2. ListMatchesNodes'
    BY <1>0, <1>10 DEF ProcessRelease, ListMatchesNodes
  <2>3. MutexInv'
    BY <1>0, <1>10 DEF ProcessRelease, Goto, TypeOK, MutexInv
  <2>4. OwnerInv'
    BY <1>0, <1>10 DEF ProcessRelease, Goto, TypeOK, OwnerInv
  <2>5. WaitInv'
    BY <1>0, <1>10 DEF ProcessRelease, Goto, TypeOK, WaitInv, MutexInv
  <2> QED BY <2>1, <2>2, <2>3, <2>4, <2>5
<1>11. ASSUME NEW w \in StageThreads, ProcessKeepLock(w) PROVE Goal
  <2>1. TypeOK'
    BY <1>0, <1>11 DEF ProcessKeepLock, Goto, TypeOK, OwnerInv
  <2>2. ListMatchesNodes'
    BY <1>0, <1>11 DEF ProcessKeepLock, ListMatchesNodes
  <2>3. MutexInv'
    BY <1>0, <1>11 DEF ProcessKeepLock, Goto, TypeOK, MutexInv
  <2>4. OwnerInv'
    BY <1>0, <1>11 DEF ProcessKeepLock, Goto, TypeOK, OwnerInv
  <2>5. WaitInv'
    BY <1>0, <1>11 DEF ProcessKeepLock, Goto, TypeOK, WaitInv, MutexInv
  <2> QED BY <2>1, <2>2, <2>3, <2>4, <2>5
<1>12. ASSUME NEW w \in StageThreads, StartThread(w) PROVE Goal
  <2>1. TypeOK'
    BY <1>0, <1>12 DEF StartThread, Goto, TypeOK, OwnerInv
  <2>2. ListMatchesNodes'
    BY <1>0, <1>12 DEF StartThread, ListMatchesNodes
  <2>3. MutexInv'
    BY <1>0, <1>12 DEF StartThread, Goto, TypeOK, MutexInv
  <2>4. OwnerInv'
    BY <1>0, <1>12 DEF StartThread, Goto, TypeOK, OwnerInv
  <2>5. WaitInv'
    BY <1>0, <1>12 DEF StartThread, Goto, TypeOK, WaitInv, MutexInv
  <2> QED BY <2>1, <2>2, <2>3, <2>4, <2>5
<1>13. ASSUME NEW w \in StageThreads, RecordThread(w) PROVE Goal
  <2>1. TypeOK'
    BY <1>0, <1>13 DEF RecordThread, Goto, TypeOK, OwnerInv
  <2>2. ListMatchesNodes'
    BY <1>0, <1>13 DEF RecordThread, ListMatchesNodes
  <2>3. MutexInv'
    BY <1>0, <1>13 DEF RecordThread, Goto, TypeOK, MutexInv
  <2>4. OwnerInv'
    BY <1>0, <1>13 DEF RecordThread, Goto, TypeOK, OwnerInv
  <2>5. WaitInv'
    BY <1>0, <1>13 DEF RecordThread, Goto, TypeOK, WaitInv, MutexInv
  <2> QED BY <2>1, <2>2, <2>3, <2>4, <2>5
<1>14. ASSUME NEW t \in Clients, ReadTask(t) PROVE Goal
  <2>1. cur[t] \in Conns
    BY <1>0, <1>14 DEF ReadTask, OwnerInv, TypeOK
  <2>2. /\ mutex = NoThread /\ mutex' = mutex
        /\ list' \in Seq(Conns)
        /\ nodes' = nodes \cup {cur[t]}
        /\ waiting' \subseteq waiting
        /\ ListMatchesNodes'
    BY <1>0, <1>14, <2>1, AddTaskQueue DEF ReadTask
  <2>3. TypeOK'
    BY <1>0, <1>14, <2>1, <2>2 DEF ReadTask, Goto, TypeOK, OwnerInv
  <2>4. MutexInv'
    BY <1>0, <1>14, <2>1, <2>2 DEF ReadTask, Goto, TypeOK, MutexInv
  <2>5. OwnerInv'
    BY <1>0, <1>14, <2>1, <2>2 DEF ReadTask, Goto, TypeOK, OwnerInv
  <2>6. WaitInv'
    BY <1>0, <1>14, <2>1, <2>2 DEF ReadTask, Goto, TypeOK, WaitInv, MutexInv
  <2> QED BY <2>2, <2>3, <2>4, <2>5, <2>6
<1>15. ASSUME NEW t \in Clients, ReadError(t) PROVE Goal
  <2>1. TypeOK'
    BY <1>0, <1>15 DEF ReadError, Goto, TypeOK, OwnerInv
  <2>2. ListMatchesNodes'
    BY <1>0, <1>15 DEF ReadError, ListMatchesNodes
  <2>3. MutexInv'
    BY <1>0, <1>15 DEF ReadError, Goto, TypeOK, MutexInv
  <2>4. OwnerInv'
    BY <1>0, <1>15 DEF ReadError, Goto, TypeOK, OwnerInv
  <2>5. WaitInv'
    BY <1>0, <1>15 DEF ReadError, Goto, TypeOK, WaitInv, MutexInv
  <2> QED BY <2>1, <2>2, <2>3, <2>4, <2>5
<1>16. ASSUME NEW t \in Clients, HangUp(t) PROVE Goal
  <2>1. TypeOK'
    BY <1>0, <1>16 DEF HangUp, Goto, TypeOK, OwnerInv
  <2>2. ListMatchesNodes'
    BY <1>0, <1>16 DEF HangUp, ListMatchesNodes
  <2>3. MutexInv'
    BY <1>0, <1>16 DEF HangUp, Goto, TypeOK, MutexInv
  <2>4. OwnerInv'
    BY <1>0, <1>16 DEF HangUp, Goto, TypeOK, OwnerInv
  <2>5. WaitInv'
    BY <1>0, <1>16 DEF HangUp, Goto, TypeOK, WaitInv, MutexInv
  <2> QED BY <2>1, <2>2, <2>3, <2>4, <2>5
<1>17. ASSUME NEW t \in Clients, WriteDone(t) PROVE Goal
  <2>1. TypeOK'
    BY <1>0, <1>17 DEF WriteDone, Goto, TypeOK, OwnerInv
  <2>2. ListMatchesNodes'
    BY <1>0, <1>17 DEF WriteDone, ListMatchesNodes
  <2>3. MutexInv'
    BY <1>0, <1>17 DEF WriteDone, Goto, TypeOK, MutexInv
  <2>4. OwnerInv'
    BY <1>0, <1>17 DEF WriteDone, Goto, TypeOK, OwnerInv
  <2>5. WaitInv'
    BY <1>0, <1>17 DEF WriteDone, Goto, TypeOK, WaitInv, MutexInv
  <2> QED BY <2>1, <2>2, <2>3, <2>4, <2>5
<1>18. ASSUME NEW t \in Clients, WriteContinue(t) PROVE Goal
  <2>1. cur[t] \in Conns
    BY <1>0, <1>18 DEF WriteContinue, OwnerInv, TypeOK
  <2>2. /\ mutex = NoThread /\ mutex' = mutex
        /\ list' \in Seq(Conns)
        /\ nodes' = nodes \cup {cur[t]}
        /\ waiting' \subseteq waiting
        /\ ListMatchesNodes'
    BY <1>0, <1>18, <2>1, AddTaskQueue DEF WriteContinue
  <2>3. TypeOK'
    BY <1>0, <1>18, <2>1, <2>2 DEF WriteContinue, Goto, TypeOK, OwnerInv
  <2>4. MutexInv'
    BY <1>0, <1>18, <2>1, <2>2 DEF WriteContinue, Goto, TypeOK, MutexInv
  <2>5. OwnerInv'
    BY <1>0, <1>18, <2>1, <2>2 DEF WriteContinue, Goto, TypeOK, OwnerInv
  <2>6. WaitInv'
    BY <1>0, <1>18, <2>1, <2>2 DEF WriteContinue, Goto, TypeOK, WaitInv, MutexInv
  <2> QED BY <2>2, <2>3, <2>4, <2>5, <2>6
<1>19. ASSUME NEW t \in Clients, Dispose(t) PROVE Goal
  <2>1. cur[t] \in Conns
    BY <1>0, <1>19 DEF Dispose, OwnerInv, TypeOK
  <2>2. /\ mutex = NoThread /\ mutex' = mutex
        /\ list' \in Seq(Conns)
        /\ nodes' = nodes \ {cur[t]}
        /\ waiting' = waiting
        /\ ListMatchesNodes'
    BY <1>0, <1>19, <2>1, RemoveTaskQueue DEF Dispose
  <2>3. TypeOK'
    BY <1>0, <1>19, <2>1, <2>2 DEF Dispose, Goto, TypeOK, OwnerInv
  <2>4. MutexInv'
    BY <1>0, <1>19, <2>1, <2>2 DEF Dispose, Goto, TypeOK, MutexInv
  <2>5. OwnerInv'
    BY <1>0, <1>19, <2>1, <2>2 DEF Dispose, Goto, TypeOK, OwnerInv
  <2>6. WaitInv'
    BY <1>0, <1>19, <2>1, <2>2 DEF Dispose, Goto, TypeOK, WaitInv, MutexInv
  <2> QED BY <2>2, <2>3, <2>4, <2>5, <2>6
<1>20. ASSUME NEW t \in Clients, NEW c \in Conns, TryLock(t, c) PROVE Goal
  <2>1. TypeOK'
    BY <1>0, <1>20 DEF TryLock, Goto, TypeOK, OwnerInv
  <2>2. ListMatchesNodes'
    BY <1>0, <1>20 DEF TryLock, ListMatchesNodes
  <2>3. MutexInv'
    BY <1>0, <1>20 DEF TryLock, Goto, TypeOK, MutexInv
  <2>4. OwnerInv'
    BY <1>0, <1>20 DEF TryLock, Goto, TypeOK, OwnerInv
  <2>5. WaitInv'
    BY <1>0, <1>20 DEF TryLock, Goto, TypeOK, WaitInv, MutexInv
  <2> QED BY <2>1, <2>2, <2>3, <2>4, <2>5
<1>21. ASSUME NEW t \in Clients, NEW c \in Conns, WriteTake(t, c) PROVE Goal
  <2>1. TypeOK'
    BY <1>0, <1>21 DEF WriteTake, Goto, TypeOK, OwnerInv
  <2>2. ListMatchesNodes'
    BY <1>0, <1>21 DEF WriteTake, ListMatchesNodes
  <2>3. MutexInv'
    BY <1>0, <1>21 DEF WriteTake, Goto, TypeOK, MutexInv
  <2>4. OwnerInv'
    BY <1>0, <1>21 DEF WriteTake, Goto, TypeOK, OwnerInv
  <2>5. WaitInv'
    BY <1>0, <1>21 DEF WriteTake, Goto, TypeOK, WaitInv, MutexInv
  <2> QED BY <2>1, <2>2, <2>3, <2>4, <2>5
<1>22. ASSUME NEW t \in Clients, NEW c \in Conns, DisposeTryLock(t, c) PROVE Goal
  <2>1. TypeOK'
    BY <1>0, <1>22 DEF DisposeTryLock, Goto, TypeOK, OwnerInv
  <2>2. ListMatchesNodes'
    BY <1>0, <1>22 DEF DisposeTryLock, ListMatchesNodes
  <2>3. MutexInv'
    BY <1>0, <1>22 DEF DisposeTryLock, Goto, TypeOK, MutexInv
  <2>4. OwnerInv'
    BY <1>0, <1>22 DEF DisposeTryLock, Goto, TypeOK, OwnerInv
  <2>5. WaitInv'
    BY <1>0, <1>22 DEF DisposeTryLock, Goto, TypeOK, WaitInv, MutexInv
  <2> QED BY <2>1, <2>2, <2>3, <2>4, <2>5
<1>23. ASSUME NEW t \in Threads, Unlock(t) PROVE Goal
  <2>1. TypeOK'
    BY <1>0, <1>23 DEF Unlock, Goto, TypeOK, OwnerInv
  <2>2. ListMatchesNodes'
    BY <1>0, <1>23 DEF Unlock, ListMatchesNodes
  <2>3. MutexInv'
    BY <1>0, <1>23 DEF Unlock, Goto, TypeOK, MutexInv
  <2>4. OwnerInv'
    BY <1>0, <1>23 DEF Unlock, Goto, TypeOK, OwnerInv
  <2>5. WaitInv'
    BY <1>0, <1>23 DEF Unlock, Goto, TypeOK, WaitInv, MutexInv
  <2> QED BY <2>1, <2>2, <2>3, <2>4, <2>5
<1>24. ASSUME NEW t \in Threads, Reschedule(t) PROVE Goal
  <2>1. TypeOK'
    BY <1>0, <1>24 DEF Reschedule, Goto, TypeOK, OwnerInv
  <2>2. ListMatchesNodes'
    BY <1>0, <1>24 DEF Reschedule, ListMatchesNodes
  <2>3. MutexInv'
    BY <1>0, <1>24 DEF Reschedule, Goto, TypeOK, MutexInv
  <2>4. OwnerInv'
    BY <1>0, <1>24 DEF Reschedule, Goto, TypeOK, OwnerInv
  <2>5. WaitInv'
    BY <1>0, <1>24 DEF Reschedule, Goto, TypeOK, WaitInv, MutexInv
  <2> QED BY <2>1, <2>2, <2>3, <2>4, <2>5
<1>25. CASE UNCHANGED vars
  BY <1>0, <1>25 DEF vars, TypeOK, ListMatchesNodes, MutexInv, OwnerInv, WaitInv
<1> QED
  BY <1>1, <1>2, <1>3, <1>4, <1>5, <1>6, <1>7, <1>8, <1>9, <1>10, <1>11, <1>12, <1>13, <1>14, <1>15, <1>16, <1>17, <1>18, <1>19, <1>20, <1>21, <1>22, <1>23, <1>24, <1>25
     DEF Next, Worker, ClientStep, Release
=============================================================================
