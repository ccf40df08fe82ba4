---------------------------- MODULE PollInProofs ----------------------------
(***************************************************************************)
(* Proofs about Pipeline, first part: the invariant, what the operations   *)
(* on a poller do to it, and the steps of the threads of poll_in.          *)
(***************************************************************************)
EXTENDS Pipeline, SequenceTheorems, TLAPS

Units == 0..(MaxTime + IdleTimeout)

\* A connection is in one poller at most.  sched_remove_nolock stops at the
\* first poller that knows the descriptor, so a second one would keep it.
OnePoller ==
  \A c \in Conns : \A p, q \in InPollers : c \in in[p].fds /\ c \in in[q].fds => p = q

\* A request is suspended with the poll disabled, until its handler enables it.
SuspendedIsUnpolled == \A c \in cont : ~Polled(c)

\* No stage, queue, event or continuation has the connection.
Unknown(c) ==
  /\ lock[c] = "free" /\ c \notin cont
  /\ c \notin parserQ \cup handlerQ
  /\ \A p \in InPollers, evt \in Events : <<c, evt>> \notin batch[p]

\* Nobody has met a connection that was not accepted yet.
NewIsUnknown == \A c \in Conns : life[c] = "new" => Unknown(c) /\ ~Polled(c)

\* Types, and the pass over a recycle list is at one of its places or past it.
Types == TypeOK /\ \A p \in InPollers : pc[p] = "dispose" => pos[p] # 0

OwnerInv ==
  Types /\ WriteBackIsExclusive /\ OnePoller /\ SuspendedIsUnpolled /\ NewIsUnknown

\* The write-back poller has timer entries only of the connections it writes to,
\* and where timer_sched_time finds them.
OutTimer == \A key \in out.timer : key[2] \in out.fds /\ key[1] = SchedTime(key[2])

\* The inductive invariant.
IInv == OwnerInv /\ OutTimer

(***************************************************************************)
(* The types, in three parts that steps leave alone one by one.            *)
(***************************************************************************)

ConnTypes ==
  /\ life \in [Conns -> {"new", "open", "dead"}]
  /\ lock \in [Conns -> Holders]
  /\ active \in SUBSET Conns /\ shut \in SUBSET Conns /\ closeAfter \in SUBSET Conns
  /\ cont \in SUBSET Conns /\ parserQ \in SUBSET Conns /\ handlerQ \in SUBSET Conns
  /\ lastActive \in [Conns -> 0..MaxTime]
  /\ now \in 0..MaxTime

PollTypes == in \in [InPollers -> PollerType] /\ current \in InPollers /\ out \in PollerType

ThreadTypes ==
  /\ pc \in [InPollers -> {"wait", "handle", "timers", "recycle", "dispose"}]
  /\ batch \in [InPollers -> SUBSET (Conns \X Events)]
  /\ todo \in [InPollers -> SUBSET ((0..(MaxTime + IdleTimeout)) \X Conns)]
  /\ pos \in [InPollers -> Nat]
  /\ count \in [InPollers -> 0..MaxRecycle]
  /\ \A p \in InPollers : pc[p] = "dispose" => pos[p] # 0

\* Together they are Types, before a step and after it.
LEMMA TypesParts ==
  /\ Types <=> ConnTypes /\ PollTypes /\ ThreadTypes
  /\ Types' <=> ConnTypes' /\ PollTypes' /\ ThreadTypes'
BY DEF Types, TypeOK, ConnTypes, PollTypes, ThreadTypes

(***************************************************************************)
(* Operations on one poller.                                               *)
(***************************************************************************)

\* Adding to and removing from a poller.
LEMMA PollerOperations ==
  ASSUME NEW P \in PollerType, NEW c \in Conns, NEW u \in Units
  PROVE  /\ AddFd(P, c) \in PollerType /\ AddFd(P, c).fds = P.fds \cup {c}
         /\ RemoveFd(P, c) \in PollerType /\ RemoveFd(P, c).fds = P.fds \ {c}
         /\ TimerReplace(P, u, c) \in PollerType /\ TimerReplace(P, u, c).fds = P.fds
         /\ TimerRemove(P, u, c) \in PollerType /\ TimerRemove(P, u, c).fds = P.fds
         /\ Recycle(P, c) \in PollerType /\ Recycle(P, c).fds = P.fds
<1>1. AddFd(P, c) \in PollerType /\ AddFd(P, c).fds = P.fds \cup {c}
  BY DEF AddFd, PollerType
<1>2. RemoveFd(P, c) \in PollerType /\ RemoveFd(P, c).fds = P.fds \ {c}
  BY DEF RemoveFd, PollerType
<1>3. TimerReplace(P, u, c) \in PollerType /\ TimerReplace(P, u, c).fds = P.fds
  BY DEF TimerReplace, PollerType, Units
<1>4. TimerRemove(P, u, c) \in PollerType /\ TimerRemove(P, u, c).fds = P.fds
  BY DEF TimerRemove, PollerType
<1>5. Append(P.expired, c) \in Seq(Conns)
  BY AppendProperties DEF PollerType
<1>6. Recycle(P, c) \in PollerType /\ Recycle(P, c).fds = P.fds
  BY <1>5 DEF Recycle, PollerType
<1> QED BY <1>1, <1>2, <1>3, <1>4, <1>6

\* update_connection moves a callback of the timer.
LEMMA MoveTimerOperation ==
  ASSUME NEW P \in PollerType, NEW c \in Conns, NEW u \in Units, NEW v \in Units
  PROVE  MoveTimer(P, u, v, c) \in PollerType /\ MoveTimer(P, u, v, c).fds = P.fds
<1>1. TimerRemove(P, u, c) \in PollerType /\ TimerRemove(P, u, c).fds = P.fds
  BY PollerOperations
<1> QED BY <1>1, PollerOperations DEF MoveTimer

\* A disposed connection leaves the recycle list.
LEMMA RemoveAtOperation ==
  ASSUME NEW S, NEW s \in Seq(S), NEW i \in Nat, i <= Len(s)
  PROVE  RemoveAt(s, i) \in Seq(S)
<1>1. Len(s) \in Nat /\ \A j \in 1..Len(s) : s[j] \in S
  BY ElementOfSeq
<1>2. SubSeq(s, 1, i - 1) \in Seq(S)
  BY <1>1, SubSeqProperties
<1>3. SubSeq(s, i + 1, Len(s)) \in Seq(S)
  BY <1>1, SubSeqProperties
<1> QED BY <1>2, <1>3, ConcatProperties DEF RemoveAt

\* timer_sched_time and the time of a new callback are units of the timer.
LEMMA TimesAreUnits ==
  ASSUME TypeOK, NEW c \in Conns
  PROVE  SchedTime(c) \in Units /\ now + IdleTimeout \in Units
BY PipelineAssumption DEF TypeOK, SchedTime, Units

(***************************************************************************)
(* PollInStage as the other stages call it.                                *)
(***************************************************************************)

\* sched_add puts the connection in one poller.
LEMMA SchedAddEffect ==
  ASSUME TypeOK, NEW c \in Conns, NEW u \in Units, SchedAdd(c, u)
  PROVE  /\ in' \in [InPollers -> PollerType] /\ current' \in InPollers
         /\ in'[current'].fds = in[current'].fds \cup {c}
         /\ \A q \in InPollers \ {current'} : in'[q].fds = in[q].fds
<1>1. current' \in InPollers
  <2>1. current \in Nat /\ NumIn \in Nat \ {0} /\ current' = (current + 1) % NumIn
    BY PipelineAssumption DEF TypeOK, InPollers, SchedAdd
  <2>2. (current + 1) % NumIn \in 0..(NumIn - 1)
    BY <2>1
  <2> QED BY <2>1, <2>2 DEF InPollers
<1> DEFINE P == in[current']
           Q == TimerReplace(P, u, c)
<1>2. in \in [InPollers -> PollerType] /\ P \in PollerType
  BY <1>1 DEF TypeOK
<1>3. Q \in PollerType /\ Q.fds = P.fds
  BY <1>2, PollerOperations
<1>4. AddFd(Q, c) \in PollerType /\ AddFd(Q, c).fds = P.fds \cup {c}
  BY <1>3, PollerOperations
<1>5. in' = [in EXCEPT ![current'] = AddFd(Q, c)]
  BY DEF SchedAdd
<1> HIDE DEF Q
<1> QED BY <1>1, <1>2, <1>4, <1>5

\* sched_remove takes it out of every poller, as there is only one.
LEMMA SchedRemoveEffect ==
  ASSUME TypeOK, OnePoller, NEW c \in Conns, NEW recycle \in BOOLEAN,
         SchedRemove(c, recycle)
  PROVE  /\ in' \in [InPollers -> PollerType] /\ current' \in InPollers
         /\ \A q \in InPollers : in'[q].fds = in[q].fds \ {c}
<1> DEFINE owners == {p \in InPollers : c \in in[p].fds}
           first == CHOOSE q \in owners : \A r \in owners : q <= r
           gone(p) == TimerRemove(RemoveFd(in[p], c), SchedTime(c), c)
           new(p) == IF recycle THEN Recycle(gone(p), c) ELSE gone(p)
<1>0. /\ in \in [InPollers -> PollerType] /\ current \in InPollers
      /\ NumIn \in Nat \ {0} /\ InPollers = 0..(NumIn - 1)
  BY PipelineAssumption DEF TypeOK, InPollers
<1>1. ASSUME NEW p \in InPollers
      PROVE  new(p) \in PollerType /\ new(p).fds = in[p].fds \ {c}
  <2>1. in[p] \in PollerType
    BY <1>0
  <2>2. RemoveFd(in[p], c) \in PollerType /\ RemoveFd(in[p], c).fds = in[p].fds \ {c}
    BY <2>1, TimesAreUnits, PollerOperations
  <2>3. gone(p) \in PollerType /\ gone(p).fds = in[p].fds \ {c}
    <3> DEFINE R == RemoveFd(in[p], c)
    <3>1. R \in PollerType /\ R.fds = in[p].fds \ {c} /\ SchedTime(c) \in Units
      BY <2>2, TimesAreUnits
    <3> HIDE DEF R
    <3>2. TimerRemove(R, SchedTime(c), c) \in PollerType
          /\ TimerRemove(R, SchedTime(c), c).fds = R.fds
      BY <3>1, PollerOperations
    <3> QED BY <3>1, <3>2 DEF R
  <2>4. Recycle(gone(p), c) \in PollerType /\ Recycle(gone(p), c).fds = in[p].fds \ {c}
    BY <2>3, TimesAreUnits, PollerOperations
  <2> QED BY <2>3, <2>4
<1>2. CASE owners # {}
  <2>1. PICK p \in InPollers : owners = {p}
    BY <1>2 DEF OnePoller
  <2>2. first = p
    <3>1. p \in owners /\ \A r \in owners : p <= r
      BY <2>1, <1>0
    <3>2. first \in owners
      <4> HIDE DEF owners
      <4> QED BY <3>1
    <3> QED BY <2>1, <3>2
  <2>3. in' = [in EXCEPT ![p] = new(p)] /\ current' = current
    BY <1>2, <2>2 DEF SchedRemove, inVars
  <2>4. \A q \in InPollers \ {p} : c \notin in[q].fds
    BY <2>1
  <2>5. new(p) \in PollerType /\ new(p).fds = in[p].fds \ {c}
    BY <1>1
  <2> HIDE DEF new, owners, first
  <2> QED BY <1>0, <2>3, <2>4, <2>5
<1>3. CASE owners = {}
  <2>1. \A q \in InPollers : c \notin in[q].fds
    BY <1>3
  <2>2. CASE recycle
    <3>1. /\ in' = [in EXCEPT ![current] = Recycle(in[current], c)]
          /\ current' = (current + 1) % NumIn
      BY <1>3, <2>2 DEF SchedRemove
    <3>2. /\ Recycle(in[current], c) \in PollerType
          /\ Recycle(in[current], c).fds = in[current].fds
      BY <1>0, TimesAreUnits, PollerOperations
    <3>3. (current + 1) % NumIn \in InPollers
      BY <1>0
    <3> QED BY <1>0, <2>1, <3>1, <3>2, <3>3
  <2>3. CASE ~recycle
    BY <1>0, <1>3, <2>1, <2>3 DEF SchedRemove, inVars
  <2> QED BY <2>2, <2>3
<1> QED BY <1>2, <1>3

\* active_close: the connection is polled by fewer pollers, if anything.
LEMMA ActiveCloseEffect ==
  ASSUME TypeOK, OnePoller, NEW c \in Conns, ActiveClose(c)
  PROVE  /\ in' \in [InPollers -> PollerType] /\ current' \in InPollers
         /\ active' \in SUBSET Conns /\ shut' \in SUBSET Conns
         /\ \A q \in InPollers : in'[q].fds \subseteq in[q].fds
<1>1. CASE c \in active
  BY <1>1, SchedRemoveEffect DEF ActiveClose, TypeOK
<1>2. CASE c \notin active
  BY <1>2 DEF ActiveClose, TypeOK
<1> QED BY <1>1, <1>2

(***************************************************************************)
(* What a step has to show of the connections it is about.                 *)
(***************************************************************************)

\* Connection d is left alone.
Same(d) ==
  /\ life'[d] = life[d] /\ lock'[d] = lock[d]
  /\ d \in out'.fds <=> d \in out.fds
  /\ d \in cont' <=> d \in cont
  /\ d \in parserQ' \cup handlerQ' => d \in parserQ \cup handlerQ
  /\ \A p \in InPollers, evt \in Events : <<d, evt>> \in batch'[p] => <<d, evt>> \in batch[p]

\* A step of connection c after which no poller has more connections.
LEMMA ShrinkStep ==
  ASSUME OwnerInv, Types', NEW c \in Conns,
         \A q \in InPollers : in'[q].fds \subseteq in[q].fds,
         \A d \in Conns \ {c} : Same(d),
         c \in out'.fds <=> lock'[c] = "out",
         lock'[c] \in {"out", "completion"} \/ c \in cont' => ~Polled(c)',
         life'[c] = "new" => life[c] = "new" /\ Unknown(c)'
  PROVE  OwnerInv'
<1>1. \A d \in Conns : Polled(d)' => Polled(d)
  BY DEF Polled
<1>2. OnePoller'
  BY DEF OwnerInv, Types, OnePoller
<1>3. WriteBackIsExclusive'
  BY <1>1 DEF OwnerInv, Types, WriteBackIsExclusive, Same
<1>4. SuspendedIsUnpolled'
  BY <1>1 DEF OwnerInv, Types, SuspendedIsUnpolled, Same, TypeOK
<1>5. NewIsUnknown'
  <2> SUFFICES ASSUME NEW d \in Conns, life'[d] = "new" PROVE (Unknown(d) /\ ~Polled(d))'
    BY DEF NewIsUnknown
  <2>1. CASE d = c
    BY <2>1, <1>1 DEF OwnerInv, Types, NewIsUnknown
  <2>2. CASE d # c
    BY <2>2, <1>1 DEF OwnerInv, Types, NewIsUnknown, Same, Unknown
  <2> QED BY <2>1, <2>2
<1> QED BY <1>2, <1>3, <1>4, <1>5 DEF OwnerInv

\* A step that polls connection c, which nobody polled and nobody holds then.
LEMMA AddStep ==
  ASSUME OwnerInv, Types', NEW c \in Conns, NEW u \in Units, SchedAdd(c, u), ~Polled(c),
         \A d \in Conns \ {c} : Same(d),
         c \notin out'.fds, lock'[c] = "free", c \notin cont', life'[c] # "new"
  PROVE  OwnerInv'
<1>1. /\ current' \in InPollers
      /\ in'[current'].fds = in[current'].fds \cup {c}
      /\ \A q \in InPollers \ {current'} : in'[q].fds = in[q].fds
  BY SchedAddEffect DEF OwnerInv, Types
<1>2. \A d \in Conns \ {c} : Polled(d)' => Polled(d)
  BY <1>1 DEF Polled
<1>3. OnePoller'
  <2> SUFFICES ASSUME NEW d \in Conns, NEW p \in InPollers, NEW q \in InPollers,
                      d \in in'[p].fds, d \in in'[q].fds
               PROVE  p = q
    BY DEF OnePoller
  <2>1. CASE d = c
    BY <2>1, <1>1 DEF Polled
  <2>2. CASE d # c
    <3>1. d \in in[p].fds /\ d \in in[q].fds
      BY <2>2, <1>1
    <3> QED BY <3>1 DEF OwnerInv, Types, OnePoller
  <2> QED BY <2>1, <2>2
<1>4. WriteBackIsExclusive'
  BY <1>2 DEF OwnerInv, Types, WriteBackIsExclusive, Same
<1>5. SuspendedIsUnpolled'
  BY <1>2 DEF OwnerInv, Types, SuspendedIsUnpolled, Same, TypeOK
<1>6. NewIsUnknown'
  BY <1>2 DEF OwnerInv, Types, NewIsUnknown, Same, Unknown
<1> QED BY <1>3, <1>4, <1>5, <1>6 DEF OwnerInv

\* A step of a thread alone.
LEMMA ThreadStep ==
  ASSUME OwnerInv, Types', UNCHANGED <<connVars, lock, queues, inVars, out>>,
         \A d \in Conns, p \in InPollers, evt \in Events :
           <<d, evt>> \in batch'[p] => <<d, evt>> \in batch[p] \/ Polled(d)
  PROVE  OwnerInv'
<1>1. \A d \in Conns : Polled(d)' = Polled(d)
  BY DEF Polled, inVars
<1>2. OnePoller'
  BY DEF OwnerInv, Types, OnePoller, inVars
<1>3. WriteBackIsExclusive'
  BY <1>1 DEF OwnerInv, Types, WriteBackIsExclusive
<1>4. SuspendedIsUnpolled'
  BY <1>1 DEF OwnerInv, Types, SuspendedIsUnpolled, connVars, TypeOK
<1>5. NewIsUnknown'
  BY <1>1 DEF OwnerInv, Types, NewIsUnknown, Unknown, connVars, queues
<1> QED BY <1>2, <1>3, <1>4, <1>5 DEF OwnerInv

(***************************************************************************)
(* The thread of a poll_in poller.                                         *)
(***************************************************************************)

\* Steps that change only where the thread is, its events and its position.
LEMMA PollSteps ==
  ASSUME OwnerInv, NEW p \in InPollers,
         \/ PollWait(p) \/ BeginTimers(p) \/ SkipTimers(p) \/ EndTimers(p)
         \/ BeginDispose(p) \/ SkipDispose(p) \/ SkipLocked(p) \/ EndDispose(p)
         \/ \E c \in Conns, evt \in Events : SkipEvent(p, c, evt)
  PROVE  OwnerInv'
<1> USE DEF connVars, inVars, queues
<1>0. Types /\ MaxRecycle \in Nat \ {0}
  BY PipelineAssumption DEF OwnerInv, Types
<1>1. CASE PollWait(p)
  <2>1. PICK ready \in SUBSET in[p].fds : \E evt \in [ready -> Events] :
          batch' = [batch EXCEPT ![p] = {<<c, evt[c]>> : c \in ready}]
    BY <1>1 DEF PollWait
  <2>2. PICK evt \in [ready -> Events] :
          batch' = [batch EXCEPT ![p] = {<<c, evt[c]>> : c \in ready}]
    BY <2>1
  <2>3. ready \subseteq Conns
    BY <1>0 DEF Types, TypeOK, PollerType
  <2>4. {<<c, evt[c]>> : c \in ready} \in SUBSET (Conns \X Events)
    BY <2>3
  <2>5. Types'
    BY <1>0, <1>1, <2>2, <2>4 DEF Types, TypeOK, PollWait
  <2>6. \A d \in Conns, q \in InPollers, e \in Events :
          <<d, e>> \in batch'[q] => <<d, e>> \in batch[q] \/ Polled(d)
    BY <1>0, <2>2 DEF Types, TypeOK, Polled
  <2> QED BY <1>1, <2>5, <2>6, ThreadStep DEF PollWait
<1>2. CASE BeginTimers(p)
  <2>1. Due(in[p], now) \in SUBSET ((0..(MaxTime + IdleTimeout)) \X Conns)
    BY <1>0 DEF Types, TypeOK, PollerType, Due
  <2>2. Types'
    BY <1>0, <1>2, <2>1 DEF Types, TypeOK, BeginTimers
  <2> QED BY <1>2, <2>2, ThreadStep DEF BeginTimers
<1>3. CASE SkipTimers(p)
  <2>1. Types'
    BY <1>0, <1>3 DEF Types, TypeOK, SkipTimers
  <2> QED BY <1>3, <2>1, ThreadStep DEF SkipTimers
<1>4. CASE EndTimers(p)
  <2>1. Types'
    BY <1>0, <1>4 DEF Types, TypeOK, EndTimers
  <2> QED BY <1>4, <2>1, ThreadStep DEF EndTimers
<1>5. CASE SkipDispose(p)
  <2>1. Types'
    BY <1>0, <1>5 DEF Types, TypeOK, SkipDispose
  <2> QED BY <1>5, <2>1, ThreadStep DEF SkipDispose
<1>6. CASE SkipLocked(p)
  <2>1. ThreadTypes'
    <3>1. ThreadTypes /\ pos \in [InPollers -> Nat]
      BY <1>0, TypesParts DEF ThreadTypes
    <3>2. pos' = [pos EXCEPT ![p] = @ + 1] /\ UNCHANGED <<pc, batch, todo, count>>
      BY <1>6 DEF SkipLocked
    <3>3. pos' \in [InPollers -> Nat] /\ \A q \in InPollers : pos[q] # 0 => pos'[q] # 0
      BY <3>1, <3>2
    <3> QED BY <3>1, <3>2, <3>3 DEF ThreadTypes
  <2>2. UNCHANGED <<connVars, lock, lastActive, now, queues, inVars, out>>
    BY <1>6 DEF SkipLocked
  <2>3. Types'
    BY <1>0, <2>1, <2>2, TypesParts DEF ConnTypes, PollTypes
  <2> QED BY <1>6, <2>2, <2>3, ThreadStep DEF SkipLocked
<1>7. CASE EndDispose(p)
  <2>1. ThreadTypes'
    BY <1>0, <1>7, TypesParts DEF ThreadTypes, EndDispose
  <2>2. UNCHANGED <<connVars, lock, lastActive, now, queues, inVars, out>>
    BY <1>7 DEF EndDispose
  <2>3. Types'
    BY <1>0, <2>1, <2>2, TypesParts DEF ConnTypes, PollTypes
  <2> QED BY <1>7, <2>2, <2>3, ThreadStep DEF EndDispose
<1>8. CASE BeginDispose(p)
  <2>1. ThreadTypes'
    BY <1>0, <1>8, TypesParts DEF ThreadTypes, BeginDispose
  <2>2. UNCHANGED <<connVars, lock, lastActive, now, queues, inVars, out>>
    BY <1>8 DEF BeginDispose
  <2>3. Types'
    BY <1>0, <2>1, <2>2, TypesParts DEF ConnTypes, PollTypes
  <2> QED BY <1>8, <2>2, <2>3, ThreadStep DEF BeginDispose
<1>9. ASSUME NEW c \in Conns, NEW evt \in Events, SkipEvent(p, c, evt) PROVE OwnerInv'
  <2>1. Types'
    BY <1>0, <1>9 DEF Types, TypeOK, SkipEvent, HandledEvent
  <2>2. \A q \in InPollers : batch'[q] \subseteq batch[q]
    BY <1>0, <1>9 DEF Types, TypeOK, SkipEvent, HandledEvent
  <2> QED BY <1>9, <2>1, <2>2, ThreadStep DEF SkipEvent
<1> QED BY <1>1, <1>2, <1>3, <1>4, <1>5, <1>6, <1>7, <1>8, <1>9

\* update_connection, on the poller it is given.
LEMMA UpdatedEffect ==
  ASSUME TypeOK, NEW p \in InPollers, NEW c \in Conns
  PROVE  Updated(p, c) \in PollerType /\ Updated(p, c).fds = in[p].fds
<1>1. in[p] \in PollerType
  BY DEF TypeOK
<1>2. SchedTime(c) \in Units /\ now + IdleTimeout \in Units
  BY TimesAreUnits
<1>3. /\ MoveTimer(in[p], SchedTime(c), now + IdleTimeout, c) \in PollerType
      /\ MoveTimer(in[p], SchedTime(c), now + IdleTimeout, c).fds = in[p].fds
  BY <1>1, <1>2, MoveTimerOperation
<1> QED BY <1>1, <1>3 DEF Updated

\* cleanup_connection, on the poller it is given.
LEMMA CleanUpEffect ==
  ASSUME TypeOK, NEW p \in InPollers, NEW c \in Conns, NEW P \in PollerType,
         NEW u \in Units, P.fds = in[p].fds, CleanUp(p, c, P, u)
  PROVE  /\ in' \in [InPollers -> PollerType]
         /\ active' \in SUBSET Conns /\ shut' \in SUBSET Conns
         /\ \A q \in InPollers : in'[q].fds \subseteq in[q].fds
<1>0. in \in [InPollers -> PollerType]
  BY DEF TypeOK
<1>1. CASE c \in active
  <2> DEFINE Q == RemoveFd(P, c)
             R == TimerRemove(Q, u, c)
             T == Recycle(R, c)
  <2>1. Q \in PollerType /\ Q.fds \subseteq P.fds
    BY PollerOperations
  <2>2. in' = [in EXCEPT ![p] = T] /\ active' = active \ {c} /\ shut' = shut \cup {c}
    BY <1>1 DEF CleanUp
  <2> HIDE DEF Q
  <2>3. R \in PollerType /\ R.fds = Q.fds
    BY <2>1, PollerOperations
  <2> HIDE DEF R
  <2>4. T \in PollerType /\ T.fds = R.fds
    BY <2>3, PollerOperations
  <2> HIDE DEF T
  <2>5. active' \in SUBSET Conns /\ shut' \in SUBSET Conns
    BY <2>2 DEF TypeOK
  <2> QED BY <1>0, <2>1, <2>2, <2>3, <2>4, <2>5
<1>2. CASE c \notin active
  <2>1. in' = [in EXCEPT ![p] = P] /\ UNCHANGED <<active, shut>>
    BY <1>2 DEF CleanUp
  <2>2. active' \in SUBSET Conns /\ shut' \in SUBSET Conns
    BY <2>1 DEF TypeOK
  <2> QED BY <1>0, <2>1, <2>2
<1> QED BY <1>1, <1>2

\* Reading from a connection, and giving it up.
LEMMA EventSteps ==
  ASSUME OwnerInv, NEW p \in InPollers, NEW c \in Conns,
         ReadConnection(p, c) \/ ReadEnd(p, c) \/ HangUp(p, c)
  PROVE  OwnerInv'
<1> USE DEF connVars, queues
<1>0. Types /\ TypeOK
  BY DEF OwnerInv, Types
<1>1. PICK evt \in Events : HandledEvent(p, c, evt)
  BY DEF ReadConnection, ReadEnd, HangUp, Events
<1>2. life[c] # "new"
  BY <1>1 DEF OwnerInv, NewIsUnknown, Unknown, HandledEvent
<1>3. \A q \in InPollers : batch'[q] \subseteq batch[q]
  BY <1>0, <1>1 DEF TypeOK, HandledEvent
<1>4. /\ batch' \in [InPollers -> SUBSET (Conns \X Events)]
      /\ lastActive' \in [Conns -> 0..MaxTime]
  BY <1>0, <1>1 DEF TypeOK, HandledEvent, ReadConnection, ReadEnd, HangUp
<1>5. /\ in' \in [InPollers -> PollerType]
      /\ active' \in SUBSET Conns /\ shut' \in SUBSET Conns
      /\ \A q \in InPollers : in'[q].fds \subseteq in[q].fds
  <2>1. CASE ReadConnection(p, c)
    <3> DEFINE U == Updated(p, c)
    <3>1. in' = [in EXCEPT ![p] = U] /\ UNCHANGED <<active, shut>>
      BY <2>1 DEF ReadConnection
    <3>2. U \in PollerType /\ U.fds = in[p].fds
      BY <1>0, UpdatedEffect
    <3> HIDE DEF U
    <3> QED BY <1>0, <3>1, <3>2 DEF TypeOK
  <2>2. CASE ReadEnd(p, c)
    BY <1>0, <2>2, UpdatedEffect, CleanUpEffect, TimesAreUnits DEF ReadEnd
  <2>3. CASE HangUp(p, c)
    <3>1. in[p] \in PollerType
      BY <1>0 DEF TypeOK
    <3> QED BY <1>0, <2>3, <3>1, CleanUpEffect, TimesAreUnits DEF HangUp
  <2> QED BY <2>1, <2>2, <2>3
<1>6. /\ UNCHANGED <<life, lock, closeAfter, cont, now, handlerQ, current, pc, todo, pos,
                     count, out>>
      /\ parserQ' \in {parserQ, parserQ \cup {c}}
  BY DEF ReadConnection, ReadEnd, HangUp
<1>7. Types'
  <2>1. ConnTypes'
    BY <1>0, <1>4, <1>5, <1>6, TypesParts DEF ConnTypes
  <2>2. PollTypes' /\ ThreadTypes'
    BY <1>0, <1>4, <1>5, <1>6, TypesParts DEF PollTypes, ThreadTypes
  <2> QED BY <2>1, <2>2, TypesParts
<1>8. \A d \in Conns \ {c} : Same(d)
  BY <1>3, <1>6 DEF Same
<1>9. \A q \in InPollers : in'[q].fds \subseteq in[q].fds
  BY <1>5
<1>10. lock'[c] \in {"out", "completion"} \/ c \in cont' => ~Polled(c)'
  BY <1>6, <1>9 DEF OwnerInv, WriteBackIsExclusive, SuspendedIsUnpolled, Polled
<1>11. c \in out'.fds <=> lock'[c] = "out"
  BY <1>6 DEF OwnerInv, WriteBackIsExclusive
<1>12. life'[c] # "new"
  BY <1>2, <1>6
<1> QED BY <1>7, <1>8, <1>9, <1>10, <1>11, <1>12, ShrinkStep

\* The idle callback takes a connection off its poller, or finds it locked.
LEMMA IdleStep ==
  ASSUME OwnerInv, NEW p \in InPollers, IdleCallback(p)
  PROVE  OwnerInv'
<1>0. Types /\ TypeOK
  BY DEF OwnerInv, Types
<1>1. PICK key \in todo[p] :
        /\ todo' = [todo EXCEPT ![p] = @ \ {key}]
        /\ \/ /\ lock[key[2]] = "free"
              /\ shut' = shut \cup {key[2]}
              /\ in' = [in EXCEPT ![p] =
                          Recycle(RemoveFd(TimerRemove(@, key[1], key[2]), key[2]), key[2])]
           \/ lock[key[2]] # "free" /\ UNCHANGED <<shut, in>>
  BY DEF IdleCallback
<1> DEFINE c == key[2]
           u == key[1]
           P == in[p]
           Q == TimerRemove(P, u, c)
           R == RemoveFd(Q, c)
           T == Recycle(R, c)
<1>2. c \in Conns /\ u \in Units
  BY <1>0 DEF TypeOK, Units
<1>3. \/ shut' = shut \cup {c} /\ in' = [in EXCEPT ![p] = T]
      \/ UNCHANGED <<shut, in>>
  BY <1>1
<1>4. todo' \in [InPollers -> SUBSET ((0..(MaxTime + IdleTimeout)) \X Conns)]
  BY <1>0, <1>1 DEF TypeOK
<1> HIDE DEF c, u
<1>5. in \in [InPollers -> PollerType] /\ P \in PollerType /\ shut \in SUBSET Conns
  BY <1>0 DEF TypeOK
<1> HIDE DEF P
<1>6. Q \in PollerType /\ Q.fds = P.fds
  BY <1>2, <1>5, PollerOperations
<1> HIDE DEF Q
<1>7. R \in PollerType /\ R.fds = Q.fds \ {c}
  BY <1>2, <1>6, PollerOperations
<1> HIDE DEF R
<1>8. T \in PollerType /\ T.fds = R.fds
  BY <1>2, <1>7, PollerOperations
<1> HIDE DEF T
<1>9. /\ in' \in [InPollers -> PollerType] /\ shut' \in SUBSET Conns
      /\ \A q \in InPollers : in'[q].fds \subseteq in[q].fds
  BY <1>2, <1>3, <1>5, <1>6, <1>7, <1>8 DEF P
<1>10. UNCHANGED <<life, active, closeAfter, cont, lock, lastActive, now, parserQ, handlerQ,
                   current, pc, batch, pos, count, out>>
  BY DEF IdleCallback, queues
<1>11. Types'
  <2>1. ConnTypes'
    BY <1>0, <1>9, <1>10, TypesParts DEF ConnTypes
  <2>2. PollTypes' /\ ThreadTypes'
    BY <1>0, <1>4, <1>9, <1>10, TypesParts DEF PollTypes, ThreadTypes
  <2> QED BY <2>1, <2>2, TypesParts
<1>12. \A d \in Conns \ {c} : Same(d)
  BY <1>10 DEF Same
<1>13. lock'[c] \in {"out", "completion"} \/ c \in cont' => ~Polled(c)'
  BY <1>2, <1>9, <1>10 DEF OwnerInv, WriteBackIsExclusive, SuspendedIsUnpolled, Polled
<1>14. c \in out'.fds <=> lock'[c] = "out"
  BY <1>2, <1>10 DEF OwnerInv, WriteBackIsExclusive
<1>15. life'[c] = "new" => life[c] = "new" /\ Unknown(c)'
  BY <1>2, <1>10 DEF OwnerInv, NewIsUnknown, Unknown
<1> QED BY <1>2, <1>9, <1>11, <1>12, <1>13, <1>14, <1>15, ShrinkStep

\* dispose_connection destroys a connection that nobody has locked.
LEMMA DisposeStep ==
  ASSUME OwnerInv, NEW p \in InPollers, Dispose(p)
  PROVE  OwnerInv'
<1>0. Types /\ TypeOK
  BY DEF OwnerInv, Types
<1> DEFINE P == in[p]
           T == [P EXCEPT !.expired = RemoveAt(P.expired, pos[p])]
<1>1. /\ in \in [InPollers -> PollerType] /\ P \in PollerType
      /\ P.expired \in Seq(Conns) /\ pos[p] \in Nat /\ pos[p] # 0
      /\ pos[p] <= Len(P.expired) /\ count[p] < MaxRecycle
  BY <1>0 DEF Types, TypeOK, PollerType, Dispose, Disposing
<1>2. PICK c \in Conns : c = P.expired[pos[p]]
  BY <1>1, ElementOfSeq
<1>3. RemoveAt(P.expired, pos[p]) \in Seq(Conns)
  BY <1>1, RemoveAtOperation
<1>4. T \in PollerType /\ T.fds = P.fds
  BY <1>1, <1>3 DEF PollerType
<1>5. /\ life' = [life EXCEPT ![c] = "dead"]
      /\ parserQ' = parserQ \ {c} /\ handlerQ' = handlerQ \ {c}
      /\ in' = [in EXCEPT ![p] = T]
      /\ count' = [count EXCEPT ![p] = @ + 1]
      /\ UNCHANGED <<lock, active, shut, closeAfter, cont, lastActive, now, current, pc,
                     batch, todo, pos, out>>
  BY <1>1, <1>2 DEF Dispose
<1> HIDE DEF T
<1>6. /\ in' \in [InPollers -> PollerType]
      /\ \A q \in InPollers : in'[q].fds \subseteq in[q].fds
  BY <1>1, <1>4, <1>5
<1>7. count' \in [InPollers -> 0..MaxRecycle]
  <2>1. count \in [InPollers -> 0..MaxRecycle] /\ MaxRecycle \in Nat
    BY <1>0, PipelineAssumption DEF TypeOK
  <2>2. count[p] + 1 \in 0..MaxRecycle
    BY <1>1, <2>1
  <2> QED BY <1>5, <2>1, <2>2
<1>8. Types'
  <2>1. ConnTypes'
    BY <1>0, <1>2, <1>5, TypesParts DEF ConnTypes
  <2>2. PollTypes' /\ ThreadTypes'
    BY <1>0, <1>5, <1>6, <1>7, TypesParts DEF PollTypes, ThreadTypes
  <2> QED BY <2>1, <2>2, TypesParts
<1>9. \A d \in Conns \ {c} : Same(d)
  BY <1>0, <1>2, <1>5 DEF Same, TypeOK
<1>10. lock'[c] \in {"out", "completion"} \/ c \in cont' => ~Polled(c)'
  <2>1. lock[c] \in {"out", "completion"} \/ c \in cont => ~Polled(c)
    BY <1>2 DEF OwnerInv, WriteBackIsExclusive, SuspendedIsUnpolled
  <2>2. Polled(c)' => Polled(c)
    BY <1>6 DEF Polled
  <2> QED BY <1>5, <2>1, <2>2
<1>11. c \in out'.fds <=> lock'[c] = "out"
  BY <1>2, <1>5 DEF OwnerInv, WriteBackIsExclusive
<1>12. life'[c] # "new"
  BY <1>0, <1>2, <1>5 DEF TypeOK
<1> QED BY <1>2, <1>6, <1>8, <1>9, <1>10, <1>11, <1>12, ShrinkStep
=============================================================================
