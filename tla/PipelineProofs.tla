--------------------------- MODULE PipelineProofs ---------------------------
(***************************************************************************)
(* Proofs about Pipeline, second part: the steps of the other stages, and  *)
(* the theorems.  They hold for any number of connections and of poll_in   *)
(* threads, any time-out, and whatever StreamErrors, Flushes and Prompt    *)
(* allow.                                                                  *)
(***************************************************************************)
EXTENDS PollInProofs

(***************************************************************************)
(* The workers of the other stages.                                        *)
(***************************************************************************)

\* What every step of a stage on connection c leaves alone, and its ranges.
StageFrame(c, h) ==
  /\ UNCHANGED <<life, now, threadVars>>
  /\ lock' = [lock EXCEPT ![c] = h]
  /\ in' \in [InPollers -> PollerType] /\ current' \in InPollers
  /\ active' \in SUBSET Conns /\ shut' \in SUBSET Conns
  /\ closeAfter' \in SUBSET Conns /\ cont' \in SUBSET Conns
  /\ lastActive' \in [Conns -> 0..MaxTime]
  /\ parserQ' \subseteq parserQ \cup {c} /\ handlerQ' \subseteq handlerQ \cup {c}
  /\ cont' \cup {c} = cont \cup {c}
  /\ out' \in PollerType /\ out'.fds \cup {c} = out.fds \cup {c}
  /\ c \in out'.fds <=> h = "out"

\* The frame gives the types and leaves the other connections alone.
LEMMA FrameStep ==
  ASSUME Types, NEW c \in Conns, NEW h \in Holders, StageFrame(c, h)
  PROVE  Types' /\ (\A d \in Conns \ {c} : Same(d)) /\ lock'[c] = h
<1>1. lock' \in [Conns -> Holders] /\ lock'[c] = h
      /\ \A d \in Conns \ {c} : lock'[d] = lock[d]
  BY DEF Types, TypeOK, StageFrame
<1>2. parserQ' \in SUBSET Conns /\ handlerQ' \in SUBSET Conns
  BY DEF Types, TypeOK, StageFrame
<1>3. Types'
  BY <1>1, <1>2 DEF Types, TypeOK, StageFrame, threadVars
<1>4. \A d \in Conns \ {c} : Same(d)
  BY <1>1 DEF Same, StageFrame, threadVars
<1> QED BY <1>1, <1>3, <1>4

\* A step of a stage that does not poll the connection.
LEMMA StageStep ==
  ASSUME OwnerInv, NEW c \in Conns, NEW h \in Holders, StageFrame(c, h), life[c] # "new",
         \A q \in InPollers : in'[q].fds \subseteq in[q].fds,
         h \in {"out", "completion"} \/ c \in cont' => ~Polled(c)'
  PROVE  OwnerInv'
<1>1. Types' /\ (\A d \in Conns \ {c} : Same(d)) /\ lock'[c] = h
  BY FrameStep DEF OwnerInv
<1>2. (c \in out'.fds <=> lock'[c] = "out") /\ life'[c] # "new"
  BY <1>1 DEF StageFrame
<1> QED BY <1>1, <1>2, ShrinkStep

\* A step of a stage that polls it.
LEMMA PollStep ==
  ASSUME OwnerInv, NEW c \in Conns, NEW u \in Units, StageFrame(c, "free"), life[c] # "new",
         SchedAdd(c, u), ~Polled(c), c \notin cont'
  PROVE  OwnerInv'
<1>1. Types' /\ (\A d \in Conns \ {c} : Same(d)) /\ lock'[c] = "free"
  BY FrameStep DEF OwnerInv, Holders
<1>2. c \notin out'.fds /\ life'[c] # "new"
  BY DEF StageFrame
<1> QED BY <1>1, <1>2, AddStep

\* A connection somebody holds, has queued or writes to was accepted.
LEMMA KnownConnection ==
  ASSUME OwnerInv, NEW c \in Conns,
         lock[c] # "free" \/ c \in parserQ \cup handlerQ \/ c \in out.fds
  PROVE  /\ life[c] # "new"
         /\ c \in out.fds <=> lock[c] = "out"
         /\ lock[c] \in {"out", "completion"} \/ c \in cont => ~Polled(c)
<1>1. c \in out.fds <=> lock[c] = "out"
  BY DEF OwnerInv, WriteBackIsExclusive
<1>2. life[c] # "new"
  BY <1>1 DEF OwnerInv, NewIsUnknown, Unknown
<1>3. lock[c] \in {"out", "completion"} \/ c \in cont => ~Polled(c)
  BY DEF OwnerInv, WriteBackIsExclusive, SuspendedIsUnpolled
<1> QED BY <1>1, <1>2, <1>3

\* The server polls a connection it has accepted.
LEMMA AcceptStep ==
  ASSUME OwnerInv, NEW c \in Conns, Accept(c)
  PROVE  OwnerInv'
<1>0. Types /\ TypeOK /\ now + IdleTimeout \in Units
  BY TimesAreUnits DEF OwnerInv, Types
<1>1. Unknown(c) /\ ~Polled(c) /\ (c \in out.fds <=> lock[c] = "out")
  BY DEF OwnerInv, NewIsUnknown, WriteBackIsExclusive, Accept
<1>2. in' \in [InPollers -> PollerType] /\ current' \in InPollers
  BY <1>0, SchedAddEffect DEF Accept
<1>3. /\ life' \in [Conns -> {"new", "open", "dead"}] /\ life'[c] # "new"
      /\ \A d \in Conns \ {c} : life'[d] = life[d]
      /\ lastActive' \in [Conns -> 0..MaxTime] /\ active' \in SUBSET Conns
  BY <1>0 DEF TypeOK, Accept
<1>4. UNCHANGED <<lock, shut, closeAfter, cont, now, parserQ, handlerQ, pc, batch, todo,
                  pos, count, out>>
  BY DEF Accept, queues, threadVars
<1>5. Types'
  <2>1. ConnTypes'
    BY <1>0, <1>3, <1>4, TypesParts DEF ConnTypes
  <2>2. PollTypes' /\ ThreadTypes'
    BY <1>0, <1>2, <1>4, TypesParts DEF PollTypes, ThreadTypes
  <2> QED BY <2>1, <2>2, TypesParts
<1>6. \A d \in Conns \ {c} : Same(d)
  BY <1>3, <1>4 DEF Same
<1>7. c \notin out'.fds /\ lock'[c] = "free" /\ c \notin cont'
  BY <1>1, <1>4 DEF Unknown
<1>8. SchedAdd(c, now + IdleTimeout)
  BY DEF Accept
<1> QED BY <1>0, <1>1, <1>3, <1>5, <1>6, <1>7, <1>8, AddStep

\* The parser stage, and the handler stage taking a connection from its queue.
LEMMA ParserSteps ==
  ASSUME OwnerInv, NEW c \in Conns, ParserPick(c) \/ ParserDone(c) \/ HandlerPick(c)
  PROVE  OwnerInv'
<1> USE DEF connVars, inVars, queues, Holders
<1>0. Types /\ TypeOK /\ OnePoller
  BY DEF OwnerInv, Types
<1>1. /\ life[c] # "new" /\ (c \in out.fds <=> lock[c] = "out")
      /\ c \in cont => ~Polled(c)
  BY KnownConnection DEF ParserPick, ParserDone, HandlerPick
<1>2. CASE ParserPick(c)
  <2>1. StageFrame(c, "parser") /\ UNCHANGED <<in, cont>>
    BY <1>0, <1>1, <1>2 DEF StageFrame, ParserPick, TypeOK
  <2> QED BY <1>1, <2>1, StageStep DEF Polled
<1>3. CASE HandlerPick(c)
  <2>1. StageFrame(c, "handler") /\ UNCHANGED <<in, cont>>
    BY <1>0, <1>1, <1>3 DEF StageFrame, HandlerPick, TypeOK
  <2> QED BY <1>1, <2>1, StageStep DEF Polled
<1>4. CASE ParserDone(c)
  <2>1. /\ in' \in [InPollers -> PollerType] /\ current' \in InPollers
        /\ active' \in SUBSET Conns /\ shut' \in SUBSET Conns
        /\ \A q \in InPollers : in'[q].fds \subseteq in[q].fds
    <3>1. CASE ActiveClose(c)
      BY <1>0, <3>1, ActiveCloseEffect
    <3>2. CASE UNCHANGED <<active, shut, inVars>>
      BY <1>0, <3>2 DEF TypeOK
    <3> QED BY <1>4, <3>1, <3>2 DEF ParserDone
  <2>2. StageFrame(c, "free") /\ UNCHANGED cont
    BY <1>0, <1>1, <1>4, <2>1 DEF StageFrame, ParserDone, TypeOK
  <2> QED BY <1>1, <2>1, <2>2, StageStep DEF Polled
<1> QED BY <1>2, <1>3, <1>4

\* disable_poll leaves the connection unpolled; a resumed one already was.
LEMMA DisablePollEffect ==
  ASSUME OwnerInv, NEW c \in Conns, DisablePoll(c)
  PROVE  /\ in' \in [InPollers -> PollerType] /\ current' \in InPollers
         /\ \A q \in InPollers : in'[q].fds \subseteq in[q].fds
         /\ ~Polled(c)'
<1>0. TypeOK /\ OnePoller
  BY DEF OwnerInv, Types
<1>1. CASE SchedRemove(c, FALSE)
  <2>1. /\ in' \in [InPollers -> PollerType] /\ current' \in InPollers
        /\ \A q \in InPollers : in'[q].fds = in[q].fds \ {c}
    BY <1>0, <1>1, SchedRemoveEffect
  <2> QED BY <2>1 DEF Polled
<1>2. CASE c \in cont /\ current' = (current + 1) % NumIn /\ UNCHANGED in
  <2>1. ~Polled(c)'
    BY <1>2 DEF OwnerInv, SuspendedIsUnpolled, Polled
  <2>2. current \in Nat /\ NumIn \in Nat \ {0}
    BY <1>0, PipelineAssumption DEF TypeOK, InPollers
  <2>3. current' \in InPollers
    BY <1>2, <2>2 DEF InPollers
  <2> QED BY <1>0, <1>2, <2>1, <2>3 DEF TypeOK
<1> QED BY <1>1, <1>2 DEF DisablePoll

\* The write-back stage takes the connection into its poller.
LEMMA WriteBackEffect ==
  ASSUME TypeOK, NEW c \in Conns, WriteBack(c)
  PROVE  /\ out' \in PollerType /\ out'.fds = out.fds \cup {c}
         /\ lastActive' \in [Conns -> 0..MaxTime]
<1>1. out' \in PollerType /\ out'.fds = out.fds \cup {c}
  BY TimesAreUnits, PollerOperations DEF TypeOK, WriteBack
<1>2. lastActive' \in [Conns -> 0..MaxTime]
  BY DEF TypeOK, WriteBack
<1> QED BY <1>1, <1>2

\* The handler stage.
LEMMA HandlerSteps ==
  ASSUME OwnerInv, NEW c \in Conns, HandlerDone(c)
  PROVE  OwnerInv'
<1> USE DEF connVars, inVars, queues, Holders
<1>0. Types /\ TypeOK /\ OnePoller
  BY DEF OwnerInv, Types
<1>1. lock[c] = "handler"
  BY DEF HandlerDone, HandlerRespond, HandlerRelease, HandlerSuspend, HandlerAbortStream
<1>2. life[c] # "new" /\ c \notin out.fds /\ (c \in cont => ~Polled(c))
  BY <1>1, KnownConnection
<1>3. Finished(c) => closeAfter' \in SUBSET Conns /\ handlerQ' \subseteq handlerQ \cup {c}
  BY <1>0 DEF Finished, TypeOK
<1>4. CASE HandlerRespond(c)
  <2>1. /\ in' \in [InPollers -> PollerType] /\ current' \in InPollers
        /\ \A q \in InPollers : in'[q].fds \subseteq in[q].fds
        /\ ~Polled(c)'
    BY <1>4, DisablePollEffect DEF HandlerRespond
  <2>2. /\ out' \in PollerType /\ out'.fds = out.fds \cup {c}
        /\ lastActive' \in [Conns -> 0..MaxTime]
    BY <1>0, <1>4, WriteBackEffect DEF HandlerRespond
  <2>3. /\ UNCHANGED <<life, active, shut, now, parserQ, threadVars>>
        /\ cont' = cont \ {c} /\ lock' = [lock EXCEPT ![c] = "out"]
        /\ closeAfter' \in SUBSET Conns /\ handlerQ' \subseteq handlerQ \cup {c}
    BY <1>3, <1>4 DEF HandlerRespond, WriteBack
  <2>4. StageFrame(c, "out")
    BY <1>0, <2>1, <2>2, <2>3 DEF StageFrame, TypeOK
  <2> QED BY <1>2, <2>1, <2>4, StageStep
<1>5. CASE HandlerSuspend(c)
  <2>1. /\ in' \in [InPollers -> PollerType] /\ current' \in InPollers
        /\ \A q \in InPollers : in'[q].fds \subseteq in[q].fds
        /\ ~Polled(c)'
    BY <1>5, DisablePollEffect DEF HandlerSuspend
  <2>2. StageFrame(c, "completion")
    BY <1>0, <1>2, <1>5, <2>1 DEF StageFrame, HandlerSuspend, TypeOK
  <2> QED BY <1>2, <2>1, <2>2, StageStep
<1>6. CASE HandlerAbortStream(c)
  <2>1. StageFrame(c, "free") /\ UNCHANGED in /\ c \notin cont'
    BY <1>0, <1>2, <1>3, <1>6 DEF StageFrame, HandlerAbortStream, TypeOK
  <2> QED BY <1>2, <2>1, StageStep
<1>7. CASE HandlerRelease(c)
  <2>1. CASE UNCHANGED inVars
    <3>1. StageFrame(c, "free") /\ UNCHANGED in /\ c \notin cont'
      BY <1>0, <1>2, <1>3, <1>7, <2>1 DEF StageFrame, HandlerRelease, TypeOK
    <3> QED BY <1>2, <3>1, StageStep
  <2>2. CASE c \in cont /\ SchedAdd(c, SchedTime(c))
    <3>1. SchedTime(c) \in Units
      BY <1>0, TimesAreUnits
    <3>2. in' \in [InPollers -> PollerType] /\ current' \in InPollers
      BY <1>0, <2>2, <3>1, SchedAddEffect
    <3>3. StageFrame(c, "free") /\ c \notin cont'
      BY <1>0, <1>2, <1>3, <1>7, <3>2 DEF StageFrame, HandlerRelease, TypeOK
    <3> QED BY <1>2, <2>2, <3>1, <3>3, PollStep
  <2> QED BY <1>7, <2>1, <2>2 DEF HandlerRelease, EnablePoll
<1> QED BY <1>4, <1>5, <1>6, <1>7 DEF HandlerDone

\* The completion stage.
LEMMA CompletionSteps ==
  ASSUME OwnerInv, NEW c \in Conns, Completion(c)
  PROVE  OwnerInv'
<1> USE DEF connVars, inVars, queues, Holders
<1>0. Types /\ TypeOK /\ OnePoller
  BY DEF OwnerInv, Types
<1>1. lock[c] = "completion"
  BY DEF Completion, CompletionResume, CompletionStream
<1>2. life[c] # "new" /\ c \notin out.fds /\ ~Polled(c)
  BY <1>1, KnownConnection
<1>3. CASE CompletionResume(c)
  <2>1. StageFrame(c, "free") /\ UNCHANGED in
    BY <1>0, <1>2, <1>3 DEF StageFrame, CompletionResume, TypeOK
  <2> QED BY <1>2, <2>1, StageStep DEF Polled
<1>4. CASE CompletionStream(c)
  <2>1. /\ in' \in [InPollers -> PollerType] /\ current' \in InPollers
        /\ \A q \in InPollers : in'[q].fds = in[q].fds \ {c}
    BY <1>0, <1>4, SchedRemoveEffect DEF CompletionStream
  <2>2. /\ out' \in PollerType /\ out'.fds = out.fds \cup {c}
        /\ lastActive' \in [Conns -> 0..MaxTime]
    BY <1>0, <1>4, WriteBackEffect DEF CompletionStream
  <2>3. /\ lock' = [lock EXCEPT ![c] = "out"]
        /\ UNCHANGED <<life, active, shut, closeAfter, cont, now, parserQ, handlerQ, threadVars>>
    BY <1>4 DEF CompletionStream, WriteBack
  <2>4. StageFrame(c, "out")
    BY <1>0, <2>1, <2>2, <2>3 DEF StageFrame, TypeOK
  <2> QED BY <1>2, <2>1, <2>4, StageStep DEF Polled
<1> QED BY <1>3, <1>4 DEF Completion

\* update_connection and cleanup_connection on the write-back poller.
LEMMA OutOperations ==
  ASSUME TypeOK, NEW c \in Conns
  PROVE  /\ OutUpdated(c) \in PollerType /\ OutUpdated(c).fds = out.fds
         /\ \A P \in PollerType, u \in Units :
              /\ TimerRemove(RemoveFd(P, c), u, c) \in PollerType
              /\ TimerRemove(RemoveFd(P, c), u, c).fds = P.fds \ {c}
              /\ RemoveFd(TimerRemove(P, u, c), c) \in PollerType
              /\ RemoveFd(TimerRemove(P, u, c), c).fds = P.fds \ {c}
<1>1. OutUpdated(c) \in PollerType /\ OutUpdated(c).fds = out.fds
  <2>1. out \in PollerType /\ SchedTime(c) \in Units /\ now + IdleTimeout \in Units
    BY TimesAreUnits DEF TypeOK
  <2>2. /\ MoveTimer(out, SchedTime(c), now + IdleTimeout, c) \in PollerType
        /\ MoveTimer(out, SchedTime(c), now + IdleTimeout, c).fds = out.fds
    BY <2>1, MoveTimerOperation
  <2> QED BY <2>1, <2>2 DEF OutUpdated
<1>2. ASSUME NEW P \in PollerType, NEW u \in Units
      PROVE  /\ TimerRemove(RemoveFd(P, c), u, c) \in PollerType
             /\ TimerRemove(RemoveFd(P, c), u, c).fds = P.fds \ {c}
             /\ RemoveFd(TimerRemove(P, u, c), c) \in PollerType
             /\ RemoveFd(TimerRemove(P, u, c), c).fds = P.fds \ {c}
  <2> DEFINE Q == RemoveFd(P, c)
             R == TimerRemove(P, u, c)
  <2>1. Q \in PollerType /\ Q.fds = P.fds \ {c} /\ R \in PollerType /\ R.fds = P.fds
    BY PollerOperations
  <2> HIDE DEF Q, R
  <2>2. TimerRemove(Q, u, c) \in PollerType /\ TimerRemove(Q, u, c).fds = Q.fds
    <3>1. Q \in PollerType
      BY <2>1
    <3> QED BY <3>1, PollerOperations
  <2>3. RemoveFd(R, c) \in PollerType /\ RemoveFd(R, c).fds = R.fds \ {c}
    BY <2>1, PollerOperations
  <2> QED BY <2>1, <2>2, <2>3 DEF Q, R
<1> QED BY <1>1, <1>2

\* The thread of the write-back poller.
LEMMA OutSteps ==
  ASSUME IInv, NEW c \in Conns, Out(c)
  PROVE  OwnerInv'
<1> USE DEF connVars, inVars, queues, Holders
<1>0. OwnerInv /\ Types /\ TypeOK /\ OnePoller
  BY DEF IInv, OwnerInv, Types
<1>1. c \in out.fds
  BY DEF IInv, OutTimer, Out, WriteSome, WriteDone, OutHangUp, OutIdle, Due
<1>2. life[c] # "new" /\ lock[c] = "out" /\ ~Polled(c)
  BY <1>0, <1>1, KnownConnection
<1>3. now + IdleTimeout \in Units /\ SchedTime(c) \in Units /\ out \in PollerType
  BY <1>0, TimesAreUnits DEF TypeOK
<1>4. CASE WriteSome(c)
  <2>1. out' \in PollerType /\ out'.fds = out.fds
    BY <1>0, <1>4, OutOperations DEF WriteSome
  <2>2. lock' = [lock EXCEPT ![c] = "out"]
    BY <1>0, <1>2, <1>4 DEF TypeOK, WriteSome
  <2>3. StageFrame(c, "out") /\ UNCHANGED in
    BY <1>0, <1>1, <1>4, <2>1, <2>2 DEF StageFrame, WriteSome, TypeOK
  <2> QED BY <1>0, <1>2, <2>3, StageStep DEF Polled
<1>5. CASE WriteDone(c)
  <2>1. out' \in PollerType /\ out'.fds = out.fds \ {c}
    <3> DEFINE U == OutUpdated(c)
    <3>1. out' = TimerRemove(RemoveFd(U, c), now + IdleTimeout, c)
      BY <1>5 DEF WriteDone
    <3>2. U \in PollerType /\ U.fds = out.fds
      BY <1>0, OutOperations
    <3> HIDE DEF U
    <3> QED BY <1>0, <1>3, <3>1, <3>2, OutOperations
  <2>2. lastActive' \in [Conns -> 0..MaxTime]
    BY <1>0, <1>5 DEF TypeOK, WriteDone
  <2>3. ASSUME in' \in [InPollers -> PollerType], current' \in InPollers,
               active' \in SUBSET Conns, shut' \in SUBSET Conns,
               handlerQ' \subseteq handlerQ \cup {c}
        PROVE  StageFrame(c, "free") /\ UNCHANGED cont
    BY <1>0, <1>5, <2>1, <2>2, <2>3 DEF StageFrame, WriteDone, TypeOK
  <2>4. CASE handlerQ' = handlerQ \cup {c} /\ UNCHANGED <<active, shut, inVars>>
    <3>1. StageFrame(c, "free") /\ UNCHANGED cont
      BY <1>0, <2>3, <2>4 DEF TypeOK
    <3> QED BY <1>0, <1>2, <2>4, <3>1, StageStep DEF Polled
  <2>5. CASE ActiveClose(c) /\ UNCHANGED handlerQ
    <3>1. /\ in' \in [InPollers -> PollerType] /\ current' \in InPollers
          /\ active' \in SUBSET Conns /\ shut' \in SUBSET Conns
          /\ \A q \in InPollers : in'[q].fds \subseteq in[q].fds
      BY <1>0, <2>5, ActiveCloseEffect
    <3>2. StageFrame(c, "free") /\ UNCHANGED cont
      BY <2>3, <2>5, <3>1
    <3> QED BY <1>0, <1>2, <3>1, <3>2, StageStep DEF Polled
  <2>6. CASE /\ c \notin cont /\ SchedAdd(c, now + IdleTimeout)
             /\ UNCHANGED <<active, shut, handlerQ>>
    <3>1. in' \in [InPollers -> PollerType] /\ current' \in InPollers
      BY <1>0, <1>3, <2>6, SchedAddEffect
    <3>2. active' \in SUBSET Conns /\ shut' \in SUBSET Conns
      BY <1>0, <2>6 DEF TypeOK
    <3>3. StageFrame(c, "free") /\ UNCHANGED cont
      BY <2>3, <2>6, <3>1, <3>2
    <3> QED BY <1>0, <1>2, <1>3, <2>6, <3>3, PollStep
  <2> QED BY <1>5, <2>4, <2>5, <2>6 DEF WriteDone
<1>6. CASE OutHangUp(c) \/ OutIdle(c)
  <2>1. out' \in PollerType /\ out'.fds = out.fds \ {c}
    <3>1. CASE OutHangUp(c)
      BY <1>0, <1>3, <3>1, OutOperations DEF OutHangUp
    <3>2. CASE OutIdle(c)
      <4>1. PICK key \in out.timer : out' = RemoveFd(TimerRemove(out, key[1], c), c)
        BY <3>2 DEF OutIdle, Due
      <4>2. key[1] \in Units
        BY <1>3 DEF PollerType, Units
      <4> QED BY <1>0, <1>3, <4>1, <4>2, OutOperations
    <3> QED BY <1>6, <3>1, <3>2
  <2>2. /\ in' \in [InPollers -> PollerType] /\ current' \in InPollers
        /\ active' \in SUBSET Conns /\ shut' \in SUBSET Conns
        /\ \A q \in InPollers : in'[q].fds \subseteq in[q].fds
    BY <1>0, <1>6, ActiveCloseEffect DEF OutHangUp, OutIdle
  <2>3. /\ UNCHANGED <<life, closeAfter, cont, lastActive, now, parserQ, handlerQ, threadVars>>
        /\ lock' = [lock EXCEPT ![c] = "free"]
    BY <1>6 DEF OutHangUp, OutIdle
  <2>4. StageFrame(c, "free")
    BY <1>0, <2>1, <2>2, <2>3 DEF StageFrame, TypeOK
  <2> QED BY <1>0, <1>2, <2>2, <2>3, <2>4, StageStep DEF Polled
<1> QED BY <1>4, <1>5, <1>6 DEF Out

(***************************************************************************)
(* The timer of the write-back poller.                                     *)
(***************************************************************************)

\* A step that leaves the poller alone, and last_active_ of what it writes to.
LEMMA OutTimerKept ==
  ASSUME OutTimer, UNCHANGED out, \A d \in out.fds : lastActive'[d] = lastActive[d]
  PROVE  OutTimer'
BY DEF OutTimer, SchedTime

\* A connection that enters the poller has no entry yet.
LEMMA OutTimerWriteBack ==
  ASSUME OutTimer, TypeOK, NEW c \in Conns, c \notin out.fds, WriteBack(c)
  PROVE  OutTimer'
<1>1. out'.timer = out.timer /\ out'.fds = out.fds \cup {c}
  BY DEF WriteBack, AddFd, TypeOK, PollerType
<1>2. \A d \in out.fds : lastActive'[d] = lastActive[d]
  BY DEF WriteBack, TypeOK, PollerType
<1> QED BY <1>1, <1>2 DEF OutTimer, SchedTime

\* update_connection keeps one entry of the connection, at its new time.
LEMMA OutUpdatedTimer ==
  ASSUME OutTimer, TypeOK, NEW c \in Conns, NEW key \in OutUpdated(c).timer
  PROVE  /\ key \in Units \X Conns
         /\ key[2] = c => key[1] = now + IdleTimeout
         /\ key[2] # c => key \in out.timer
<1>0. OutUpdated(c) \in PollerType /\ out \in PollerType
  BY OutOperations DEF TypeOK
<1>1. key \in Units \X Conns
  BY <1>0 DEF PollerType, Units
<1>2. CASE lastActive[c] = now
  BY <1>1, <1>2 DEF OutUpdated, OutTimer, SchedTime
<1>3. CASE lastActive[c] # now
  <2>1. OutUpdated(c).timer =
          (out.timer \ {<<SchedTime(c), c>>}) \cup {<<now + IdleTimeout, c>>}
    BY <1>0, <1>3 DEF OutUpdated, MoveTimer, TimerReplace, TimerRemove, PollerType
  <2>2. CASE key = <<now + IdleTimeout, c>>
    BY <1>1, <2>2
  <2>3. CASE key \in out.timer /\ key # <<SchedTime(c), c>>
    <3>1. key = <<key[1], key[2]>>
      BY <1>1
    <3>2. key[2] # c
      BY <2>3, <3>1 DEF OutTimer
    <3> QED BY <1>1, <2>3, <3>2
  <2> QED BY <2>1, <2>2, <2>3
<1> QED BY <1>1, <1>2, <1>3

\* Writing moves the entry; whoever ends the write-back removes it.
LEMMA OutTimerSteps ==
  ASSUME IInv, NEW c \in Conns, Out(c)
  PROVE  OutTimer'
<1>0. OutTimer /\ TypeOK /\ out \in PollerType
  BY DEF IInv, OwnerInv, Types, TypeOK
<1>1. c \in out.fds
  BY <1>0 DEF OutTimer, Out, WriteSome, WriteDone, OutHangUp, OutIdle, Due
<1>2. OutUpdated(c) \in PollerType /\ OutUpdated(c).fds = out.fds
  BY <1>0, OutOperations
<1> DEFINE U == OutUpdated(c)
<1>3. \A key \in U.timer : /\ key \in Units \X Conns
                           /\ key[2] = c => key[1] = now + IdleTimeout
                           /\ key[2] # c => key \in out.timer
  BY <1>0, OutUpdatedTimer
<1> HIDE DEF U
<1>4. CASE WriteSome(c)
  <2>1. out' = U /\ lastActive' = [lastActive EXCEPT ![c] = now]
    BY <1>4 DEF WriteSome, U
  <2>2. \A key \in U.timer : key[2] \in U.fds /\ key[1] = lastActive'[key[2]] + IdleTimeout
    BY <1>0, <1>1, <1>2, <1>3, <2>1 DEF OutTimer, SchedTime, TypeOK, U
  <2> QED BY <2>1, <2>2 DEF OutTimer, SchedTime
<1>5. CASE WriteDone(c)
  <2>1. /\ out' = TimerRemove(RemoveFd(U, c), now + IdleTimeout, c)
        /\ lastActive' = [lastActive EXCEPT ![c] = now]
    BY <1>5 DEF WriteDone, U
  <2>2. U \in PollerType /\ U.fds = out.fds
    BY <1>2 DEF U
  <2>3. out'.timer = U.timer \ {<<now + IdleTimeout, c>>} /\ out'.fds = out.fds \ {c}
    BY <2>1, <2>2 DEF TimerRemove, RemoveFd, PollerType
  <2>4. ASSUME NEW key \in out'.timer
        PROVE  key[2] # c /\ key \in out.timer /\ key[2] \in Conns
    <3>1. key = <<key[1], key[2]>> /\ key[2] \in Conns
      BY <1>3, <2>3
    <3> QED BY <1>3, <2>3, <3>1
  <2> QED BY <1>0, <2>1, <2>3, <2>4 DEF OutTimer, SchedTime, TypeOK
<1>6. CASE OutHangUp(c) \/ OutIdle(c)
  <2>1. /\ out'.timer = out.timer \ {<<SchedTime(c), c>>} /\ out'.fds = out.fds \ {c}
        /\ UNCHANGED lastActive
    <3>1. CASE OutHangUp(c)
      BY <1>0, <3>1 DEF OutHangUp, TimerRemove, RemoveFd, PollerType
    <3>2. CASE OutIdle(c)
      <4>1. PICK key \in out.timer : key[2] = c /\ out' = RemoveFd(TimerRemove(out, key[1], c), c)
        BY <3>2 DEF OutIdle, Due
      <4>2. key[1] = SchedTime(c)
        BY <1>0, <4>1 DEF OutTimer
      <4> QED BY <1>0, <3>2, <4>1, <4>2 DEF OutIdle, TimerRemove, RemoveFd, PollerType
    <3> QED BY <1>6, <3>1, <3>2
  <2>2. ASSUME NEW key \in out'.timer
        PROVE  key \in out.timer /\ key[2] # c
    <3>1. key \in out.timer /\ key = <<key[1], key[2]>>
      BY <1>0, <2>1 DEF PollerType
    <3> QED BY <1>0, <2>1, <3>1 DEF OutTimer
  <2> QED BY <1>0, <2>1, <2>2 DEF OutTimer, SchedTime
<1> QED BY <1>4, <1>5, <1>6 DEF Out

(***************************************************************************)
(* The invariant and the theorems.                                         *)
(***************************************************************************)

\* Before the first connection is accepted.
LEMMA InitInvariant == Init => IInv
<1> SUFFICES ASSUME Init PROVE IInv
  OBVIOUS
<1>1. EmptyPoller \in PollerType /\ EmptyPoller.fds = {} /\ EmptyPoller.timer = {}
  BY EmptySeq DEF EmptyPoller, PollerType
<1>2. 0 \in InPollers /\ 0 \in 0..MaxTime /\ 0 \in 0..MaxRecycle
  BY PipelineAssumption DEF InPollers
<1>3. TypeOK
  BY <1>1, <1>2 DEF Init, TypeOK, Holders
<1>4. Types
  BY <1>3 DEF Init, Types
<1>5. \A c \in Conns : ~Polled(c)
  BY <1>1 DEF Init, Polled
<1>6. OnePoller /\ SuspendedIsUnpolled /\ OutTimer
  BY <1>1, <1>5 DEF Init, OnePoller, SuspendedIsUnpolled, OutTimer, Polled
<1>7. WriteBackIsExclusive /\ NewIsUnknown
  BY <1>1, <1>5 DEF Init, WriteBackIsExclusive, NewIsUnknown, Unknown
<1> QED BY <1>4, <1>6, <1>7 DEF IInv, OwnerInv

\* Time passes, or nothing happens.
LEMMA IdleTime ==
  ASSUME IInv, Tick \/ UNCHANGED vars
  PROVE  IInv'
<1> USE DEF connVars, inVars, queues, threadVars
<1>0. OwnerInv /\ OutTimer /\ Types /\ TypeOK /\ MaxTime \in Nat
  BY PipelineAssumption DEF IInv, OwnerInv, Types
<1>1. /\ UNCHANGED <<connVars, lock, lastActive, queues, inVars, threadVars, out>>
      /\ now' \in 0..MaxTime
  <2>1. now \in 0..MaxTime
    BY <1>0 DEF TypeOK
  <2>2. CASE Tick
    BY <1>0, <2>1, <2>2 DEF Tick
  <2>3. CASE UNCHANGED vars
    BY <2>1, <2>3 DEF vars
  <2> QED BY <2>2, <2>3
<1>2. Types'
  BY <1>0, <1>1, TypesParts DEF ConnTypes, PollTypes, ThreadTypes
<1>3. OwnerInv'
  BY <1>0, <1>1, <1>2, ThreadStep
<1>4. OutTimer'
  BY <1>0, <1>1, OutTimerKept
<1> QED BY <1>3, <1>4 DEF IInv

\* A step of the thread of a poll_in poller.
LEMMA InSteps ==
  ASSUME IInv, NEW p \in InPollers, PollWait(p) \/ HandleEvent(p) \/ PostHandle(p)
  PROVE  IInv'
<1>0. OwnerInv /\ OutTimer /\ TypeOK
  BY DEF IInv, OwnerInv, Types
<1>1. OwnerInv'
  BY <1>0, PollSteps, EventSteps, IdleStep, DisposeStep DEF HandleEvent, PostHandle
<1>2. UNCHANGED out
  BY DEF PollWait, HandleEvent, SkipEvent, ReadConnection, ReadEnd, HangUp, PostHandle,
         BeginTimers, SkipTimers, IdleCallback, EndTimers, BeginDispose, SkipDispose,
         Dispose, SkipLocked, EndDispose
<1>3. CASE UNCHANGED lastActive
  BY <1>0, <1>1, <1>2, <1>3, OutTimerKept DEF IInv
<1>4. CASE \E c \in Conns : lock[c] = "free" /\ lastActive' = [lastActive EXCEPT ![c] = now]
  <2>1. PICK c \in Conns : lock[c] = "free" /\ lastActive' = [lastActive EXCEPT ![c] = now]
    BY <1>4
  <2>2. c \notin out.fds
    BY <1>0, <2>1 DEF OwnerInv, WriteBackIsExclusive
  <2>3. \A d \in out.fds : lastActive'[d] = lastActive[d]
    BY <1>0, <2>1, <2>2 DEF TypeOK, PollerType
  <2> QED BY <1>0, <1>1, <1>2, <2>3, OutTimerKept DEF IInv
<1> QED
  BY <1>3, <1>4
     DEF PollWait, HandleEvent, SkipEvent, ReadConnection, ReadEnd, HangUp, PostHandle,
         BeginTimers, SkipTimers, IdleCallback, EndTimers, BeginDispose, SkipDispose,
         Dispose, SkipLocked, EndDispose

\* A step of the server or of another stage.
LEMMA StageSteps ==
  ASSUME IInv, NEW c \in Conns,
         \/ Accept(c) \/ ParserPick(c) \/ ParserDone(c) \/ HandlerPick(c)
         \/ HandlerDone(c) \/ Completion(c) \/ Out(c)
  PROVE  IInv'
<1>0. OwnerInv /\ OutTimer /\ TypeOK
  BY DEF IInv, OwnerInv, Types
<1>1. OwnerInv'
  BY <1>0, AcceptStep, ParserSteps, HandlerSteps, CompletionSteps, OutSteps
<1>2. CASE UNCHANGED <<out, lastActive>>
  BY <1>0, <1>1, <1>2, OutTimerKept DEF IInv
<1>3. CASE Accept(c)
  <2>1. c \notin out.fds
    BY <1>0, <1>3 DEF OwnerInv, NewIsUnknown, Unknown, WriteBackIsExclusive, Accept
  <2>2. UNCHANGED out /\ \A d \in out.fds : lastActive'[d] = lastActive[d]
    BY <1>0, <1>3, <2>1 DEF TypeOK, PollerType, Accept
  <2> QED BY <1>0, <1>1, <2>2, OutTimerKept DEF IInv
<1>4. CASE lock[c] \in {"handler", "completion"} /\ WriteBack(c)
  <2>1. c \notin out.fds
    BY <1>0, <1>4 DEF OwnerInv, WriteBackIsExclusive
  <2> QED BY <1>0, <1>1, <1>4, <2>1, OutTimerWriteBack DEF IInv
<1>5. CASE Out(c)
  BY <1>1, <1>5, OutTimerSteps DEF IInv
<1>6. \/ UNCHANGED <<out, lastActive>> \/ Accept(c) \/ Out(c)
      \/ lock[c] \in {"handler", "completion"} /\ WriteBack(c)
  BY DEF ParserPick, ParserDone, HandlerPick, HandlerDone, HandlerRespond, HandlerRelease,
         HandlerSuspend, HandlerAbortStream, Completion, CompletionResume, CompletionStream
<1> QED BY <1>2, <1>3, <1>4, <1>5, <1>6

\* Every step keeps the invariant.
LEMMA NextInvariant == IInv /\ [Next]_vars => IInv'
<1> SUFFICES ASSUME IInv, [Next]_vars PROVE IInv'
  OBVIOUS
<1>1. CASE Tick \/ UNCHANGED vars
  BY <1>1, IdleTime
<1>2. ASSUME NEW p \in InPollers, PollWait(p) \/ HandleEvent(p) \/ PostHandle(p)
      PROVE  IInv'
  BY <1>2, InSteps
<1>3. ASSUME NEW c \in Conns,
             \/ Accept(c) \/ ParserPick(c) \/ ParserDone(c) \/ HandlerPick(c)
             \/ HandlerDone(c) \/ Completion(c) \/ Out(c)
      PROVE  IInv'
  BY <1>3, StageSteps
<1> QED BY <1>1, <1>2, <1>3 DEF Next

\* The invariant holds in every reachable state of the pipeline.
THEOREM PipelineInvariant == Spec => []IInv
BY InitInvariant, NextInvariant, PTL DEF Spec

\* Whatever the stages do to a connection and to the pollers, every variable
\* stays in its range: current_poller_ names a poller, a timer has no entry past
\* the time-out, and a pass disposes of no more than kMaxRecycleCount.
THEOREM PipelineTypes == Spec => []TypeOK
<1>1. IInv => TypeOK
  BY DEF IInv, OwnerInv, Types
<1> QED BY <1>1, PipelineInvariant, PTL

\* While PollOutStage writes to a connection it alone owns it: the connection is
\* locked for that stage and no poll_in poller watches it, and none watches one
\* that is suspended in the completion stage.
THEOREM WriteBackOwnsConnection == Spec => []WriteBackIsExclusive
<1>1. IInv => WriteBackIsExclusive
  BY DEF IInv, OwnerInv
<1> QED BY <1>1, PipelineInvariant, PTL

\* No two poll_in pollers watch the same connection, although sched_add takes
\* them in turn and stale events are handled by pollers that gave it away.
THEOREM PolledOnce == Spec => []OnePoller
<1>1. IInv => OnePoller
  BY DEF IInv, OwnerInv
<1> QED BY <1>1, PipelineInvariant, PTL
=============================================================================
