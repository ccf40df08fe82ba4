----------------------------- MODULE Controller -----------------------------
(***************************************************************************)
(* The controller of the handler stage (core/controller.cc): it counts the *)
(* requests that wait, samples the count, and starts a thread when it does *)
(* not fall.                                                               *)
(***************************************************************************)
EXTENDS Integers, Sequences, SequencesExt

CONSTANTS kMaxFeedback, kMinFeedback, kMinLoad, kMaxThread,
          MaxChecks      \* bound: rounds of check_thread

VARIABLES
  load,       \* current_load_
  history,    \* load_history_
  speed,      \* current_speed_, best_speed_
  best_speed,
  best_size,  \* best_threads_size_
  reserve,    \* reserve_
  auto,       \* size of auto_threads_
  checks      \* rounds so far

tuneVars == <<history, best_speed, best_size, reserve, auto, checks>>
controllerVars == <<load, speed, tuneVars>>

increase_load(inc) == load' = load + inc /\ UNCHANGED speed
decrease_load(dec) == load' = load - dec /\ speed' = speed + dec

SumOf(s) == FoldLeft(LAMBDA a, b : a + b, 0, s)


\* The later half of the samples is high and does not add up to less than the
\* earlier half; with an odd number the middle one counts for neither.
LoadIsHigh(h) ==
  LET n == Len(h)
      now == SubSeq(h, (n + 1) \div 2 + 1, n)
  IN  /\ \A i \in DOMAIN now : now[i] >= kMinLoad
      /\ SumOf(SubSeq(h, 1, n \div 2)) <= SumOf(now)

\* check_auto_create, and start_thread when it says so.
check_thread ==
  LET h == Append(IF Len(history) = kMaxFeedback THEN Tail(history) ELSE history, load)
      best == IF best_speed < speed THEN auto ELSE best_size
      create == /\ reserve = 0
                /\ auto <= kMaxThread
                /\ Len(h) >= kMinFeedback
                /\ best >= auto
                /\ LoadIsHigh(h)
  IN  /\ checks < MaxChecks /\ checks' = checks + 1
      /\ history' = h
      /\ best_size' = best
      /\ best_speed' = IF best_speed < speed THEN speed ELSE best_speed
      /\ speed' = 0
      /\ reserve' = IF reserve > 0 THEN reserve - 1
                    ELSE IF create THEN kMaxFeedback ELSE 0
      /\ auto' = IF create THEN auto + 1 ELSE auto
      /\ UNCHANGED load

\* A thread that was started has been idle for kMaxThreadIdle.
exit_auto_thread ==
  /\ auto > 0 /\ auto' = auto - 1
  /\ UNCHANGED <<load, history, speed, best_speed, best_size, reserve, checks>>

ControllerInit ==
  /\ load = 0 /\ history = <<>> /\ speed = 0 /\ best_speed = 0 /\ best_size = 0
  /\ reserve = 0 /\ auto = 0 /\ checks = 0
=============================================================================
