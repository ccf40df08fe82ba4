------------------------------- MODULE Poller -------------------------------
(***************************************************************************)
(* The data a poller owns (core/poller.h, core/timer.h): the connections   *)
(* it watches (fds_), the pending callbacks of its timer (rbtree_, keyed   *)
(* by time unit and connection) and the connections that wait for disposal *)
(* (expired_conns_).  A connection stands for its descriptor too: the      *)
(* descriptor is closed only when the connection is destroyed.  epoll_ctl  *)
(* is taken to succeed.                                                    *)
(***************************************************************************)
EXTENDS Naturals, Sequences, SequencesExt

EmptyPoller == [fds |-> {}, timer |-> {}, expired |-> <<>>]

\* Poller::add_fd and Poller::remove_fd.
AddFd(poller, conn) == [poller EXCEPT !.fds = @ \cup {conn}]
RemoveFd(poller, conn) == [poller EXCEPT !.fds = @ \ {conn}]

\* Timer::replace and Timer::remove.
TimerReplace(poller, unit, conn) ==
  [poller EXCEPT !.timer = @ \cup {<<unit, conn>>}]
TimerRemove(poller, unit, conn) ==
  [poller EXCEPT !.timer = @ \ {<<unit, conn>>}]

\* The callbacks Timer::process_callbacks runs at a time.
Due(poller, time) == {key \in poller.timer : key[1] <= time}

\* expired_connections().push_back(conn).
Recycle(poller, conn) == [poller EXCEPT !.expired = Append(@, conn)]

\* PollStage::update_connection, once the time unit of the connection changed.
MoveTimer(poller, old, new, conn) ==
  TimerReplace(TimerRemove(poller, old, conn), new, conn)
=============================================================================
