------------------------------ MODULE TaskPool ------------------------------
(***************************************************************************)
(* What a stage's scheduler promises: a pool of pending connections in     *)
(* which only the current owner of a connection may put or cancel it, and  *)
(* from which a connection is delivered to one new owner at a time, and    *)
(* only while it has none.  QueueScheduler implements it.                  *)
(***************************************************************************)
CONSTANT Conns

VARIABLES
  pending,  \* connections that wait for a worker
  owned     \* connections some thread or stage has the lock of

vars == <<pending, owned>>

Init == pending = {} /\ owned = {}

\* Somebody outside the pool locks a connection.
Acquire(c) ==
  /\ c \notin owned
  /\ owned' = owned \cup {c}
  /\ UNCHANGED pending

\* A worker gets a pending connection, and with it the lock.
Deliver(c) ==
  /\ c \in pending \ owned
  /\ pending' = pending \ {c}
  /\ owned' = owned \cup {c}

\* The owner makes its connection pending; it keeps the lock.
Submit(c) ==
  /\ c \in owned
  /\ pending' = pending \cup {c}
  /\ UNCHANGED owned

\* The owner unlocks its connection.
Release(c) ==
  /\ c \in owned
  /\ owned' = owned \ {c}
  /\ UNCHANGED pending

\* The owner withdraws its connection and gives it up.
Cancel(c) ==
  /\ c \in owned
  /\ pending' = pending \ {c}
  /\ owned' = owned \ {c}

Next ==
  \E c \in Conns :
    Acquire(c) \/ Deliver(c) \/ Submit(c) \/ Release(c) \/ Cancel(c)

Spec == Init /\ [][Next]_vars
=============================================================================
