---------------------------- MODULE BoundedFifo ----------------------------
(***************************************************************************)
(* What graphics::BufferQueue promises to the threads that use it: a       *)
(* bounded first-in first-out queue whose operations take effect at one    *)
(* instant, and which, once closed, refuses new items but still hands out  *)
(* the old ones.  Nothing here says how threads block and are woken.       *)
(***************************************************************************)
EXTENDS Naturals, Sequences

CONSTANTS
  Threads,   \* the threads that call the queue
  Buffers,   \* what can be pushed
  Capacity   \* the most items the queue holds

VARIABLES
  items,     \* the queued buffers, oldest first
  closed,    \* close_locked has been called
  ret        \* per thread, what its last completed call returned

fifoVars == <<items, closed, ret>>

\* A call that succeeded hands its buffer back in "got" (a pop) or took it
\* (a push); the failures are the two errno values the class returns.
Pushed == [code |-> "OK", got |-> <<>>]
Popped(b) == [code |-> "OK", got |-> <<b>>]
Failed(e) == [code |-> e, got |-> <<>>]

Init ==
  /\ items = <<>>
  /\ closed = FALSE
  /\ ret = [t \in Threads |-> Failed("NONE")]

Push(t, b) ==
  \/ /\ ~closed
     /\ Len(items) < Capacity
     /\ items' = Append(items, b)
     /\ ret' = [ret EXCEPT ![t] = Pushed]
     /\ UNCHANGED closed
  \/ /\ closed
     /\ ret' = [ret EXCEPT ![t] = Failed("EIO")]
     /\ UNCHANGED <<items, closed>>
  \/ /\ ~closed
     /\ Len(items) = Capacity
     /\ ret' = [ret EXCEPT ![t] = Failed("EAGAIN")]
     /\ UNCHANGED <<items, closed>>

Pop(t) ==
  \/ /\ items # <<>>
     /\ ret' = [ret EXCEPT ![t] = Popped(Head(items))]
     /\ items' = Tail(items)
     /\ UNCHANGED closed
  \/ /\ items = <<>>
     /\ ret' = [ret EXCEPT ![t] = Failed(IF closed THEN "EIO" ELSE "EAGAIN")]
     /\ UNCHANGED <<items, closed>>

Close ==
  /\ closed' = TRUE
  /\ UNCHANGED <<items, ret>>

Next ==
  \/ \E t \in Threads, b \in Buffers : Push(t, b)
  \/ \E t \in Threads : Pop(t)
  \/ Close

Spec == Init /\ [][Next]_fifoVars
=============================================================================
