---------------------------- MODULE BufferQueue ----------------------------
(***************************************************************************)
(* graphics::BufferQueue (src/anbox/graphics/buffer_queue.{h,cpp}): a ring *)
(* of Capacity buffers with two condition variables, used by a producer    *)
(* and a consumer that hold the caller's mutex.  An action is one stretch  *)
(* of code run under that mutex: from taking it (or waking up with it) to  *)
(* returning or to blocking in condition_variable::wait.                   *)
(***************************************************************************)
EXTENDS Naturals, Sequences

CONSTANTS
  Producers,   \* threads that push
  Consumers,   \* threads that pop
  Closers,     \* threads that close
  Buffers,     \* the buffers that can be pushed
  Capacity,    \* capacity_
  Moved        \* what a slot holds before use and after std::move

ASSUME CapacityAssumption == Capacity \in Nat \ {0}
ASSUME MovedAssumption == Moved \notin Buffers

VARIABLES
  queue,       \* the data members: buffers_, pos_, count_, closed_
  canPush,     \* threads asleep on can_push_
  canPop,      \* threads asleep on can_pop_
  pushing,     \* per producer, the argument of its unfinished push_locked
  popping,     \* per consumer, whether it is inside pop_locked
  ret          \* per thread, what its last completed call returned

vars == <<queue, canPush, canPop, pushing, popping, ret>>

Threads == Producers \cup Consumers \cup Closers
Slots == 0 .. Capacity - 1

(***************************************************************************)
(* The data members and what the four operations do to them.               *)
(***************************************************************************)
EmptyQueue ==
  [buffers |-> [i \in Slots |-> Moved], pos |-> 0, count |-> 0, closed |-> FALSE]

\* Mutant of Wrap: > for >=.
WrapLate(i) == IF i > Capacity THEN i - Capacity ELSE i

QueueType ==
  [buffers : [Slots -> Buffers \cup {Moved}], pos : Slots,
   count : 0 .. Capacity, closed : BOOLEAN]

\* if (pos >= capacity_) pos -= capacity_;
Wrap(i) == IF i >= Capacity THEN i - Capacity ELSE i

IsFull(q) == q.count = Capacity
IsEmpty(q) == q.count = 0

\* Mutant of Enqueued: the slot after the first free one.
EnqueuedOneTooFar(q, b) ==
  [q EXCEPT !.buffers[Wrap(Wrap(q.pos + q.count) + 1)] = b, !.count = @ + 1]

Enqueued(q, b) ==
  [buffers |-> [q.buffers EXCEPT ![Wrap(q.pos + q.count)] = b],
   pos |-> q.pos, count |-> q.count + 1, closed |-> q.closed]

Front(q) == q.buffers[q.pos]

\* Mutant of Dequeued: count_ is not decremented.
DequeuedKeepsCount(q) ==
  [q EXCEPT !.buffers[q.pos] = Moved, !.pos = Wrap(@ + 1)]

Dequeued(q) ==
  [buffers |-> [q.buffers EXCEPT ![q.pos] = Moved],
   pos |-> Wrap(q.pos + 1), count |-> q.count - 1, closed |-> q.closed]

\* The queued buffers, oldest first.
Contents(q) == [i \in 1 .. q.count |-> q.buffers[Wrap(q.pos + i - 1)]]

(***************************************************************************)
(* Condition variables.                                                    *)
(***************************************************************************)
\* Mutant of NotifyOne: the notification is missing.
NotifyNobody(waiters) == {waiters}

NotifyOne(waiters) == IF waiters = {} THEN {{}} ELSE {waiters \ {t} : t \in waiters}

Pushed == [code |-> "OK", got |-> <<>>]
Popped(b) == [code |-> "OK", got |-> <<b>>]
Failed(e) == [code |-> e, got |-> <<>>]

Return(t, r) == ret' = [ret EXCEPT ![t] = r]

(***************************************************************************)
(* try_push_locked and try_pop_locked, for a thread that holds the mutex.  *)
(***************************************************************************)
TryPushLocked(p, b) ==
  \/ /\ queue.closed
     /\ Return(p, Failed("EIO"))
     /\ UNCHANGED <<queue, canPop>>
  \/ /\ ~queue.closed
     /\ queue.count >= Capacity
     /\ Return(p, Failed("EAGAIN"))
     /\ UNCHANGED <<queue, canPop>>
  \/ /\ ~queue.closed
     /\ queue.count < Capacity
     /\ queue' = Enqueued(queue, b)
     /\ canPop' \in IF IsEmpty(queue) THEN NotifyOne(canPop) ELSE {canPop}
     /\ Return(p, Pushed)

TryPopLocked(c) ==
  \/ /\ IsEmpty(queue)
     /\ Return(c, Failed(IF queue.closed THEN "EIO" ELSE "EAGAIN"))
     /\ UNCHANGED <<queue, canPush>>
  \/ /\ ~IsEmpty(queue)
     /\ queue' = Dequeued(queue)
     /\ canPush' \in IF IsFull(queue) THEN NotifyOne(canPush) ELSE {canPush}
     /\ Return(c, Popped(Front(queue)))

(***************************************************************************)
(* The operations as the threads run them.                                 *)
(***************************************************************************)
TryPush(p, b) ==
  /\ pushing[p] = Moved
  /\ TryPushLocked(p, b)
  /\ UNCHANGED <<canPush, pushing, popping>>

TryPop(c) ==
  /\ ~popping[c]
  /\ TryPopLocked(c)
  /\ UNCHANGED <<canPop, pushing, popping>>

\* One turn of push_locked: the loop test, then wait, fail or push.
PushTurn(p, b) ==
  \/ /\ IsFull(queue)
     /\ ~queue.closed
     /\ canPush' = canPush \cup {p}
     /\ pushing' = [pushing EXCEPT ![p] = b]
     /\ UNCHANGED <<queue, canPop, popping, ret>>
  \/ /\ IsFull(queue)
     /\ queue.closed
     /\ Return(p, Failed("EIO"))
     /\ pushing' = [pushing EXCEPT ![p] = Moved]
     /\ UNCHANGED <<queue, canPush, canPop, popping>>
  \/ /\ ~IsFull(queue)
     /\ TryPushLocked(p, b)
     /\ pushing' = [pushing EXCEPT ![p] = Moved]
     /\ UNCHANGED <<canPush, popping>>

PopTurn(c) ==
  \/ /\ IsEmpty(queue)
     /\ ~queue.closed
     /\ canPop' = canPop \cup {c}
     /\ popping' = [popping EXCEPT ![c] = TRUE]
     /\ UNCHANGED <<queue, canPush, pushing, ret>>
  \/ /\ IsEmpty(queue)
     /\ queue.closed
     /\ Return(c, Failed("EIO"))
     /\ popping' = [popping EXCEPT ![c] = FALSE]
     /\ UNCHANGED <<queue, canPush, canPop, pushing>>
  \/ /\ ~IsEmpty(queue)
     /\ TryPopLocked(c)
     /\ popping' = [popping EXCEPT ![c] = FALSE]
     /\ UNCHANGED <<canPop, pushing>>

PushLocked(p, b) == pushing[p] = Moved /\ PushTurn(p, b)
PopLocked(c) == ~popping[c] /\ PopTurn(c)

\* A woken thread has the mutex again and re-tests its loop condition.
ResumePush(p) == pushing[p] # Moved /\ p \notin canPush /\ PushTurn(p, pushing[p])
ResumePop(c) == popping[c] /\ c \notin canPop /\ PopTurn(c)

\* condition_variable::wait may return without a notification.
SpuriousWakeup(t) ==
  /\ t \in canPush \cup canPop
  /\ canPush' = canPush \ {t}
  /\ canPop' = canPop \ {t}
  /\ UNCHANGED <<queue, pushing, popping, ret>>

\* Mutant of CloseLocked: the two conditions are swapped.
CloseWakesWrongSide(k) ==
  /\ queue' = [queue EXCEPT !.closed = TRUE]
  /\ canPush' = IF IsEmpty(queue) THEN {} ELSE canPush
  /\ canPop' = IF IsFull(queue) THEN {} ELSE canPop
  /\ UNCHANGED <<pushing, popping, ret>>

CloseLocked(k) ==
  /\ queue' = [queue EXCEPT !.closed = TRUE]
  /\ canPush' = IF IsFull(queue) THEN {} ELSE canPush
  /\ canPop' = IF IsEmpty(queue) THEN {} ELSE canPop
  /\ UNCHANGED <<pushing, popping, ret>>

Init ==
  /\ queue = EmptyQueue
  /\ canPush = {}
  /\ canPop = {}
  /\ pushing = [p \in Producers |-> Moved]
  /\ popping = [c \in Consumers |-> FALSE]
  /\ ret = [t \in Threads |-> Failed("NONE")]

Next ==
  \/ \E p \in Producers, b \in Buffers : TryPush(p, b) \/ PushLocked(p, b)
  \/ \E c \in Consumers : TryPop(c) \/ PopLocked(c)
  \/ \E p \in Producers : ResumePush(p)
  \/ \E c \in Consumers : ResumePop(c)
  \/ \E t \in Threads : SpuriousWakeup(t)
  \/ \E k \in Closers : CloseLocked(k)

\* A woken thread gets the mutex eventually: every critical section is
\* finite, and no other thread is assumed to do anything.
Fairness ==
  /\ \A p \in Producers : WF_vars(ResumePush(p))
  /\ \A c \in Consumers : WF_vars(ResumePop(c))

Spec == Init /\ [][Next]_vars
FairSpec == Spec /\ Fairness
-----------------------------------------------------------------------------
\* Every variable has the type the C++ declares for it, the ring indices stay
\* inside buffers_, and a thread asleep on a condition variable is inside the
\* call that waits there (buffer_queue.cpp:40-75).
TypeOK ==
  /\ queue \in QueueType
  /\ pushing \in [Producers -> Buffers \cup {Moved}]
  /\ popping \in [Consumers -> BOOLEAN]
  /\ ret \in [Threads -> [code : {"NONE", "OK", "EIO", "EAGAIN"},
                          got : {<<>>} \cup {<<b>> : b \in Buffers}]]
  /\ canPush \subseteq {p \in Producers : pushing[p] # Moved}
  /\ canPop \subseteq {c \in Consumers : popping[c]}

\* The count_ slots from pos_ on hold buffers that were pushed and not yet
\* popped, never a moved-from one (buffer_queue.cpp:29-34, 54-60).
HoldsBuffers(q) == \A i \in 0 .. Capacity - 1 : i < q.count => q.buffers[Wrap(q.pos + i)] \in Buffers
RingHoldsBuffers == HoldsBuffers(queue)

\* No thread sleeps on a queue that could serve it: try_push_locked notifies
\* only on the step from empty (buffer_queue.cpp:34), try_pop_locked only on the
\* step from full (:60), close_locked only at those two extremes (:85-90), and
\* that is enough for one producer and one consumer.
NoLostWakeup ==
  /\ canPush # {} => IsFull(queue) /\ ~queue.closed
  /\ canPop # {} => IsEmpty(queue) /\ ~queue.closed

\* The ring behaves as a bounded first-in first-out queue: every completed call
\* returns what the abstract queue returns at that instant, wrap-around of pos_
\* and the moves out of buffers_ included (buffer_queue.cpp:22-75).
Fifo == INSTANCE BoundedFifo WITH items <- Contents(queue), closed <- queue.closed
RefinesBoundedFifo == Fifo!Spec

\* close_locked ends every blocked call: a thread inside push_locked or
\* pop_locked of a closed queue returns (buffer_queue.cpp:77-91, "Wake any
\* potential waiters").
CloseReleasesCallers ==
  /\ \A p \in Producers : (queue.closed /\ pushing[p] # Moved) ~> (pushing[p] = Moved)
  /\ \A c \in Consumers : (queue.closed /\ popping[c]) ~> ~popping[c]
=============================================================================
