------------------------- MODULE BufferQueueProofs -------------------------
(***************************************************************************)
(* Proofs about BufferQueue for every capacity and every set of threads:   *)
(* the ring is type-correct and implements BoundedFifo; and with one       *)
(* producer and one consumer no wake-up is lost.                           *)
(***************************************************************************)
EXTENDS BufferQueue, SequenceTheorems, TLAPS

\* The index arithmetic of the ring stays inside buffers_.
LEMMA WrapInSlots ==
  ASSUME NEW i \in 0 .. (2 * Capacity - 1)
  PROVE  Wrap(i) \in Slots
BY CapacityAssumption DEF Wrap, Slots

\* Adding one to an index and wrapping twice is wrapping once.
LEMMA WrapShift ==
  ASSUME NEW i \in Slots, NEW j \in 0 .. Capacity - 1
  PROVE  Wrap(Wrap(i + 1) + j) = IF j = Capacity - 1 THEN i ELSE Wrap(i + (j + 1))
BY CapacityAssumption DEF Wrap, Slots

\* Distances below Capacity from one position lead to distinct slots.
LEMMA WrapInjective ==
  ASSUME NEW i \in Slots, NEW j \in 0 .. Capacity - 1, NEW k \in 0 .. Capacity - 1,
         Wrap(i + j) = Wrap(i + k)
  PROVE  j = k
BY CapacityAssumption DEF Wrap, Slots

\* The contents of a well-formed ring are a sequence of buffers, of length
\* count_ and starting with the buffer that the next pop returns.
LEMMA ContentsIsSeq ==
  ASSUME NEW q \in QueueType, HoldsBuffers(q)
  PROVE  /\ Contents(q) \in Seq(Buffers)
         /\ Len(Contents(q)) = q.count
         /\ \A i \in 1 .. q.count : Contents(q)[i] = q.buffers[Wrap(q.pos + (i - 1))]
<1>1. q.pos \in Slots /\ q.count \in 0 .. Capacity
  BY DEF QueueType
<1>2. \A i \in 1 .. q.count : /\ q.pos + i - 1 = q.pos + (i - 1)
                              /\ q.buffers[Wrap(q.pos + i - 1)] \in Buffers
  <2> TAKE i \in 1 .. q.count
  <2>1. i - 1 \in 0 .. Capacity - 1 /\ i - 1 < q.count /\ q.pos + i - 1 = q.pos + (i - 1)
    BY <1>1, CapacityAssumption DEF Slots
  <2> QED BY <2>1 DEF HoldsBuffers
<1> QED BY <1>1, <1>2 DEF Contents

\* Enqueued keeps the ring well formed and appends to its contents.
LEMMA EnqueuedAppends ==
  ASSUME NEW q \in QueueType, HoldsBuffers(q), q.count < Capacity, NEW b \in Buffers
  PROVE  /\ Enqueued(q, b) \in QueueType
         /\ HoldsBuffers(Enqueued(q, b))
         /\ Contents(Enqueued(q, b)) = Append(Contents(q), b)
<1> DEFINE w == Wrap(q.pos + q.count)
           r == Enqueued(q, b)
<1>1. /\ q.pos \in Slots /\ q.count \in 0 .. Capacity /\ q.count \in 0 .. Capacity - 1
      /\ q.buffers \in [Slots -> Buffers \cup {Moved}]
      /\ q.closed \in BOOLEAN
  BY CapacityAssumption DEF QueueType, Slots
<1>2. w \in Slots
  <2>1. q.pos + q.count \in 0 .. (2 * Capacity - 1)
    BY <1>1, CapacityAssumption DEF Slots
  <2> QED BY <2>1, WrapInSlots
<1>3. /\ r.buffers = [q.buffers EXCEPT ![w] = b]
      /\ r.pos = q.pos
      /\ r.count = q.count + 1
  BY DEF Enqueued
<1>4. r \in QueueType
  BY <1>1, <1>2, CapacityAssumption DEF QueueType, Enqueued
<1>5. ASSUME NEW i \in 0 .. Capacity - 1
      PROVE  r.buffers[Wrap(q.pos + i)] = IF i = q.count THEN b ELSE q.buffers[Wrap(q.pos + i)]
  <2>1. q.pos + i \in 0 .. (2 * Capacity - 1)
    BY <1>1, CapacityAssumption DEF Slots
  <2>2. Wrap(q.pos + i) \in Slots
    BY <2>1, WrapInSlots
  <2>3. Wrap(q.pos + i) = w => i = q.count
    BY <1>1, WrapInjective
  <2> QED BY <1>1, <1>2, <1>3, <2>2, <2>3
<1>6. HoldsBuffers(r)
  BY <1>1, <1>3, <1>5 DEF HoldsBuffers
<1>7. Contents(r) = Append(Contents(q), b)
  <2> DEFINE s == Contents(q)
             t == Contents(r)
  <2>1. /\ s \in Seq(Buffers) /\ Len(s) = q.count
        /\ \A i \in 1 .. q.count : s[i] = q.buffers[Wrap(q.pos + (i - 1))]
    BY ContentsIsSeq
  <2>2. /\ t \in Seq(Buffers) /\ Len(t) = q.count + 1
        /\ \A i \in 1 .. q.count + 1 : t[i] = r.buffers[Wrap(q.pos + (i - 1))]
    BY <1>3, <1>4, <1>6, ContentsIsSeq, Zenon
  <2>3. \A i \in 1 .. q.count + 1 : t[i] = IF i = q.count + 1 THEN b ELSE s[i]
    <3> TAKE i \in 1 .. q.count + 1
    <3>1. i - 1 \in 0 .. Capacity - 1 /\ (i - 1 = q.count <=> i = q.count + 1)
      BY <1>1, CapacityAssumption
    <3>2. t[i] = IF i - 1 = q.count THEN b ELSE q.buffers[Wrap(q.pos + (i - 1))]
      BY <1>5, <2>2, <3>1
    <3>3. i # q.count + 1 => i \in 1 .. q.count
      BY <1>1
    <3> QED BY <2>1, <3>1, <3>2, <3>3
  <2> HIDE DEF s, t
  <2>4. /\ Append(s, b) \in Seq(Buffers)
        /\ Len(Append(s, b)) = q.count + 1
        /\ \A i \in 1 .. q.count + 1 : Append(s, b)[i] = IF i = q.count + 1 THEN b ELSE s[i]
    BY <1>1, <2>1
  <2>5. Len(t) = Len(Append(s, b)) /\ \A i \in 1 .. Len(t) : t[i] = Append(s, b)[i]
    BY <2>2, <2>3, <2>4
  <2>6. t = Append(s, b)
    BY <2>2, <2>4, <2>5, SeqEqual
  <2> QED BY <2>6 DEF s, t
<1> QED BY <1>4, <1>6, <1>7

\* Dequeued keeps the ring well formed and removes the head of its contents,
\* which is Front.
LEMMA DequeuedIsTail ==
  ASSUME NEW q \in QueueType, HoldsBuffers(q), q.count # 0
  PROVE  /\ Dequeued(q) \in QueueType
         /\ HoldsBuffers(Dequeued(q))
         /\ Front(q) \in Buffers
         /\ Contents(q) # <<>>
         /\ Head(Contents(q)) = Front(q)
         /\ Contents(Dequeued(q)) = Tail(Contents(q))
<1> DEFINE r == Dequeued(q)
<1>1. /\ q.pos \in Slots /\ q.count \in 1 .. Capacity
      /\ q.buffers \in [Slots -> Buffers \cup {Moved}]
      /\ q.closed \in BOOLEAN
  BY CapacityAssumption DEF QueueType, Slots
<1>2. /\ r.buffers = [q.buffers EXCEPT ![q.pos] = Moved]
      /\ r.pos = Wrap(q.pos + 1)
      /\ r.count = q.count - 1
  BY DEF Dequeued
<1>3. Wrap(q.pos + 1) \in Slots
  <2>1. q.pos + 1 \in 0 .. (2 * Capacity - 1)
    BY <1>1, CapacityAssumption DEF Slots
  <2> QED BY <2>1, WrapInSlots
<1>4. r \in QueueType
  BY <1>1, <1>3, CapacityAssumption DEF QueueType, Dequeued
<1>5. ASSUME NEW i \in 0 .. Capacity - 1, i < q.count - 1
      PROVE  /\ i + 1 \in 0 .. Capacity - 1
             /\ r.buffers[Wrap(r.pos + i)] = q.buffers[Wrap(q.pos + (i + 1))]
  <2>1. i + 1 \in 0 .. Capacity - 1 /\ i # Capacity - 1 /\ 0 \in 0 .. Capacity - 1 /\ i + 1 # 0
    BY <1>1, <1>5, CapacityAssumption
  <2>2. Wrap(r.pos + i) = Wrap(q.pos + (i + 1))
    BY <1>1, <1>2, <2>1, WrapShift
  <2>3. q.pos + (i + 1) \in 0 .. (2 * Capacity - 1)
    BY <1>1, <2>1, CapacityAssumption DEF Slots
  <2>4. Wrap(q.pos + (i + 1)) \in Slots
    BY <2>3, WrapInSlots
  <2>5. Wrap(q.pos + 0) = q.pos
    BY <1>1, CapacityAssumption DEF Wrap, Slots
  <2>6. Wrap(q.pos + (i + 1)) # q.pos
    BY <1>1, <2>1, <2>5, WrapInjective
  <2> QED BY <1>1, <1>2, <2>1, <2>2, <2>4, <2>6
<1>6. HoldsBuffers(r)
  <2> SUFFICES ASSUME NEW i \in 0 .. Capacity - 1, i < r.count
               PROVE  r.buffers[Wrap(r.pos + i)] \in Buffers
    BY DEF HoldsBuffers
  <2>1. i + 1 < q.count
    BY <1>1, <1>2
  <2> QED BY <1>1, <1>2, <1>5, <2>1 DEF HoldsBuffers
<1>7. q.buffers[Wrap(q.pos + (1 - 1))] = Front(q)
  BY <1>1, CapacityAssumption DEF Wrap, Slots, Front
<1>8. /\ Contents(q) \in Seq(Buffers) /\ Len(Contents(q)) = q.count
      /\ \A i \in 1 .. q.count : Contents(q)[i] = q.buffers[Wrap(q.pos + (i - 1))]
  BY ContentsIsSeq
<1>9. 1 \in 1 .. q.count
  BY <1>1
<1>10. Contents(q)[1] = Front(q) /\ Front(q) \in Buffers
  BY <1>7, <1>8, <1>9, ElementOfSeq
<1>11. Contents(q) # <<>>
  BY <1>1, <1>8
<1>12. Contents(r) = Tail(Contents(q))
  <2> DEFINE s == Contents(q)
             t == Contents(r)
  <2>1. /\ t \in Seq(Buffers) /\ Len(t) = q.count - 1
        /\ \A i \in 1 .. q.count - 1 : t[i] = r.buffers[Wrap(r.pos + (i - 1))]
    BY <1>2, <1>4, <1>6, ContentsIsSeq, Zenon
  <2>2. \A i \in 1 .. q.count - 1 : t[i] = s[i + 1]
    <3> TAKE i \in 1 .. q.count - 1
    <3>1. /\ i - 1 \in 0 .. Capacity - 1 /\ i - 1 < q.count - 1
          /\ i + 1 \in 1 .. q.count /\ (i - 1) + 1 = (i + 1) - 1
      BY <1>1, CapacityAssumption
    <3>2. t[i] = q.buffers[Wrap(q.pos + ((i - 1) + 1))]
      BY <1>5, <2>1, <3>1, Zenon
    <3> QED BY <1>8, <3>1, <3>2
  <2>3. /\ Tail(s) \in Seq(Buffers) /\ Len(Tail(s)) = q.count - 1
        /\ \A i \in 1 .. q.count - 1 : Tail(s)[i] = s[i + 1]
    BY <1>8, <1>11, HeadTailProperties
  <2> HIDE DEF s, t
  <2>4. Len(t) = Len(Tail(s)) /\ \A i \in 1 .. Len(t) : t[i] = Tail(s)[i]
    BY <2>1, <2>2, <2>3
  <2>5. t = Tail(s)
    BY <2>1, <2>3, <2>4, SeqEqual
  <2> QED BY <2>5 DEF s, t
<1> QED BY <1>4, <1>6, <1>8, <1>10, <1>11, <1>12

-----------------------------------------------------------------------------
\* The inductive invariant: types, and live buffers in the occupied slots.
IInv == TypeOK /\ RingHoldsBuffers

\* A new queue is empty and nobody waits for it.
LEMMA InitIInv == Init => IInv
BY CapacityAssumption
   DEF Init, IInv, TypeOK, RingHoldsBuffers, HoldsBuffers, EmptyQueue, QueueType, Slots, Failed

\* What one notification leaves of a wait set.
LEMMA NotifyOneSubset ==
  ASSUME NEW W, NEW V \in NotifyOne(W)
  PROVE  V \subseteq W
BY DEF NotifyOne

\* try_push_locked preserves the invariant's part on the queue, the results
\* and the consumers' wait set.
LEMMA TryPushLockedKeeps ==
  ASSUME IInv, NEW p \in Producers, NEW b \in Buffers, TryPushLocked(p, b)
  PROVE  /\ queue' \in QueueType /\ HoldsBuffers(queue')
         /\ canPop' \subseteq canPop
         /\ ret' \in [Threads -> [code : {"NONE", "OK", "EIO", "EAGAIN"},
                                  got : {<<>>} \cup {<<x>> : x \in Buffers}]]
<1>1. queue \in QueueType /\ HoldsBuffers(queue)
  BY DEF IInv, TypeOK, RingHoldsBuffers
<1>2. p \in Threads
  BY DEF Threads
<1>3. CASE UNCHANGED <<queue, canPop>> /\ \E e \in {"EIO", "EAGAIN"} : Return(p, Failed(e))
  BY <1>1, <1>2, <1>3 DEF IInv, TypeOK, Return, Failed
<1>4. CASE /\ queue.count < Capacity
           /\ queue' = Enqueued(queue, b)
           /\ canPop' \in (IF IsEmpty(queue) THEN NotifyOne(canPop) ELSE {canPop})
           /\ Return(p, Pushed)
  <2>1. queue' \in QueueType /\ HoldsBuffers(queue')
    BY <1>1, <1>4, EnqueuedAppends
  <2>2. canPop' \subseteq canPop
    BY <1>4, NotifyOneSubset
  <2>3. ret' \in [Threads -> [code : {"NONE", "OK", "EIO", "EAGAIN"},
                              got : {<<>>} \cup {<<x>> : x \in Buffers}]]
    BY <1>2, <1>4 DEF IInv, TypeOK, Return, Pushed
  <2> QED BY <2>1, <2>2, <2>3
<1> QED BY <1>3, <1>4 DEF TryPushLocked

\* try_pop_locked does the same on its side.
LEMMA TryPopLockedKeeps ==
  ASSUME IInv, NEW c \in Consumers, TryPopLocked(c)
  PROVE  /\ queue' \in QueueType /\ HoldsBuffers(queue')
         /\ canPush' \subseteq canPush
         /\ ret' \in [Threads -> [code : {"NONE", "OK", "EIO", "EAGAIN"},
                                  got : {<<>>} \cup {<<x>> : x \in Buffers}]]
<1>1. queue \in QueueType /\ HoldsBuffers(queue)
  BY DEF IInv, TypeOK, RingHoldsBuffers
<1>2. c \in Threads
  BY DEF Threads
<1>3. CASE UNCHANGED <<queue, canPush>> /\ \E e \in {"EIO", "EAGAIN"} : Return(c, Failed(e))
  BY <1>1, <1>2, <1>3 DEF IInv, TypeOK, Return, Failed
<1>4. CASE /\ ~IsEmpty(queue)
           /\ queue' = Dequeued(queue)
           /\ canPush' \in (IF IsFull(queue) THEN NotifyOne(canPush) ELSE {canPush})
           /\ Return(c, Popped(Front(queue)))
  <2>1. queue' \in QueueType /\ HoldsBuffers(queue') /\ Front(queue) \in Buffers
    BY <1>1, <1>4, DequeuedIsTail DEF IsEmpty
  <2>2. canPush' \subseteq canPush
    BY <1>4, NotifyOneSubset
  <2>3. ret' \in [Threads -> [code : {"NONE", "OK", "EIO", "EAGAIN"},
                              got : {<<>>} \cup {<<x>> : x \in Buffers}]]
    BY <1>2, <1>4, <2>1 DEF IInv, TypeOK, Return, Popped
  <2> QED BY <2>1, <2>2, <2>3
<1> QED BY <1>3, <1>4 DEF TryPopLocked

\* One turn of push_locked, from a producer that is not asleep.
LEMMA PushTurnKeeps ==
  ASSUME IInv, NEW p \in Producers, NEW b \in Buffers, p \notin canPush, PushTurn(p, b)
  PROVE  IInv'
<1> USE DEF IInv, TypeOK, RingHoldsBuffers
<1>1. CASE /\ canPush' = canPush \cup {p}
           /\ pushing' = [pushing EXCEPT ![p] = b]
           /\ UNCHANGED <<queue, canPop, popping, ret>>
  BY <1>1, MovedAssumption
<1>2. CASE /\ Return(p, Failed("EIO"))
           /\ pushing' = [pushing EXCEPT ![p] = Moved]
           /\ UNCHANGED <<queue, canPush, canPop, popping>>
  <2>1. p \in Threads
    BY DEF Threads
  <2> QED BY <1>2, <2>1 DEF Return, Failed
<1>3. CASE /\ TryPushLocked(p, b)
           /\ pushing' = [pushing EXCEPT ![p] = Moved]
           /\ UNCHANGED <<canPush, popping>>
  <2>1. /\ queue' \in QueueType /\ HoldsBuffers(queue')
        /\ canPop' \subseteq canPop
        /\ ret' \in [Threads -> [code : {"NONE", "OK", "EIO", "EAGAIN"},
                                 got : {<<>>} \cup {<<x>> : x \in Buffers}]]
    BY <1>3, TryPushLockedKeeps
  <2> QED BY <1>3, <2>1
<1> QED BY <1>1, <1>2, <1>3 DEF PushTurn

\* One turn of pop_locked, from a consumer that is not asleep.
LEMMA PopTurnKeeps ==
  ASSUME IInv, NEW c \in Consumers, c \notin canPop, PopTurn(c)
  PROVE  IInv'
<1> USE DEF IInv, TypeOK, RingHoldsBuffers
<1>1. CASE /\ canPop' = canPop \cup {c}
           /\ popping' = [popping EXCEPT ![c] = TRUE]
           /\ UNCHANGED <<queue, canPush, pushing, ret>>
  BY <1>1
<1>2. CASE /\ Return(c, Failed("EIO"))
           /\ popping' = [popping EXCEPT ![c] = FALSE]
           /\ UNCHANGED <<queue, canPush, canPop, pushing>>
  <2>1. c \in Threads
    BY DEF Threads
  <2> QED BY <1>2, <2>1 DEF Return, Failed
<1>3. CASE /\ TryPopLocked(c)
           /\ popping' = [popping EXCEPT ![c] = FALSE]
           /\ UNCHANGED <<canPop, pushing>>
  <2>1. /\ queue' \in QueueType /\ HoldsBuffers(queue')
        /\ canPush' \subseteq canPush
        /\ ret' \in [Threads -> [code : {"NONE", "OK", "EIO", "EAGAIN"},
                                 got : {<<>>} \cup {<<x>> : x \in Buffers}]]
    BY <1>3, TryPopLockedKeeps
  <2> QED BY <1>3, <2>1
<1> QED BY <1>1, <1>2, <1>3 DEF PopTurn

\* Every step preserves the invariant.
LEMMA NextIInv == IInv /\ [Next]_vars => IInv'
<1> SUFFICES ASSUME IInv, [Next]_vars PROVE IInv'
  OBVIOUS
<1>1. ASSUME NEW p \in Producers, NEW b \in Buffers, TryPush(p, b) PROVE IInv'
  <2>1. /\ queue' \in QueueType /\ HoldsBuffers(queue')
        /\ canPop' \subseteq canPop
        /\ ret' \in [Threads -> [code : {"NONE", "OK", "EIO", "EAGAIN"},
                                 got : {<<>>} \cup {<<x>> : x \in Buffers}]]
    BY <1>1, TryPushLockedKeeps DEF TryPush
  <2> QED BY <1>1, <2>1 DEF TryPush, IInv, TypeOK, RingHoldsBuffers
<1>2. ASSUME NEW p \in Producers, NEW b \in Buffers, PushLocked(p, b) PROVE IInv'
  <2>1. p \notin canPush
    BY <1>2 DEF PushLocked, IInv, TypeOK
  <2> QED BY <1>2, <2>1, PushTurnKeeps DEF PushLocked
<1>3. ASSUME NEW c \in Consumers, TryPop(c) PROVE IInv'
  <2>1. /\ queue' \in QueueType /\ HoldsBuffers(queue')
        /\ canPush' \subseteq canPush
        /\ ret' \in [Threads -> [code : {"NONE", "OK", "EIO", "EAGAIN"},
                                 got : {<<>>} \cup {<<x>> : x \in Buffers}]]
    BY <1>3, TryPopLockedKeeps DEF TryPop
  <2> QED BY <1>3, <2>1 DEF TryPop, IInv, TypeOK, RingHoldsBuffers
<1>4. ASSUME NEW c \in Consumers, PopLocked(c) PROVE IInv'
  <2>1. c \notin canPop
    BY <1>4 DEF PopLocked, IInv, TypeOK
  <2> QED BY <1>4, <2>1, PopTurnKeeps DEF PopLocked
<1>5. ASSUME NEW p \in Producers, ResumePush(p) PROVE IInv'
  <2>1. pushing[p] \in Buffers
    BY <1>5 DEF ResumePush, IInv, TypeOK
  <2> QED BY <1>5, <2>1, PushTurnKeeps DEF ResumePush
<1>6. ASSUME NEW c \in Consumers, ResumePop(c) PROVE IInv'
  BY <1>6, PopTurnKeeps DEF ResumePop
<1>7. ASSUME NEW t \in Threads, SpuriousWakeup(t) PROVE IInv'
  BY <1>7 DEF SpuriousWakeup, IInv, TypeOK, RingHoldsBuffers
<1>8. ASSUME NEW k \in Closers, CloseLocked(k) PROVE IInv'
  <2>1. queue' = [queue EXCEPT !.closed = TRUE] /\ queue \in QueueType
    BY <1>8 DEF CloseLocked, IInv, TypeOK
  <2>2. /\ queue' \in QueueType /\ queue'.pos = queue.pos
        /\ queue'.count = queue.count /\ queue'.buffers = queue.buffers
    BY <2>1, Zenon DEF QueueType
  <2>3. HoldsBuffers(queue')
    BY <2>2 DEF HoldsBuffers, IInv, RingHoldsBuffers
  <2> QED BY <1>8, <2>2, <2>3 DEF CloseLocked, IInv, TypeOK, RingHoldsBuffers
<1>9. CASE UNCHANGED vars
  BY <1>9 DEF vars, IInv, TypeOK, RingHoldsBuffers
<1> QED BY <1>1, <1>2, <1>3, <1>4, <1>5, <1>6, <1>7, <1>8, <1>9 DEF Next

\* Type correctness of the queue, its wait sets and the results of the calls,
\* for every capacity and any number of threads (buffer_queue.cpp:22-91).
THEOREM TypeCorrect == Spec => []TypeOK
<1>1. Spec => []IInv
  BY InitIInv, NextIInv, PTL DEF Spec
<1>2. IInv => TypeOK
  BY DEF IInv
<1> QED BY <1>1, <1>2, PTL

\* The slots a pop can reach hold pushed buffers, never moved-from ones.
THEOREM RingIntegrity == Spec => []RingHoldsBuffers
<1>1. Spec => []IInv
  BY InitIInv, NextIInv, PTL DEF Spec
<1>2. IInv => RingHoldsBuffers
  BY DEF IInv
<1> QED BY <1>1, <1>2, PTL

-----------------------------------------------------------------------------
\* How the daemon uses the class: one thread pushes and one thread pops
\* (buffered_io_stream.cpp:45-135, audio_sink.cpp).
OneEach ==
  /\ \A p, q \in Producers : p = q
  /\ \A c, d \in Consumers : c = d

\* With one possible waiter, a notification empties the wait set.
LEMMA NotifyOnlyWaiter ==
  ASSUME NEW S, \A x, y \in S : x = y, NEW W \in SUBSET S, NEW V \in NotifyOne(W)
  PROVE  V = {}
<1>1. CASE W = {}
  BY <1>1 DEF NotifyOne
<1>2. CASE W # {}
  <2>1. PICK t \in W : V = W \ {t}
    BY <1>2 DEF NotifyOne
  <2> QED BY <2>1
<1> QED BY <1>1, <1>2

\* A push that succeeds leaves nobody asleep.
LEMMA TryPushLockedWakes ==
  ASSUME OneEach, IInv, NoLostWakeup, NEW p \in Producers, NEW b \in Buffers, TryPushLocked(p, b)
  PROVE  UNCHANGED <<queue, canPop>> \/ (canPop' = {} /\ canPush = {})
<1> SUFFICES ASSUME /\ ~queue.closed /\ queue.count < Capacity
                    /\ canPop' \in (IF IsEmpty(queue) THEN NotifyOne(canPop) ELSE {canPop})
             PROVE  canPop' = {} /\ canPush = {}
  BY DEF TryPushLocked
<1>1. canPush = {}
  BY CapacityAssumption DEF NoLostWakeup, IsFull, IInv, TypeOK, QueueType
<1>2. canPop \in SUBSET Consumers
  BY DEF IInv, TypeOK
<1>3. CASE IsEmpty(queue)
  BY <1>1, <1>2, <1>3, NotifyOnlyWaiter DEF OneEach
<1>4. CASE ~IsEmpty(queue)
  BY <1>1, <1>4 DEF NoLostWakeup
<1> QED BY <1>3, <1>4

\* A pop that succeeds leaves nobody asleep.
LEMMA TryPopLockedWakes ==
  ASSUME OneEach, IInv, NoLostWakeup, NEW c \in Consumers, TryPopLocked(c)
  PROVE  UNCHANGED <<queue, canPush>> \/ (canPush' = {} /\ canPop = {})
<1> SUFFICES ASSUME /\ ~IsEmpty(queue)
                    /\ canPush' \in (IF IsFull(queue) THEN NotifyOne(canPush) ELSE {canPush})
             PROVE  canPush' = {} /\ canPop = {}
  BY DEF TryPopLocked
<1>1. canPop = {}
  BY DEF NoLostWakeup
<1>2. canPush \in SUBSET Producers
  BY DEF IInv, TypeOK
<1>3. CASE IsFull(queue)
  BY <1>1, <1>2, <1>3, NotifyOnlyWaiter DEF OneEach
<1>4. CASE ~IsFull(queue)
  BY <1>1, <1>4 DEF NoLostWakeup
<1> QED BY <1>3, <1>4

\* Every step keeps sleepers on the side that cannot be served.
LEMMA NextNoLostWakeup ==
  ASSUME OneEach
  PROVE  IInv /\ NoLostWakeup /\ [Next]_vars => NoLostWakeup'
<1> SUFFICES ASSUME IInv, NoLostWakeup, [Next]_vars PROVE NoLostWakeup'
  OBVIOUS
<1>1. ASSUME NEW p \in Producers, NEW b \in Buffers, PushTurn(p, b) PROVE NoLostWakeup'
  <2>1. CASE /\ IsFull(queue) /\ ~queue.closed
             /\ canPush' = canPush \cup {p}
             /\ UNCHANGED <<queue, canPop>>
    BY <2>1 DEF NoLostWakeup
  <2>2. CASE UNCHANGED <<queue, canPush, canPop>>
    BY <2>2 DEF NoLostWakeup
  <2>3. CASE TryPushLocked(p, b) /\ UNCHANGED canPush
    BY <2>3, TryPushLockedWakes DEF NoLostWakeup
  <2> QED BY <1>1, <2>1, <2>2, <2>3 DEF PushTurn
<1>2. ASSUME NEW c \in Consumers, PopTurn(c) PROVE NoLostWakeup'
  <2>1. CASE /\ IsEmpty(queue) /\ ~queue.closed
             /\ canPop' = canPop \cup {c}
             /\ UNCHANGED <<queue, canPush>>
    BY <2>1 DEF NoLostWakeup
  <2>2. CASE UNCHANGED <<queue, canPush, canPop>>
    BY <2>2 DEF NoLostWakeup
  <2>3. CASE TryPopLocked(c) /\ UNCHANGED canPop
    BY <2>3, TryPopLockedWakes DEF NoLostWakeup
  <2> QED BY <1>2, <2>1, <2>2, <2>3 DEF PopTurn
<1>3. ASSUME NEW p \in Producers, NEW b \in Buffers, TryPush(p, b) PROVE NoLostWakeup'
  BY <1>3, TryPushLockedWakes DEF TryPush, NoLostWakeup
<1>4. ASSUME NEW c \in Consumers, TryPop(c) PROVE NoLostWakeup'
  BY <1>4, TryPopLockedWakes DEF TryPop, NoLostWakeup
<1>5. ASSUME NEW p \in Producers, ResumePush(p) PROVE NoLostWakeup'
  <2>1. pushing[p] \in Buffers
    BY <1>5 DEF ResumePush, IInv, TypeOK
  <2> QED BY <1>1, <1>5, <2>1 DEF ResumePush
<1>6. ASSUME NEW t \in Threads, SpuriousWakeup(t) PROVE NoLostWakeup'
  BY <1>6 DEF SpuriousWakeup, NoLostWakeup
<1>7. ASSUME NEW k \in Closers, CloseLocked(k) PROVE NoLostWakeup'
  <2>1. canPush' = {} /\ canPop' = {}
    BY <1>7 DEF CloseLocked, NoLostWakeup
  <2> QED BY <2>1 DEF NoLostWakeup
<1>8. CASE UNCHANGED vars
  BY <1>8 DEF vars, NoLostWakeup
<1> QED BY <1>1, <1>2, <1>3, <1>4, <1>5, <1>6, <1>7, <1>8 DEF Next, PushLocked, PopLocked, ResumePop

\* With one producer and one consumer the edge-triggered notifications of
\* try_push_locked, try_pop_locked and close_locked never leave a thread asleep
\* on a queue that could serve it (buffer_queue.cpp:34, 60, 85-90).
THEOREM NoWakeupLost == ASSUME OneEach PROVE Spec => []NoLostWakeup
<1>1. Init => NoLostWakeup
  BY DEF Init, NoLostWakeup
<1>2. Spec => []IInv
  BY InitIInv, NextIInv, PTL DEF Spec
<1>3. IInv /\ NoLostWakeup /\ [Next]_vars => NoLostWakeup'
  BY NextNoLostWakeup
<1> QED BY <1>1, <1>2, <1>3, PTL DEF Spec

-----------------------------------------------------------------------------
\* The calls of the class, seen through Contents, are the calls of BoundedFifo.
LEMMA TryPushLockedIsPush ==
  ASSUME IInv, NEW p \in Producers, NEW b \in Buffers, TryPushLocked(p, b)
  PROVE  Fifo!Push(p, b)
<1>1. queue \in QueueType /\ HoldsBuffers(queue)
  BY DEF IInv, TypeOK, RingHoldsBuffers
<1>2. Len(Contents(queue)) = queue.count /\ queue.count \in 0 .. Capacity
  BY <1>1, ContentsIsSeq DEF QueueType
<1>3. CASE queue.closed /\ Return(p, Failed("EIO")) /\ UNCHANGED queue
  BY <1>3, Zenon DEF Fifo!Push, Return, Failed, Fifo!Failed
<1>4. CASE /\ ~queue.closed /\ queue.count >= Capacity
           /\ Return(p, Failed("EAGAIN")) /\ UNCHANGED queue
  <2>1. Len(Contents(queue)) = Capacity
    BY <1>2, <1>4, CapacityAssumption
  <2> QED BY <1>4, <2>1 DEF Fifo!Push, Return, Failed, Fifo!Failed
<1>5. CASE /\ ~queue.closed /\ queue.count < Capacity
           /\ queue' = Enqueued(queue, b) /\ Return(p, Pushed)
  <2>1. Contents(queue') = Append(Contents(queue), b)
    BY <1>1, <1>5, EnqueuedAppends
  <2>2. queue'.closed = queue.closed
    BY <1>5 DEF Enqueued
  <2> QED BY <1>2, <1>5, <2>1, <2>2 DEF Fifo!Push, Return, Pushed, Fifo!Pushed
<1> QED BY <1>3, <1>4, <1>5 DEF TryPushLocked

\* try_pop_locked returns the head of the abstract queue or its failure.
LEMMA TryPopLockedIsPop ==
  ASSUME IInv, NEW c \in Consumers, TryPopLocked(c)
  PROVE  Fifo!Pop(c)
<1>1. queue \in QueueType /\ HoldsBuffers(queue)
  BY DEF IInv, TypeOK, RingHoldsBuffers
<1>2. CASE IsEmpty(queue)
  <2>1. Contents(queue) = <<>>
    BY <1>1, <1>2, ContentsIsSeq DEF IsEmpty, Contents
  <2> QED BY <1>2, <2>1 DEF TryPopLocked, Fifo!Pop, Return, Failed, Fifo!Failed
<1>3. CASE ~IsEmpty(queue)
  <2>1. /\ queue' = Dequeued(queue)
        /\ Return(c, Popped(Front(queue)))
    BY <1>3 DEF TryPopLocked
  <2>2. /\ Contents(queue) # <<>>
        /\ Head(Contents(queue)) = Front(queue)
        /\ Contents(queue') = Tail(Contents(queue))
    BY <1>1, <1>3, <2>1, DequeuedIsTail DEF IsEmpty
  <2>3. queue'.closed = queue.closed
    BY <2>1 DEF Dequeued
  <2> QED BY <2>1, <2>2, <2>3, Zenon DEF Fifo!Pop, Return, Popped, Fifo!Popped
<1> QED BY <1>2, <1>3

\* Every step of the class is a step of the abstract queue or invisible to it.
LEMMA NextIsFifoNext == IInv /\ [Next]_vars => [Fifo!Next]_(Fifo!fifoVars)
<1> SUFFICES ASSUME IInv, [Next]_vars PROVE Fifo!Next \/ UNCHANGED Fifo!fifoVars
  OBVIOUS
<1>1. ASSUME UNCHANGED queue, UNCHANGED ret PROVE UNCHANGED Fifo!fifoVars
  BY <1>1 DEF Fifo!fifoVars, Contents
<1>2. ASSUME NEW p \in Producers, NEW b \in Buffers, Fifo!Push(p, b) PROVE Fifo!Next
  BY <1>2 DEF Fifo!Next, Threads
<1>3. ASSUME NEW c \in Consumers, Fifo!Pop(c) PROVE Fifo!Next
  BY <1>3 DEF Fifo!Next, Threads
<1>4. ASSUME NEW p \in Producers, NEW b \in Buffers, PushTurn(p, b)
      PROVE  Fifo!Next \/ UNCHANGED Fifo!fifoVars
  <2>1. CASE queue.closed /\ Return(p, Failed("EIO")) /\ UNCHANGED queue
    <3>1. Fifo!Push(p, b)
      BY <2>1, Zenon DEF Fifo!Push, Return, Failed, Fifo!Failed
    <3> QED BY <1>2, <3>1
  <2> QED BY <1>1, <1>2, <1>4, <2>1, TryPushLockedIsPush DEF PushTurn
<1>5. ASSUME NEW c \in Consumers, PopTurn(c)
      PROVE  Fifo!Next \/ UNCHANGED Fifo!fifoVars
  <2>1. CASE IsEmpty(queue) /\ queue.closed /\ Return(c, Failed("EIO")) /\ UNCHANGED queue
    <3>1. Contents(queue) = <<>>
      BY <2>1, ContentsIsSeq DEF IsEmpty, Contents, IInv, TypeOK, RingHoldsBuffers
    <3>2. Fifo!Pop(c)
      BY <2>1, <3>1, Zenon DEF Fifo!Pop, Return, Failed, Fifo!Failed
    <3> QED BY <1>3, <3>2
  <2> QED BY <1>1, <1>3, <1>5, <2>1, TryPopLockedIsPop DEF PopTurn
<1>6. ASSUME NEW p \in Producers, NEW b \in Buffers, TryPush(p, b) PROVE Fifo!Next
  BY <1>2, <1>6, TryPushLockedIsPush DEF TryPush
<1>7. ASSUME NEW c \in Consumers, TryPop(c) PROVE Fifo!Next
  BY <1>3, <1>7, TryPopLockedIsPop DEF TryPop
<1>8. ASSUME NEW p \in Producers, ResumePush(p)
      PROVE  Fifo!Next \/ UNCHANGED Fifo!fifoVars
  <2>1. pushing[p] \in Buffers
    BY <1>8 DEF ResumePush, IInv, TypeOK
  <2> QED BY <1>4, <1>8, <2>1 DEF ResumePush
<1>9. ASSUME NEW t \in Threads, SpuriousWakeup(t) PROVE UNCHANGED Fifo!fifoVars
  BY <1>1, <1>9 DEF SpuriousWakeup
<1>10. ASSUME NEW k \in Closers, CloseLocked(k) PROVE Fifo!Next
  <2>1. queue' = [queue EXCEPT !.closed = TRUE] /\ queue \in QueueType /\ UNCHANGED ret
    BY <1>10 DEF CloseLocked, IInv, TypeOK
  <2>2. /\ queue'.closed = TRUE /\ queue'.pos = queue.pos
        /\ queue'.count = queue.count /\ queue'.buffers = queue.buffers
    BY <2>1 DEF QueueType
  <2>3. Contents(queue') = Contents(queue)
    BY <2>2 DEF Contents
  <2> QED BY <2>1, <2>2, <2>3 DEF Fifo!Next, Fifo!Close
<1>11. CASE UNCHANGED vars
  BY <1>1, <1>11 DEF vars
<1> QED BY <1>4, <1>5, <1>6, <1>7, <1>8, <1>9, <1>10, <1>11 DEF Next, PushLocked, PopLocked, ResumePop

\* BufferQueue implements BoundedFifo for every capacity and any number of
\* threads: each call returns what a first-in first-out queue returns, whatever
\* the wrap-around of the ring and the order of the threads
\* (buffer_queue.cpp:22-91).
THEOREM ImplementsBoundedFifo == Spec => RefinesBoundedFifo
<1>1. Init => Fifo!Init
  <2> SUFFICES ASSUME Init PROVE Fifo!Init
    OBVIOUS
  <2>1. Contents(queue) = <<>> /\ queue.closed = FALSE
    BY DEF Init, EmptyQueue, Contents
  <2> QED BY <2>1 DEF Init, Fifo!Init, Failed, Fifo!Failed
<1>2. Spec => []IInv
  BY InitIInv, NextIInv, PTL DEF Spec
<1>3. IInv /\ [Next]_vars => [Fifo!Next]_(Fifo!fifoVars)
  BY NextIsFifoNext
<1> QED BY <1>1, <1>2, <1>3, PTL DEF Spec, RefinesBoundedFifo, Fifo!Spec
=============================================================================
