----------------------- MODULE BufferedIOStreamProofs -----------------------
(***************************************************************************)
(* Proofs about BufferedIOStream: bytes pass through both directions       *)
(* unchanged.  What BufferQueueProofs proves of the class is used for      *)
(* each queue through an instance; InAssumptions and OutAssumptions are    *)
(* the assumptions of that module with the instance's substitution.        *)
(***************************************************************************)
EXTENDS BufferedIOStream, SequenceTheorems, TLAPS

\* CapacityAssumption and MovedAssumption of BufferQueue for in_queue_ ...
LEMMA InAssumptions == InCapacity \in Nat \ {0} /\ Moved \notin Chunks(MaxIn)
BY BoundsAssumption, MovedAssumption

\* ... and for out_queue_.
LEMMA OutAssumptions == OutCapacity \in Nat \ {0} /\ Moved \notin Chunks(MaxOut)
BY BoundsAssumption, MovedAssumption

(***************************************************************************)
(* Byte sequences and their pieces.                                        *)
(***************************************************************************)
LEMMA BytesIsSeq ==
  ASSUME NEW n \in Nat, NEW k \in Nat
  PROVE  /\ Bytes(n, k) \in Seq(Nat)
         /\ Len(Bytes(n, k)) = k
         /\ \A i \in 1 .. k : Bytes(n, k)[i] = n + i
BY DEF Bytes

\* No bytes.
LEMMA BytesEmpty ==
  ASSUME NEW n \in Nat
  PROVE  Bytes(n, 0) = <<>>
BY DEF Bytes

\* Two consecutive stretches of bytes are one.
LEMMA BytesConcat ==
  ASSUME NEW n \in Nat, NEW k \in Nat, NEW l \in Nat
  PROVE  Bytes(n, k) \o Bytes(n + k, l) = Bytes(n, k + l)
BY DEF Bytes

\* A part of a stretch of bytes is a stretch.
LEMMA BytesSub ==
  ASSUME NEW n \in Nat, NEW k \in Nat, NEW a \in 0 .. k, NEW b \in a .. k
  PROVE  SubSeq(Bytes(n, k), a + 1, b) = Bytes(n + a, b - a)
BY DEF Bytes

\* A piece of s is the same piece of an extension of s.
LEMMA SubSeqLeft ==
  ASSUME NEW S, NEW s \in Seq(S), NEW t \in Seq(S), NEW a \in 0 .. Len(s), NEW b \in a .. Len(s)
  PROVE  SubSeq(s \o t, a + 1, b) = SubSeq(s, a + 1, b)
<1>1. CASE a = b
  BY <1>1, SubSeqEmpty
<1>2. CASE a # b
  BY <1>2, SubSeqOfConcat1
<1> QED BY <1>1, <1>2

\* A piece of a piece, and a prefix grown by the piece that follows it.
LEMMA SubSeqSplit ==
  ASSUME NEW S, NEW s \in Seq(S), NEW a \in 0 .. Len(s), NEW b \in a .. Len(s), NEW k \in 0 .. b - a
  PROVE  /\ Len(SubSeq(s, a + 1, b)) = b - a
         /\ SubSeq(s, 1, a) \o SubSeq(SubSeq(s, a + 1, b), 1, k) = SubSeq(s, 1, a + k)
         /\ SubSeq(SubSeq(s, a + 1, b), k + 1, b - a) = SubSeq(s, (a + k) + 1, b)
<1> DEFINE p == SubSeq(s, a + 1, b)
<1>1. p \in Seq(S) /\ Len(p) = b - a /\ \A i \in 1 .. b - a : p[i] = s[a + i]
  OBVIOUS
<1> HIDE DEF p
<1>2. SubSeq(s, 1, a) \o SubSeq(p, 1, k) = SubSeq(s, 1, a + k)
  BY <1>1
<1>3. SubSeq(p, k + 1, b - a) = SubSeq(s, (a + k) + 1, b)
  BY <1>1
<1> QED BY <1>1, <1>2, <1>3 DEF p

\* The chunks are consecutive pieces of s, the first beginning after n elements
\* and the last ending where s ends.
Tiles(chunks, s, n) ==
  \E f \in [0 .. Len(chunks) -> 0 .. Len(s)] :
    /\ f[0] = n /\ f[Len(chunks)] = Len(s)
    /\ \A i \in 1 .. Len(chunks) :
         f[i - 1] <= f[i] /\ chunks[i] = SubSeq(s, f[i - 1] + 1, f[i])

\* No chunks cover what is left of s only if nothing is left.
LEMMA TilesEmpty ==
  ASSUME NEW S, NEW s \in Seq(S), NEW n
  PROVE  /\ n = Len(s) => Tiles(<<>>, s, n)
         /\ Tiles(<<>>, s, n) => n = Len(s)
<1>1. ASSUME n = Len(s) PROVE Tiles(<<>>, s, n)
  <2> DEFINE f == [i \in 0 .. 0 |-> Len(s)]
  <2>1. f \in [0 .. Len(<<>>) -> 0 .. Len(s)] /\ f[0] = n /\ f[Len(<<>>)] = Len(s)
    BY <1>1
  <2>2. \A i \in 1 .. Len(<<>>) : FALSE
    OBVIOUS
  <2> HIDE DEF f
  <2> QED BY <2>1, <2>2 DEF Tiles
<1>2. ASSUME Tiles(<<>>, s, n) PROVE n = Len(s)
  BY <1>2 DEF Tiles
<1> QED BY <1>1, <1>2

\* A chunk added at the end covers what s is extended by.
LEMMA TilesAppend ==
  ASSUME NEW S, NEW s \in Seq(S), NEW b \in Seq(S), NEW T, NEW chunks \in Seq(T), NEW n,
         Tiles(chunks, s, n)
  PROVE  Tiles(Append(chunks, b), s \o b, n)
<1> DEFINE N == Len(chunks)
           c == Append(chunks, b)
           t == s \o b
<1>1. PICK f \in [0 .. N -> 0 .. Len(s)] :
        /\ f[0] = n /\ f[N] = Len(s)
        /\ \A i \in 1 .. N : f[i - 1] <= f[i] /\ chunks[i] = SubSeq(s, f[i - 1] + 1, f[i])
  BY Zenon DEF Tiles
<1> DEFINE g == [i \in 0 .. N + 1 |-> IF i <= N THEN f[i] ELSE Len(t)]
<1>2. N \in Nat /\ Len(s) \in Nat /\ Len(b) \in Nat /\ t \in Seq(S) /\ Len(t) = Len(s) + Len(b)
  OBVIOUS
<1>3. Len(c) = N + 1 /\ c[N + 1] = b /\ \A i \in 1 .. N : c[i] = chunks[i]
  OBVIOUS
<1>4. g \in [0 .. N + 1 -> 0 .. Len(t)] /\ g[0] = n /\ g[N + 1] = Len(t)
  BY <1>1, <1>2
<1>5. ASSUME NEW i \in 1 .. N + 1
      PROVE  g[i - 1] <= g[i] /\ c[i] = SubSeq(t, g[i - 1] + 1, g[i])
  <2>1. CASE i = N + 1
    <3>1. g[i - 1] = Len(s) /\ g[i] = Len(s) + Len(b)
      BY <1>1, <1>2, <2>1
    <3>2. SubSeq(t, Len(s) + 1, Len(s) + Len(b)) = b
      BY <1>2
    <3> QED BY <3>1, <3>2, <1>2, <1>3, <2>1
  <2>2. CASE i \in 1 .. N
    <3> HIDE DEF c, t, N
    <3>0. i - 1 \in 0 .. N /\ i \in 0 .. N /\ i - 1 <= N /\ i <= N
      BY <1>2, <2>2
    <3>4. f[i - 1] \in 0 .. Len(s) /\ f[i] \in 0 .. Len(s)
      BY <3>0
    <3>1. g[i - 1] = f[i - 1] /\ g[i] = f[i] /\ c[i] = chunks[i]
      BY <1>2, <1>3, <2>2, <3>0
    <3>2. f[i - 1] <= f[i] /\ chunks[i] = SubSeq(s, f[i - 1] + 1, f[i])
      BY <1>1, <2>2
    <3>3. SubSeq(t, f[i - 1] + 1, f[i]) = SubSeq(s, f[i - 1] + 1, f[i])
      <4> HIDE DEF g
      <4>1. f[i] \in f[i - 1] .. Len(s)
        BY <3>4, <3>2, <1>2
      <4> QED BY <3>4, <4>1, SubSeqLeft, Zenon DEF t
    <3> QED BY <3>1, <3>2, <3>3, Zenon
  <2>3. i = N + 1 \/ i \in 1 .. N
    BY <1>2
  <2> QED BY <2>1, <2>2, <2>3, Zenon
<1> HIDE DEF g, c, t
<1> QED BY <1>3, <1>4, <1>5, Zenon DEF Tiles, c, t

\* The first chunk is the next piece of s, and the others cover the rest.
LEMMA TilesTail ==
  ASSUME NEW S, NEW s \in Seq(S), NEW T, NEW chunks \in Seq(T), chunks # <<>>, NEW n \in Nat,
         Tiles(chunks, s, n)
  PROVE  \E m \in n .. Len(s) : /\ Head(chunks) = SubSeq(s, n + 1, m)
                                /\ Tiles(Tail(chunks), s, m)
<1> DEFINE N == Len(chunks)
           c == Tail(chunks)
<1>1. PICK f \in [0 .. N -> 0 .. Len(s)] :
        /\ f[0] = n /\ f[N] = Len(s)
        /\ \A i \in 1 .. N : f[i - 1] <= f[i] /\ chunks[i] = SubSeq(s, f[i - 1] + 1, f[i])
  BY Zenon DEF Tiles
<1> DEFINE g == [i \in 0 .. N - 1 |-> f[i + 1]]
<1>2. N \in Nat \ {0} /\ Len(s) \in Nat
  OBVIOUS
<1>3. Len(c) = N - 1 /\ Head(chunks) = chunks[1] /\ \A i \in 1 .. N - 1 : c[i] = chunks[i + 1]
  OBVIOUS
<1>4. g \in [0 .. N - 1 -> 0 .. Len(s)] /\ g[0] = f[1] /\ g[N - 1] = Len(s)
  BY <1>1, <1>2
<1>5. f[1] \in n .. Len(s) /\ Head(chunks) = SubSeq(s, n + 1, f[1])
  <2>1. 1 \in 1 .. N /\ 1 - 1 = 0
    BY <1>2
  <2>2. f[0] <= f[1] /\ chunks[1] = SubSeq(s, f[0] + 1, f[1]) /\ f[1] \in 0 .. Len(s)
    <3> HIDE DEF N
    <3>1. 1 \in 0 .. N
      BY <2>1, <1>2
    <3> QED BY <1>1, <2>1, <3>1, Zenon
  <2> QED BY <1>1, <1>2, <1>3, <2>2
<1>6. ASSUME NEW i \in 1 .. N - 1
      PROVE  g[i - 1] <= g[i] /\ c[i] = SubSeq(s, g[i - 1] + 1, g[i])
  <2>1. g[i - 1] = f[i] /\ g[i] = f[i + 1] /\ i + 1 \in 1 .. N /\ (i + 1) - 1 = i
    BY <1>2
  <2> QED BY <1>1, <1>3, <2>1
<1> HIDE DEF g, c
<1>7. Tiles(c, s, f[1])
  BY <1>3, <1>4, <1>6, Zenon DEF Tiles
<1> QED BY <1>5, <1>7, Zenon DEF c
(***************************************************************************)
(* From post_data to read().                                               *)
(***************************************************************************)
\* What the ring lemmas of BufferQueueProofs say of in_queue_.
InRing ==
  LET q == inQueue
      c == In!Contents(q)
  IN  /\ c \in Seq(Chunks(MaxIn)) /\ Len(c) = q.count
      /\ \A b \in Chunks(MaxIn) : q.count < InCapacity =>
           In!Contents(In!Enqueued(q, b)) = Append(c, b)
      /\ q.count # 0 => /\ In!Front(q) = Head(c)
                        /\ In!Contents(In!Dequeued(q)) = Tail(c)

\* The buffer that is still being pushed.
Pending == IF inPushing["io"] = Moved THEN <<>> ELSE inPushing["io"]

\* Of the bytes posted, the first n have been read, those up to m are in
\* read_buffer_, those up to k in in_queue_, and the rest is being pushed.
InLayout(k, m, n) ==
  /\ received = Bytes(0, n)
  /\ readBuffer = Bytes(n, m - n)
  /\ Tiles(In!Contents(inQueue), Bytes(0, k), m)
  /\ Pending = Bytes(k, posted - k)

\* in_queue_ is closed only after the last push has ended, and the render
\* thread ends only when nothing is left to read.
InputInv ==
  /\ posted \in Nat
  /\ io # "run" => inPushing["io"] = Moved
  /\ inQueue.closed => io # "run"
  /\ render = "done" => inQueue.closed /\ inQueue.count = 0 /\ readBuffer = <<>>
  /\ \E k \in 0 .. posted : \E m \in 0 .. k : \E n \in 0 .. m : InLayout(k, m, n)

\* A step that moves no bytes keeps the layout.
LEMMA InputUnchanged ==
  ASSUME InputInv, UNCHANGED <<posted, inPushing, readBuffer, received>>,
         In!Contents(inQueue') = In!Contents(inQueue),
         io' # "run" => inPushing["io"] = Moved,
         inQueue'.closed => io' # "run",
         render' = "done" => inQueue'.closed /\ inQueue'.count = 0 /\ readBuffer = <<>>
  PROVE  InputInv'
<1>1. PICK k \in 0 .. posted : \E m \in 0 .. k : \E n \in 0 .. m : InLayout(k, m, n)
  BY DEF InputInv
<1>2. PICK m \in 0 .. k : \E n \in 0 .. m : InLayout(k, m, n)
  BY <1>1
<1>3. PICK n \in 0 .. m : InLayout(k, m, n)
  BY <1>2
<1>4. InLayout(k, m, n)'
  BY <1>3 DEF InLayout, Pending
<1> QED BY <1>4 DEF InputInv

\* One turn of push_locked on the open queue, for a buffer that continues what
\* is in the queue: it is queued at the end, or it waits.
LEMMA PushTurnKeepsInput ==
  ASSUME In!TypeOK, InRing, NEW k \in Nat, NEW m \in 0 .. k, NEW n \in 0 .. m, NEW j \in Nat,
         received = Bytes(0, n), readBuffer = Bytes(n, m - n),
         Tiles(In!Contents(inQueue), Bytes(0, k), m),
         Bytes(k, j) \in Chunks(MaxIn), posted' = k + j,
         ~inQueue.closed, In!PushTurn("io", Bytes(k, j)),
         UNCHANGED <<readBuffer, received>>
  PROVE  /\ \E k2 \in 0 .. posted' : \E m2 \in 0 .. k2 : \E n2 \in 0 .. m2 : InLayout(k2, m2, n2)'
         /\ ~inQueue'.closed
<1> DEFINE b == Bytes(k, j)
<1>0. DOMAIN inPushing = {"io"} /\ b # Moved /\ Bytes(k + j, 0) = <<>>
  <2>1. DOMAIN inPushing = {"io"}
    BY DEF In!TypeOK
  <2>2. b # Moved
    BY InAssumptions
  <2>3. Bytes(k + j, 0) = <<>>
    BY BytesEmpty
  <2> QED BY <2>1, <2>2, <2>3
<1>1. CASE /\ In!IsFull(inQueue) /\ ~inQueue.closed
           /\ inPushing' = [inPushing EXCEPT !["io"] = b]
           /\ UNCHANGED <<inQueue, inCanPop, inPopping, inRet>>
  <2>1. Pending' = b
    BY <1>0, <1>1 DEF Pending
  <2>2. InLayout(k, m, n)'
    BY <1>1, <2>1 DEF InLayout
  <2> QED BY <1>1, <2>2
<1>2. CASE /\ ~In!IsFull(inQueue)
           /\ In!TryPushLocked("io", b)
           /\ inPushing' = [inPushing EXCEPT !["io"] = Moved]
  <2>1. /\ inQueue.count < InCapacity
        /\ inQueue' = In!Enqueued(inQueue, b)
    BY <1>2, InAssumptions DEF In!TryPushLocked, In!IsFull, In!TypeOK, In!QueueType
  <2>2. In!Contents(inQueue') = Append(In!Contents(inQueue), b) /\ ~inQueue'.closed
    BY <2>1, Zenon DEF InRing, In!Enqueued
  <2>3. Tiles(In!Contents(inQueue'), Bytes(0, k + j), m)
    <3>1. /\ Bytes(0, k) \in Seq(Nat) /\ b \in Seq(Nat)
          /\ In!Contents(inQueue) \in Seq(Chunks(MaxIn))
      BY BytesIsSeq DEF InRing
    <3>2. Bytes(0, k) \o b = Bytes(0, k + j)
      <4>1. Bytes(0, k) \o Bytes(0 + k, j) = Bytes(0, k + j)
        BY BytesConcat, Zenon
      <4> QED BY <4>1
    <3> HIDE DEF b
    <3> QED BY <2>2, <3>1, <3>2, TilesAppend, Zenon
  <2>4. Pending' = <<>>
    BY <1>0, <1>2 DEF Pending
  <2>5. InLayout(k + j, m, n)'
    BY <2>3, <2>4, <1>0 DEF InLayout
  <2> QED BY <2>2, <2>5
<1> QED BY <1>1, <1>2 DEF In!PushTurn

\* try_pop_locked takes the oldest buffer, if there is one.
LEMMA TryPopTakesHead ==
  ASSUME In!TypeOK, InRing, In!TryPopLocked("render")
  PROVE  IF inQueue.count = 0
           THEN UNCHANGED inQueue /\ inRet'["render"].code # "OK"
           ELSE /\ inQueue'.closed = inQueue.closed
                /\ In!Contents(inQueue) # <<>>
                /\ In!Contents(inQueue') = Tail(In!Contents(inQueue))
                /\ inRet'["render"].code = "OK"
                /\ inRet'["render"].got[1] = Head(In!Contents(inQueue))
<1>0. DOMAIN inRet = {"io", "render"}
  BY DEF In!TypeOK, In!Threads
<1>1. CASE inQueue.count = 0
  BY <1>0, <1>1 DEF In!TryPopLocked, In!IsEmpty, In!Return, In!Failed
<1>2. CASE inQueue.count # 0
  <2>1. /\ inQueue' = In!Dequeued(inQueue)
        /\ inRet' = [inRet EXCEPT !["render"] = In!Popped(In!Front(inQueue))]
    BY <1>2 DEF In!TryPopLocked, In!IsEmpty, In!Return
  <2>2. inRet'["render"] = In!Popped(Head(In!Contents(inQueue)))
    BY <1>0, <1>2, <2>1 DEF InRing
  <2>3. In!Contents(inQueue') = Tail(In!Contents(inQueue)) /\ inQueue'.closed = inQueue.closed
    BY <1>2, <2>1, Zenon DEF InRing, In!Dequeued
  <2>4. In!Contents(inQueue) # <<>>
    BY <1>2 DEF InRing
  <2> QED BY <1>2, <2>2, <2>3, <2>4 DEF In!Popped
<1> QED BY <1>1, <1>2

\* What read() does after a pop: the oldest queued buffer becomes read_buffer_.
LEMMA AfterPopKeepsInput ==
  ASSUME InputInv, In!TypeOK, InRing, readBuffer = <<>>, render = "read", AfterPop,
         \/ In!TryPopLocked("render")
         \/ inQueue.count = 0 /\ UNCHANGED inQueue /\ inRet'["render"].code # "OK",
         inQueue.count = 0 /\ ~(count > 0) => inQueue.closed,
         UNCHANGED <<posted, io, inPushing, received, count>>
  PROVE  InputInv'
<1>1. CASE inQueue.count = 0
  <2>1. UNCHANGED inQueue /\ inRet'["render"].code # "OK"
    BY <1>1, TryPopTakesHead
  <2>2. UNCHANGED readBuffer /\ (render' = "done" => ~(count > 0))
    BY <2>1 DEF AfterPop, Return
  <2>3. /\ io' # "run" => inPushing["io"] = Moved
        /\ inQueue'.closed => io' # "run"
        /\ render' = "done" => inQueue'.closed /\ inQueue'.count = 0 /\ readBuffer = <<>>
    BY <1>1, <2>1, <2>2 DEF InputInv
  <2> QED BY <2>1, <2>2, <2>3, InputUnchanged
<1>2. CASE inQueue.count # 0
  <2>1. /\ inQueue'.closed = inQueue.closed
        /\ In!Contents(inQueue) # <<>>
        /\ In!Contents(inQueue') = Tail(In!Contents(inQueue))
        /\ inRet'["render"].code = "OK"
        /\ inRet'["render"].got[1] = Head(In!Contents(inQueue))
    BY <1>2, TryPopTakesHead
  <2>2. readBuffer' = Head(In!Contents(inQueue)) /\ render' = "read"
    BY <2>1 DEF AfterPop
  <2>3. PICK k \in 0 .. posted : \E m \in 0 .. k : \E n \in 0 .. m : InLayout(k, m, n)
    BY DEF InputInv
  <2>4. PICK m \in 0 .. k : \E n \in 0 .. m : InLayout(k, m, n)
    BY <2>3
  <2>5. PICK n \in 0 .. m : InLayout(k, m, n)
    BY <2>4
  <2>6. k \in Nat /\ m \in Nat /\ n \in Nat /\ posted \in Nat /\ m - n \in Nat
    BY DEF InputInv
  <2>7. m = n
    <3>1. Len(Bytes(n, m - n)) = m - n /\ Len(readBuffer) = 0
      BY <2>6, BytesIsSeq, Zenon
    <3> QED BY <3>1, <2>5, <2>6 DEF InLayout
  <2>8. Bytes(0, k) \in Seq(Nat) /\ Len(Bytes(0, k)) = k
    BY <2>6, BytesIsSeq
  <2>9. PICK e \in m .. k : /\ Head(In!Contents(inQueue)) = SubSeq(Bytes(0, k), m + 1, e)
                            /\ Tiles(Tail(In!Contents(inQueue)), Bytes(0, k), e)
    BY <2>1, <2>5, <2>6, <2>8, TilesTail, Zenon DEF InLayout, InRing
  <2>10. readBuffer' = Bytes(n, e - n)
    <3>1. SubSeq(Bytes(0, k), m + 1, e) = Bytes(0 + m, e - m)
      BY <2>6, BytesSub, Zenon
    <3>2. 0 + m = n /\ e - m = e - n
      BY <2>6, <2>7
    <3> QED BY <3>1, <3>2, <2>2, <2>9, Zenon
  <2>11. InLayout(k, e, n)'
    BY <2>1, <2>5, <2>9, <2>10 DEF InLayout, Pending
  <2>12. e \in 0 .. k /\ n \in 0 .. e
    BY <2>6, <2>7, <2>9
  <2> QED BY <2>1, <2>2, <2>11, <2>12 DEF InputInv
<1> QED BY <1>1, <1>2

\* A copy moves the first bytes of read_buffer_ to the end of what was read.
LEMMA ReadCopyKeepsInput ==
  ASSUME InputInv, ReadCopy, want \in Nat, UNCHANGED <<posted, io>>
  PROVE  InputInv'
<1>1. PICK k \in 0 .. posted : \E m \in 0 .. k : \E n \in 0 .. m : InLayout(k, m, n)
  BY DEF InputInv
<1>2. PICK m \in 0 .. k : \E n \in 0 .. m : InLayout(k, m, n)
  BY <1>1
<1>3. PICK n \in 0 .. m : InLayout(k, m, n)
  BY <1>2
<1>4. k \in Nat /\ m \in Nat /\ n \in Nat /\ posted \in Nat /\ m - n \in Nat
  BY DEF InputInv
<1> DEFINE min == IF want < Len(readBuffer) THEN want ELSE Len(readBuffer)
<1>5. Len(readBuffer) = m - n /\ min \in 0 .. m - n
  <2>1. Len(Bytes(n, m - n)) = m - n
    BY <1>4, BytesIsSeq, Zenon
  <2> QED BY <1>3, <1>4, <2>1 DEF InLayout
<1>6. PICK avail \in 0 .. m - n : avail = min
  BY <1>5, Zenon
<1>7. /\ received' = received \o SubSeq(readBuffer, 1, avail)
      /\ readBuffer' = SubSeq(readBuffer, avail + 1, m - n)
  BY <1>5, <1>6 DEF ReadCopy
<1>8. received' = Bytes(0, n + avail)
  <2>1. SubSeq(Bytes(n, m - n), 0 + 1, avail) = Bytes(n + 0, avail - 0)
    <3>1. 0 \in 0 .. m - n
      BY <1>4
    <3> QED BY <1>4, <1>5, <3>1, BytesSub, Zenon
  <2>2. Bytes(0, n) \o Bytes(0 + n, avail) = Bytes(0, n + avail)
    <3>1. 0 \in Nat /\ n \in Nat /\ avail \in Nat
      BY <1>4, <1>5
    <3> QED BY <3>1, BytesConcat, Zenon
  <2>3. 0 + 1 = 1 /\ n + 0 = n /\ avail - 0 = avail /\ 0 + n = n
    BY <1>4, <1>5
  <2>4. /\ SubSeq(Bytes(n, m - n), 1, avail) = Bytes(n, avail)
        /\ Bytes(0, n) \o Bytes(n, avail) = Bytes(0, n + avail)
    BY <2>1, <2>2, <2>3
  <2> QED BY <1>3, <1>7, <2>4, Zenon DEF InLayout
<1>9. readBuffer' = Bytes(n + avail, m - (n + avail))
  <2>1. SubSeq(Bytes(n, m - n), avail + 1, m - n) = Bytes(n + avail, (m - n) - avail)
    <3>1. m - n \in avail .. m - n
      BY <1>4, <1>5
    <3> QED BY <1>4, <1>5, <3>1, BytesSub, Zenon
  <2>2. (m - n) - avail = m - (n + avail)
    BY <1>4, <1>5
  <2> QED BY <1>3, <1>7, <2>1, <2>2 DEF InLayout
<1>10. UNCHANGED <<inQueue, inPushing, render>> /\ render = "read"
  BY DEF ReadCopy, inVars
<1>11. InLayout(k, m, n + avail)'
  BY <1>3, <1>8, <1>9, <1>10 DEF InLayout, Pending
<1>12. n + avail \in 0 .. m
  BY <1>4, <1>5
<1> QED BY <1>11, <1>12, <1>10 DEF InputInv

\* post_data, when it begins and when it goes on after a wait.
LEMMA PostKeepsInput ==
  ASSUME InputInv, In!TypeOK, InRing, PostData \/ PostResume, UNCHANGED <<render, readBuffer, received>>
  PROVE  InputInv'
<1>1. io = "run" /\ UNCHANGED io /\ ~inQueue.closed /\ render # "done"
  BY DEF InputInv, PostData, PostResume, In!ResumePush
<1>2. PICK k \in 0 .. posted : \E m \in 0 .. k : \E n \in 0 .. m : InLayout(k, m, n)
  BY DEF InputInv
<1>3. PICK m \in 0 .. k : \E n \in 0 .. m : InLayout(k, m, n)
  BY <1>2
<1>4. PICK n \in 0 .. m : InLayout(k, m, n)
  BY <1>3
<1>5. k \in Nat /\ m \in Nat /\ n \in Nat /\ posted \in Nat /\ posted - k \in Nat
  BY DEF InputInv
<1>6. \E j \in Nat : /\ Bytes(k, j) \in Chunks(MaxIn)
                     /\ In!PushTurn("io", Bytes(k, j))
                     /\ posted' = k + j
  <2>1. CASE PostData
    <3>1. PICK j \in 1 .. MaxChunk : /\ posted + j <= MaxIn
                                     /\ In!PushLocked("io", Bytes(posted, j))
                                     /\ posted' = posted + j
      BY <2>1 DEF PostData
    <3>2. Pending = <<>>
      BY <3>1 DEF Pending, In!PushLocked
    <3>3. Len(Bytes(k, posted - k)) = posted - k /\ Len(<<>>) = 0
      BY <1>5, BytesIsSeq, Zenon
    <3>4. k = posted
      BY <1>4, <1>5, <3>2, <3>3 DEF InLayout
    <3>5. Bytes(posted, j) \in Chunks(MaxIn)
      BY <1>5, <3>1, BoundsAssumption DEF Chunks
    <3> QED BY <3>1, <3>4, <3>5 DEF In!PushLocked
  <2>2. CASE PostResume
    <3>1. /\ inPushing["io"] # Moved
          /\ In!PushTurn("io", inPushing["io"])
          /\ UNCHANGED posted
      BY <2>2 DEF PostResume, In!ResumePush
    <3>2. inPushing["io"] = Bytes(k, posted - k) /\ inPushing["io"] \in Chunks(MaxIn)
      BY <1>4, <3>1 DEF InLayout, Pending, In!TypeOK
    <3>3. posted' = k + (posted - k)
      BY <1>5, <3>1
    <3> QED BY <1>5, <3>1, <3>2, <3>3
  <2> QED BY <2>1, <2>2
<1>7. PICK j \in Nat : /\ Bytes(k, j) \in Chunks(MaxIn)
                       /\ In!PushTurn("io", Bytes(k, j))
                       /\ posted' = k + j
  BY <1>6
<1>8. /\ \E k2 \in 0 .. posted' : \E m2 \in 0 .. k2 : \E n2 \in 0 .. m2 : InLayout(k2, m2, n2)'
      /\ ~inQueue'.closed
  BY <1>1, <1>4, <1>5, <1>7, PushTurnKeepsInput DEF InLayout
<1> QED BY <1>1, <1>5, <1>7, <1>8 DEF InputInv

\* Both pops of read(): it waits, refills read_buffer_, or leaves the loop.
LEMMA ReadPopKeepsInput ==
  ASSUME InputInv, In!TypeOK, InRing, ReadPop \/ ReadTryPop, UNCHANGED <<posted, io>>
  PROVE  InputInv'
<1>0. DOMAIN inPopping = {"render"} /\ DOMAIN inRet = {"io", "render"}
  BY DEF In!TypeOK, In!Threads
<1>1. CASE ReadTryPop
  <2>1. /\ In!TryPopLocked("render") /\ AfterPop /\ readBuffer = <<>> /\ render = "read"
        /\ count > 0 /\ UNCHANGED <<inPushing, received, count>>
    BY <1>1 DEF ReadTryPop, In!TryPop
  <2> QED BY <2>1, AfterPopKeepsInput
<1>2. CASE ReadPop
  <2>1. /\ render = "read" /\ readBuffer = <<>> /\ count = 0 /\ In!PopTurn("render")
        /\ UNCHANGED <<inPushing, received, count>>
    BY <1>2 DEF ReadPop, In!PopLocked, In!ResumePop, In!PopTurn
  <2>2. CASE inPopping' = [inPopping EXCEPT !["render"] = TRUE] /\ UNCHANGED inQueue
    <3>1. UNCHANGED <<readBuffer, render>>
      BY <1>0, <1>2, <2>2 DEF ReadPop
    <3>2. /\ io' # "run" => inPushing["io"] = Moved
          /\ inQueue'.closed => io' # "run"
          /\ render' # "done"
      BY <2>1, <2>2, <3>1 DEF InputInv
    <3> QED BY <2>1, <2>2, <3>1, <3>2, InputUnchanged
  <2>3. CASE /\ inPopping' = [inPopping EXCEPT !["render"] = FALSE]
             /\ \/ /\ In!IsEmpty(inQueue) /\ inQueue.closed /\ UNCHANGED inQueue
                   /\ In!Return("render", In!Failed("EIO"))
                \/ ~In!IsEmpty(inQueue) /\ In!TryPopLocked("render")
    <3>1. AfterPop
      BY <1>0, <1>2, <2>3 DEF ReadPop
    <3>2. CASE /\ In!IsEmpty(inQueue) /\ inQueue.closed /\ UNCHANGED inQueue
               /\ In!Return("render", In!Failed("EIO"))
      <4>1. inQueue.count = 0 /\ inRet'["render"].code # "OK"
        BY <1>0, <3>2 DEF In!IsEmpty, In!Return, In!Failed
      <4> QED BY <2>1, <3>1, <3>2, <4>1, AfterPopKeepsInput
    <3>3. CASE ~In!IsEmpty(inQueue) /\ In!TryPopLocked("render")
      BY <2>1, <3>1, <3>3, AfterPopKeepsInput DEF In!IsEmpty
    <3> QED BY <2>3, <3>2, <3>3
  <2> QED BY <2>1, <2>2, <2>3 DEF In!PopTurn
<1> QED BY <1>1, <1>2

\* Every step of the three threads keeps the layout.
LEMMA NextKeepsInput ==
  ASSUME InputInv, want \in Nat, In!TypeOK, InRing, [Next]_vars
  PROVE  InputInv'
<1>1. CASE (PostData \/ PostResume) /\ UNCHANGED <<render, readVars>>
  BY <1>1, PostKeepsInput DEF readVars
<1>2. CASE Destroy /\ UNCHANGED <<render, readVars>>
  BY <1>2, InputUnchanged DEF Destroy, readVars, inVars, InputInv
<1>3. CASE ForceStopIn /\ UNCHANGED <<render, readVars>>
  <2>1. /\ io = "stop" /\ io' = "closeOut" /\ UNCHANGED <<posted, inPushing, render, readBuffer, received>>
        /\ inQueue' = [inQueue EXCEPT !.closed = TRUE]
    BY <1>3 DEF ForceStopIn, In!CloseLocked, readVars
  <2>2. /\ inQueue'.closed /\ inQueue'.count = inQueue.count
        /\ In!Contents(inQueue') = In!Contents(inQueue)
    BY <2>1 DEF In!TypeOK, In!QueueType, In!Contents
  <2> QED BY <2>1, <2>2, InputUnchanged DEF InputInv
<1>4. CASE (ReadPop \/ ReadTryPop) /\ UNCHANGED <<posted, io>>
  BY <1>4, ReadPopKeepsInput
<1>5. CASE ReadCopy /\ UNCHANGED <<posted, io>>
  BY <1>5, ReadCopyKeepsInput
<1>6. CASE /\ UNCHANGED <<posted, inQueue, inPushing, readBuffer, received>>
           /\ render' = "done" => render = "done"
           /\ io' # "run" => io # "run"
           /\ io' = "run" => io = "run"
  BY <1>6, InputUnchanged DEF InputInv
<1>7. CASE IoStep
  BY <1>1, <1>2, <1>3, <1>6, <1>7
     DEF IoStep, Shutdown, ForceStopOut, NotifyPush, NotifyPop, WaitRender, Join, inVars, readVars
<1>8. CASE ReadStep
  BY <1>4, <1>5, <1>6, <1>8
     DEF ReadStep, ReadBegin, ReadReturn, Return, inVars, readVars
<1>14. CASE DecodeStep
  BY <1>6, <1>14, Zenon DEF DecodeStep, DecodeBegin, Decoded, inVars, readVars
<1>15. CASE OthersStep
  BY <1>6, <1>15 DEF OthersStep, inVars, readVars
<1>9. CASE CommitBegin /\ UNCHANGED <<inVars, lock, io, stops, posted, readVars, decodeVars, workerVars>>
  BY <1>6, <1>9 DEF CommitBegin, inVars, readVars
<1>10. CASE CommitStep
  BY <1>6, <1>10 DEF CommitStep, CommitFull, CommitWait, CommitResume, CommitPush, inVars, readVars
<1>11. CASE WorkerStep
  BY <1>6, <1>11 DEF WorkerStep, inVars, readVars
<1>12. CASE SpuriousWakeup
  BY <1>6, <1>12 DEF SpuriousWakeup, In!SpuriousWakeup, inVars, readVars
<1>13. CASE UNCHANGED vars
  BY <1>6, <1>13 DEF vars, inVars, readVars
<1> QED BY <1>7, <1>8, <1>9, <1>10, <1>11, <1>12, <1>13, <1>14, <1>15 DEF Next, RenderStep, Finished

\* What a read has room for is a number of bytes.
LEMMA WantIsNat == want \in Nat /\ [Next]_vars => (want \in Nat)'
<1> SUFFICES ASSUME want \in Nat, [Next]_vars PROVE want' \in Nat
  OBVIOUS
<1>1. CASE ReadBegin
  BY <1>1, BoundsAssumption DEF ReadBegin
<1>2. CASE ReadCopy
  <2> DEFINE avail == IF want < Len(readBuffer) THEN want ELSE Len(readBuffer)
  <2>1. want' = want - avail
    BY <1>2 DEF ReadCopy
  <2> QED BY <2>1
<1>3. CASE UNCHANGED want
  BY <1>3
<1> QED
  BY <1>1, <1>2, <1>3
     DEF Next, vars, IoStep, RenderStep, ReadStep, ReadPop, ReadTryPop, ReadReturn, DecodeStep,
         CommitStep, WorkerStep, OthersStep, SpuriousWakeup, Finished, readVars

\* Nothing is left anywhere when the render thread has ended.
LEMMA InputInvSuffices ==
  ASSUME InputInv, InRing
  PROVE  InputIsByteExact
<1>1. PICK k \in 0 .. posted : \E m \in 0 .. k : \E n \in 0 .. m : InLayout(k, m, n)
  BY DEF InputInv
<1>2. PICK m \in 0 .. k : \E n \in 0 .. m : InLayout(k, m, n)
  BY <1>1
<1>3. PICK n \in 0 .. m : InLayout(k, m, n)
  BY <1>2
<1>4. k \in Nat /\ m \in Nat /\ n \in Nat /\ posted \in Nat /\ posted - k \in Nat /\ m - n \in Nat
  BY DEF InputInv
<1>5. n \in 0 .. posted /\ received = Bytes(0, n)
  BY <1>3, <1>4 DEF InLayout
<1>6. ASSUME render = "done" PROVE n = posted
  <2>1. Pending = <<>> /\ readBuffer = <<>> /\ inQueue.count = 0
    BY <1>6 DEF InputInv, Pending
  <2>2. In!Contents(inQueue) = <<>>
    BY <2>1 DEF InRing
  <2>3. Bytes(0, k) \in Seq(Nat) /\ Len(Bytes(0, k)) = k
    BY <1>4, BytesIsSeq
  <2>4. m = k
    BY <1>3, <2>2, <2>3, TilesEmpty DEF InLayout
  <2>5. Len(Bytes(n, m - n)) = m - n /\ Len(Bytes(k, posted - k)) = posted - k /\ Len(<<>>) = 0
    BY <1>4, BytesIsSeq, Zenon
  <2> QED BY <1>3, <1>4, <2>1, <2>4, <2>5 DEF InLayout
<1> QED BY <1>5, <1>6 DEF InputIsByteExact

\* Nothing has been posted at first.
LEMMA InitInput == Init => InputInv
<1> SUFFICES ASSUME Init PROVE InputInv
  OBVIOUS
<1>1. /\ posted = 0 /\ io = "run" /\ render = "idle" /\ received = <<>> /\ readBuffer = <<>>
      /\ inQueue = In!EmptyQueue /\ inPushing = [p \in {"io"} |-> Moved]
  BY DEF Init, In!Init
<1>2. ~inQueue.closed /\ In!Contents(inQueue) = <<>> /\ Pending = <<>> /\ inPushing["io"] = Moved
  BY <1>1 DEF In!EmptyQueue, In!Contents, Pending
<1>3. Bytes(0, 0) = <<>>
  BY BytesEmpty
<1>4. Tiles(<<>>, <<>>, 0)
  <2>1. <<>> \in Seq(Nat) /\ Len(<<>>) = 0
    OBVIOUS
  <2> QED BY <2>1, TilesEmpty, Zenon
<1>5. InLayout(0, 0, 0)
  BY <1>1, <1>2, <1>3, <1>4 DEF InLayout
<1> QED BY <1>1, <1>2, <1>5 DEF InputInv

(***************************************************************************)
(* From commitBuffer to the socket.                                        *)
(***************************************************************************)
\* What the ring lemmas of BufferQueueProofs say of out_queue_.
OutWellFormed(q) == q \in Out!QueueType /\ Out!HoldsBuffers(q)

OutRing ==
  LET q == outQueue
      c == Out!Contents(q)
  IN  /\ c \in Seq(Chunks(MaxOut)) /\ Len(c) = q.count
      /\ \A b \in Chunks(MaxOut) : q.count < OutCapacity =>
           /\ OutWellFormed(Out!Enqueued(q, b))
           /\ Out!Contents(Out!Enqueued(q, b)) = Append(c, b)
      /\ q.count # 0 => /\ OutWellFormed(Out!Dequeued(q))
                        /\ Out!Front(q) = Head(c)
                        /\ Out!Contents(Out!Dequeued(q)) = Tail(c)

\* The first n elements of s.
First(s, n) == {s[i] : i \in 1 .. n}

Increasing(s) == \A i, j \in 1 .. Len(s) : i < j => s[i] < s[j]

\* w holds the first n elements of a in order, without those of the set g.
Settled(a, n, w, g) ==
  /\ w \in Seq(Nat) /\ Increasing(w)
  /\ Range(w) = First(a, n) \ g
  /\ g \subseteq First(a, n)

\* Of the bytes accepted, the first n have been written or given up, those up to
\* u are the worker's, and the rest is in out_queue_.
OutLayout(n) ==
  /\ Settled(accepted, n, wire, givenUp)
  /\ \E u \in n .. Len(accepted) : /\ unsent = SubSeq(accepted, n + 1, u)
                                   /\ Tiles(Out!Contents(outQueue), accepted, u)

Committing == render \in {"commit", "commitWait", "commitAsleep"}

\* The next byte to be accepted is greater than the ones that were: those are at
\* most m, and a buffer that is being committed holds the bytes after m.
Backlog(m) ==
  /\ \A i \in 1 .. Len(accepted) : accepted[i] <= m
  /\ IF Committing THEN \E k \in 0 .. committed : outPushing["render"] = Bytes(m, k) /\ committed = m + k
                   ELSE committed = m

\* The worker holds bytes only while it sends, and ends only when out_queue_ is
\* closed and empty; the destructor's join waits for that.
OutputInv ==
  /\ OutWellFormed(outQueue)
  /\ DOMAIN outPushing = {"render"} /\ DOMAIN outRet = {"render", "worker", "io"}
  /\ committed \in Nat /\ accepted \in Seq(Nat)
  /\ Committing => outPushing["render"] \in Chunks(MaxOut)
  /\ worker # "send" => unsent = <<>>
  /\ worker = "done" => outQueue.closed /\ outQueue.count = 0
  /\ io = "done" => worker = "done"
  /\ Increasing(accepted) /\ \E m \in 0 .. committed : Backlog(m)
  /\ \E n \in 0 .. Len(accepted) : OutLayout(n)

\* A part of a that is written is settled.
LEMMA WrittenIsSettled ==
  ASSUME NEW a \in Seq(Nat), Increasing(a), NEW w, NEW g, NEW n \in 0 .. Len(a),
         NEW k \in 0 .. Len(a) - n, Settled(a, n, w, g)
  PROVE  Settled(a, n + k, w \o SubSeq(a, n + 1, n + k), g)
<1> DEFINE t == SubSeq(a, n + 1, n + k)
           w2 == w \o t
<1>1. /\ w \in Seq(Nat) /\ Increasing(w) /\ Range(w) = First(a, n) \ g /\ g \subseteq First(a, n)
      /\ Len(a) \in Nat /\ Len(w) \in Nat
  BY DEF Settled
<1>2. t \in Seq(Nat) /\ Len(t) = k /\ \A i \in 1 .. k : t[i] = a[n + i]
  <2>1. n + 1 \in 1 .. Len(a) + 1 /\ n + k \in n .. Len(a)
    BY <1>1
  <2> QED BY <1>1, <2>1
<1>3. \A i \in 1 .. Len(w) : \E l \in 1 .. n : w[i] = a[l]
  <2> SUFFICES ASSUME NEW i \in 1 .. Len(w) PROVE \E l \in 1 .. n : w[i] = a[l]
    OBVIOUS
  <2>1. w[i] \in Range(w)
    BY <1>1 DEF Range
  <2> QED BY <1>1, <2>1, Zenon DEF First
<1> HIDE DEF t
<1>0. /\ w2 \in Seq(Nat) /\ Len(w2) = Len(w) + Len(t)
      /\ \A i \in 1 .. Len(w) + Len(t) : w2[i] = IF i <= Len(w) THEN w[i] ELSE t[i - Len(w)]
  BY <1>1, <1>2, ConcatProperties, Zenon
<1> HIDE DEF w2
<1>4. w2 \in Seq(Nat) /\ Len(w2) = Len(w) + k
  BY <1>0, <1>2, Zenon
<1>5. ASSUME NEW i \in 1 .. Len(w) PROVE w2[i] = w[i]
  <2>1. i \in 1 .. Len(w) + Len(t) /\ i <= Len(w)
    BY <1>1, <1>2
  <2> QED BY <1>0, <2>1
<1>6. ASSUME NEW i \in 1 .. k PROVE w2[Len(w) + i] = a[n + i]
  <2>0. Len(w) \in Nat /\ Len(t) = k
    BY <1>1, <1>2
  <2>1. /\ Len(w) + i \in 1 .. Len(w) + Len(t) /\ ~(Len(w) + i <= Len(w))
        /\ (Len(w) + i) - Len(w) = i
    BY <2>0
  <2>2. w2[Len(w) + i] = t[(Len(w) + i) - Len(w)]
    BY <1>0, <2>1, Zenon
  <2> QED BY <1>2, <2>1, <2>2
<1>11. Range(w2) = {w2[i] : i \in 1 .. Len(w2)} /\ Range(w) = {w[i] : i \in 1 .. Len(w)}
  BY <1>1, <1>4, RangeEquality, Zenon
<1>7. Increasing(w2)
  <2> SUFFICES ASSUME NEW i \in 1 .. Len(w2), NEW j \in 1 .. Len(w2), i < j PROVE w2[i] < w2[j]
    BY Zenon DEF Increasing
  <2>1. CASE j \in 1 .. Len(w)
    <3>1. i \in 1 .. Len(w)
      BY <1>1, <2>1
    <3> QED BY <1>1, <1>5, <2>1, <3>1 DEF Increasing
  <2>2. CASE j \notin 1 .. Len(w) /\ i \in 1 .. Len(w)
    <3>1. j - Len(w) \in 1 .. k /\ Len(w) + (j - Len(w)) = j
      BY <1>1, <1>4, <2>2
    <3>2. w2[j] = a[n + (j - Len(w))]
      BY <1>6, <3>1, Zenon
    <3>3. PICK l \in 1 .. n : w[i] = a[l]
      BY <1>3, <2>2, Zenon
    <3>4. l \in 1 .. Len(a) /\ n + (j - Len(w)) \in 1 .. Len(a) /\ l < n + (j - Len(w))
      BY <1>1, <3>1
    <3>5. a[l] < a[n + (j - Len(w))]
      BY <3>4 DEF Increasing
    <3> QED BY <1>5, <2>2, <3>2, <3>3, <3>5
  <2>3. CASE j \notin 1 .. Len(w) /\ i \notin 1 .. Len(w)
    <3>1. /\ j - Len(w) \in 1 .. k /\ Len(w) + (j - Len(w)) = j
          /\ i - Len(w) \in 1 .. k /\ Len(w) + (i - Len(w)) = i
      BY <1>1, <1>4, <2>3
    <3>2. w2[j] = a[n + (j - Len(w))] /\ w2[i] = a[n + (i - Len(w))]
      BY <1>6, <3>1, Zenon
    <3>3. /\ n + (i - Len(w)) \in 1 .. Len(a) /\ n + (j - Len(w)) \in 1 .. Len(a)
          /\ n + (i - Len(w)) < n + (j - Len(w))
      BY <1>1, <3>1
    <3>4. a[n + (i - Len(w))] < a[n + (j - Len(w))]
      BY <3>3, Zenon DEF Increasing
    <3> QED BY <3>2, <3>4
  <2> QED BY <2>1, <2>2, <2>3
<1>8. First(a, n) \subseteq First(a, n + k)
  BY <1>1 DEF First
<1>9. Range(w2) \subseteq First(a, n + k) \ g
  <2> SUFFICES ASSUME NEW i \in 1 .. Len(w2) PROVE w2[i] \in First(a, n + k) \ g
    BY <1>11, Zenon
  <2>1. CASE i \in 1 .. Len(w)
    <3>1. w2[i] \in Range(w)
      BY <1>5, <1>11, <2>1, Zenon
    <3> QED BY <1>1, <1>8, <3>1
  <2>2. CASE i \notin 1 .. Len(w)
    <3>1. i - Len(w) \in 1 .. k /\ Len(w) + (i - Len(w)) = i /\ n + (i - Len(w)) \in 1 .. n + k
      BY <1>1, <1>4, <2>2
    <3>2. w2[i] = a[n + (i - Len(w))]
      BY <1>6, <3>1
    <3>3. a[n + (i - Len(w))] \notin First(a, n)
      <4>0. Len(w) \in Nat /\ Len(a) \in Nat
        BY <1>1
      <4> SUFFICES ASSUME NEW l \in 1 .. n, a[l] = a[n + (i - Len(w))] PROVE FALSE
        BY Zenon DEF First
      <4>1. l \in 1 .. Len(a) /\ n + (i - Len(w)) \in 1 .. Len(a) /\ l < n + (i - Len(w))
        <5> DEFINE d == i - Len(w)
        <5>1. d \in 1 .. k
          BY <3>1
        <5> HIDE DEF d
        <5>2. l \in 1 .. Len(a) /\ n + d \in 1 .. Len(a) /\ l < n + d
          BY <4>0, <5>1
        <5> QED BY <5>2 DEF d
      <4>2. a[l] < a[n + (i - Len(w))]
        BY <4>1, Zenon DEF Increasing
      <4>3. a[l] \in Nat
        BY <4>1
      <4> QED BY <4>2, <4>3
    <3>4. a[n + (i - Len(w))] \in First(a, n + k)
      BY <3>1, Zenon DEF First
    <3> QED BY <1>1, <3>2, <3>3, <3>4
  <2> QED BY <2>1, <2>2
<1>10. First(a, n + k) \ g \subseteq Range(w2)
  <2> SUFFICES ASSUME NEW l \in 1 .. n + k, a[l] \notin g PROVE a[l] \in Range(w2)
    BY Zenon DEF First
  <2>1. CASE l \in 1 .. n
    <3>1. a[l] \in Range(w)
      BY <1>1, <2>1 DEF First
    <3>2. PICK i \in 1 .. Len(w) : w[i] = a[l]
      BY <1>11, <3>1, Zenon
    <3>3. i \in 1 .. Len(w2) /\ w2[i] = a[l]
      BY <1>1, <1>4, <1>5, <3>2
    <3> QED BY <1>11, <3>3, Zenon
  <2>2. CASE l \notin 1 .. n
    <3>1. l - n \in 1 .. k /\ n + (l - n) = l /\ Len(w) + (l - n) \in 1 .. Len(w2)
      BY <1>1, <1>4, <2>2
    <3>2. w2[Len(w) + (l - n)] = a[l]
      BY <1>6, <3>1, Zenon
    <3> QED BY <1>11, <3>1, <3>2, Zenon
  <2> QED BY <2>1, <2>2
<1> QED BY <1>1, <1>4, <1>7, <1>8, <1>9, <1>10 DEF Settled, w2, t

\* A part of a that is given up is settled.
LEMMA GivenUpIsSettled ==
  ASSUME NEW a \in Seq(Nat), Increasing(a), NEW w, NEW g, NEW n \in 0 .. Len(a),
         NEW u \in n .. Len(a), Settled(a, n, w, g)
  PROVE  Settled(a, u, w, g \cup Range(SubSeq(a, n + 1, u)))
<1> DEFINE t == SubSeq(a, n + 1, u)
           h == Range(t)
<1>1. /\ w \in Seq(Nat) /\ Increasing(w) /\ Range(w) = First(a, n) \ g /\ g \subseteq First(a, n)
      /\ Len(a) \in Nat
  BY DEF Settled
<1>2. t \in Seq(Nat) /\ Len(t) = u - n /\ \A i \in 1 .. u - n : t[i] = a[n + i]
  <2>1. n + 1 \in 1 .. Len(a) + 1 /\ u \in Nat
    BY <1>1
  <2> QED BY <1>1, <2>1
<1> HIDE DEF t
<1>3. First(a, u) = First(a, n) \cup h
  <2>1. First(a, n) \subseteq First(a, u)
    BY <1>1 DEF First
  <2>2. h \subseteq First(a, u)
    <3> SUFFICES ASSUME NEW i \in 1 .. u - n PROVE t[i] \in First(a, u)
      BY <1>2 DEF Range
    <3>1. n + i \in 1 .. u /\ t[i] = a[n + i]
      BY <1>1, <1>2
    <3> QED BY <3>1, Zenon DEF First
  <2>3. ASSUME NEW l \in 1 .. u PROVE a[l] \in First(a, n) \cup h
    <3>1. CASE l \in 1 .. n
      BY <3>1, Zenon DEF First
    <3>2. CASE l \notin 1 .. n
      <4>1. l - n \in 1 .. u - n /\ n + (l - n) = l
        BY <1>1, <3>2
      <4>2. t[l - n] = a[l] /\ Range(t) = {t[i] : i \in 1 .. Len(t)}
        BY <1>2, <4>1, RangeEquality, Zenon
      <4> QED BY <1>2, <4>1, <4>2, Zenon
    <3> QED BY <3>1, <3>2
  <2>4. First(a, u) \subseteq First(a, n) \cup h
    BY <2>3, Zenon DEF First
  <2> QED BY <2>1, <2>2, <2>4
<1>4. ASSUME NEW i \in 1 .. u - n, NEW l \in 1 .. n PROVE t[i] # a[l]
  <2>0. t[i] = a[n + i]
    BY <1>2
  <2>1. l \in 1 .. Len(a) /\ n + i \in 1 .. Len(a) /\ l < n + i
    BY <1>1
  <2>2. a[l] < a[n + i] /\ a[l] \in Nat
    BY <2>1 DEF Increasing
  <2> QED BY <2>0, <2>1, <2>2
<1>5. h \cap First(a, n) = {}
  <2> SUFFICES ASSUME NEW x \in h, x \in First(a, n) PROVE FALSE
    OBVIOUS
  <2>1. PICK i \in 1 .. u - n : x = t[i]
    BY <1>2 DEF Range
  <2>2. PICK l \in 1 .. n : x = a[l]
    BY Zenon DEF First
  <2> QED BY <1>4, <2>1, <2>2, Zenon
<1> HIDE DEF h
<1>6. First(a, n) \ g = First(a, u) \ (g \cup h) /\ g \cup h \subseteq First(a, u)
  BY <1>1, <1>3, <1>5
<1> QED BY <1>1, <1>6, Zenon DEF Settled, h, t

\* What is settled stays so when a grows, and a grows by greater elements.
LEMMA GrownIsSettled ==
  ASSUME NEW a \in Seq(Nat), NEW m \in Nat, NEW k \in Nat, NEW w, NEW g, NEW n \in 0 .. Len(a),
         Settled(a, n, w, g)
  PROVE  Settled(a \o Bytes(m, k), n, w, g)
<1>1. Bytes(m, k) \in Seq(Nat)
  BY BytesIsSeq, Zenon
<1>2. \A i \in 1 .. n : (a \o Bytes(m, k))[i] = a[i]
  <2>1. Len(a) \in Nat
    OBVIOUS
  <2> QED BY <1>1, <2>1
<1>3. First(a \o Bytes(m, k), n) = First(a, n)
  BY <1>2, Zenon DEF First
<1> QED BY <1>3, Zenon DEF Settled

LEMMA GrownIsIncreasing ==
  ASSUME NEW a \in Seq(Nat), Increasing(a), NEW m \in Nat, NEW k \in Nat,
         \A i \in 1 .. Len(a) : a[i] <= m
  PROVE  /\ Increasing(a \o Bytes(m, k))
         /\ \A i \in 1 .. Len(a \o Bytes(m, k)) : (a \o Bytes(m, k))[i] <= m + k
<1> DEFINE b == Bytes(m, k)
           c == a \o b
<1>1. b \in Seq(Nat) /\ Len(b) = k /\ \A i \in 1 .. k : b[i] = m + i
  BY BytesIsSeq, Zenon
<1> HIDE DEF b
<1>0. /\ Len(c) = Len(a) + Len(b)
      /\ \A i \in 1 .. Len(a) + Len(b) : c[i] = IF i <= Len(a) THEN a[i] ELSE b[i - Len(a)]
  BY <1>1, ConcatProperties, Zenon
<1> HIDE DEF c
<1>2. Len(a) \in Nat /\ Len(c) = Len(a) + k
  BY <1>0, <1>1
<1>3. ASSUME NEW i \in 1 .. Len(c), i \notin 1 .. Len(a) PROVE c[i] = m + (i - Len(a)) /\ i > Len(a)
  <2>1. i \in 1 .. Len(a) + Len(b) /\ ~(i <= Len(a)) /\ i - Len(a) \in 1 .. k
    BY <1>0, <1>1, <1>2, <1>3
  <2>2. c[i] = b[i - Len(a)]
    BY <1>0, <2>1
  <2> QED BY <1>1, <1>2, <2>1, <2>2
<1>4. ASSUME NEW i \in 1 .. Len(a) PROVE c[i] \in Nat /\ c[i] <= m /\ c[i] = a[i]
  <2>1. i \in 1 .. Len(a) + Len(b) /\ i <= Len(a)
    BY <1>1, <1>2
  <2>2. c[i] = a[i]
    BY <1>0, <2>1
  <2> QED BY <2>2
<1>5. \A i \in 1 .. Len(c) : c[i] <= m + k
  BY <1>2, <1>3, <1>4
<1>6. Increasing(c)
  <2> SUFFICES ASSUME NEW i \in 1 .. Len(c), NEW j \in 1 .. Len(c), i < j PROVE c[i] < c[j]
    BY Zenon DEF Increasing
  <2>1. CASE j \in 1 .. Len(a)
    <3>1. i \in 1 .. Len(a)
      BY <1>2, <2>1
    <3>2. a[i] < a[j]
      BY <2>1, <3>1 DEF Increasing
    <3> QED BY <1>4, <2>1, <3>1, <3>2
  <2>2. CASE j \notin 1 .. Len(a) /\ i \in 1 .. Len(a)
    BY <1>2, <1>3, <1>4, <2>2
  <2>3. CASE j \notin 1 .. Len(a) /\ i \notin 1 .. Len(a)
    BY <1>2, <1>3, <2>3
  <2> QED BY <2>1, <2>2, <2>3
<1> QED BY <1>5, <1>6 DEF c, b

\* Nothing has been committed at first.
LEMMA InitOutput == Init => OutputInv
<1> SUFFICES ASSUME Init PROVE OutputInv
  OBVIOUS
<1>1. /\ outQueue = Out!EmptyQueue /\ outPushing = [p \in {"render"} |-> Moved]
      /\ outRet = [t \in Out!Threads |-> Out!Failed("NONE")]
      /\ committed = 0 /\ accepted = <<>> /\ unsent = <<>> /\ wire = <<>> /\ givenUp = {}
      /\ render = "idle" /\ worker = "pop" /\ io = "run"
  BY DEF Init, Out!Init
<1>2. OutWellFormed(outQueue) /\ Out!Contents(outQueue) = <<>>
  BY <1>1, OutAssumptions
     DEF OutWellFormed, Out!EmptyQueue, Out!QueueType, Out!HoldsBuffers, Out!Contents, Out!Slots
<1>3. Tiles(<<>>, <<>>, 0)
  <2>1. <<>> \in Seq(Nat) /\ Len(<<>>) = 0
    OBVIOUS
  <2> QED BY <2>1, TilesEmpty, Zenon
<1>4. <<>> \in Seq(Nat) /\ Len(<<>>) = 0 /\ SubSeq(<<>>, 0 + 1, 0) = <<>>
  BY SubSeqEmpty
<1>7. Settled(<<>>, 0, <<>>, {}) /\ Increasing(<<>>)
  <2>1. Increasing(<<>>)
    BY DEF Increasing
  <2>2. Range(<<>>) = {} /\ First(<<>>, 0) = {}
    BY DEF Range, First
  <2> QED BY <1>4, <2>1, <2>2, Zenon DEF Settled
<1>8. Backlog(0)
  BY <1>1, <1>4 DEF Backlog, Committing
<1>5. OutLayout(0)
  BY <1>1, <1>2, <1>3, <1>4, <1>7 DEF OutLayout
<1>6. Out!Threads = {"render", "worker", "io"}
  BY DEF Out!Threads
<1> QED BY <1>1, <1>2, <1>4, <1>5, <1>6, <1>7, <1>8 DEF OutputInv, Committing

\* A step that changes neither the contents of out_queue_ nor what was accepted
\* or written.
LEMMA OutputUnchanged ==
  ASSUME OutputInv, UNCHANGED <<accepted, wire, givenUp, unsent>>,
         OutWellFormed(outQueue'), Out!Contents(outQueue') = Out!Contents(outQueue),
         outQueue'.count = outQueue.count, outQueue.closed => outQueue'.closed,
         DOMAIN outPushing' = DOMAIN outPushing, DOMAIN outRet' = DOMAIN outRet, committed' \in Nat,
         Committing' => outPushing'["render"] \in Chunks(MaxOut),
         \E m \in 0 .. committed' : Backlog(m)',
         worker' # "send" => worker # "send",
         worker' = "done" => worker = "done" \/ (outQueue.closed /\ outQueue.count = 0),
         worker = "done" => worker' = "done",
         io' = "done" => worker' = "done"
  PROVE  OutputInv'
<1>1. PICK w \in 0 .. Len(accepted) : OutLayout(w)
  BY DEF OutputInv
<1>2. OutLayout(w)'
  BY <1>1, Zenon DEF OutLayout
<1> QED BY <1>1, <1>2 DEF OutputInv

\* commitBuffer: an accepted buffer goes to the end of the queue.
LEMMA CommitPushKeepsOutput ==
  ASSUME OutputInv, OutRing, CommitPush, UNCHANGED <<io, workerVars>>
  PROVE  OutputInv'
<1> DEFINE b == outPushing["render"]
<1>0. /\ render = "commit" /\ render' = "decode" /\ b \in Chunks(MaxOut)
      /\ DOMAIN outPushing' = {"render"} /\ UNCHANGED <<worker, unsent, wire, givenUp, committed>>
      /\ outQueue.count \in 0 .. OutCapacity /\ outQueue.closed \in BOOLEAN
  BY Zenon DEF OutputInv, CommitPush, Committing, workerVars, OutWellFormed, Out!QueueType
<1>3. PICK m \in 0 .. committed : Backlog(m)
  BY Zenon DEF OutputInv
<1>4. PICK k \in 0 .. committed : b = Bytes(m, k) /\ committed = m + k
  BY <1>0, <1>3 DEF Backlog, Committing
<1>5. ~Committing' /\ committed \in Nat /\ committed \in 0 .. committed /\ m \in Nat /\ k \in Nat
  BY <1>0 DEF Committing, OutputInv
<1>1. CASE UNCHANGED outQueue /\ \E e \in {"EIO", "EAGAIN"} : Out!Return("render", Out!Failed(e))
  <2>1. outRet'["render"].code # "OK" /\ DOMAIN outRet' = DOMAIN outRet
    BY <1>1 DEF OutputInv, Out!Return, Out!Failed
  <2>2. UNCHANGED accepted
    BY <2>1, Zenon DEF CommitPush
  <2>3. \A i \in 1 .. Len(accepted) : accepted[i] <= committed
    <3>1. ASSUME NEW i \in 1 .. Len(accepted) PROVE accepted[i] <= committed
      <4>1. accepted[i] <= m /\ accepted[i] \in Nat
        BY <1>3 DEF Backlog, OutputInv
      <4> QED BY <1>4, <1>5, <4>1
    <3> QED BY <3>1
  <2>4. Backlog(committed)'
    BY <1>0, <1>5, <2>2, <2>3, Zenon DEF Backlog
  <2> QED BY <1>0, <1>1, <1>5, <2>1, <2>2, <2>4, OutputUnchanged, Zenon DEF OutputInv
<1>2. CASE /\ ~outQueue.closed /\ outQueue.count < OutCapacity
           /\ outQueue' = Out!Enqueued(outQueue, b) /\ Out!Return("render", Out!Pushed)
  <2>1. outRet'["render"].code = "OK" /\ DOMAIN outRet' = DOMAIN outRet
    BY <1>2 DEF OutputInv, Out!Return, Out!Pushed
  <2>2. accepted' = accepted \o b
    BY <2>1 DEF CommitPush
  <2>3. /\ OutWellFormed(outQueue')
        /\ Out!Contents(outQueue') = Append(Out!Contents(outQueue), b)
    BY <1>0, <1>2 DEF OutRing
  <2>4. b \in Seq(Nat) /\ accepted \in Seq(Nat) /\ Len(accepted) \in Nat /\ Len(b) \in Nat
    <3>2. b \in Seq(Nat)
      BY <1>4, <1>5, BytesIsSeq, Zenon
    <3> QED BY <3>2 DEF OutputInv
  <2>5. accepted' \in Seq(Nat) /\ Len(accepted') = Len(accepted) + Len(b)
    BY <2>2, <2>4
  <2>6. PICK n \in 0 .. Len(accepted) : OutLayout(n)
    BY DEF OutputInv
  <2>7. Settled(accepted', n, wire', givenUp')
    <3>1. Settled(accepted, n, wire, givenUp)
      BY <2>6 DEF OutLayout
    <3> QED BY <1>0, <1>4, <1>5, <2>2, <2>4, <3>1, GrownIsSettled, Zenon
  <2>8. \E u \in n .. Len(accepted') : /\ unsent' = SubSeq(accepted', n + 1, u)
                                       /\ Tiles(Out!Contents(outQueue'), accepted', u)
    <3>1. PICK u \in n .. Len(accepted) : /\ unsent = SubSeq(accepted, n + 1, u)
                                          /\ Tiles(Out!Contents(outQueue), accepted, u)
      BY <2>6 DEF OutLayout
    <3>2. SubSeq(accepted \o b, n + 1, u) = SubSeq(accepted, n + 1, u)
      BY <2>4, <2>6, <3>1, SubSeqLeft
    <3>3. Tiles(Append(Out!Contents(outQueue), b), accepted \o b, u)
      <4> HIDE DEF b
      <4> QED BY <2>4, <3>1, TilesAppend DEF OutRing
    <3>4. u \in n .. Len(accepted')
      BY <2>4, <2>5, <2>6
    <3> QED BY <1>0, <2>2, <2>3, <3>1, <3>2, <3>3, <3>4
  <2>9. OutLayout(n)' /\ n \in 0 .. Len(accepted')
    BY <2>4, <2>5, <2>7, <2>8 DEF OutLayout
  <2>11. Increasing(accepted') /\ \A i \in 1 .. Len(accepted') : accepted'[i] <= m + k
    <3>1. Increasing(accepted) /\ \A i \in 1 .. Len(accepted) : accepted[i] <= m
      BY <1>3, Zenon DEF OutputInv, Backlog
    <3> QED BY <1>4, <1>5, <2>2, <2>4, <3>1, GrownIsIncreasing, Zenon
  <2>12. Backlog(committed)'
    BY <1>0, <1>4, <1>5, <2>11, Zenon DEF Backlog
  <2>10. worker # "done"
    BY <1>2 DEF OutputInv
  <2> QED BY <1>0, <1>5, <2>1, <2>3, <2>5, <2>9, <2>10, <2>11, <2>12, Zenon DEF OutputInv
<1> QED
  BY <1>0, <1>1, <1>2, Zenon DEF CommitPush, Out!TryPushLocked, Out!IsFull

\* thread_main's pop: the oldest queued buffer becomes the worker's.
LEMMA WorkerPopKeepsOutput ==
  ASSUME OutputInv, OutRing, WorkerPop, UNCHANGED <<io, render, committed, accepted>>
  PROVE  OutputInv'
<1>0. /\ worker = "test" /\ unsent = <<>> /\ UNCHANGED <<outPushing, wire, givenUp>>
      /\ outQueue.count \in Nat /\ io # "done"
  <2>1. worker = "test" /\ UNCHANGED <<outPushing, wire, givenUp>>
    BY Zenon DEF WorkerPop
  <2>2. unsent = <<>> /\ io # "done"
    BY <2>1, Zenon DEF OutputInv
  <2>3. OutWellFormed(outQueue)
    BY Zenon DEF OutputInv
  <2>4. outQueue.count \in Nat
    BY <2>3 DEF OutWellFormed, Out!QueueType
  <2> QED BY <2>1, <2>2, <2>4
<1>3. \E m \in 0 .. committed' : Backlog(m)'
  BY <1>0 DEF OutputInv, Backlog, Committing
<1>1. CASE Out!IsEmpty(outQueue)
  <2>1. UNCHANGED outQueue /\ outQueue.closed /\ DOMAIN outRet' = DOMAIN outRet
    BY <1>1, Zenon DEF WorkerPop, Out!TryPopLocked, Out!Return
  <2>2. outRet'["worker"].code # "OK"
    BY <1>1 DEF OutputInv, WorkerPop, Out!TryPopLocked, Out!Return, Out!Failed
  <2>3. worker' = "done" /\ UNCHANGED unsent
    BY <2>2 DEF WorkerPop
  <2> QED BY <1>0, <1>1, <1>3, <2>1, <2>3, OutputUnchanged, Zenon DEF OutputInv, Out!IsEmpty, Committing
<1>2. CASE ~Out!IsEmpty(outQueue)
  <2>1. /\ outQueue' = Out!Dequeued(outQueue)
        /\ outRet' = [outRet EXCEPT !["worker"] = Out!Popped(Out!Front(outQueue))]
    BY <1>2 DEF WorkerPop, Out!TryPopLocked, Out!Return
  <2>2. /\ OutWellFormed(outQueue')
        /\ Out!Contents(outQueue') = Tail(Out!Contents(outQueue))
        /\ Out!Front(outQueue) = Head(Out!Contents(outQueue))
        /\ Out!Contents(outQueue) \in Seq(Chunks(MaxOut)) /\ Out!Contents(outQueue) # <<>>
    BY <1>0, <1>2, <2>1 DEF OutRing, Out!IsEmpty
  <2>3. /\ outRet'["worker"].code = "OK" /\ DOMAIN outRet' = DOMAIN outRet
        /\ outRet'["worker"].got[1] = Head(Out!Contents(outQueue))
    BY <2>1, <2>2 DEF OutputInv, Out!Popped
  <2>4. unsent' = Head(Out!Contents(outQueue)) /\ worker' = "send"
    BY <2>3 DEF WorkerPop
  <2>5. PICK n \in 0 .. Len(accepted) : OutLayout(n)
    BY DEF OutputInv
  <2>6. accepted \in Seq(Nat) /\ Len(accepted) \in Nat /\ n \in Nat
    BY DEF OutputInv
  <2>7. \E u \in n .. Len(accepted) : /\ unsent' = SubSeq(accepted, n + 1, u)
                                      /\ Tiles(Out!Contents(outQueue'), accepted, u)
    <3>1. PICK u \in n .. Len(accepted) : /\ unsent = SubSeq(accepted, n + 1, u)
                                          /\ Tiles(Out!Contents(outQueue), accepted, u)
      BY <2>5 DEF OutLayout
    <3>2. u = n
      <4>1. 0 \in 0 .. u - n
        BY <2>6, <3>1
      <4>2. Len(SubSeq(accepted, n + 1, u)) = u - n
        BY <2>5, <2>6, <3>1, <4>1, SubSeqSplit
      <4>3. Len(<<>>) = 0 /\ u \in Nat
        BY <2>6
      <4>4. u - n = 0
        BY <1>0, <3>1, <4>2, <4>3, Zenon
      <4> QED BY <2>6, <4>3, <4>4
    <3>3. PICK e \in u .. Len(accepted) : /\ Head(Out!Contents(outQueue)) = SubSeq(accepted, u + 1, e)
                                          /\ Tiles(Tail(Out!Contents(outQueue)), accepted, e)
      <4>1. u \in Nat
        BY <2>6
      <4> QED BY <2>2, <2>6, <3>1, <4>1, TilesTail, Zenon
    <3> QED BY <2>2, <2>4, <3>2, <3>3
  <2>8. OutLayout(n)'
    BY <1>0, <2>5, <2>7 DEF OutLayout
  <2> QED BY <1>0, <1>3, <2>2, <2>3, <2>4, <2>8, Zenon DEF OutputInv, Committing
<1> QED BY <1>1, <1>2

\* A write moves the first bytes of the worker's buffer to the socket.
LEMMA WorkerSendKeepsOutput ==
  ASSUME OutputInv, WorkerSend, UNCHANGED <<io, render, committed, accepted>>
  PROVE  OutputInv'
<1>0. worker = "send" /\ UNCHANGED <<outQueue, outPushing, outRet, givenUp>>
  BY DEF WorkerSend, outVars
<1>1. PICK k \in 1 .. Len(unsent) : /\ wire' = wire \o SubSeq(unsent, 1, k)
                                    /\ unsent' = SubSeq(unsent, k + 1, Len(unsent))
  BY Zenon DEF WorkerSend
<1>2. PICK n \in 0 .. Len(accepted) : OutLayout(n)
  BY DEF OutputInv
<1>3. accepted \in Seq(Nat) /\ Len(accepted) \in Nat /\ n \in Nat /\ Increasing(accepted)
  BY DEF OutputInv
<1>4. PICK u \in n .. Len(accepted) : /\ unsent = SubSeq(accepted, n + 1, u)
                                      /\ Tiles(Out!Contents(outQueue), accepted, u)
  BY <1>2 DEF OutLayout
<1>5. Len(unsent) = u - n
  <2>1. n \in 0 .. Len(accepted) /\ 0 \in 0 .. u - n
    BY <1>3
  <2>2. Len(SubSeq(accepted, n + 1, u)) = u - n
    BY <1>3, <1>4, <2>1, SubSeqSplit, Zenon
  <2> QED BY <1>4, <2>2, Zenon
<1>6. /\ k \in 0 .. u - n /\ k \in 0 .. Len(accepted) - n
      /\ n + k \in 0 .. Len(accepted) /\ u \in n + k .. Len(accepted)
  BY <1>3, <1>5
<1>7. /\ SubSeq(unsent, 1, k) = SubSeq(accepted, n + 1, n + k)
      /\ unsent' = SubSeq(accepted, (n + k) + 1, u)
  <2>1. SubSeq(SubSeq(accepted, n + 1, u), k + 1, u - n) = SubSeq(accepted, (n + k) + 1, u)
    BY <1>3, <1>6, SubSeqSplit
  <2>2. SubSeq(SubSeq(accepted, n + 1, u), 1, k) = SubSeq(accepted, n + 1, n + k)
    BY <1>3, <1>6, SubSeqOfSubSeq
  <2> QED BY <1>1, <1>4, <1>5, <2>1, <2>2
<1>8. Settled(accepted, n + k, wire', givenUp)
  <2>1. Settled(accepted, n, wire, givenUp)
    BY <1>2 DEF OutLayout
  <2> QED BY <1>1, <1>3, <1>6, <1>7, <2>1, WrittenIsSettled, Zenon
<1>11. OutLayout(n + k)'
  BY <1>0, <1>4, <1>6, <1>7, <1>8 DEF OutLayout
<1>9. worker' # "send" => worker' = "pop" /\ unsent' = <<>>
  BY <1>0 DEF WorkerSend
<1>10. worker' # "done" /\ io # "done"
  BY <1>0, <1>9 DEF OutputInv
<1>12. \E m \in 0 .. committed' : Backlog(m)'
  BY <1>0 DEF OutputInv, Backlog, Committing
<1> QED BY <1>0, <1>3, <1>6, <1>9, <1>10, <1>11, <1>12 DEF OutputInv, Committing

\* A failed write gives the rest of the buffer up.
LEMMA WorkerSendFailsKeepsOutput ==
  ASSUME OutputInv, WorkerSendFails, UNCHANGED <<io, render, committed, accepted>>
  PROVE  OutputInv'
<1>1. /\ worker = "send" /\ worker' = "pop" /\ unsent' = <<>>
      /\ givenUp' = givenUp \cup Range(unsent)
      /\ UNCHANGED <<outQueue, outPushing, outRet, wire>>
  BY DEF WorkerSendFails, outVars
<1>2. PICK n \in 0 .. Len(accepted) : OutLayout(n)
  BY DEF OutputInv
<1>3. accepted \in Seq(Nat) /\ Len(accepted) \in Nat /\ n \in Nat /\ Increasing(accepted)
  BY DEF OutputInv
<1>4. PICK u \in n .. Len(accepted) : /\ unsent = SubSeq(accepted, n + 1, u)
                                      /\ Tiles(Out!Contents(outQueue), accepted, u)
  BY <1>2 DEF OutLayout
<1>5. Settled(accepted, u, wire, givenUp')
  <2>1. Settled(accepted, n, wire, givenUp)
    BY <1>2 DEF OutLayout
  <2> QED BY <1>1, <1>3, <1>4, <2>1, GivenUpIsSettled, Zenon
<1>6. u \in 0 .. Len(accepted) /\ u \in u .. Len(accepted) /\ SubSeq(accepted, u + 1, u) = <<>>
  <2>1. u \in 0 .. Len(accepted) /\ u \in u .. Len(accepted)
    BY <1>3
  <2> QED BY <1>3, <2>1, SubSeqEmpty
<1>7. OutLayout(u)'
  BY <1>1, <1>4, <1>5, <1>6, Zenon DEF OutLayout
<1>8. \E m \in 0 .. committed' : Backlog(m)'
  BY <1>1 DEF OutputInv, Backlog, Committing
<1> QED BY <1>1, <1>6, <1>7, <1>8 DEF OutputInv, Committing

\* Every step of the three threads keeps the layout.
LEMMA NextKeepsOutput ==
  ASSUME OutputInv, OutRing, [Next]_vars
  PROVE  OutputInv'
<1>1. CASE CommitBegin /\ UNCHANGED <<inVars, lock, io, stops, posted, readVars, decodeVars, workerVars>>
  <2>1. PICK k \in 1 .. MaxChunk :
          /\ committed + k <= MaxOut /\ committed' = committed + k
          /\ outPushing' = [outPushing EXCEPT !["render"] = Bytes(committed, k)]
    BY <1>1, Zenon DEF CommitBegin
  <2>2. committed \in 0 .. MaxOut - 1 /\ committed' \in Nat
    BY <2>1, BoundsAssumption DEF OutputInv
  <2>3. outPushing'["render"] \in Chunks(MaxOut) /\ DOMAIN outPushing' = DOMAIN outPushing
    BY <2>1, <2>2 DEF Chunks, OutputInv
  <2>4. UNCHANGED <<outQueue, outRet, accepted, io, worker, unsent, wire, givenUp>>
    BY <1>1 DEF CommitBegin, workerVars
  <2>5. PICK m \in 0 .. committed : Backlog(m)
    BY DEF OutputInv
  <2>6. ~Committing /\ Committing'
    BY <1>1 DEF CommitBegin, Committing
  <2>7. k \in 0 .. committed' /\ m \in 0 .. committed' /\ m = committed
    BY <2>1, <2>2, <2>5, <2>6 DEF Backlog
  <2>8. outPushing'["render"] = Bytes(m, k) /\ committed' = m + k
    BY <2>1, <2>7 DEF OutputInv
  <2>9. Backlog(m)'
    BY <2>4, <2>5, <2>6, <2>7, <2>8, Zenon DEF Backlog
  <2> QED BY <2>2, <2>3, <2>4, <2>7, <2>9, OutputUnchanged, Zenon DEF OutputInv
<1>2. CASE CommitPush /\ UNCHANGED <<inVars, lock, io, stops, posted, readVars, decodeVars, workerVars>>
  BY <1>2, CommitPushKeepsOutput
<1>3. CASE WorkerPop /\ UNCHANGED <<io, render, answerVars>>
  BY <1>3, WorkerPopKeepsOutput DEF answerVars
<1>4. CASE WorkerSend /\ UNCHANGED <<io, render, answerVars>>
  BY <1>4, WorkerSendKeepsOutput DEF answerVars
<1>5. CASE WorkerSendFails /\ UNCHANGED <<io, render, answerVars>>
  BY <1>5, WorkerSendFailsKeepsOutput DEF answerVars
<1>6. CASE ForceStopOut /\ UNCHANGED <<render, answerVars, workerVars>>
  <2>1. /\ outQueue' = [outQueue EXCEPT !.closed = TRUE] /\ io' = "notifyPush"
        /\ UNCHANGED <<outPushing, outRet, render, committed, accepted, worker, unsent, wire, givenUp>>
    BY <1>6 DEF ForceStopOut, answerVars, workerVars
  <2>2. OutWellFormed(outQueue)
    BY DEF OutputInv
  <2>3. /\ OutWellFormed(outQueue') /\ outQueue'.closed /\ outQueue'.count = outQueue.count
        /\ Out!Contents(outQueue') = Out!Contents(outQueue)
    BY <2>1, <2>2, Zenon DEF OutWellFormed, Out!QueueType, Out!HoldsBuffers, Out!Contents
  <2>4. \E m \in 0 .. committed' : Backlog(m)'
    BY <2>1 DEF OutputInv, Backlog, Committing
  <2> QED BY <2>1, <2>3, <2>4, OutputUnchanged DEF OutputInv, Committing
<1>7. CASE /\ UNCHANGED <<outQueue, outPushing, outRet, committed, accepted, unsent, wire, givenUp>>
           /\ Committing' <=> Committing
           /\ worker' = "send" <=> worker = "send"
           /\ worker' = "done" <=> worker = "done"
           /\ io' = "done" => io = "done" \/ worker = "done"
  <2>1. \E m \in 0 .. committed' : Backlog(m)'
    BY <1>7, Zenon DEF OutputInv, Backlog
  <2> QED BY <1>7, <2>1, OutputUnchanged, Zenon DEF OutputInv
<1>8. CASE IoStep
  BY <1>6, <1>7, <1>8
     DEF IoStep, PostData, PostResume, Destroy, Shutdown, ForceStopIn, NotifyPush, NotifyPop,
         WaitRender, Join, outVars, answerVars, workerVars, Committing
<1>9. CASE ReadStep
  <2>1. ~Committing /\ ~Committing'
    BY <1>9, Zenon DEF ReadStep, ReadBegin, ReadCopy, ReadPop, ReadTryPop, ReadReturn, Return, AfterPop,
                Committing
  <2> QED BY <1>7, <1>9, <2>1, Zenon DEF ReadStep, outVars, answerVars, workerVars
<1>14. CASE DecodeStep
  <2>1. ~Committing /\ ~Committing'
    BY <1>14 DEF DecodeStep, DecodeBegin, Decoded, Committing
  <2> QED BY <1>7, <1>14, <2>1, Zenon DEF DecodeStep, outVars, answerVars, workerVars
<1>15. CASE OthersStep
  BY <1>7, <1>15 DEF OthersStep, outVars, answerVars, workerVars, Committing
<1>10. CASE CommitStep
  BY <1>2, <1>7, <1>10
     DEF CommitStep, CommitFull, CommitWait, CommitResume, outVars, answerVars, workerVars, Committing
<1>11. CASE WorkerStep
  BY <1>3, <1>4, <1>5, <1>7, <1>11
     DEF WorkerStep, WorkerLock, WorkerEmpty, WorkerWait, outVars, answerVars, Committing
<1>12. CASE SpuriousWakeup
  BY <1>7, <1>12, Zenon DEF SpuriousWakeup, Out!SpuriousWakeup, outVars, answerVars, workerVars, Committing
<1>13. CASE UNCHANGED vars
  BY <1>7, <1>13 DEF vars, outVars, answerVars, workerVars, Committing
<1> QED BY <1>1, <1>8, <1>9, <1>10, <1>11, <1>12, <1>13, <1>14, <1>15 DEF Next, RenderStep, Finished

\* Nothing is left anywhere when the worker has been joined.
LEMMA OutputInvSuffices ==
  ASSUME OutputInv, OutRing
  PROVE  OutputIsByteExact
<1>1. PICK n \in 0 .. Len(accepted) : OutLayout(n)
  BY DEF OutputInv
<1>2. Settled(accepted, n, wire, givenUp)
  BY <1>1 DEF OutLayout
<1>3. ASSUME io = "done" PROVE n = Len(accepted)
  <2>1. worker = "done" /\ unsent = <<>> /\ outQueue.count = 0 /\ accepted \in Seq(Nat)
    BY <1>3 DEF OutputInv
  <2>2. Out!Contents(outQueue) = <<>>
    BY <2>1 DEF OutRing
  <2>3. PICK u \in n .. Len(accepted) : /\ unsent = SubSeq(accepted, n + 1, u)
                                        /\ Tiles(<<>>, accepted, u)
    BY <1>1, <2>2 DEF OutLayout
  <2>4. u = Len(accepted)
    BY <2>1, <2>3, TilesEmpty
  <2>5. Len(SubSeq(accepted, n + 1, u)) = u - n
    <3>1. 0 \in 0 .. u - n
      BY <2>1, <2>4
    <3> QED BY <2>1, <2>3, <3>1, SubSeqSplit
  <2>6. Len(<<>>) = 0 /\ Len(accepted) \in Nat
    BY <2>1
  <2>7. Len(unsent) = u - n /\ Len(unsent) = 0
    BY <2>1, <2>3, <2>5, <2>6
  <2> QED BY <2>4, <2>6, <2>7
<1>4. Range(accepted) = First(accepted, Len(accepted))
  <2>1. DOMAIN accepted = 1 .. Len(accepted)
    BY DEF OutputInv
  <2> QED BY <2>1, Zenon DEF Range, First
<1>5. Range(wire) = First(accepted, n) \ givenUp /\ Increasing(wire)
  BY <1>2 DEF Settled
<1>6. First(accepted, n) = {accepted[i] : i \in 1 .. n}
  BY Zenon DEF First
<1> QED BY <1>3, <1>4, <1>5, <1>6, Zenon DEF OutputIsByteExact, Increasing

(***************************************************************************)
(* Every step of the stream is a step of in_queue_ or leaves it alone.     *)
(***************************************************************************)
\* posted counts bytes, so what post_data pushes is a buffer of in_queue_.
PostedOK == posted \in Nat

\* No step makes posted anything else.
LEMMA PostedInvariant == Init /\ [][Next]_vars => []PostedOK
<1>1. Init => PostedOK
  BY DEF Init, PostedOK
<1>2. PostedOK /\ [Next]_vars => PostedOK'
  <2> SUFFICES ASSUME PostedOK, [Next]_vars PROVE PostedOK'
    OBVIOUS
  <2>1. CASE PostData
    <3>1. PICK k \in 1 .. MaxChunk : posted' = posted + k
      BY <2>1 DEF PostData
    <3> QED BY <3>1 DEF PostedOK
  <2>2. CASE UNCHANGED posted
    BY <2>2 DEF PostedOK
  <2>3. PostData \/ UNCHANGED posted
    BY DEF Next, vars, IoStep, Shutdown, PostResume, Destroy, ForceStopIn, ForceStopOut,
           NotifyPush, NotifyPop, WaitRender, Join, RenderStep, ReadStep, DecodeStep, CommitStep,
           WorkerStep, OthersStep, SpuriousWakeup, Finished
  <2> QED BY <2>1, <2>2, <2>3
<1> QED BY <1>1, <1>2, PTL

\* What post_data pushes next is a buffer of in_queue_.
LEMMA BufferIsChunk ==
  ASSUME PostedOK, NEW k \in 1 .. MaxChunk, posted + k <= MaxIn
  PROVE  Bytes(posted, k) \in Chunks(MaxIn)
<1>1. posted \in 0 .. MaxIn - 1
  BY BoundsAssumption DEF PostedOK
<1> QED BY <1>1 DEF Chunks

\* One step per action that touches in_queue_; the others leave it alone.
LEMMA NextIsQueueNext == PostedOK /\ [Next]_vars => [In!Next]_(In!vars)
<1> SUFFICES ASSUME PostedOK, [Next]_vars PROVE In!Next \/ UNCHANGED inVars
  BY DEF In!vars, inVars
<1>1. CASE PostData
  <2>1. PICK k \in 1 .. MaxChunk : posted + k <= MaxIn /\ In!PushLocked("io", Bytes(posted, k))
    BY <1>1 DEF PostData
  <2> QED BY <2>1, BufferIsChunk DEF In!Next
<1>2. CASE PostResume
  BY <1>2 DEF PostResume, In!Next
<1>3. CASE ForceStopIn
  BY <1>3 DEF ForceStopIn, In!Next
<1>4. CASE ReadPop
  BY <1>4 DEF ReadPop, In!Next
<1>5. CASE ReadTryPop
  BY <1>5 DEF ReadTryPop, In!Next
<1>6. CASE SpuriousWakeup
  BY <1>6 DEF SpuriousWakeup, In!Next, In!Threads
<1>7. CASE UNCHANGED inVars
  BY <1>7
<1> QED
  BY <1>1, <1>2, <1>3, <1>4, <1>5, <1>6, <1>7
     DEF Next, vars, IoStep, Shutdown, Destroy, ForceStopOut,
         NotifyPush, NotifyPop, WaitRender, Join, RenderStep, ReadStep, ReadBegin, ReadCopy,
         ReadReturn, DecodeStep, CommitStep, WorkerStep, OthersStep, Finished

InP == INSTANCE BufferQueueProofs WITH
  Producers <- {"io"}, Consumers <- {"render"}, Closers <- {"io"},
  Buffers <- Chunks(MaxIn), Capacity <- InCapacity,
  queue <- inQueue, canPush <- inCanPush, canPop <- inCanPop,
  pushing <- inPushing, popping <- inPopping, ret <- inRet

(***************************************************************************)
(* The invariants of BufferQueueProofs, for in_queue_.                     *)
(***************************************************************************)
InOK == In!TypeOK /\ In!RingHoldsBuffers

\* In and InP are instances of the same definitions: the invariants agree ...
LEMMA InOKIsIInv == InOK <=> InP!IInv
BY Zenon DEF InOK, InP!IInv, In!TypeOK, InP!TypeOK, In!RingHoldsBuffers, InP!RingHoldsBuffers,
       In!HoldsBuffers, InP!HoldsBuffers, In!Wrap, InP!Wrap, In!QueueType, InP!QueueType,
       In!Slots, InP!Slots, In!Threads, InP!Threads

\* ... and so do the steps.
LEMMA InNextIsNext == [In!Next]_(In!vars) => [InP!Next]_(InP!vars)
BY Zenon DEF In!Next, InP!Next, In!vars, InP!vars, In!TryPush, InP!TryPush, In!PushLocked, InP!PushLocked,
       In!TryPop, InP!TryPop, In!PopLocked, InP!PopLocked, In!ResumePush, InP!ResumePush,
       In!ResumePop, InP!ResumePop, In!SpuriousWakeup, InP!SpuriousWakeup, In!CloseLocked,
       InP!CloseLocked, In!PushTurn, InP!PushTurn, In!PopTurn, InP!PopTurn, In!TryPushLocked,
       InP!TryPushLocked, In!TryPopLocked, InP!TryPopLocked, In!Return, InP!Return, In!Failed,
       InP!Failed, In!Pushed, InP!Pushed, In!Popped, InP!Popped, In!IsFull, InP!IsFull,
       In!IsEmpty, InP!IsEmpty, In!Front, InP!Front, In!Enqueued, InP!Enqueued, In!Dequeued,
       InP!Dequeued, In!NotifyOne, InP!NotifyOne, In!Wrap, InP!Wrap, In!Threads, InP!Threads

\* The ring lemmas, for in_queue_.
LEMMA InOKGivesRing ==
  ASSUME InOK
  PROVE  InRing
<1> DEFINE q == inQueue
<1>1. q \in InP!QueueType /\ InP!HoldsBuffers(q)
  BY InOKIsIInv, Zenon DEF InP!IInv, InP!TypeOK, InP!RingHoldsBuffers
<1>2. /\ In!Contents(q) = InP!Contents(q)
      /\ In!Front(q) = InP!Front(q)
      /\ In!Dequeued(q) = InP!Dequeued(q)
      /\ In!Contents(In!Dequeued(q)) = InP!Contents(InP!Dequeued(q))
  BY Zenon DEF In!Contents, InP!Contents, In!Wrap, InP!Wrap, In!Front, InP!Front, In!Dequeued, InP!Dequeued
<1>3. ASSUME NEW b \in Chunks(MaxIn), q.count < InCapacity
      PROVE  In!Contents(In!Enqueued(q, b)) = Append(In!Contents(q), b)
  <2>1. In!Contents(In!Enqueued(q, b)) = InP!Contents(InP!Enqueued(q, b))
    BY Zenon DEF In!Contents, InP!Contents, In!Wrap, InP!Wrap, In!Enqueued, InP!Enqueued
  <2>2. InP!Contents(InP!Enqueued(q, b)) = Append(InP!Contents(q), b)
    BY <1>1, <1>3, InP!EnqueuedAppends, InAssumptions
  <2> QED BY <1>2, <2>1, <2>2
<1>4. q.count # 0 => /\ InP!Front(q) = Head(InP!Contents(q))
                     /\ InP!Contents(InP!Dequeued(q)) = Tail(InP!Contents(q))
  BY <1>1, InP!DequeuedIsTail, InAssumptions
<1>5. InP!Contents(q) \in Seq(Chunks(MaxIn)) /\ Len(InP!Contents(q)) = q.count
  BY <1>1, InP!ContentsIsSeq, InAssumptions, Zenon
<1> QED BY <1>2, <1>3, <1>4, <1>5 DEF InRing

\* The inductive invariant of the input side.
InputIInv == InputInv /\ want \in Nat /\ InOK

\* The queue's invariant and the layout of the bytes hold together.
LEMMA InputInvariance == Spec => []InputIInv
<1>1. Init => InputIInv
  <2>1. Init => InOK
    BY InP!InitIInv, InOKIsIInv, InAssumptions, Zenon
       DEF Init, In!Init, InP!Init, In!EmptyQueue, InP!EmptyQueue, In!Slots, InP!Slots,
           In!Failed, InP!Failed, In!Threads, InP!Threads
  <2> QED BY <2>1, InitInput DEF Init, InputIInv
<1>2. InputIInv /\ [Next]_vars => InputIInv'
  <2> SUFFICES ASSUME InputIInv, [Next]_vars PROVE InputIInv'
    OBVIOUS
  <2>1. InOK'
    <3>1. [In!Next]_(In!vars)
      BY NextIsQueueNext DEF InputIInv, InputInv, PostedOK
    <3>2. InP!IInv /\ [InP!Next]_(InP!vars)
      BY <3>1, InNextIsNext, InOKIsIInv DEF InputIInv
    <3>3. InP!IInv'
      BY <3>2, InP!NextIInv, InAssumptions
    <3>4. InOK' <=> InP!IInv'
      BY InOKIsIInv, PTL
    <3> QED BY <3>3, <3>4
  <2>2. InputInv'
    BY NextKeepsInput, InOKGivesRing DEF InputIInv, InOK
  <2>3. want' \in Nat
    BY WantIsNat DEF InputIInv
  <2> QED BY <2>1, <2>2, <2>3 DEF InputIInv
<1> QED BY <1>1, <1>2, PTL DEF Spec

\* The render thread reads the guest's bytes in order, each exactly once, and
\* every one of them before it ends, for every capacity, buffer size and way of
\* cutting the stream (buffered_io_stream.cpp:58-95, RenderThread.cpp:55-58).
THEOREM InputPassesUnchanged == Spec => []InputIsByteExact
<1>1. InputIInv => InputIsByteExact
  BY InOKGivesRing, InputInvSuffices DEF InputIInv
<1> QED BY <1>1, InputInvariance, PTL

(***************************************************************************)
(* The ring lemmas of BufferQueueProofs, for out_queue_.                   *)
(***************************************************************************)
OutP == INSTANCE BufferQueueProofs WITH
  Producers <- {"render"}, Consumers <- {"worker"}, Closers <- {"io"},
  Buffers <- Chunks(MaxOut), Capacity <- OutCapacity,
  queue <- outQueue, canPush <- outCanPush, canPop <- outCanPop,
  pushing <- outPushing, popping <- outPopping, ret <- outRet

\* The ring lemmas, for out_queue_.
LEMMA OutWellFormedGivesRing ==
  ASSUME OutWellFormed(outQueue)
  PROVE  OutRing
<1> DEFINE q == outQueue
<1>0. ASSUME NEW r PROVE /\ OutWellFormed(r) <=> r \in OutP!QueueType /\ OutP!HoldsBuffers(r)
                         /\ Out!Contents(r) = OutP!Contents(r)
  BY Zenon DEF OutWellFormed, Out!QueueType, OutP!QueueType, Out!HoldsBuffers, OutP!HoldsBuffers,
         Out!Contents, OutP!Contents, Out!Wrap, OutP!Wrap, Out!Slots, OutP!Slots
<1>1. q \in OutP!QueueType /\ OutP!HoldsBuffers(q)
  BY <1>0
<1>2. Out!Front(q) = OutP!Front(q) /\ Out!Dequeued(q) = OutP!Dequeued(q)
  BY Zenon DEF Out!Front, OutP!Front, Out!Dequeued, OutP!Dequeued, Out!Wrap, OutP!Wrap
<1>3. ASSUME NEW b \in Chunks(MaxOut), q.count < OutCapacity
      PROVE  /\ OutWellFormed(Out!Enqueued(q, b))
             /\ Out!Contents(Out!Enqueued(q, b)) = Append(Out!Contents(q), b)
  <2>1. Out!Enqueued(q, b) = OutP!Enqueued(q, b)
    BY Zenon DEF Out!Enqueued, OutP!Enqueued, Out!Wrap, OutP!Wrap
  <2>2. /\ OutP!Enqueued(q, b) \in OutP!QueueType /\ OutP!HoldsBuffers(OutP!Enqueued(q, b))
        /\ OutP!Contents(OutP!Enqueued(q, b)) = Append(OutP!Contents(q), b)
    BY <1>1, <1>3, OutP!EnqueuedAppends, OutAssumptions
  <2> QED BY <1>0, <2>1, <2>2
<1>4. q.count # 0 => /\ OutP!Dequeued(q) \in OutP!QueueType /\ OutP!HoldsBuffers(OutP!Dequeued(q))
                     /\ OutP!Front(q) = Head(OutP!Contents(q))
                     /\ OutP!Contents(OutP!Dequeued(q)) = Tail(OutP!Contents(q))
  BY <1>1, OutP!DequeuedIsTail, OutAssumptions
<1>5. OutP!Contents(q) \in Seq(Chunks(MaxOut)) /\ Len(OutP!Contents(q)) = q.count
  BY <1>1, OutP!ContentsIsSeq, OutAssumptions, Zenon
<1> QED BY <1>0, <1>2, <1>3, <1>4, <1>5, Zenon DEF OutRing

\* The socket carries what commitBuffer accepted, in order, each byte once, and
\* only the rest of a buffer whose write failed is missing; all of it was written
\* or given up when the destructor returns.  For every capacity, buffer size and
\* partial write; forceStop closes out_queue_ without
\* out_lock_, and that loses nothing (buffered_io_stream.cpp:113-135).
THEOREM OutputPassesUnchanged == Spec => []OutputIsByteExact
<1>1. OutputInv => OutRing
  BY OutWellFormedGivesRing DEF OutputInv
<1>2. OutputInv /\ [Next]_vars => OutputInv'
  BY <1>1, NextKeepsOutput
<1>3. OutputInv => OutputIsByteExact
  BY <1>1, OutputInvSuffices
<1> QED BY <1>2, <1>3, InitOutput, PTL DEF Spec
=============================================================================
