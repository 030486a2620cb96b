-------------------------- MODULE BufferedIOStream --------------------------
(***************************************************************************)
(* The path of one OpenGL ES client through the daemon: the I/O thread     *)
(* that posts what the guest sends (OpenGlesMessageProcessor), the render  *)
(* thread that reads and answers it (RenderThread), and the worker thread  *)
(* that writes the answers to the socket (BufferedIOStream::thread_main).  *)
(* The two queues are two BufferQueues.  in_queue_ is always used under    *)
(* lock_; out_queue_ is used under out_lock_, except that forceStop closes *)
(* it while holding lock_ only.  The decoders run under global_lock, which *)
(* the render threads of all the clients share.  Bytes are numbered in the *)
(* order in which they enter the stream.                                   *)
(***************************************************************************)
EXTENDS Naturals, Sequences, Functions

CONSTANTS
  InCapacity,   \* in_queue_'s capacity (1024 in the code)
  OutCapacity,  \* out_queue_'s capacity (16 in the code)
  MaxChunk,     \* bound: longest buffer, and longest read
  MaxIn,        \* bound: bytes the guest sends
  MaxOut,       \* bound: bytes the render thread answers
  Moved         \* content of a moved-from buffer

ASSUME BoundsAssumption ==
  {InCapacity, OutCapacity, MaxChunk, MaxIn, MaxOut} \subseteq Nat \ {0}

VARIABLES
  \* in_queue_ and out_queue_, with their wait sets and calls in progress
  inQueue, inCanPush, inCanPop, inPushing, inPopping, inRet,
  outQueue, outCanPush, outCanPop, outPushing, outPopping, outRet,
  lock,         \* who holds lock_
  outLock,      \* who holds out_lock_
  decodeLock,   \* who holds global_lock: this client, one of the others, or nobody
  io,           \* what the I/O thread is doing
  stops,        \* how many times it has called forceStop
  render,       \* what the render thread is doing
  worker,       \* what the worker thread is doing
  posted,       \* bytes passed to post_data so far
  want,         \* bytes the current read still has room for
  count,        \* bytes the current read has copied
  readBuffer,   \* the unread part of read_buffer_
  received,     \* every byte read() has handed to the render thread
  valid,        \* bytes in its ReadBuffer that no decoder has consumed
  committed,    \* bytes passed to commitBuffer so far
  accepted,     \* the ones among them that push_locked took
  unsent,       \* what the worker has still to write of its buffer
  wire,         \* every byte written to the socket
  givenUp       \* the bytes dropped because a write of their buffer failed

inVars == <<inQueue, inCanPush, inCanPop, inPushing, inPopping, inRet>>
outVars == <<outQueue, outCanPush, outCanPop, outPushing, outPopping, outRet>>
readVars == <<want, count, readBuffer, received>>
decodeVars == <<decodeLock, valid>>
answerVars == <<committed, accepted>>
workerVars == <<worker, unsent, wire, givenUp>>
vars == <<inVars, outVars, lock, outLock, io, stops, posted, render, readVars,
          decodeVars, answerVars, workerVars>>

\* n + 1, n + 2, ..., n + k
Bytes(n, k) == [i \in 1 .. k |-> n + i]
Chunks(max) == {Bytes(n, k) : n \in 0 .. max - 1, k \in 1 .. MaxChunk}

ASSUME MovedAssumption == Moved \notin Chunks(MaxIn) \cup Chunks(MaxOut)

In == INSTANCE BufferQueue WITH
  Producers <- {"io"}, Consumers <- {"render"}, Closers <- {"io"},
  Buffers <- Chunks(MaxIn), Capacity <- InCapacity,
  queue <- inQueue, canPush <- inCanPush, canPop <- inCanPop,
  pushing <- inPushing, popping <- inPopping, ret <- inRet

Out == INSTANCE BufferQueue WITH
  Producers <- {"render"}, Consumers <- {"worker"}, Closers <- {"io"},
  Buffers <- Chunks(MaxOut), Capacity <- OutCapacity,
  queue <- outQueue, canPush <- outCanPush, canPop <- outCanPop,
  pushing <- outPushing, popping <- outPopping, ret <- outRet

Init ==
  /\ In!Init /\ Out!Init
  /\ lock = "free" /\ outLock = "free" /\ decodeLock = "free"
  /\ io = "run" /\ stops = 0 /\ render = "idle" /\ worker = "pop"
  /\ posted = 0 /\ want = 0 /\ count = 0 /\ readBuffer = <<>> /\ received = <<>>
  /\ valid = 0 /\ committed = 0 /\ accepted = <<>>
  /\ unsent = <<>> /\ wire = <<>> /\ givenUp = {}

(***************************************************************************)
(* The I/O thread: process_data posts, then the processor is destroyed.    *)
(* The groups of actions below leave the other threads' variables alone;   *)
(* IoStep, RenderStep and WorkerStep say so once for all their actions.    *)
(***************************************************************************)
\* OpenGlesMessageProcessor::process_data calls post_data, which may block in
\* push_locked ...
PostData ==
  /\ io = "run" /\ lock = "free"
  /\ \E k \in 1 .. MaxChunk :
       /\ posted + k <= MaxIn
       /\ In!PushLocked("io", Bytes(posted, k))
       /\ posted' = posted + k
  /\ UNCHANGED <<outVars, lock, io, stops>>

\* ... and goes on there when it is woken.
PostResume ==
  /\ lock = "free" /\ In!ResumePush("io")
  /\ UNCHANGED <<outVars, lock, io, stops, posted>>

\* ~OpenGlesMessageProcessor, once no process_data is running.
Destroy ==
  /\ io = "run" /\ inPushing["io"] = Moved
  /\ io' = "stop"
  /\ UNCHANGED <<inVars, outVars, lock, stops, posted>>

\* Mutant of ForceStopIn: in_queue_ is marked closed and nobody is notified.
ForceStopNotifiesNobody ==
  /\ io = "stop" /\ lock = "free"
  /\ lock' = "io" /\ io' = "closeOut" /\ stops' = stops + 1
  /\ inQueue' = [inQueue EXCEPT !.closed = TRUE]
  /\ UNCHANGED <<inCanPush, inCanPop, inPushing, inPopping, inRet, outVars, posted>>

\* forceStop takes lock_ and closes in_queue_ ...
ForceStopIn ==
  /\ io = "stop" /\ lock = "free"
  /\ lock' = "io" /\ io' = "closeOut" /\ stops' = stops + 1
  /\ In!CloseLocked("io")
  /\ UNCHANGED <<outVars, posted>>

\* ... and then out_queue_, without out_lock_: the statements of its
\* close_locked interleave with the threads that hold out_lock_.
ForceStopOut ==
  /\ io = "closeOut" /\ io' = "notifyPush"
  /\ outQueue' = [outQueue EXCEPT !.closed = TRUE]
  /\ UNCHANGED <<inVars, outCanPush, outCanPop, outPushing, outPopping, outRet,
                 lock, stops, posted>>

NotifyPush ==
  /\ io = "notifyPush" /\ io' = "notifyPop"
  /\ outCanPush' = IF Out!IsFull(outQueue) THEN {} ELSE outCanPush
  /\ UNCHANGED <<inVars, outQueue, outCanPop, outPushing, outPopping, outRet,
                 lock, stops, posted>>

\* The first forceStop is followed by the wait for the render thread, the
\* second (~RenderThread) by the third (~BufferedIOStream), that by the join.
NotifyPop ==
  /\ io = "notifyPop"
  /\ outCanPop' = IF Out!IsEmpty(outQueue) THEN {} ELSE outCanPop
  /\ lock' = "free"
  /\ io' = CASE stops = 1 -> "waitRender" [] stops = 2 -> "stop" [] OTHER -> "join"
  /\ UNCHANGED <<inVars, outQueue, outCanPush, outPushing, outPopping, outRet,
                 stops, posted>>

WaitRender ==
  /\ io = "waitRender" /\ render = "done" /\ io' = "stop"
  /\ UNCHANGED <<inVars, outVars, lock, stops, posted>>

Join ==
  /\ io = "join" /\ worker = "done" /\ io' = "done"
  /\ UNCHANGED <<inVars, outVars, lock, stops, posted>>

Shutdown == ForceStopIn \/ ForceStopOut \/ NotifyPush \/ NotifyPop \/ WaitRender \/ Join

IoStep ==
  /\ PostData \/ PostResume \/ Destroy \/ Shutdown
  /\ UNCHANGED <<outLock, render, readVars, decodeVars, answerVars, workerVars>>

(***************************************************************************)
(* The render thread: ReadBuffer::getData calls read(), the decoders       *)
(* answer through commitBuffer.                                            *)
(***************************************************************************)
\* read() takes lock_ for a buffer of some size.
ReadBegin ==
  /\ render = "idle" /\ lock = "free"
  /\ lock' = "render" /\ render' = "read"
  /\ want' \in 1 .. MaxChunk /\ count' = 0
  /\ UNCHANGED <<inVars, readBuffer, received, valid>>

\* Mutant of ReadCopy: what the read has no room for is forgotten.
ReadCopyForgetsRest ==
  /\ render = "read" /\ lock = "render" /\ want > 0 /\ readBuffer # <<>>
  /\ LET avail == IF want < Len(readBuffer) THEN want ELSE Len(readBuffer)
     IN  /\ received' = received \o SubSeq(readBuffer, 1, avail)
         /\ readBuffer' = <<>>
         /\ want' = want - avail
         /\ count' = count + avail
  /\ UNCHANGED <<inVars, lock, render, valid>>

\* memcpy of min(wanted - count, read_buffer_left_) bytes.
ReadCopy ==
  /\ render = "read" /\ lock = "render" /\ want > 0 /\ readBuffer # <<>>
  /\ LET avail == IF want < Len(readBuffer) THEN want ELSE Len(readBuffer)
     IN  /\ received' = received \o SubSeq(readBuffer, 1, avail)
         /\ readBuffer' = SubSeq(readBuffer, avail + 1, Len(readBuffer))
         /\ want' = want - avail
         /\ count' = count + avail
  /\ UNCHANGED <<inVars, lock, render, valid>>

\* Mutant of AfterPop: a read that got some bytes fails when there are no more.
AfterPopFails ==
  LET r == inRet'["render"]
  IN  IF r.code = "OK"
        THEN readBuffer' = r.got[1] /\ lock' = "render" /\ render' = "read" /\ UNCHANGED valid
        ELSE lock' = "free" /\ render' = "done" /\ UNCHANGED <<readBuffer, valid>>

\* read() returns n bytes: getData counts them as valid.
Return(n) == lock' = "free" /\ render' = "lockDecode" /\ valid' = valid + n

\* What the loop does with the result of either pop: refill read_buffer_, or
\* leave the loop with what has been copied, or with nothing (nullptr, which
\* ends the render thread).
AfterPop ==
  LET r == inRet'["render"]
  IN  IF r.code = "OK"
        THEN readBuffer' = r.got[1] /\ lock' = "render" /\ render' = "read" /\ UNCHANGED valid
        ELSE /\ IF count > 0 THEN Return(count)
                             ELSE lock' = "free" /\ render' = "done" /\ UNCHANGED valid
             /\ UNCHANGED readBuffer

\* count == 0: the blocking pop, which gives lock_ up while it waits.
ReadPop ==
  /\ render = "read" /\ want > 0 /\ readBuffer = <<>> /\ count = 0
  /\ \/ lock = "render" /\ In!PopLocked("render")
     \/ lock = "free" /\ In!ResumePop("render")
  /\ IF inPopping'["render"]
       THEN lock' = "free" /\ UNCHANGED <<readBuffer, render, valid>>
       ELSE AfterPop
  /\ UNCHANGED <<want, count, received>>

ReadTryPop ==
  /\ render = "read" /\ lock = "render" /\ want > 0 /\ readBuffer = <<>> /\ count > 0
  /\ In!TryPop("render")
  /\ AfterPop
  /\ UNCHANGED <<want, count, received>>

ReadReturn ==
  /\ render = "read" /\ lock = "render" /\ want = 0
  /\ Return(count)
  /\ UNCHANGED <<inVars, readVars>>

ReadStep ==
  /\ ReadBegin \/ ReadCopy \/ ReadPop \/ ReadTryPop \/ ReadReturn
  /\ UNCHANGED <<outVars, outLock, decodeLock, io, stops, posted, answerVars, workerVars>>

\* Every turn of the decode loop takes the lock of all the clients ...
DecodeBegin ==
  /\ render = "lockDecode" /\ decodeLock = "free"
  /\ decodeLock' = "render" /\ render' = "decode"
  /\ UNCHANGED valid

\* ... and releases it when the three decoders have consumed what they can: the
\* loop goes on while they make progress, then getData is called again.
Decoded ==
  /\ render = "decode" /\ decodeLock' = "free"
  /\ \E used \in 0 .. valid :
       /\ valid' = valid - used
       /\ render' = IF used > 0 THEN "lockDecode" ELSE "idle"

DecodeStep ==
  /\ DecodeBegin \/ Decoded
  /\ UNCHANGED <<inVars, outVars, lock, outLock, io, stops, posted, readVars, answerVars, workerVars>>

\* A decoder answers: allocBuffer, then commitBuffer takes out_lock_.
CommitBegin ==
  /\ render = "decode" /\ outLock = "free"
  /\ \E k \in 1 .. MaxChunk :
       /\ committed + k <= MaxOut
       /\ outPushing' = [outPushing EXCEPT !["render"] = Bytes(committed, k)]
       /\ committed' = committed + k
  /\ outLock' = "render" /\ render' = "commit"
  /\ UNCHANGED <<outQueue, outCanPush, outCanPop, outPopping, outRet, accepted>>

\* push_locked with out_lock_ held: the queue is full and not closed, so the
\* thread is about to call wait ...
CommitFull ==
  /\ render = "commit" /\ Out!IsFull(outQueue) /\ ~outQueue.closed
  /\ render' = "commitWait"
  /\ UNCHANGED <<outVars, outLock, answerVars>>

\* ... which registers it and releases out_lock_ ...
CommitWait ==
  /\ render = "commitWait" /\ render' = "commitAsleep"
  /\ outCanPush' = outCanPush \cup {"render"}
  /\ outLock' = "free"
  /\ UNCHANGED <<outQueue, outCanPop, outPushing, outPopping, outRet, answerVars>>

\* ... and takes it again after a notification, to test the loop condition.
CommitResume ==
  /\ render = "commitAsleep" /\ "render" \notin outCanPush /\ outLock = "free"
  /\ outLock' = "render" /\ render' = "commit"
  /\ UNCHANGED <<outVars, answerVars>>

\* push_locked returns, with the buffer queued or dropped; commitBuffer ignores
\* which, and releases out_lock_.
CommitPush ==
  /\ render = "commit" /\ render' = "decode"
  /\ IF Out!IsFull(outQueue)
       THEN /\ outQueue.closed
            /\ Out!Return("render", Out!Failed("EIO"))
            /\ UNCHANGED <<outQueue, outCanPop>>
       ELSE Out!TryPushLocked("render", outPushing["render"])
  /\ accepted' = IF outRet'["render"].code = "OK"
                   THEN accepted \o outPushing["render"] ELSE accepted
  /\ outPushing' = [outPushing EXCEPT !["render"] = Moved]
  /\ outLock' = "free"
  /\ UNCHANGED <<outCanPush, outPopping, committed>>

CommitStep ==
  /\ CommitFull \/ CommitWait \/ CommitResume \/ CommitPush
  /\ UNCHANGED <<inVars, lock, io, stops, posted, readVars, decodeVars, workerVars>>

RenderStep ==
  \/ ReadStep
  \/ DecodeStep
  \/ CommitBegin /\ UNCHANGED <<inVars, lock, io, stops, posted, readVars, decodeVars, workerVars>>
  \/ CommitStep

(***************************************************************************)
(* The worker thread, thread_main.  It keeps out_lock_ while it writes.    *)
(***************************************************************************)
\* pop_locked begins, or goes on after a notification, with out_lock_.
WorkerLock ==
  /\ worker = "pop" \/ (worker = "asleep" /\ "worker" \notin outCanPop)
  /\ outLock = "free" /\ outLock' = "worker" /\ worker' = "test"
  /\ UNCHANGED <<outVars, unsent, wire, givenUp>>

\* It finds the queue empty and not closed, and is about to wait ...
WorkerEmpty ==
  /\ worker = "test" /\ Out!IsEmpty(outQueue) /\ ~outQueue.closed
  /\ worker' = "wait"
  /\ UNCHANGED <<outVars, outLock, unsent, wire, givenUp>>

\* ... and waits.
WorkerWait ==
  /\ worker = "wait" /\ worker' = "asleep"
  /\ outCanPop' = outCanPop \cup {"worker"}
  /\ outLock' = "free"
  /\ UNCHANGED <<outQueue, outCanPush, outPushing, outPopping, outRet, unsent, wire, givenUp>>

\* Mutant of WorkerPop: a closed queue ends the thread before it is empty.
WorkerPopStopsEarly ==
  /\ worker = "test" /\ (~Out!IsEmpty(outQueue) \/ outQueue.closed)
  /\ Out!TryPopLocked("worker")
  /\ IF outRet'["worker"].code = "OK" /\ ~outQueue.closed
       THEN unsent' = outRet'["worker"].got[1] /\ worker' = "send" /\ UNCHANGED outLock
       ELSE worker' = "done" /\ outLock' = "free" /\ UNCHANGED unsent
  /\ UNCHANGED <<outCanPop, outPushing, outPopping, wire, givenUp>>

\* Mutant of WorkerPop: room in the queue is told to nobody.
WorkerPopWakesNobody ==
  /\ worker = "test" /\ (~Out!IsEmpty(outQueue) \/ outQueue.closed)
  /\ outQueue' = IF Out!IsEmpty(outQueue) THEN outQueue ELSE Out!Dequeued(outQueue)
  /\ IF Out!IsEmpty(outQueue)
       THEN worker' = "done" /\ outLock' = "free" /\ UNCHANGED unsent
       ELSE unsent' = Out!Front(outQueue) /\ worker' = "send" /\ UNCHANGED outLock
  /\ UNCHANGED <<outCanPush, outCanPop, outPushing, outPopping, outRet, wire, givenUp>>

\* pop_locked returns a buffer to write, or -EIO, which ends the thread.
WorkerPop ==
  /\ worker = "test" /\ (~Out!IsEmpty(outQueue) \/ outQueue.closed)
  /\ Out!TryPopLocked("worker")
  /\ IF outRet'["worker"].code = "OK"
       THEN unsent' = outRet'["worker"].got[1] /\ worker' = "send" /\ UNCHANGED outLock
       ELSE worker' = "done" /\ outLock' = "free" /\ UNCHANGED unsent
  /\ UNCHANGED <<outCanPop, outPushing, outPopping, wire, givenUp>>

\* Mutant of WorkerSend: after a partial write the buffer is sent from its start.
WorkerSendRestarts ==
  /\ worker = "send"
  /\ \E k \in 1 .. Len(unsent) :
       /\ wire' = wire \o SubSeq(unsent, 1, k)
       /\ unsent' = IF k < Len(unsent) THEN unsent ELSE <<>>
  /\ IF unsent' = <<>> THEN outLock' = "free" /\ worker' = "pop"
                       ELSE UNCHANGED <<outLock, worker>>
  /\ UNCHANGED <<outVars, givenUp>>

\* send_raw writes part of the buffer; EINTR and EAGAIN change nothing.
WorkerSend ==
  /\ worker = "send"
  /\ \E k \in 1 .. Len(unsent) :
       /\ wire' = wire \o SubSeq(unsent, 1, k)
       /\ unsent' = SubSeq(unsent, k + 1, Len(unsent))
  /\ IF unsent' = <<>> THEN outLock' = "free" /\ worker' = "pop"
                       ELSE UNCHANGED <<outLock, worker>>
  /\ UNCHANGED <<outVars, givenUp>>

\* Any other errno: the rest of this buffer is given up, the loop goes on.
WorkerSendFails ==
  /\ worker = "send" /\ worker' = "pop" /\ outLock' = "free"
  /\ givenUp' = givenUp \cup Range(unsent) /\ unsent' = <<>>
  /\ UNCHANGED <<outVars, wire>>

WorkerStep ==
  /\ \/ WorkerLock \/ WorkerEmpty \/ WorkerWait \/ WorkerPop
     \/ WorkerSend \/ WorkerSendFails
  /\ UNCHANGED <<inVars, lock, io, stops, posted, render, readVars, decodeVars, answerVars>>

-----------------------------------------------------------------------------
\* The render threads of the other clients take global_lock and release it.
OthersLock == decodeLock = "free" /\ decodeLock' = "others"
OthersUnlock == decodeLock = "others" /\ decodeLock' = "free"

OthersStep ==
  /\ OthersLock \/ OthersUnlock
  /\ UNCHANGED <<inVars, outVars, lock, outLock, io, stops, posted, render, readVars, valid,
                 answerVars, workerVars>>

SpuriousWakeup ==
  /\ \/ \E t \in {"io", "render"} : In!SpuriousWakeup(t) /\ UNCHANGED outVars
     \/ \E t \in {"render", "worker"} : Out!SpuriousWakeup(t) /\ UNCHANGED inVars
  /\ UNCHANGED <<lock, outLock, io, stops, posted, render, readVars, decodeVars, answerVars,
                 workerVars>>

\* The client is gone and its processor destroyed.
Finished == io = "done" /\ UNCHANGED vars

Next == IoStep \/ RenderStep \/ WorkerStep \/ OthersStep \/ SpuriousWakeup \/ Finished

\* Each thread runs when it can (std::mutex lets every waiter in, the socket
\* lets the worker write or fails); the other clients, which run the same code,
\* release global_lock and do not keep this one out for ever.  The guest need not
\* send or go away, the decoders need not answer, a condition variable need not
\* wake up by itself.
Fairness ==
  /\ WF_vars((PostResume \/ Shutdown) /\ IoStep)
  /\ SF_vars(ReadStep \/ DecodeStep \/ CommitStep)
  /\ SF_vars(WorkerStep)
  /\ WF_vars(OthersUnlock /\ OthersStep)

Spec == Init /\ [][Next]_vars /\ Fairness

-----------------------------------------------------------------------------
\* Every variable has its type, and lock_ and out_lock_ are held only inside the
\* critical sections of their owners.
TypeOK ==
  /\ In!TypeOK
  /\ outQueue \in Out!QueueType
  /\ lock \in {"free", "io", "render"} /\ outLock \in {"free", "render", "worker"}
  /\ decodeLock \in {"free", "render", "others"} /\ valid \in 0 .. Len(received)
  /\ lock = "io" <=> io \in {"closeOut", "notifyPush", "notifyPop"}
  /\ lock = "render" => render = "read"
  /\ outLock = "render" <=> render \in {"commit", "commitWait"}
  /\ decodeLock = "render" <=> render \in {"decode", "commit", "commitWait", "commitAsleep"}
  /\ outLock = "worker" <=> worker \in {"test", "wait", "send"}
  /\ render \in {"idle", "read", "lockDecode", "decode", "commit", "commitWait", "commitAsleep", "done"}
  /\ worker \in {"pop", "test", "wait", "asleep", "send", "done"}
  /\ stops \in 0 .. 3

\* The render thread receives the guest's bytes in order, none lost, repeated or
\* invented, however buffers and reads are cut, and it ends only after it has
\* been given every one: closing in_queue_ does not discard what is queued
\* (buffered_io_stream.cpp:58-95, RenderThread.cpp:55-58).
InputIsByteExact ==
  /\ \E n \in 0 .. posted : received = Bytes(0, n)
  /\ render = "done" => received = Bytes(0, posted)

\* The socket carries what commitBuffer accepted, in order and nothing twice: of
\* a prefix of it exactly the bytes that were given up are missing, the rest of
\* each buffer whose write failed.  Partial writes and retries skip and repeat
\* nothing, an error costs the buffers after it nothing, and when the destructor
\* has joined the worker everything else has been written
\* (buffered_io_stream.cpp:113-135, "we can safely expect that the messenger will
\* see all data it has to", tests/anbox/graphics/buffered_io_stream_tests.cpp:68-71).
OutputIsByteExact ==
  /\ \A i, j \in 1 .. Len(wire) : i < j => wire[i] < wire[j]
  /\ \E n \in 0 .. Len(accepted) : Range(wire) = {accepted[i] : i \in 1 .. n} \ givenUp
  /\ io = "done" => Range(wire) = Range(accepted) \ givenUp

\* A client that holds the lock of all the clients gives it up, also when it has
\* to wait for room in out_queue_ while it holds it: no client stops the others
\* from rendering (RenderThread.cpp:61-86, buffered_io_stream.cpp:45-56).
DecodeLockIsReleased == (decodeLock = "render") ~> (decodeLock # "render")

\* Destroying the processor stops the render thread, whatever it is doing:
\* reading, answering, or waiting for room in out_queue_
\* (opengles_message_processor.cpp:51-54).
RenderThreadStops == (io # "run") ~> (render = "done")

\* Destroying the processor ends: "it blocks in its d'tor for the writer thread
\* to quit" (tests/anbox/graphics/buffered_io_stream_tests.cpp:68-69).
DestructionEnds == (io # "run") ~> (io = "done")
=============================================================================
