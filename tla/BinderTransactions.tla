------------------------- MODULE BinderTransactions -------------------------
(***************************************************************************)
(* Calls between processes through the binder driver (modules/anbox/       *)
(* binder/binder.c): transactions and replies, the stack of transactions   *)
(* of a thread, the work lists of threads and processes, the queue of      *)
(* calls without a reply, and what becomes of all that when a thread exits *)
(* or a process dies.  An ioctl holds binder_main_lock except while it     *)
(* waits for work, and is one action up to there.  Each process offers one *)
(* object; references to objects and the memory of buffers are left out.   *)
(***************************************************************************)
EXTENDS Naturals, Sequences, SequencesExt

CONSTANTS
  Threads,   \* threads that have opened the driver
  Procs,     \* their processes
  ProcOf,    \* the process of a thread
  Callees,   \* per process: those whose object it holds a strong reference to
  Async,     \* processes whose object has methods without a reply
  NoThread,  \* a null binder_thread
  MaxTxn,    \* bound: transactions that exist at a time
  MaxTodo    \* bound: length of a thread's work list

ASSUME ThreadAssumption ==
  /\ NoThread \notin Threads /\ ProcOf \in [Threads -> Procs]
  /\ Callees \in [Procs -> SUBSET Procs] /\ Async \subseteq Procs

VARIABLES
  txn,     \* binder_transaction objects, by number; kind "none" is free memory
  stack,   \* per thread: transaction_stack (0 is NULL)
  todo,    \* per thread: todo; a transaction, or 0 for TRANSACTION_COMPLETE
  err,     \* per thread: return_error
  err2,    \* per thread: return_error2
  ptodo,   \* per process: todo
  busy,    \* per object: has_async_transaction
  atodo,   \* per object: async_todo
  held,    \* per object: one-way buffers read and not freed
  live,    \* threads that have not exited
  alive,   \* processes that have not been released
  read,    \* per thread: "out" of binder_thread_read, or waiting: "proc", "thread";
           \* "procfull", "threadfull" if BR_NOOP has filled the read buffer
  asleep,  \* those of them that sleep
  lost,    \* objects a one-way call to which was dropped with a thread's list
  bug      \* a BUG_ON was hit, or a caller's answer could not be stored

kernel == <<txn, stack, todo, err, err2, ptodo, busy, atodo, lost, bug>>
vars == <<kernel, held, live, alive, read, asleep>>

Txns == 1..MaxTxn

NoTxn == [kind |-> "none", from |-> NoThread, fromParent |-> 0, to |-> NoThread, toParent |-> 0]

\* The part of the state that the helpers of the driver map to a new one.
State == [txn |-> txn, stack |-> stack, todo |-> todo, err |-> err, err2 |-> err2,
          ptodo |-> ptodo, busy |-> busy, atodo |-> atodo, lost |-> lost, bug |-> bug,
          asleep |-> asleep]

\* The state becomes s, and the threads of woken run again.
Becomes(s, woken) ==
  /\ txn' = s.txn /\ stack' = s.stack /\ todo' = s.todo /\ err' = s.err /\ err2' = s.err2
  /\ ptodo' = s.ptodo /\ busy' = s.busy /\ atodo' = s.atodo /\ lost' = s.lost /\ bug' = s.bug
  /\ asleep' = s.asleep \ woken

-----------------------------------------------------------------------------
(***************************************************************************)
(* Helpers.                                                                *)
(***************************************************************************)
\* Waiting for work of the process, or for work of the thread itself.
ProcWait == {"proc", "procfull"}
ThreadWait == {"thread", "threadfull"}

Kfree(s, t) == [s EXCEPT !.txn[t] = NoTxn]

\* wake_up_interruptible(&thread->wait).
WakeThread(s, th) == IF read[th] \in ThreadWait THEN [s EXCEPT !.asleep = @ \ {th}] ELSE s

\* wake_up_interruptible(&proc->wait): one of the sleepers, all being exclusive.
WakeProc(s, p) ==
  LET sleepers == {th \in s.asleep : ProcOf[th] = p /\ read[th] \in ProcWait}
  IN  IF sleepers = {} THEN {{}} ELSE {{th} : th \in sleepers}

\* binder_pop_transaction.
Pop(s, th, t) ==
  IF th = NoThread THEN Kfree(s, t)
  ELSE [Kfree(s, t) EXCEPT !.stack[th] = s.txn[t].fromParent,
                           !.bug = @ \/ s.stack[th] # t \/ s.txn[t].from # th]

\* From t upwards as long as the callers are dead; 0 if there is no live one.
Climb(s, t) ==
  LET up[k \in 0..MaxTxn] ==
        IF k = 0 THEN t
        ELSE LET a == up[k - 1]
             IN  IF a = 0 THEN 0
                 ELSE IF s.txn[a].from # NoThread THEN a ELSE s.txn[a].fromParent
  IN  [last |-> up[MaxTxn], dead |-> {up[k] : k \in 0..MaxTxn} \ {0, up[MaxTxn]}]

\* Mutant of FailedReply: only the caller itself is told.
FailedReplyOnce(s, t, code) ==
  LET c == s.txn[t].from
  IN  IF c = NoThread THEN Kfree(s, t)
      ELSE WakeThread([Pop(s, c, t) EXCEPT !.err[c] = code], c)

\* Mutant of FailedReply: return_error2 is not used.
FailedReplyOneError(s, t, code) ==
  LET up == Climb(s, t)
      s1 == [s EXCEPT !.txn = [x \in Txns |-> IF x \in up.dead THEN NoTxn ELSE s.txn[x]]]
      c == s.txn[up.last].from
  IN  IF up.last = 0 THEN s1
      ELSE IF s1.err[c] # "ok" THEN [s1 EXCEPT !.bug = TRUE]
      ELSE WakeThread([Pop(s1, c, up.last) EXCEPT !.err[c] = code], c)

\* binder_send_failed_reply: the nearest caller that lives gets the error code,
\* the transactions of dead ones on the way are freed.
FailedReply(s, t, code) ==
  LET up == Climb(s, t)
      s1 == [s EXCEPT !.txn = [x \in Txns |-> IF x \in up.dead THEN NoTxn ELSE s.txn[x]]]
      c == s.txn[up.last].from
      s2 == IF s1.err[c] # "ok" /\ s1.err2[c] = "ok"
              THEN [s1 EXCEPT !.err2[c] = s1.err[c], !.err[c] = "ok"] ELSE s1
  IN  IF up.last = 0 THEN s1
      ELSE IF s2.err[c] # "ok" THEN [s2 EXCEPT !.bug = TRUE]
      ELSE WakeThread([Pop(s2, c, up.last) EXCEPT !.err[c] = code], c)

\* binder_release_work for one entry of a list of the process p.
ReleaseEntry(s, w, p) ==
  IF w = 0 THEN s
  ELSE IF s.txn[w].kind = "sync" THEN FailedReply(s, w, "dead")
  ELSE [Kfree(s, w) EXCEPT !.lost = IF s.txn[w].kind = "oneway" THEN @ \cup {p} ELSE @]

ReleaseWork(s, list, p) == FoldLeft(LAMBDA acc, w : ReleaseEntry(acc, w, p), s, list)

\* The transactions on the stack of a thread, as binder_free_thread follows it.
OnStack(s, th) ==
  LET walk[k \in 0..MaxTxn] ==
        IF k = 0 THEN s.stack[th]
        ELSE LET a == walk[k - 1]
             IN  IF a = 0 THEN 0
                 ELSE IF s.txn[a].to = th THEN s.txn[a].toParent ELSE s.txn[a].fromParent
  IN  {walk[k] : k \in 0..MaxTxn} \ {0}

\* No transaction names the thread any more.
Detached(s, th) ==
  LET mine == OnStack(s, th)
  IN  [s EXCEPT !.txn = [x \in Txns |->
                           IF x \notin mine THEN s.txn[x]
                           ELSE IF s.txn[x].to = th THEN [s.txn[x] EXCEPT !.to = NoThread]
                           ELSE [s.txn[x] EXCEPT !.from = NoThread]],
                !.stack[th] = 0,
                !.bug = @ \/ \E x \in mine : th \notin {s.txn[x].from, s.txn[x].to}]

\* binder_free_thread.  If the thread is itself waiting for a callee, its own
\* caller is told when that callee answers.
FreeThread(s, th) ==
  LET top == s.stack[th]
      s1 == Detached(s, th)
      s2 == IF top # 0 /\ s.txn[top].to = th
              THEN FailedReply(s1, top, "dead") ELSE s1
      s3 == ReleaseWork(s2, s2.todo[th], ProcOf[th])
  IN  [s3 EXCEPT !.todo[th] = <<>>, !.err[th] = "ok", !.err2[th] = "ok"]

-----------------------------------------------------------------------------
(***************************************************************************)
(* The commands of a thread.  None is read while an error is to be told.   *)
(***************************************************************************)
Init ==
  /\ txn = [t \in Txns |-> NoTxn] /\ stack = [th \in Threads |-> 0]
  /\ todo = [th \in Threads |-> <<>>]
  /\ err = [th \in Threads |-> "ok"] /\ err2 = [th \in Threads |-> "ok"]
  /\ ptodo = [p \in Procs |-> <<>>] /\ busy = [p \in Procs |-> FALSE]
  /\ atodo = [p \in Procs |-> <<>>] /\ held = [p \in Procs |-> 0]
  /\ live = Threads /\ alive = Procs
  /\ read = [th \in Threads |-> "out"] /\ asleep = {} /\ lost = {} /\ bug = FALSE

Outside(th) == th \in live /\ read[th] = "out"
CanWrite(th) == Outside(th) /\ err[th] = "ok" /\ Len(todo[th]) < MaxTodo

FreeTxns == {t \in Txns : txn[t].kind = "none"}
NewTxn == Min(FreeTxns)

\* The command fails and the thread will be told so.
Fails(th, code) ==
  /\ Becomes([State EXCEPT !.err[th] = code], {})
  /\ UNCHANGED <<held, live, alive, read>>

\* A thread of p that waits, perhaps indirectly, for this one: the outermost.
TargetThread(th, p) ==
  LET up[k \in 0..MaxTxn] ==
        IF k = 0 THEN stack[th] ELSE IF up[k - 1] = 0 THEN 0 ELSE txn[up[k - 1]].fromParent
      waiting == {k \in 0..MaxTxn : /\ up[k] # 0
                                    /\ txn[up[k]].from # NoThread
                                    /\ ProcOf[txn[up[k]].from] = p}
  IN  IF waiting = {} THEN NoThread ELSE txn[up[Max(waiting)]].from

\* BC_TRANSACTION with a reply: the call goes to a thread that waits for this
\* one, or to the process.
Call(th, p) ==
  /\ FreeTxns # {}
  /\ stack[th] # 0 => txn[stack[th]].to = th
  /\ LET t == NewTxn
         target == TargetThread(th, p)
         s == [State EXCEPT
                 !.txn[t] = [kind |-> "sync", from |-> th, fromParent |-> stack[th],
                             to |-> target, toParent |-> 0],
                 !.stack[th] = t]
         queued == IF target = NoThread THEN [s EXCEPT !.ptodo[p] = Append(@, t)]
                   ELSE WakeThread([s EXCEPT !.todo[target] = Append(@, t)], target)
     IN  \E woken \in (IF target = NoThread THEN WakeProc(queued, p) ELSE {{}}) :
           Becomes([queued EXCEPT !.todo[th] = Append(@, 0)], woken)
  /\ UNCHANGED <<held, live, alive, read>>

\* Mutant of CallOneWay: the calls to an object are not serialised.
CallOneWayAtOnce(th, p) ==
  /\ FreeTxns # {}
  /\ LET t == NewTxn
         s == [State EXCEPT !.txn[t] = [NoTxn EXCEPT !.kind = "oneway"],
                            !.todo[th] = Append(@, 0), !.busy[p] = TRUE,
                            !.ptodo[p] = Append(@, t)]
     IN  \E woken \in WakeProc(s, p) : Becomes(s, woken)
  /\ UNCHANGED <<held, live, alive, read>>

\* BC_TRANSACTION without a reply: one such call to an object is under way at a
\* time, the others wait in its async_todo.
CallOneWay(th, p) ==
  /\ FreeTxns # {}
  /\ LET t == NewTxn
         s == [State EXCEPT !.txn[t] = [NoTxn EXCEPT !.kind = "oneway"],
                            !.todo[th] = Append(@, 0), !.busy[p] = TRUE]
     IN  IF busy[p]
           THEN Becomes([s EXCEPT !.atodo[p] = Append(@, t)], {})
           ELSE \E woken \in WakeProc(s, p) :
                  Becomes([s EXCEPT !.ptodo[p] = Append(@, t)], woken)
  /\ UNCHANGED <<held, live, alive, read>>

\* binder_transaction for a call.
Transaction(th, p) ==
  /\ CanWrite(th) /\ p \in Callees[ProcOf[th]]
  /\ IF p \notin alive THEN Fails(th, "dead")
     ELSE \/ Call(th, p)
          \/ p \in Async /\ CallOneWay(th, p)
          \/ Fails(th, "failed")    \* a bad stack, or no memory

\* The reply is queued for the caller c, whose call is over.
Answer(th, in, c) ==
  /\ FreeTxns # {}
  /\ LET r == NewTxn
         s == Pop([State EXCEPT !.stack[th] = txn[in].toParent], c, in)
     IN  Becomes(WakeThread([s EXCEPT
                   !.txn[r] = [NoTxn EXCEPT !.kind = "reply", !.to = c],
                   !.todo = [@ EXCEPT ![c] = Append(@, r), ![th] = Append(@, 0)]], c), {})

\* The reply cannot be delivered: this thread sees BR_TRANSACTION_COMPLETE, a
\* caller the error.
AnswerFails(th, in, code) ==
  Becomes(FailedReply([State EXCEPT !.stack[th] = txn[in].toParent, !.err[th] = "complete"],
                      in, code), {})

\* binder_transaction for BC_REPLY.
Reply(th) ==
  /\ CanWrite(th)
  /\ LET in == stack[th]
     IN  IF in = 0 THEN Fails(th, "failed")
         ELSE IF txn[in].to # th THEN Fails(th, "failed")
         ELSE LET c == txn[in].from
              IN  /\ IF c = NoThread THEN AnswerFails(th, in, "dead")
                     ELSE IF stack[c] # in
                       THEN Becomes([State EXCEPT !.stack[th] = txn[in].toParent,
                                                  !.err[th] = "failed", !.bug = TRUE], {})
                     ELSE \/ Answer(th, in, c)
                          \/ AnswerFails(th, in, "failed")   \* no memory
                  /\ UNCHANGED <<held, live, alive, read>>

\* BC_FREE_BUFFER of a one-way call: the next one goes to this thread.
FreeAsyncBuffer(th) ==
  LET p == ProcOf[th]
  IN  /\ CanWrite(th) /\ held[p] > 0
      /\ held' = [held EXCEPT ![p] = @ - 1]
      /\ Becomes(IF atodo[p] = <<>>
                   THEN [State EXCEPT !.busy[p] = FALSE, !.bug = @ \/ ~busy[p]]
                   ELSE [State EXCEPT !.atodo[p] = Tail(@), !.bug = @ \/ ~busy[p],
                                      !.todo[th] = Append(@, Head(atodo[p]))], {})
      /\ UNCHANGED <<live, alive, read>>

-----------------------------------------------------------------------------
(***************************************************************************)
(* binder_thread_read.                                                     *)
(***************************************************************************)
HasWork(th, kind) ==
  IF kind \in ProcWait THEN ptodo[ProcOf[th]] # <<>> ELSE todo[th] # <<>> \/ err[th] # "ok"

\* Mutant of LeaveRead: the rest of the process's work wakes nobody.
LeaveReadSilently(s, th) ==
  /\ read' = [read EXCEPT ![th] = "out"]
  /\ Becomes([s EXCEPT !.asleep = @ \ {th}], {})
  /\ UNCHANGED <<live, alive>>

\* The end of binder_ioctl_write_read: another thread is woken for the work the
\* process still has.
LeaveRead(s, th) ==
  LET p == ProcOf[th]
      s1 == [s EXCEPT !.asleep = @ \ {th}]
  IN  /\ read' = [read EXCEPT ![th] = "out"]
      /\ \E woken \in (IF s.ptodo[p] = <<>> THEN {{}} ELSE WakeProc(s1, p)) : Becomes(s1, woken)
      /\ UNCHANGED <<live, alive>>

\* The errors are told, the older one first; both are kept if the buffer has
\* room for that one only.
TellError(th) ==
  /\ \/ LeaveRead([State EXCEPT !.err[th] = "ok", !.err2[th] = "ok"], th)
     \/ err2[th] # "ok" /\ LeaveRead(State, th)
  /\ UNCHANGED held

\* The lock is released to wait; a thread without a call and without work of its
\* own waits for work of the process.
Wait(th, full) ==
  LET own == stack[th] # 0 \/ todo[th] # <<>>
      kind == IF full THEN IF own THEN "threadfull" ELSE "procfull"
              ELSE IF own THEN "thread" ELSE "proc"
  IN  /\ read' = [read EXCEPT ![th] = kind]
      /\ asleep' = IF HasWork(th, kind) THEN asleep ELSE asleep \cup {th}
      /\ UNCHANGED <<kernel, held, live, alive>>

\* An error is told at once, or the thread waits because the buffer has no room
\* for it.  Without an error a full buffer differs only at the end of the wait,
\* where ReadNothing leaves the work that it has no room for.
EnterRead(th) ==
  /\ Outside(th)
  /\ IF err[th] = "ok" THEN Wait(th, FALSE) ELSE TellError(th) \/ Wait(th, TRUE)

\* Woken for an error that there is no room for.
Retry(th) ==
  /\ read[th] = "threadfull" /\ th \notin asleep /\ todo[th] = <<>> /\ err[th] # "ok"
  /\ Wait(th, TRUE)

\* The work was taken by another thread.
Resleep(th) ==
  /\ read[th] # "out" /\ th \notin asleep /\ ~HasWork(th, read[th])
  /\ asleep' = asleep \cup {th}
  /\ UNCHANGED <<kernel, held, live, alive, read>>

\* The transaction t is handed to the thread.
Deliver(s, th, t) ==
  IF s.txn[t].kind = "sync"
    THEN [s EXCEPT !.txn[t].to = th, !.txn[t].toParent = s.stack[th], !.stack[th] = t]
    ELSE Kfree(s, t)

\* Everything up to the first transaction is read.
ReadWork(th) ==
  LET p == ProcOf[th]
      own == SelectSeq(todo[th], LAMBDA w : w # 0)
      first == Head(own)
      at == SelectInSeq(todo[th], LAMBDA w : w # 0)
      drained == [State EXCEPT !.todo[th] = SubSeq(@, at + 1, Len(@))]
      emptied == [State EXCEPT !.todo[th] = <<>>]
      proc == read[th] = "proc" /\ ptodo[p] # <<>>
      t == IF own # <<>> THEN first ELSE IF proc THEN Head(ptodo[p]) ELSE 0
      s == IF own # <<>> THEN drained
           ELSE IF proc THEN [emptied EXCEPT !.ptodo[p] = Tail(@)] ELSE emptied
  IN  /\ read[th] \in {"proc", "thread"} /\ th \notin asleep /\ HasWork(th, read[th])
      /\ IF todo[th] = <<>> /\ ~proc THEN TellError(th)
         ELSE /\ LeaveRead(IF t = 0 THEN s ELSE Deliver(s, th, t), th)
              /\ held' = IF t # 0 /\ txn[t].kind = "oneway"
                           THEN [held EXCEPT ![p] = @ + 1] ELSE held

\* The buffer has no room for a transaction behind some BR_TRANSACTION_COMPLETE.
ReadComplete(th) ==
  /\ read[th] \in {"proc", "thread"} /\ th \notin asleep
  /\ \E n \in 1..Len(todo[th]) :
       /\ \A i \in 1..n : todo[th][i] = 0
       /\ LeaveRead([State EXCEPT !.todo[th] = SubSeq(@, n + 1, Len(@))], th)
  /\ UNCHANGED held

\* A signal ends the wait, or the read buffer cannot be written or is full.
ReadNothing(th) ==
  /\ read[th] # "out"
  /\ LeaveRead(State, th) /\ UNCHANGED held

-----------------------------------------------------------------------------
(***************************************************************************)
(* The end of a thread and of a process.                                   *)
(***************************************************************************)
\* BINDER_THREAD_EXIT.
ThreadExit(th) ==
  /\ Outside(th)
  /\ live' = live \ {th}
  /\ Becomes(FreeThread(State, th), {})
  /\ UNCHANGED <<held, alive, read>>

\* binder_deferred_release, when the last thread has left the driver.
DeferredRelease(p) ==
  LET mine == {th \in live : ProcOf[th] = p}
      s1 == FoldLeft(FreeThread, State, SetToSeq(mine))
      s2 == ReleaseWork(s1, s1.atodo[p], p)
      s3 == ReleaseWork(s2, s2.ptodo[p], p)
  IN  /\ p \in alive /\ \A th \in mine : read[th] = "out"
      /\ alive' = alive \ {p} /\ live' = live \ mine /\ held' = [held EXCEPT ![p] = 0]
      /\ Becomes([s3 EXCEPT !.atodo[p] = <<>>, !.ptodo[p] = <<>>, !.busy[p] = FALSE,
                            !.lost = @ \ {p}], {})
      /\ UNCHANGED read

Next ==
  \/ \E th \in Threads : \/ \E p \in Procs : Transaction(th, p)
                         \/ Reply(th) \/ FreeAsyncBuffer(th)
                         \/ EnterRead(th) \/ Retry(th) \/ Resleep(th) \/ ReadWork(th)
                         \/ ReadComplete(th) \/ ReadNothing(th)
                         \/ ThreadExit(th)
  \/ \E p \in Procs : DeferredRelease(p)

Spec == Init /\ [][Next]_vars

-----------------------------------------------------------------------------
(***************************************************************************)
(* Properties.                                                             *)
(***************************************************************************)
Codes == {"ok", "dead", "failed", "complete"}

TypeOK ==
  /\ txn \in [Txns -> [kind : {"none", "sync", "oneway", "reply"},
                       from : Threads \cup {NoThread}, fromParent : 0..MaxTxn,
                       to : Threads \cup {NoThread}, toParent : 0..MaxTxn]]
  /\ stack \in [Threads -> 0..MaxTxn]
  /\ \A th \in Threads : todo[th] \in Seq(0..MaxTxn)
  /\ \A p \in Procs : ptodo[p] \in Seq(Txns) /\ atodo[p] \in Seq(Txns)
  /\ err \in [Threads -> Codes] /\ err2 \in [Threads -> Codes]
  /\ busy \in [Procs -> BOOLEAN] /\ held \in [Procs -> Nat] /\ lost \subseteq Procs
  /\ live \subseteq Threads /\ alive \subseteq Procs
  /\ read \in [Threads -> {"out"} \cup ProcWait \cup ThreadWait] /\ asleep \subseteq live
  /\ bug \in BOOLEAN

Queued == UNION ({Range(todo[th]) : th \in Threads} \cup {Range(ptodo[p]) : p \in Procs}
                 \cup {Range(atodo[p]) : p \in Procs}) \ {0}
Exists(t) == txn[t].kind # "none"

\* No pointer outlives what it points to: transactions on stacks, in work lists
\* and as parents exist, and those that exist name only live threads; and no
\* assertion of binder.c fails (1255, 1256, 1274, 2290, 3142), no reply meets a
\* caller that waits for something else (1929), no caller has two errors
\* already when a third is to be told (1294).
NothingDangles ==
  /\ ~bug
  /\ \A th \in Threads : stack[th] # 0 => Exists(stack[th])
  /\ \A t \in Queued : Exists(t)
  /\ \A t \in Txns : Exists(t) =>
       /\ {txn[t].from, txn[t].to} \subseteq live \cup {NoThread}
       /\ txn[t].fromParent # 0 => Exists(txn[t].fromParent)
       /\ txn[t].toParent # 0 /\ txn[t].to # NoThread => Exists(txn[t].toParent)

\* A call is never forgotten: what a live thread waits for is in a work list,
\* being served by a live thread, or was left behind by a server that died
\* while it waited for a call of its own that is not forgotten either.
\* (binder_free_thread 3111, binder_send_failed_reply 1268.)
CallsAreNotForgotten ==
  LET Pending(t) == t \in Queued \/ txn[t].to # NoThread
      behind[k \in 0..MaxTxn] ==
        IF k = 0 THEN {t \in Txns : Exists(t) /\ Pending(t)}
        ELSE behind[k - 1] \cup ({txn[t].fromParent : t \in behind[k - 1]} \ {0})
  IN  \A t \in Txns : txn[t].kind = "sync" => t \in behind[MaxTxn]

\* A thread sleeps only while there is nothing for it (or an error that it has
\* left no room for, 2722), and while the process has work for its idle threads
\* one of them is awake (3227-3228).
NoLostWakeup ==
  /\ \A th \in asleep : todo[th] = <<>> /\ (err[th] = "ok" \/ read[th] = "procfull")
  /\ \A th \in asleep : read[th] \in ProcWait /\ ptodo[ProcOf[th]] # <<>> =>
       \E w \in live \ asleep : ProcOf[w] = ProcOf[th] /\ read[w] \in ProcWait

\* The one-way calls to an object are handled one at a time, and as long as
\* has_async_transaction is set there is one whose end will pass the turn on,
\* unless a thread exited with the call in its list.
AsyncIsSerialised ==
  \A p \in alive :
    LET carried == {t \in Txns : /\ txn[t].kind = "oneway"
                                 /\ t \in Range(ptodo[p]) \cup
                                          UNION {Range(todo[th]) : th \in {x \in Threads : ProcOf[x] = p}}}
        under == Cardinality(carried) + held[p]
    IN  /\ under <= 1
        /\ p \notin lost => (busy[p] <=> under = 1)
=============================================================================
