--------------------------- MODULE SessionManager ---------------------------
(***************************************************************************)
(* The session manager's life with respect to the container: it asks the   *)
(* container manager to start the container (Client::start, on a thread of *)
(* the runtime), runs until a signal or a lost connection, asks for the    *)
(* container to be stopped (main thread), stops the runtime and exits.     *)
(* Requests go through rpc::Channel and PendingCallCache, the answers come *)
(* in on another thread of the runtime.  The container manager is          *)
(* external: it answers in order, as slowly as it likes, or dies.          *)
(***************************************************************************)
EXTENDS Naturals, Sequences

Calls == {"start", "stop"}

VARIABLES
  main,           \* the main thread: "run", "send", "wait", "halt", "join", "exited"
  starter,        \* the start task: "queued", "save", "send", "wait", "done"
  rpcReader,      \* on_read_size: "idle", "complete" (between its two uses of the
                  \*   cache) with the answer at hand, or "dead" when no read follows
  answer,         \* the answer it is working on
  pendingCalls,   \* PendingCallCache: calls not completed
  handleReceived, \* per call: WaitHandle::received
  failed,         \* calls whose response carries an error
  runs,           \* per call: how often its closure has run
  trapped,        \* trap->stop() was called, by a signal or a terminate handler
  halted,         \* io_service::stop() was called: no handler is started any more
  manager,        \* the container manager: "alive" or "dead"
  requests,       \* what it has still to answer
  replies         \* answers on their way: [call, ok]

clientVars == <<pendingCalls, handleReceived, failed, runs>>
sessionVars ==
  <<main, starter, rpcReader, answer, clientVars, trapped, halted, manager, requests, replies>>

NoAnswer == [call |-> "none", ok |-> TRUE]

SessionInit ==
  /\ main = "run" /\ starter = "queued" /\ rpcReader = "idle" /\ answer = NoAnswer
  /\ pendingCalls = {} /\ handleReceived = [c \in Calls |-> 0] /\ failed = {}
  /\ runs = [c \in Calls |-> 0]
  /\ trapped = FALSE /\ halted = FALSE
  /\ manager = "alive" /\ requests = <<>> /\ replies = <<>>

(***************************************************************************)
(* PendingCallCache and Channel.                                           *)
(***************************************************************************)
\* Runs the closures of the calls in C: WaitHandle::result_received.
RunClosures(C) ==
  /\ handleReceived' = [c \in Calls |-> IF c \in C THEN handleReceived[c] + 1 ELSE handleReceived[c]]
  /\ runs' = [c \in Calls |-> IF c \in C THEN runs[c] + 1 ELSE runs[c]]

SaveCompletionDetails(c) ==
  /\ pendingCalls' = pendingCalls \cup {c}
  /\ UNCHANGED <<handleReceived, failed, runs>>

\* Mutant of ForceCompletion: only the last call is completed.
ForceCompletionOfStop ==
  RunClosures(pendingCalls \cap {"stop"}) /\ pendingCalls' = pendingCalls \ {"stop"} /\ UNCHANGED failed

\* Every pending call, not only the one whose send failed.
ForceCompletionOfAll == RunClosures(pendingCalls) /\ pendingCalls' = {} /\ UNCHANGED failed

\* send_message: it reaches the manager, or it throws after force_completion.
Sends(c) ==
  /\ manager = "alive"
  /\ requests' = Append(requests, c)
  /\ UNCHANGED clientVars

SendThrows ==
  /\ manager = "dead"
  /\ ForceCompletionOfAll
  /\ UNCHANGED requests

(***************************************************************************)
(* The start task: Client::start, ManagementApiStub::start_container.      *)
(***************************************************************************)
StartBegin ==
  /\ starter = "queued" /\ ~halted
  /\ starter' = "save"
  /\ UNCHANGED <<main, rpcReader, answer, clientVars, trapped, halted, manager, requests, replies>>

StartSave ==
  /\ starter = "save" /\ starter' = "send"
  /\ SaveCompletionDetails("start")
  /\ UNCHANGED <<main, rpcReader, answer, trapped, halted, manager, requests, replies>>

StartSend ==
  /\ starter = "send"
  /\ \/ Sends("start") /\ starter' = "wait" /\ UNCHANGED trapped
     \/ SendThrows /\ starter' = "done" /\ trapped' = TRUE
  /\ UNCHANGED <<main, rpcReader, answer, halted, manager, replies>>

\* Mutant of StartReturns: the error of the response is not looked at.
StartReturnsSilently ==
  /\ starter = "wait" /\ handleReceived["start"] = 1
  /\ starter' = "done"
  /\ UNCHANGED <<main, rpcReader, answer, clientVars, trapped, halted, manager, requests, replies>>

\* wait_for_all; an error ends the session through the terminate handler.
StartReturns ==
  /\ starter = "wait" /\ handleReceived["start"] = 1
  /\ starter' = "done"
  /\ trapped' = (trapped \/ "start" \in failed)
  /\ UNCHANGED <<main, rpcReader, answer, clientVars, halted, manager, requests, replies>>

(***************************************************************************)
(* Client::on_read_size, on any thread of the runtime.                     *)
(***************************************************************************)
\* populate_message_for_result; its at() throws when the call was completed by
\* force_completion, and then no further read is started.
ReadPopulate ==
  /\ rpcReader = "idle" /\ ~halted /\ replies # <<>>
  /\ replies' = Tail(replies)
  /\ IF Head(replies).call \in pendingCalls
       THEN /\ rpcReader' = "complete" /\ answer' = Head(replies)
            /\ failed' = IF Head(replies).ok THEN failed ELSE failed \cup {Head(replies).call}
       ELSE rpcReader' = "dead" /\ UNCHANGED <<answer, failed>>
  /\ UNCHANGED <<main, starter, pendingCalls, handleReceived, runs, trapped, halted, manager, requests>>

\* Mutant of ReadComplete: the closure runs whether or not the call is pending.
ReadCompleteBlindly ==
  /\ rpcReader = "complete" /\ rpcReader' = "idle" /\ answer' = NoAnswer
  /\ RunClosures({answer.call}) /\ pendingCalls' = pendingCalls \ {answer.call}
  /\ UNCHANGED <<main, starter, failed, trapped, halted, manager, requests, replies>>

\* complete_response
ReadComplete ==
  /\ rpcReader = "complete" /\ rpcReader' = "idle" /\ answer' = NoAnswer
  /\ RunClosures({answer.call} \cap pendingCalls) /\ pendingCalls' = pendingCalls \ {answer.call}
  /\ UNCHANGED <<main, starter, failed, trapped, halted, manager, requests, replies>>

\* An error: "Lost connection to container manager, terminating."
ReadFails ==
  /\ rpcReader = "idle" /\ ~halted /\ replies = <<>> /\ manager = "dead"
  /\ rpcReader' = "dead" /\ trapped' = TRUE
  /\ UNCHANGED <<main, starter, answer, clientVars, halted, manager, requests, replies>>

(***************************************************************************)
(* The main thread.                                                        *)
(***************************************************************************)
Signal ==
  /\ ~trapped /\ trapped' = TRUE
  /\ UNCHANGED <<main, starter, rpcReader, answer, clientVars, halted, manager, requests, replies>>

\* trap->run() returns; Client::stop, ManagementApiStub::stop_container.
StopSave ==
  /\ main = "run" /\ trapped /\ main' = "send"
  /\ SaveCompletionDetails("stop")
  /\ UNCHANGED <<starter, rpcReader, answer, trapped, halted, manager, requests, replies>>

\* A send that throws unwinds main, which destroys the runtime.
StopSend ==
  /\ main = "send"
  /\ \/ Sends("stop") /\ main' = "wait"
     \/ SendThrows /\ main' = "halt"
  /\ UNCHANGED <<starter, rpcReader, answer, trapped, halted, manager, replies>>

\* Mutant of StopTimesOut: wait_for_all in place of wait_for_pending.
StopNeverTimesOut ==
  /\ main = "wait" /\ handleReceived["stop"] = 1 /\ main' = "halt"
  /\ UNCHANGED <<starter, rpcReader, answer, clientVars, trapped, halted, manager, requests, replies>>

\* wait_for_pending returns with the answer, or after stop_waiting_timeout.  An
\* error in the answer throws; the runtime is destroyed all the same.
StopReturns ==
  /\ main = "wait" /\ handleReceived["stop"] = 1 /\ main' = "halt"
  /\ UNCHANGED <<starter, rpcReader, answer, clientVars, trapped, halted, manager, requests, replies>>

StopTimesOut ==
  /\ main = "wait" /\ handleReceived["stop"] = 0 /\ main' = "halt"
  /\ UNCHANGED <<starter, rpcReader, answer, clientVars, trapped, halted, manager, requests, replies>>

\* Runtime::stop: service_.stop() ...
Halt ==
  /\ main = "halt" /\ main' = "join" /\ halted' = TRUE
  /\ UNCHANGED <<starter, rpcReader, answer, clientVars, trapped, manager, requests, replies>>

\* ... and the join of the workers: no handler is running.
Join ==
  /\ main = "join" /\ starter \in {"queued", "done"} /\ rpcReader # "complete"
  /\ main' = "exited"
  /\ UNCHANGED <<starter, rpcReader, answer, clientVars, trapped, halted, manager, requests, replies>>

(***************************************************************************)
(* The container manager.                                                  *)
(***************************************************************************)
Answer ==
  /\ manager = "alive" /\ requests # <<>> /\ main # "exited"
  /\ requests' = Tail(requests)
  /\ \E ok \in BOOLEAN : replies' = Append(replies, [call |-> Head(requests), ok |-> ok])
  /\ UNCHANGED <<main, starter, rpcReader, answer, clientVars, trapped, halted, manager>>

Die ==
  /\ manager = "alive" /\ main # "exited" /\ manager' = "dead"
  /\ UNCHANGED <<main, starter, rpcReader, answer, clientVars, trapped, halted, requests, replies>>

StarterStep == StartBegin \/ StartSave \/ StartSend \/ StartReturns
ReaderStep == ReadPopulate \/ ReadComplete \/ ReadFails
MainStep == StopSave \/ StopSend \/ StopReturns \/ StopTimesOut \/ Halt \/ Join

SessionNext == StarterStep \/ ReaderStep \/ MainStep \/ Signal \/ Answer \/ Die

\* Every thread that can run runs, a timeout expires, and a manager that is
\* alive answers.
SessionFairness ==
  /\ WF_sessionVars(StarterStep) /\ WF_sessionVars(ReaderStep)
  /\ WF_sessionVars(MainStep) /\ WF_sessionVars(Answer)

SessionSpec == SessionInit /\ [][SessionNext]_sessionVars /\ SessionFairness

-----------------------------------------------------------------------------
\* The values of the variables.
SessionTypeOK ==
  /\ main \in {"run", "send", "wait", "halt", "join", "exited"}
  /\ starter \in {"queued", "save", "send", "wait", "done"}
  /\ rpcReader \in {"idle", "complete", "dead"}
  /\ pendingCalls \subseteq Calls /\ failed \subseteq Calls
  /\ \A c \in Calls : handleReceived[c] \in 0 .. 1
  /\ {requests[i] : i \in DOMAIN requests} \subseteq Calls

\* The closure of a call runs once at most, although the reading thread and a
\* thread whose send fails may complete it at the same time: a closure deletes
\* itself when it has run (pending_call_cache.cpp:46-69).
ClosureRunsOnce == \A c \in Calls : runs[c] <= 1

\* A start request that the manager refuses ends the session, whatever the main
\* thread is doing when the refusal comes in (client.cpp:46-52).
FailedStartExits == ("start" \in failed) ~> (main = "exited")

\* Exiting works once the start request has been answered, however slow the
\* manager is with the stop request ("so just wait for 3 seconds"), and when the
\* manager is dead by the time the stop request is sent, even if the start
\* request is still unanswered: the failing send completes every pending call
\* (management_api_stub.cpp:94-96, channel.cpp:87-97, pending_call_cache.cpp:61-69).
ExitsOnceReleased ==
  (\/ main # "run" /\ starter = "done"
   \/ main = "send" /\ manager = "dead") ~> (main = "exited")
=============================================================================
