--------------------------- MODULE AndroidApiStub ---------------------------
(***************************************************************************)
(* Calls from the session manager to Android: AndroidApiStub on top of     *)
(* rpc::Channel and PendingCallCache.  The callers are the threads that use *)
(* one wait handle of the stub (two D-Bus launches, or a launch and the    *)
(* start of the application manager); all calls share the counter of       *)
(* Channel::next_id, which no lock protects.  Android answers in order or  *)
(* disconnects; a new connection gets a channel and a cache of its own.    *)
(***************************************************************************)
EXTENDS Naturals, Sequences, FiniteSets, SequencesExt

CONSTANTS
  Callers,   \* threads that call the stub
  MaxCalls,  \* bound: calls of each thread
  MaxLinks   \* bound: connections of Android

ASSUME StubAssumption == MaxCalls \in Nat /\ MaxLinks \in Nat \ {0}

VARIABLES
  nextId,     \* next_message_id
  pc,         \* per thread: "idle", "id", "store", "save", "send", "wait"
  id,         \* per thread: the id of its call
  chan,       \* per thread: the connection whose channel the call uses
  calls,      \* per thread: calls begun
  expecting,  \* the wait handle
  received,
  pending,    \* per connection, PendingCallCache: id -> the call to complete
  link,       \* the number of the current connection
  up,         \* Android has it open
  reader,     \* its read handler: "idle", "complete" (between the two steps of a
              \* result) or "dead" (an exception left it, nothing reads any more)
  inflight,   \* ids of the calls Android has not answered, and the one being read
  answered,   \* the calls whose answer was received
  completed,  \* the calls whose closure has run, in order
  outcome     \* how the last call of each thread ended

vars == <<nextId, pc, id, chan, calls, expecting, received, pending, link, up, reader, inflight,
          answered, completed, outcome>>

Links == 1 .. MaxLinks
ThisCall(c) == <<c, calls[c]>>

Init ==
  /\ nextId = 0
  /\ pc = [c \in Callers |-> "idle"] /\ id = [c \in Callers |-> 0]
  /\ chan = [c \in Callers |-> 1] /\ calls = [c \in Callers |-> 0]
  /\ expecting = 0 /\ received = 0
  /\ pending = [l \in Links |-> <<>>]
  /\ link = 1 /\ up = TRUE /\ reader = "idle" /\ inflight = <<>>
  /\ answered = {} /\ completed = <<>>
  /\ outcome = [c \in Callers |-> "none"]

Goto(c, l) == pc' = [pc EXCEPT ![c] = l]

\* expect_result
Expect(c) ==
  /\ pc[c] = "idle" /\ calls[c] < MaxCalls
  /\ calls' = [calls EXCEPT ![c] = @ + 1]
  /\ expecting' = expecting + 1
  /\ chan' = [chan EXCEPT ![c] = link]
  /\ Goto(c, "id")
  /\ UNCHANGED <<nextId, id, received, pending, link, up, reader, inflight, answered, completed, outcome>>

\* next_message_id++ is a load and a store.
LoadId(c) ==
  /\ pc[c] = "id" /\ id' = [id EXCEPT ![c] = nextId] /\ Goto(c, "store")
  /\ UNCHANGED <<nextId, chan, calls, expecting, received, pending, link, up, reader, inflight,
                 answered, completed, outcome>>

StoreId(c) ==
  /\ pc[c] = "store" /\ nextId' = id[c] + 1 /\ Goto(c, "save")
  /\ UNCHANGED <<id, chan, calls, expecting, received, pending, link, up, reader, inflight,
                 answered, completed, outcome>>

\* The cache with call x under id i.
Saved(cache, i, x) == [j \in DOMAIN cache \cup {i} |-> IF j = i THEN x ELSE cache[j]]

\* save_completion_details overwrites an entry with the same id.
Save(c) ==
  /\ pc[c] = "save" /\ Goto(c, "send")
  /\ pending' = [pending EXCEPT ![chan[c]] = Saved(@, id[c], ThisCall(c))]
  /\ UNCHANGED <<nextId, id, chan, calls, expecting, received, link, up, reader, inflight,
                 answered, completed, outcome>>

\* The closures of the calls in sequence s run.
Complete(s) == received' = received + Len(s) /\ completed' = completed \o s

\* force_completion
ForceCompletion(l) ==
  /\ Complete(SetToSeq({pending[l][i] : i \in DOMAIN pending[l]}))
  /\ pending' = [pending EXCEPT ![l] = <<>>]

Send(c) ==
  /\ pc[c] = "send"
  /\ IF up /\ chan[c] = link
       THEN /\ inflight' = Append(inflight, id[c]) /\ Goto(c, "wait")
            /\ UNCHANGED <<received, pending, completed, outcome>>
       ELSE /\ ForceCompletion(chan[c]) /\ Goto(c, "idle")
            /\ outcome' = [outcome EXCEPT ![c] = "send failed"]
            /\ UNCHANGED inflight
  /\ UNCHANGED <<nextId, id, chan, calls, expecting, link, up, reader, answered>>

\* wait_for_pending, and has_result after it.
Returns(c, o) ==
  /\ pc[c] = "wait" /\ Goto(c, "idle") /\ outcome' = [outcome EXCEPT ![c] = o]
  /\ UNCHANGED <<nextId, id, chan, calls, expecting, received, pending, link, up, reader, inflight,
                 answered, completed>>

Return(c) == received = expecting /\ Returns(c, "ok")

\* Mutant of TimeOut: every timeout is reported.
TimeOutAlways(c) == received # expecting /\ Returns(c, "timed out")

\* The handle is never reset: a result of an earlier call is taken for this one's.
TimeOut(c) == received # expecting /\ Returns(c, IF received > 0 THEN "ok" ELSE "timed out")

\* Android answers the oldest call: populate_message_for_result.  at() throws
\* when the id is not in the cache, and the handler does not read again.
Populate ==
  /\ up /\ reader = "idle" /\ inflight # <<>>
  /\ LET i == Head(inflight)
     IN  IF i \in DOMAIN pending[link]
           THEN reader' = "complete" /\ answered' = answered \cup {pending[link][i]}
           ELSE reader' = "dead" /\ UNCHANGED answered
  /\ UNCHANGED <<nextId, pc, id, chan, calls, expecting, received, pending, link, up,
                 inflight, completed, outcome>>

\* Mutant of CompleteResponse: the entry stays in the cache.
CompleteResponseKeeps ==
  /\ reader = "complete" /\ reader' = "idle" /\ inflight' = Tail(inflight)
  /\ IF Head(inflight) \in DOMAIN pending[link]
       THEN Complete(<<pending[link][Head(inflight)]>>)
       ELSE UNCHANGED <<received, completed>>
  /\ UNCHANGED <<nextId, pc, id, chan, calls, expecting, pending, link, up, answered,
                 outcome>>

\* complete_response: force_completion may have taken the entry in between.
CompleteResponse ==
  /\ reader = "complete" /\ reader' = "idle" /\ inflight' = Tail(inflight)
  /\ LET i == Head(inflight)
     IN  IF i \in DOMAIN pending[link]
           THEN /\ Complete(<<pending[link][i]>>)
                /\ pending' = [pending EXCEPT ![link] = [j \in DOMAIN @ \ {i} |-> @[j]]]
           ELSE UNCHANGED <<received, completed, pending>>
  /\ UNCHANGED <<nextId, pc, id, chan, calls, expecting, link, up, answered, outcome>>

Disconnect ==
  /\ up /\ up' = FALSE
  /\ UNCHANGED <<nextId, pc, id, chan, calls, expecting, received, pending, link, reader,
                 inflight, answered, completed, outcome>>

\* set_rpc_channel for the next connection.  ConnectionCreator denies it until the
\* read handler has removed the last one, which a dead handler never does.
Connect ==
  /\ ~up /\ reader = "idle" /\ link < MaxLinks
  /\ link' = link + 1 /\ up' = TRUE /\ inflight' = <<>>
  /\ UNCHANGED <<nextId, pc, id, chan, calls, expecting, received, pending, reader,
                 answered, completed, outcome>>

CallerStep(c) ==
  \/ Expect(c) \/ LoadId(c) \/ StoreId(c) \/ Save(c) \/ Send(c) \/ Return(c) \/ TimeOut(c)

Next == (\E c \in Callers : CallerStep(c)) \/ Populate \/ CompleteResponse \/ Disconnect \/ Connect

Spec == Init /\ [][Next]_vars

-----------------------------------------------------------------------------
\* The values of the variables; no more results than were expected.
TypeOK ==
  /\ \A c \in Callers : pc[c] \in {"idle", "id", "store", "save", "send", "wait"}
  /\ expecting \in 0 .. MaxCalls * Cardinality(Callers)
  /\ received \in 0 .. expecting
  /\ link \in Links /\ up \in BOOLEAN /\ reader \in {"idle", "complete", "dead"}

\* A closure runs once at most: an answer and a failing send never complete the
\* same call twice, not even when two calls got the same id
\* (pending_call_cache.cpp:46-69).
CompletedOnce ==
  \A i, j \in DOMAIN completed : i # j => completed[i] # completed[j]

\* A call that reports a timeout has not been completed, although its wait handle
\* also waits for the calls of other threads (android_api_stub.cpp:148-150).
TimeoutIsReal ==
  [][\A c \in Callers :
       pc[c] = "wait" /\ pc'[c] = "idle" /\ outcome'[c] = "timed out"
         => ThisCall(c) \notin Range(completed)]_vars
=============================================================================
