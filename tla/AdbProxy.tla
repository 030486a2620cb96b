------------------------------ MODULE AdbProxy ------------------------------
(***************************************************************************)
(* The ADB proxy of the session manager: connections that adbd opens from  *)
(* the container (PipeConnectionCreator, SocketConnection), the state      *)
(* machine of AdbMessageProcessor with the mutex all its instances share,  *)
(* the port it listens on for the host's adb, and the workers of the       *)
(* runtime that run every handler and that lock() blocks.                  *)
(***************************************************************************)
EXTENDS Naturals, Sequences, FiniteSets

CONSTANTS
  MaxConns,  \* bound: connections adbd opens
  Workers,   \* pool size of the runtime
  MaxHosts   \* bound: connections from the host's adb

ASSUME PoolAssumption == MaxConns \in Nat /\ Workers \in Nat \ {0, 1} /\ MaxHosts \in Nat

VARIABLES
  queue,      \* handlers that are ready, in order: <<kind, connection>>
  socket,     \* per connection: none, backlog, accepted, open, unnamed or removed,
              \* or what a handler does with it: naming, opening, unlocking, dropping
  sread,      \* per connection: async read of SocketConnection, or its result
  guest,      \* per connection, adbd's end: none, new, waiting, using, closed
  in,         \* per connection: command or data of adbd in the socket
  state,      \* per connection: state_ of the processor
  expected,   \* per connection: expected_command_
  shut,       \* connections whose messenger_ is closed
  stuck,      \* connections whose read handler threw: neither read nor removed
  lock,       \* the connection whose lock_ owns active_instance_, or 0
  blocked,    \* connections whose handler is in lock_.lock()
  connector,  \* connections with a host_connector_, which owns the port
  listening,  \* those of them that accept
  host,       \* per connection, host_messenger_: none, open, dropped
  hread,      \* per connection: async read from the host, or its result
  hosts       \* connections the host's adb has made

netVars == <<socket, sread>>
guestVars == <<guest, in>>
procVars == <<state, expected, shut, stuck, lock, blocked>>
hostVars == <<connector, listening, host, hread, hosts>>
adbVars == <<queue, netVars, guestVars, procVars, hostVars>>

Conns == 1..MaxConns

AdbInit ==
  /\ queue = <<>> /\ lock = 0 /\ hosts = 0
  /\ socket = [c \in Conns |-> "none"] /\ guest = [c \in Conns |-> "none"]
  /\ in = [c \in Conns |-> "none"] /\ sread = [c \in Conns |-> "none"]
  /\ state = [c \in Conns |-> "accept"] /\ expected = [c \in Conns |-> "accept"]
  /\ shut = {} /\ stuck = {} /\ blocked = {} /\ connector = {} /\ listening = {}
  /\ host = [c \in Conns |-> "none"] /\ hread = [c \in Conns |-> "none"]

-----------------------------------------------------------------------------
(***************************************************************************)
(* adbd in the container and adb on the host, as the comments of           *)
(* adb_message_processor.cpp describe them.                                *)
(***************************************************************************)
\* adbd has one connection in use and one that waits, no more.
GuestOpens(c) ==
  /\ guest[c] = "none" /\ \A d \in 1..(c - 1) : guest[d] # "none"
  /\ Cardinality({d \in Conns : guest[d] \in {"new", "waiting", "using"}}) < 2
  /\ guest' = [guest EXCEPT ![c] = "new"] /\ socket' = [socket EXCEPT ![c] = "backlog"]
  /\ UNCHANGED <<queue, in, sread, procVars, hostVars>>

\* It writes the name of the pipe and the accept command.
GuestNames(c) ==
  /\ guest[c] = "new"
  /\ guest' = [guest EXCEPT ![c] = "waiting"] /\ in' = [in EXCEPT ![c] = "accept"]
  /\ UNCHANGED <<queue, netVars, procVars, hostVars>>

GuestWrites(c) ==
  /\ guest[c] = "using" /\ in[c] = "none" /\ c \notin shut
  /\ in' = [in EXCEPT ![c] = "data"]
  /\ UNCHANGED <<queue, netVars, guest, procVars, hostVars>>

\* It ends the connection in use, or sees that the other end did.
GuestCloses(c) ==
  /\ \/ guest[c] = "using"
     \/ guest[c] = "waiting" /\ c \in shut
  /\ guest' = [guest EXCEPT ![c] = "closed"]
  /\ UNCHANGED <<queue, netVars, in, procVars, hostVars>>

\* adbd is restarted.
GuestRestarts ==
  /\ \E c \in Conns : guest[c] \notin {"none", "closed"}
  /\ guest' = [c \in Conns |-> IF guest[c] = "none" THEN "none" ELSE "closed"]
  /\ UNCHANGED <<queue, netVars, in, procVars, hostVars>>

HostConnects(c) ==
  /\ c \in listening /\ hosts < MaxHosts
  /\ listening' = listening \ {c} /\ hosts' = hosts + 1
  /\ queue' = Append(queue, <<"host", c>>)
  /\ UNCHANGED <<netVars, guestVars, procVars, connector, host, hread>>

HostDrops(c) ==
  /\ host[c] = "open" /\ host' = [host EXCEPT ![c] = "dropped"]
  /\ UNCHANGED <<queue, netVars, guestVars, procVars, connector, listening, hread, hosts>>

-----------------------------------------------------------------------------
(***************************************************************************)
(* The io_service: what is ready is queued.                                *)
(***************************************************************************)
\* PublishedSocketConnector has one accept outstanding.
AcceptReady(c) ==
  /\ socket[c] = "backlog" /\ \A d \in 1..(c - 1) : socket[d] # "backlog"
  /\ \A d \in Conns : socket[d] \notin {"accepted", "naming", "unnamed"}
  /\ socket' = [socket EXCEPT ![c] = "accepted"] /\ queue' = Append(queue, <<"accept", c>>)
  /\ UNCHANGED <<sread, guestVars, procVars, hostVars>>

\* Data, or the end of the connection, for the read of SocketConnection.
ReadReady(c) ==
  /\ sread[c] = "armed"
  /\ IF c \notin shut /\ in[c] # "none"
       THEN sread' = [sread EXCEPT ![c] = in[c]] /\ in' = [in EXCEPT ![c] = "none"]
       ELSE /\ c \in shut \/ guest[c] = "closed"
            /\ sread' = [sread EXCEPT ![c] = "end"] /\ UNCHANGED in
  /\ queue' = Append(queue, <<"read", c>>)
  /\ UNCHANGED <<socket, guest, procVars, hostVars>>

HostReadReady(c) ==
  /\ hread[c] = "armed" /\ queue' = Append(queue, <<"hostread", c>>)
  /\ \/ host[c] = "open" /\ hread' = [hread EXCEPT ![c] = "data"]
     \/ host[c] = "dropped" /\ hread' = [hread EXCEPT ![c] = "end"]
  /\ UNCHANGED <<netVars, guestVars, procVars, connector, listening, host, hosts>>

-----------------------------------------------------------------------------
(***************************************************************************)
(* The handlers, run by a worker that is free.                             *)
(***************************************************************************)
Busy == {c \in Conns : c \in blocked \/ socket[c] \in {"naming", "opening", "unlocking", "dropping"}}

FreeWorkers == Workers - Cardinality(Busy)

Runs(kind, c) ==
  /\ queue # <<>> /\ Head(queue) = <<kind, c>> /\ FreeWorkers > 0
  /\ queue' = Tail(queue)

\* create_connection_for keeps the worker in identify_client until the name has
\* come, then the connection reads and the next one is accepted.
RunAccept(c) ==
  /\ Runs("accept", c) /\ socket' = [socket EXCEPT ![c] = "naming"]
  /\ UNCHANGED <<sread, guestVars, procVars, hostVars>>

Identified(c) ==
  /\ socket[c] = "naming" /\ in[c] = "accept"
  /\ socket' = [socket EXCEPT ![c] = "open"] /\ sread' = [sread EXCEPT ![c] = "armed"]
  /\ UNCHANGED <<queue, guestVars, procVars, hostVars>>

\* A client that closes before it has sent a byte of its name: the string is made
\* from a null pointer and the handler throws before the next accept.
Unidentified(c) ==
  /\ socket[c] = "naming" /\ in[c] = "none" /\ guest[c] = "closed"
  /\ socket' = [socket EXCEPT ![c] = "unnamed"]
  /\ UNCHANGED <<queue, sread, guestVars, procVars, hostVars>>

ReadNext(c) == sread' = [sread EXCEPT ![c] = "armed"] /\ UNCHANGED socket

\* Mutant of Destroy: ~AdbMessageProcessor leaves host_connector_ to the
\* destruction of the members, which comes after the one of lock_.
DestroyKeepsPort(c) ==
  /\ socket' = [socket EXCEPT ![c] = "unlocking"] /\ sread' = [sread EXCEPT ![c] = "none"]
  /\ state' = [state EXCEPT ![c] = "closed"]
  /\ UNCHANGED <<guestVars, expected, shut, stuck, lock, blocked, hostVars>>

\* connections_->remove destroys the connection and its processor: first
\* ~AdbMessageProcessor closes the port ...
Destroy(c) ==
  /\ socket' = [socket EXCEPT ![c] = "unlocking"] /\ sread' = [sread EXCEPT ![c] = "none"]
  /\ state' = [state EXCEPT ![c] = "closed"]
  /\ connector' = connector \ {c} /\ listening' = listening \ {c}
  /\ UNCHANGED <<guestVars, expected, shut, stuck, lock, blocked, host, hread, hosts>>

\* ... then lock_, the last member, unlocks active_instance_ if it owns it ...
Unlock(c) ==
  /\ socket[c] = "unlocking" /\ socket' = [socket EXCEPT ![c] = "dropping"]
  /\ lock' = IF lock = c THEN 0 ELSE lock
  /\ UNCHANGED <<queue, sread, guestVars, state, expected, shut, stuck, blocked, hostVars>>

\* ... and the sockets of host_messenger_ and messenger_ go, with the read from
\* the host, which is canceled.
DropSockets(c) ==
  /\ socket[c] = "dropping" /\ socket' = [socket EXCEPT ![c] = "removed"]
  /\ shut' = shut \cup {c} /\ connector' = connector \ {c} /\ listening' = listening \ {c}
  /\ host' = [host EXCEPT ![c] = "none"]
  /\ hread' = [hread EXCEPT ![c] = IF @ = "armed" THEN "none" ELSE @]
  /\ UNCHANGED <<queue, sread, guestVars, state, expected, stuck, lock, blocked, hosts>>

\* process_data while proxying: the send throws if the host is gone, and the
\* handler ends without another read.
Proxy(c) ==
  /\ \/ ReadNext(c) /\ UNCHANGED stuck
     \/ /\ host[c] = "dropped" /\ stuck' = stuck \cup {c}
        /\ sread' = [sread EXCEPT ![c] = "none"] /\ UNCHANGED socket
  /\ UNCHANGED <<guestVars, state, expected, shut, lock, blocked, hostVars>>

\* lock_.lock() returns.
Owns(c) == lock' = c /\ socket' = [socket EXCEPT ![c] = "opening"]

\* advance_state for the accept command: the worker waits in lock_.lock() while
\* another processor owns the mutex ...
AcceptCommand(c) ==
  /\ expected' = [expected EXCEPT ![c] = "none"] /\ sread' = [sread EXCEPT ![c] = "none"]
  /\ IF lock = 0 THEN Owns(c) /\ UNCHANGED blocked
     ELSE blocked' = blocked \cup {c} /\ UNCHANGED <<socket, lock>>
  /\ UNCHANGED <<guestVars, state, shut, stuck, hostVars>>

Locked(c) ==
  /\ c \in blocked /\ lock = 0 /\ blocked' = blocked \ {c}
  /\ Owns(c)
  /\ UNCHANGED <<queue, sread, guestVars, state, expected, shut, stuck, hostVars>>

\* ... and with the lock wait_for_host_connection makes the TcpSocketConnector.
\* Its constructor throws if the port is taken, by another connector or by
\* another program: the handler ends without a read, and with the lock.
WaitForHost(c) ==
  /\ socket[c] = "opening" /\ socket' = [socket EXCEPT ![c] = "open"]
  /\ \/ /\ connector = {}
        /\ connector' = {c} /\ listening' = {c}
        /\ sread' = [sread EXCEPT ![c] = "armed"] /\ UNCHANGED stuck
     \/ stuck' = stuck \cup {c} /\ UNCHANGED <<sread, connector, listening>>
  /\ UNCHANGED <<queue, guestVars, state, expected, shut, lock, blocked, host, hread, hosts>>

\* advance_state for the start command.
StartCommand(c) ==
  /\ expected' = [expected EXCEPT ![c] = "none"] /\ state' = [state EXCEPT ![c] = "proxying"]
  /\ hread' = [hread EXCEPT ![c] = "armed"]
  /\ ReadNext(c)
  /\ UNCHANGED <<guestVars, shut, stuck, lock, blocked, connector, listening, host, hosts>>

\* SocketConnection::on_read_size and process_data.
RunRead(c) ==
  /\ Runs("read", c)
  /\ IF sread[c] = "end" THEN Destroy(c)
     ELSE IF state[c] = "proxying" THEN Proxy(c)
     ELSE IF expected[c] = "none"
       THEN ReadNext(c) /\ UNCHANGED <<guestVars, procVars, hostVars>>
     ELSE IF sread[c] # expected[c] THEN Destroy(c)
     ELSE IF state[c] = "accept" THEN AcceptCommand(c) ELSE StartCommand(c)

\* on_host_connection: the messenger of an earlier host goes, adbd is told ok
\* and answers with the start command; the send may throw if adbd is gone.
RunHost(c) ==
  /\ Runs("host", c)
  /\ IF c \notin connector THEN UNCHANGED <<netVars, guestVars, procVars, hostVars>>
     ELSE /\ host' = [host EXCEPT ![c] = "open"]
          /\ hread' = [hread EXCEPT ![c] = IF @ = "armed" THEN "none" ELSE @]
          /\ \/ /\ state' = [state EXCEPT ![c] = "start"]
                /\ expected' = [expected EXCEPT ![c] = "start"]
                /\ listening' = listening \cup {c}
                /\ IF guest[c] = "waiting" /\ in[c] = "none"
                     THEN guest' = [guest EXCEPT ![c] = "using"] /\ in' = [in EXCEPT ![c] = "start"]
                     ELSE UNCHANGED guestVars
             \/ /\ guest[c] = "closed" \/ c \in shut
                /\ UNCHANGED <<guestVars, state, expected, listening>>
          /\ UNCHANGED <<netVars, shut, stuck, lock, blocked, connector, hosts>>

\* Mutant of HostEnds: adbd's connection stays open.
HostEndsOnly(c) == state' = [state EXCEPT ![c] = "closed"] /\ UNCHANGED shut

\* on_host_read_size with an error that is not operation_canceled.
HostEnds(c) == state' = [state EXCEPT ![c] = "closed"] /\ shut' = shut \cup {c}

\* on_host_read_size.  A handler that runs when the destruction of the processor
\* has begun has no object left; nothing of it is modelled.
RunHostRead(c) ==
  /\ Runs("hostread", c)
  /\ IF socket[c] \in {"unlocking", "dropping", "removed"}
       THEN hread' = [hread EXCEPT ![c] = "none"] /\ UNCHANGED <<state, shut>>
     ELSE IF hread[c] = "end"
       THEN HostEnds(c) /\ hread' = [hread EXCEPT ![c] = "none"]
     ELSE /\ \/ hread' = [hread EXCEPT ![c] = "armed"]
             \/ guest[c] = "closed" /\ hread' = [hread EXCEPT ![c] = "none"]   \* send throws
          /\ UNCHANGED <<state, shut>>
  /\ UNCHANGED <<netVars, guestVars, expected, stuck, lock, blocked, connector, listening, host,
                 hosts>>

Reactor(c) == AcceptReady(c) \/ ReadReady(c) \/ HostReadReady(c)
Handler(c) == RunAccept(c) \/ RunRead(c) \/ RunHost(c) \/ RunHostRead(c)

\* The steps of a handler that keeps its worker.
Continues(c) ==
  Identified(c) \/ Unidentified(c) \/ WaitForHost(c) \/ Unlock(c) \/ DropSockets(c)

AdbNext ==
  \/ GuestRestarts
  \/ \E c \in Conns : \/ GuestOpens(c) \/ GuestNames(c) \/ GuestWrites(c) \/ GuestCloses(c)
                      \/ HostConnects(c) \/ HostDrops(c)
                      \/ Reactor(c) \/ Handler(c) \/ Continues(c) \/ Locked(c)

\* The reactor, the workers and the mutex make progress; adbd sends the name.
AdbFairness ==
  \A c \in Conns : /\ WF_adbVars(AcceptReady(c)) /\ WF_adbVars(ReadReady(c))
                   /\ WF_adbVars(HostReadReady(c)) /\ WF_adbVars(Handler(c))
                   /\ WF_adbVars(Continues(c)) /\ SF_adbVars(Locked(c))
                   /\ WF_adbVars(GuestNames(c))

AdbSpec == AdbInit /\ [][AdbNext]_adbVars /\ AdbFairness

-----------------------------------------------------------------------------
(***************************************************************************)
(* Properties.                                                             *)
(***************************************************************************)
\* The port the host's adb connects to has one owner, the holder of
\* active_instance_: the destructor closes it before the members, and with them
\* lock_, are destroyed, so that the connection that gets the lock next never
\* finds its predecessor's TcpSocketConnector still open (lines 60-64, 73, 115-121).
PortHasOneOwner == \A c \in connector : lock = c

\* When one end of the active connection is gone the processor is deleted and
\* the lock is free for the connection that waits (comment at 170-175): it does
\* not stay for ever with a connection that has ended, unless a read handler of
\* that connection threw, because the port was taken (line 116) or a send to the
\* host failed (line 187), or a second host took the place of the lost one before
\* that was noticed (line 138).
LockIsPassedOn ==
  LET Ended(c) == \/ guest[c] = "closed"
                  \/ host[c] = "dropped" /\ state[c] \in {"proxying", "closed"}
  IN  []<>(lock = 0 \/ lock \in stuck \/ ~Ended(lock))
=============================================================================
