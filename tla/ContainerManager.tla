-------------------------- MODULE ContainerManager --------------------------
(***************************************************************************)
(* The container manager as its clients see it: container::Service accepts *)
(* session managers and keeps one connection at most (service.cpp), the    *)
(* SocketConnection reads requests (network/socket_connection.cpp), the    *)
(* ManagementApiSkeleton carries them out on the connection's LxcContainer *)
(* and answers.  Sessions end or die at any moment, the container may die, *)
(* the manager may be stopped, killed and started again.                   *)
(***************************************************************************)
EXTENDS LxcContainer, Sequences

CONSTANTS
  Sessions,      \* session manager processes, each of which connects once
  Nobody,        \* not a session
  MaxRequests,   \* bound: how many requests each session sends
  MaxStarts      \* bound: how often the manager is started

ASSUME NobodyAssumption == Nobody \notin Sessions

VARIABLES
  up,        \* the manager runs
  starts,    \* how often it has been started
  killed,    \* whether it ever ended without its destructors
  accepting, \* an async_accept is pending
  client,    \* per session: "off", "connected", "gone"
  backlog,   \* sessions that connected and have not been accepted
  asked,     \* per session: how many requests it has sent
  inbox,     \* per session: its requests, unread
  answer,    \* per session: the last answer sent to it
  conns,     \* connections_: the sessions in the map
  reading,   \* those with a read pending
  obj,       \* per session: the LxcContainer of its connection
  world      \* LXC and binderfs

managerVars == <<up, starts, killed>>
sessionVars == <<client, asked>>
vars == <<managerVars, accepting, sessionVars, backlog, inbox, answer, conns, reading,
          obj, world>>

Init ==
  /\ up = FALSE /\ starts = 0 /\ killed = FALSE /\ accepting = FALSE
  /\ client = [s \in Sessions |-> "off"] /\ backlog = {}
  /\ asked = [s \in Sessions |-> 0]
  /\ inbox = [s \in Sessions |-> <<>>] /\ answer = [s \in Sessions |-> "none"]
  /\ conns = {} /\ reading = {} /\ obj = [s \in Sessions |-> Inactive]
  /\ \E b \in BOOLEAN :
       world = [running |-> FALSE, owner |-> Nobody, node |-> {}, nodes |-> {}, next |-> 0,
                binderfs |-> b]

(***************************************************************************)
(* The sessions and the container.                                         *)
(***************************************************************************)
Connect(s) ==
  /\ up /\ client[s] = "off"
  /\ client' = [client EXCEPT ![s] = "connected"]
  /\ backlog' = backlog \cup {s}
  /\ UNCHANGED <<managerVars, accepting, asked, inbox, answer, conns, reading, obj, world>>

Request(s, r) ==
  /\ client[s] = "connected" /\ asked[s] < MaxRequests[s]
  /\ asked' = [asked EXCEPT ![s] = @ + 1]
  /\ inbox' = [inbox EXCEPT ![s] = Append(@, r)]
  /\ UNCHANGED <<managerVars, accepting, client, backlog, answer, conns, reading, obj, world>>

\* The session manager closes its socket, by exiting or by being killed.
Leave(s) ==
  /\ client[s] = "connected"
  /\ client' = [client EXCEPT ![s] = "gone"]
  /\ UNCHANGED <<managerVars, accepting, backlog, asked, inbox, answer, conns, reading,
                 obj, world>>

ContainerDies ==
  /\ world.running /\ world' = Halted(world)
  /\ UNCHANGED <<managerVars, accepting, sessionVars, backlog, inbox, answer, conns,
                 reading, obj>>

(***************************************************************************)
(* The manager's handlers.                                                 *)
(***************************************************************************)
\* PublishedSocketConnector::on_new_connection, Service::new_client.
Accept(s) ==
  /\ up /\ accepting /\ s \in backlog
  /\ backlog' = backlog \ {s}
  /\ IF conns # {}
       THEN /\ client' = [client EXCEPT ![s] = "gone"]
            /\ UNCHANGED <<conns, reading, obj>>
       ELSE /\ conns' = {s} /\ reading' = reading \cup {s}
            /\ obj' = [obj EXCEPT ![s] = Inactive]
            /\ UNCHANGED client
  /\ UNCHANGED <<managerVars, accepting, asked, inbox, answer, world>>

\* new_client throws (no credentials, no directory): start_accept is not reached,
\* and Runtime swallows the exception.
AcceptThrows(s) ==
  /\ up /\ accepting /\ s \in backlog /\ conns = {}
  /\ backlog' = backlog \ {s} /\ accepting' = FALSE
  /\ client' = [client EXCEPT ![s] = "gone"]
  /\ UNCHANGED <<managerVars, asked, inbox, answer, conns, reading, obj, world>>

\* done->Run(): send_response.  A session that is gone makes send throw, twice
\* (invoke answers the exception with another response), out of on_read_size:
\* the next read is never started.
Reply(s, ok) ==
  IF client[s] = "connected"
    THEN answer' = [answer EXCEPT ![s] = IF ok THEN "ok" ELSE "error"] /\ UNCHANGED reading
    ELSE reading' = reading \ {s} /\ UNCHANGED answer

\* Mutant of StartAllowed: the skeleton's check is missing.
StartAllowedAlways(s) == TRUE

StartAllowed(s) == obj[s].state # "running"

Outcomes(s, r) ==
  IF r = "start"
    THEN IF StartAllowed(s) THEN Start(obj[s], world, s) ELSE {Throws(obj[s], world)}
    ELSE IF obj[s].state = "running" THEN Stop(obj[s], world) ELSE {Throws(obj[s], world)}

\* on_read_size: ManagementApiSkeleton::start_container or stop_container.
Handle(s) ==
  /\ up /\ s \in conns /\ s \in reading /\ inbox[s] # <<>>
  /\ inbox' = [inbox EXCEPT ![s] = Tail(@)]
  /\ \E r \in Outcomes(s, Head(inbox[s])) :
       /\ obj' = [obj EXCEPT ![s] = r.o]
       /\ world' = r.w
       /\ Reply(s, r.ok)
  /\ UNCHANGED <<managerVars, accepting, sessionVars, backlog, conns>>

\* The process is gone: the kernel closes its sockets.
Down ==
  /\ up' = FALSE /\ accepting' = FALSE /\ backlog' = {} /\ conns' = {} /\ reading' = {}
  /\ client' = [s \in Sessions |-> IF client[s] = "connected" THEN "gone" ELSE client[s]]
  /\ obj' = [s \in Sessions |-> Inactive]
  /\ UNCHANGED <<starts, asked, inbox, answer>>

\* on_read_size with an error: the connection is removed, its LxcContainer
\* destroyed.  The map holds the entry until the destructor is through.
ReadFails(s) ==
  /\ up /\ s \in conns /\ s \in reading /\ inbox[s] = <<>> /\ client[s] = "gone"
  /\ \E r \in Destroy(obj[s], world) :
       /\ world' = r.w
       /\ IF r.ok
            THEN /\ conns' = conns \ {s} /\ reading' = reading \ {s}
                 /\ obj' = [obj EXCEPT ![s] = Inactive]
                 /\ UNCHANGED <<managerVars, accepting, sessionVars, backlog, inbox, answer>>
            ELSE Down /\ killed' = TRUE

\* SIGTERM: ~Service clears connections_; the destructor of a container may
\* throw (not ok), which ends the process there.
Shutdown(ok) ==
  /\ up /\ Down /\ killed' = (killed \/ ~ok)
  /\ IF conns = {} THEN ok /\ UNCHANGED world
     ELSE \E s \in conns : \E r \in Destroy(obj[s], world) : r.ok = ok /\ world' = r.w

Kill == up /\ Down /\ killed' = TRUE /\ UNCHANGED world

\* Service::create and Runtime::start, the first time or again, by hand or by
\* scripts/container-manager.sh, which mounts binderfs afresh.  next_id is 0.
StartService ==
  /\ ~up /\ starts < MaxStarts
  /\ up' = TRUE /\ accepting' = TRUE /\ starts' = starts + 1
  /\ \E n \in {world.nodes, {}} : world' = [world EXCEPT !.next = 0, !.nodes = n]
  /\ UNCHANGED <<killed, sessionVars, backlog, inbox, answer, conns, reading, obj>>

Next ==
  \/ \E s \in Sessions : \/ Connect(s) \/ Leave(s) \/ Accept(s) \/ AcceptThrows(s)
                         \/ Handle(s) \/ ReadFails(s)
                         \/ \E r \in {"start", "stop"} : Request(s, r)
  \/ ContainerDies \/ (\E ok \in BOOLEAN : Shutdown(ok)) \/ Kill \/ StartService

\* The runtime's threads run every handler that is ready.
Fairness == \A s \in Sessions : WF_vars(Accept(s)) /\ WF_vars(Handle(s)) /\ WF_vars(ReadFails(s))

Spec == Init /\ [][Next]_vars /\ Fairness

-----------------------------------------------------------------------------
\* The values of the program's variables; one connection at most is kept.
TypeOK ==
  /\ client \in [Sessions -> {"off", "connected", "gone"}]
  /\ conns \in {{}} \cup {{s} : s \in Sessions} /\ reading \subseteq conns
  /\ \A s \in Sessions : /\ obj[s].state \in {"inactive", "running"}
                         /\ obj[s].handle \in BOOLEAN
                         /\ obj[s].binders \subseteq world.nodes
  /\ world.owner \in Sessions \cup {Nobody}

\* A container that runs for a connected session is known to the object that
\* started it, so that stop_container is not refused with "Container is not
\* running" (management_api_skeleton.cpp:85-89, lxc_container.cpp:486-505).
RunningContainerIsTracked ==
  \A s \in conns : world.running /\ world.owner = s
                     => obj[s].state = "running" /\ obj[s].handle

\* A session that was told its container runs never shares the machine with a
\* container left over from another session: start stops it first "to ensure its
\* configuration is synchronized" (lxc_container.cpp:316-336).
NoForeignContainer ==
  \A s \in conns : obj[s].state = "running" /\ world.running => world.owner = s

\* The binder node a running container was given is not unlinked under it, and
\* every node belongs to an object that will unlink it, unless the manager
\* was killed (lxc_container.cpp:405-411, 498-502, binder_device.cpp:45-48).
BinderNodesAreOwned ==
  /\ \A s \in conns : world.running /\ world.owner = s => world.node \subseteq world.nodes
  /\ ~killed => world.nodes = UNION {obj[s].binders : s \in Sessions}

\* A session that ends while no request of its own is pending takes its
\* container down with it, or the manager ends (socket_connection.cpp:60-64,
\* lxc_container.cpp:115-119).
IdleSessionStopsContainer ==
  \A s \in Sessions :
    (up /\ s \in reading /\ client[s] = "gone" /\ inbox[s] = <<>>)
      ~> (~up \/ (s \notin conns /\ ~(world.running /\ world.owner = s)))
=============================================================================
