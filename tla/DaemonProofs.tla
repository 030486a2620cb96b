-------------------------- MODULE DaemonProofs --------------------------
(***************************************************************************)
(* Proofs about the container manager as a process (ContainerDaemon): which *)
(* container runs, who knows of it, who owns the binder nodes, and what is *)
(* left when the process ends; and about the windows of Android's tasks    *)
(* (WindowManager): the renderer keeps no surface of a window that is gone, *)
(* and a frame is drawn into the window it was composed for.               *)
(***************************************************************************)
EXTENDS ContainerDaemon, WindowManager, Integers, FiniteSetTheorems, WellFoundedInduction, TLAPS

(***************************************************************************)
(* What the methods of LxcContainer do, for any object and any world.      *)
(***************************************************************************)
ObjType == [state : {"inactive", "running"}, handle : BOOLEAN, binders : SUBSET Nat]
WorldType ==
  [running : BOOLEAN, owner : Sessions \cup {Nobody}, node : SUBSET Nat, nodes : SUBSET Nat,
   next : Nat, binderfs : BOOLEAN]

\* v is w, with the container stopped or not.
AtMostHalted(w, v) ==
  /\ v \in WorldType /\ (v.running => w.running)
  /\ v.owner = w.owner /\ v.node = w.node /\ v.nodes = w.nodes

\* The two places where start stops a container that still runs.
LEMMA StopIgnoredHalts ==
  ASSUME NEW w \in WorldType
  PROVE  /\ \A v \in StopIgnored(w) : AtMostHalted(w, v)
         /\ AtMostHalted(w, w)
         /\ \A o, v : v \in StopOld(o, w) \/ v \in StopLeftOver(o, w) => AtMostHalted(w, v)
<1>1. AtMostHalted(w, w) /\ AtMostHalted(w, Halted(w))
  BY Zenon DEF AtMostHalted, Halted, WorldType
<1> QED BY <1>1 DEF StopIgnored, StopOld, StopLeftOver

\* A start that fails on the way to Launch.
NotStarted(o, w, r) ==
  /\ r.o.state = o.state /\ r.w.owner = w.owner /\ r.w.node = w.node
  /\ r.w.running => w.running

\* A start that succeeds.
Started(r, s) ==
  /\ r.o.state = "running" /\ r.o.handle
  /\ r.w.running /\ r.w.owner = s /\ r.w.node = r.o.binders

\* What every outcome keeps: the types, and that the object's nodes exist.
SoundOutcome(o, w, r) ==
  /\ r.o \in ObjType /\ r.w \in WorldType
  /\ o.binders \subseteq w.nodes => r.o.binders \subseteq r.w.nodes
  /\ o.binders = w.nodes => r.o.binders = r.w.nodes

\* create_binder_devices, which does nothing without binderfs.
LEMMA BinderForOutcome ==
  ASSUME NEW o \in ObjType, NEW w \in WorldType, NEW r \in BinderFor(o, w)
  PROVE  SoundOutcome(o, w, r) /\ NotStarted(o, w, r) /\ r.o.handle = o.handle
<1>1. CASE ~w.binderfs
  BY <1>1 DEF BinderFor, Returns, SoundOutcome, NotStarted
<1>2. CASE w.binderfs
  <2> DEFINE w1 == [w EXCEPT !.next = @ + 1]
  <2>1. w1 \in WorldType
    BY DEF WorldType
  <2>2. CASE r = Throws(o, w1)
    BY <2>1, <2>2 DEF Throws, SoundOutcome, NotStarted, WorldType
  <2>3. CASE r = Returns([o EXCEPT !.binders = {w.next}],
                         [WithoutBinders(o, w1) EXCEPT !.nodes = @ \cup {w.next}])
    <3>1. /\ r.o = [o EXCEPT !.binders = {w.next}]
          /\ r.w = [WithoutBinders(o, w1) EXCEPT !.nodes = @ \cup {w.next}]
      BY <2>3 DEF Returns
    <3>2. r.o \in ObjType /\ r.o.binders = {w.next} /\ r.o.state = o.state /\ r.o.handle = o.handle
      BY <3>1 DEF ObjType, WorldType
    <3>3. /\ r.w \in WorldType /\ r.w.nodes = (w.nodes \ o.binders) \cup {w.next}
          /\ r.w.running = w.running /\ r.w.owner = w.owner /\ r.w.node = w.node
      <4> DEFINE v == WithoutBinders(o, w1)
      <4>1. /\ v \in WorldType /\ v.nodes = w.nodes \ o.binders
            /\ v.running = w.running /\ v.owner = w.owner /\ v.node = w.node
        BY <2>1, Zenon DEF WithoutBinders, WorldType
      <4> HIDE DEF v
      <4>2. r.w = [v EXCEPT !.nodes = @ \cup {w.next}] /\ w.next \in Nat
        BY <3>1 DEF v, WorldType
      <4> QED BY <4>1, <4>2 DEF WorldType
    <3> QED BY <3>2, <3>3 DEF SoundOutcome, NotStarted
  <2> QED BY <1>2, <2>2, <2>3 DEF BinderFor, NewBinder
<1> QED BY <1>1, <1>2

\* LxcContainer::start: the container runs for this session, or the object's state
\* is what it was and no container was started.
LEMMA StartOutcome ==
  ASSUME NEW o \in ObjType, NEW w \in WorldType, NEW s \in Sessions, NEW r \in Start(o, w, s)
  PROVE  SoundOutcome(o, w, r) /\ (Started(r, s) \/ NotStarted(o, w, r))
<1> DEFINE opened == [o EXCEPT !.handle = TRUE]
<1>0. opened \in ObjType /\ opened.handle /\ opened.state = o.state /\ opened.binders = o.binders
  BY Zenon DEF ObjType
<1>1. PICK w1 \in StopOld(o, w) :
        r \in {Throws(o, w1), Throws(opened, w1)} \cup
              UNION {{Throws(opened, w2)} \cup
                     UNION {IF b.ok THEN Launch(b.o, b.w, s) ELSE {b} :
                              b \in BinderFor(opened, w2)} :
                       w2 \in StopLeftOver(o, w1)}
  BY Zenon DEF Start
<1>2. AtMostHalted(w, w1)
  BY StopIgnoredHalts
<1>3. CASE r \in {Throws(o, w1), Throws(opened, w1)}
  <2>1. CASE r = Throws(o, w1)
    BY <1>2, <2>1 DEF Throws, SoundOutcome, NotStarted, AtMostHalted
  <2>2. CASE r = Throws(opened, w1)
    BY <1>0, <1>2, <2>2, Zenon DEF Throws, SoundOutcome, NotStarted, AtMostHalted
  <2> QED BY <1>3, <2>1, <2>2
<1>4. ASSUME NEW w2 \in StopLeftOver(o, w1),
             r \in {Throws(opened, w2)} \cup
                   UNION {IF b.ok THEN Launch(b.o, b.w, s) ELSE {b} : b \in BinderFor(opened, w2)}
      PROVE  SoundOutcome(o, w, r) /\ (Started(r, s) \/ NotStarted(o, w, r))
  <2>1. AtMostHalted(w1, w2)
    BY <1>2, StopIgnoredHalts DEF AtMostHalted
  <2>2. AtMostHalted(w, w2)
    BY <1>2, <2>1 DEF AtMostHalted
  <2>3. CASE r = Throws(opened, w2)
    BY <1>0, <2>2, <2>3, Zenon DEF Throws, SoundOutcome, NotStarted, AtMostHalted
  <2>4. ASSUME NEW b \in BinderFor(opened, w2), r \in IF b.ok THEN Launch(b.o, b.w, s) ELSE {b}
        PROVE  SoundOutcome(o, w, r) /\ (Started(r, s) \/ NotStarted(o, w, r))
    <3>1. SoundOutcome(opened, w2, b) /\ NotStarted(opened, w2, b) /\ b.o.handle
      BY <1>0, <2>2, BinderForOutcome, Zenon DEF AtMostHalted
    <3>2. SoundOutcome(o, w, b) /\ NotStarted(o, w, b)
      BY <1>0, <2>2, <3>1 DEF SoundOutcome, NotStarted, AtMostHalted
    <3>3. CASE r = b \/ r = Throws(b.o, b.w)
      BY <3>2, <3>3 DEF SoundOutcome, NotStarted, Throws
    <3>4. CASE r = Returns([b.o EXCEPT !.state = "running"],
                           [b.w EXCEPT !.running = TRUE, !.owner = s, !.node = b.o.binders])
      <4>1. b.o \in ObjType /\ b.w \in WorldType
        BY <3>2 DEF SoundOutcome
      <4>2. r.o \in ObjType /\ r.w \in WorldType /\ r.o.binders = b.o.binders /\ r.w.nodes = b.w.nodes
        BY <3>4, <4>1, Zenon DEF Returns, ObjType, WorldType
      <4>3. Started(r, s)
        BY <3>1, <3>4, <4>1, Zenon DEF Started, Returns, ObjType, WorldType
      <4> QED BY <3>2, <4>2, <4>3 DEF SoundOutcome
    <3> QED BY <2>4, <3>3, <3>4 DEF Launch
  <2> QED BY <1>4, <2>3, <2>4, Zenon
<1> QED BY <1>1, <1>3, <1>4, Zenon

\* LxcContainer::stop: it throws, finds nothing to stop, or stops the container and
\* unlinks the object's binder node.
LEMMA StopOutcome ==
  ASSUME NEW o \in ObjType, NEW w \in WorldType, NEW r \in Stop(o, w)
  PROVE  /\ SoundOutcome(o, w, r)
         /\ r.w.owner = w.owner /\ r.w.node = w.node
         /\ \/ r = Throws(o, w)
            \/ r = Returns(o, w) /\ (~o.handle \/ ~w.running)
            \/ /\ r = Returns(r.o, r.w) /\ ~r.w.running
               /\ r.o.state = "inactive" /\ r.o.binders = {} /\ r.w.nodes = w.nodes \ o.binders
<1>1. CASE r = Throws(o, w)
  BY <1>1 DEF Throws, SoundOutcome
<1>2. CASE r = Returns(o, w) /\ (~o.handle \/ ~w.running)
  BY <1>2 DEF Returns, SoundOutcome
<1>3. CASE r = Returns([ClearBinders(o) EXCEPT !.state = "inactive"], WithoutBinders(o, Halted(w)))
  <2>1. /\ r.o = [ClearBinders(o) EXCEPT !.state = "inactive"]
        /\ r.w = WithoutBinders(o, Halted(w))
        /\ r = Returns(r.o, r.w)
    BY <1>3 DEF Returns
  <2>2. r.o \in ObjType /\ r.o.state = "inactive" /\ r.o.binders = {}
    BY <2>1, Zenon DEF ClearBinders, ObjType
  <2>3. /\ r.w \in WorldType /\ ~r.w.running /\ r.w.nodes = w.nodes \ o.binders
        /\ r.w.owner = w.owner /\ r.w.node = w.node
    BY <2>1, Zenon DEF WithoutBinders, Halted, WorldType
  <2> QED BY <2>1, <2>2, <2>3 DEF SoundOutcome
<1> QED BY <1>1, <1>2, <1>3 DEF Stop

\* ~LxcContainer: unless stop throws, the object's container and its binder node go.
LEMMA DestroyOutcome ==
  ASSUME NEW o \in ObjType, NEW w \in WorldType, NEW r \in Destroy(o, w)
  PROVE  /\ r.w \in WorldType /\ r.w.owner = w.owner
         /\ r.w.running => w.running
         /\ \/ r.ok = FALSE
            \/ /\ r.ok = TRUE /\ r.w.nodes = w.nodes \ o.binders
               /\ o.handle => ~r.w.running
<1>1. PICK q \in Stop(o, w) : r = [w |-> IF q.ok THEN WithoutBinders(q.o, q.w) ELSE q.w, ok |-> q.ok]
  BY DEF Destroy
<1>2. CASE q = Throws(o, w)
  BY <1>1, <1>2 DEF Throws
<1>3. CASE q = Returns(o, w) /\ (~o.handle \/ ~w.running)
  <2>1. r.w = WithoutBinders(o, w) /\ r.ok = TRUE
    BY <1>1, <1>3 DEF Returns
  <2> QED BY <1>3, <2>1 DEF WithoutBinders, WorldType
<1>4. CASE /\ q = Returns(q.o, q.w) /\ ~q.w.running
           /\ q.o.state = "inactive" /\ q.o.binders = {} /\ q.w.nodes = w.nodes \ o.binders
  <2>1. q.w \in WorldType /\ q.w.owner = w.owner
    BY StopOutcome DEF SoundOutcome
  <2>2. r.w = WithoutBinders(q.o, q.w) /\ r.ok = TRUE
    BY <1>1, <1>4 DEF Returns
  <2>3. r.w = [q.w EXCEPT !.nodes = @ \ {}]
    BY <1>4, <2>2 DEF WithoutBinders
  <2> QED BY <1>4, <2>1, <2>2, <2>3 DEF WorldType
<1>5. \/ q = Throws(o, w)
      \/ q = Returns(o, w) /\ (~o.handle \/ ~w.running)
      \/ /\ q = Returns(q.o, q.w) /\ ~q.w.running
         /\ q.o.state = "inactive" /\ q.o.binders = {} /\ q.w.nodes = w.nodes \ o.binders
  BY StopOutcome
<1> QED BY <1>2, <1>3, <1>4, <1>5, Zenon

(***************************************************************************)
(* The invariant of the service.                                           *)
(***************************************************************************)
\* A session that has not been accepted yet.
Fresh(s) == client[s] = "off" \/ s \in backlog

\* What a connection's object knows of the container.
Tracked(s) ==
  /\ obj[s].binders \subseteq world.nodes
  /\ world.running /\ world.owner = s => /\ obj[s].state = "running" /\ obj[s].handle
                                         /\ world.node \subseteq world.nodes
  /\ obj[s].state = "running" /\ world.running => world.owner = s

\* Without a kill the connection's object has all the nodes, and the container
\* that runs is the connection's.
Owned ==
  /\ conns = {} => world.nodes = {}
  /\ \A s \in conns : world.nodes = obj[s].binders
  /\ world.running => world.owner \in conns

\* One connection at most; objects exist for connections only; no container
\* was started for a session that has not been accepted.
ServiceInv ==
  /\ obj \in [Sessions -> ObjType] /\ world \in WorldType
  /\ client \in [Sessions -> {"off", "connected", "gone"}]
  /\ conns \subseteq Sessions /\ backlog \subseteq Sessions /\ up \in BOOLEAN /\ killed \in BOOLEAN
  /\ \A s, t \in conns : s = t
  /\ ~up => conns = {}
  /\ \A s \in Sessions : s \notin conns => obj[s] = Inactive
  /\ \A s \in Sessions : Fresh(s) => s \notin conns /\ world.owner # s
  /\ \A s \in backlog : client[s] # "off"
  /\ \A s \in conns : Tracked(s)
  /\ ~killed => Owned

\* The object of a new connection.
LEMMA InactiveType == Inactive \in ObjType /\ Inactive.binders = {} /\ Inactive.state # "running"
BY DEF Inactive, ObjType

\* The manager has not been started.
LEMMA InitService == Init => ServiceInv
<1> SUFFICES ASSUME Init PROVE ServiceInv
  OBVIOUS
<1>1. PICK b \in BOOLEAN :
        world = [running |-> FALSE, owner |-> Nobody, node |-> {}, nodes |-> {}, next |-> 0,
                 binderfs |-> b]
  BY Zenon DEF Init
<1>2. world \in WorldType /\ ~world.running /\ world.nodes = {} /\ world.owner = Nobody
  BY <1>1 DEF WorldType
<1> QED BY <1>2, InactiveType, NobodyAssumption, Zenon DEF Init, ServiceInv, Fresh, Tracked, Owned

\* Connect, Request, Leave and AcceptThrows, which touch no object.
LEMMA SessionStepKeeps ==
  ASSUME ServiceInv, NEW s \in Sessions,
         Connect(s) \/ Leave(s) \/ AcceptThrows(s) \/ \E r \in {"start", "stop"} : Request(s, r)
  PROVE  ServiceInv'
<1>1. UNCHANGED <<up, killed, conns, obj, world>>
  BY DEF Connect, Leave, AcceptThrows, Request, managerVars, sessionVars
<1>2. /\ client' \in [Sessions -> {"off", "connected", "gone"}] /\ backlog' \subseteq Sessions
      /\ \A t \in Sessions : Fresh(t)' => Fresh(t)
      /\ \A t \in backlog' : client'[t] # "off"
  BY DEF Connect, Leave, AcceptThrows, Request, sessionVars, ServiceInv, Fresh
<1> QED BY <1>1, <1>2 DEF ServiceInv, Tracked, Owned

\* A session is accepted, with an object of its own, or turned away.
LEMMA AcceptKeeps ==
  ASSUME ServiceInv, NEW s \in Sessions, Accept(s)
  PROVE  ServiceInv'
<1>1. /\ up /\ s \in backlog /\ backlog' = backlog \ {s}
      /\ UNCHANGED <<up, killed, world>>
  BY DEF Accept, managerVars
<1>2. CASE conns # {}
  <2>1. client' = [client EXCEPT ![s] = "gone"] /\ UNCHANGED <<conns, obj>>
    BY <1>2 DEF Accept
  <2>2. /\ client' \in [Sessions -> {"off", "connected", "gone"}]
        /\ \A t \in Sessions : Fresh(t)' => Fresh(t)
        /\ \A t \in backlog' : client'[t] # "off"
    BY <1>1, <2>1 DEF ServiceInv, Fresh
  <2> QED BY <1>1, <2>1, <2>2 DEF ServiceInv, Tracked, Owned
<1>3. CASE conns = {}
  <2>1. conns' = {s} /\ obj' = [obj EXCEPT ![s] = Inactive] /\ UNCHANGED client
    BY <1>3 DEF Accept
  <2>2. obj[s] = Inactive /\ UNCHANGED obj
    BY <1>3, <2>1 DEF ServiceInv
  <2>3. client[s] # "off" /\ world.owner # s
    BY <1>1 DEF ServiceInv, Fresh
  <2>4. \A t \in Sessions : Fresh(t)' => Fresh(t) /\ t # s
    BY <1>1, <2>1, <2>3 DEF Fresh
  <2>5. Tracked(s)'
    BY <1>1, <2>2, <2>3, InactiveType DEF Tracked
  <2>6. ~killed' => Owned'
    BY <1>1, <1>3, <2>1, <2>2, InactiveType DEF ServiceInv, Owned
  <2>7. /\ \A t \in Sessions : t \notin conns' => obj'[t] = Inactive
        /\ \A t \in Sessions : Fresh(t)' => t \notin conns' /\ world'.owner # t
        /\ \A t \in backlog' : client'[t] # "off"
        /\ \A t \in conns' : Tracked(t)'
    BY <1>1, <1>3, <2>1, <2>2, <2>4, <2>5 DEF ServiceInv
  <2> QED BY <1>1, <2>1, <2>2, <2>6, <2>7 DEF ServiceInv
<1> QED BY <1>2, <1>3

\* What a request may do to the connection's object and to the container.
SessionOutcome(s, r) ==
  /\ SoundOutcome(obj[s], world, r)
  /\ r.w.owner \in {world.owner, s}
  /\ r.w.running => r.w.owner = s \/ (world.running /\ r.w.owner = world.owner)
  /\ r.w.running /\ r.w.owner = s => /\ r.o.state = "running" /\ r.o.handle
                                     /\ r.w.node \subseteq r.w.nodes
  /\ r.o.state = "running" /\ r.w.running => r.w.owner = s

\* Every outcome of start_container and stop_container is of that kind: start is
\* refused while the object's container runs, stop while it does not.
LEMMA RequestOutcome ==
  ASSUME ServiceInv, NEW s \in conns, NEW q, NEW r \in Outcomes(s, q)
  PROVE  SessionOutcome(s, r)
<1>1. /\ s \in Sessions /\ obj[s] \in ObjType /\ world \in WorldType /\ Tracked(s)
      /\ obj[s].binders \subseteq world.nodes
  BY DEF ServiceInv, Tracked
<1>2. CASE r.o = obj[s] /\ r.w = world
  BY <1>1, <1>2 DEF SessionOutcome, SoundOutcome, Tracked
<1>3. CASE r \in Start(obj[s], world, s) /\ StartAllowed(s)
  <2>1. SoundOutcome(obj[s], world, r) /\ (Started(r, s) \/ NotStarted(obj[s], world, r))
    BY <1>1, <1>3, StartOutcome
  <2>2. r.o.binders \subseteq r.w.nodes
    BY <1>1, <2>1 DEF SoundOutcome
  <2>3. CASE Started(r, s)
    BY <2>1, <2>2, <2>3 DEF Started, SessionOutcome
  <2>4. CASE NotStarted(obj[s], world, r)
    BY <1>1, <1>3, <2>1, <2>4 DEF NotStarted, StartAllowed, Tracked, SessionOutcome
  <2> QED BY <2>1, <2>3, <2>4
<1>4. CASE r \in Stop(obj[s], world) /\ obj[s].state = "running"
  <2>1. /\ SoundOutcome(obj[s], world, r)
        /\ r.w.owner = world.owner /\ r.w.node = world.node
        /\ \/ r = Throws(obj[s], world) \/ r = Returns(obj[s], world)
           \/ ~r.w.running
    BY <1>1, <1>4, StopOutcome
  <2>2. CASE ~r.w.running
    BY <2>1, <2>2 DEF SessionOutcome
  <2>3. CASE r = Throws(obj[s], world) \/ r = Returns(obj[s], world)
    BY <1>2, <2>3 DEF Throws, Returns
  <2> QED BY <2>1, <2>2, <2>3
<1>5. CASE r = Throws(obj[s], world)
  BY <1>2, <1>5 DEF Throws
<1> QED BY <1>3, <1>4, <1>5 DEF Outcomes

\* A request leaves the service in order.
LEMMA HandleKeeps ==
  ASSUME ServiceInv, NEW s \in Sessions, Handle(s)
  PROVE  ServiceInv'
<1>1. /\ s \in conns
      /\ UNCHANGED <<up, killed, client, backlog, conns>>
  BY DEF Handle, managerVars, sessionVars
<1>2. PICK r \in Outcomes(s, Head(inbox[s])) : obj' = [obj EXCEPT ![s] = r.o] /\ world' = r.w
  BY Zenon DEF Handle
<1>3. SessionOutcome(s, r)
  BY <1>1, <1>2, RequestOutcome
<1>4. conns = {s} /\ obj[s].binders \subseteq world.nodes
  BY <1>1 DEF ServiceInv, Tracked
<1>5. /\ obj' \in [Sessions -> ObjType] /\ world' \in WorldType
      /\ obj'[s] = r.o /\ \A t \in Sessions : t # s => obj'[t] = obj[t]
  BY <1>2, <1>3 DEF SessionOutcome, SoundOutcome, ServiceInv
<1>6. Tracked(s)'
  BY <1>2, <1>3, <1>4, <1>5 DEF SessionOutcome, SoundOutcome, Tracked
<1>7. \A t \in Sessions : Fresh(t)' => t \notin conns' /\ world'.owner # t
  BY <1>1, <1>2, <1>3, <1>4 DEF SessionOutcome, ServiceInv, Fresh
<1>8. ~killed' => Owned'
  <2> SUFFICES ASSUME ~killed PROVE Owned'
    BY <1>1
  <2>1. world.nodes = obj[s].binders /\ (world.running => world.owner = s)
    BY <1>4 DEF ServiceInv, Owned
  <2> QED BY <1>1, <1>2, <1>3, <1>4, <1>5, <2>1 DEF SessionOutcome, SoundOutcome, Owned
<1> QED BY <1>1, <1>4, <1>5, <1>6, <1>7, <1>8 DEF ServiceInv

\* The process is gone.  What the sockets and objects need holds; whatever of the
\* containers is left must be Owned by nobody unless the process was killed.
LEMMA DownKeeps ==
  ASSUME ServiceInv, Down, world' \in WorldType, world'.owner = world.owner, killed' \in BOOLEAN,
         ~killed' => ~world'.running /\ world'.nodes = {}
  PROVE  ServiceInv'
<1>1. /\ up' = FALSE /\ backlog' = {} /\ conns' = {}
      /\ client' = [s \in Sessions |-> IF client[s] = "connected" THEN "gone" ELSE client[s]]
      /\ obj' = [s \in Sessions |-> Inactive]
  BY DEF Down
<1>2. \A t \in Sessions : Fresh(t)' => Fresh(t)
  BY <1>1 DEF Fresh
<1>3. Owned' \/ killed'
  BY <1>1 DEF Owned
<1>4. client' \in [Sessions -> {"off", "connected", "gone"}]
  BY <1>1 DEF ServiceInv
<1>5. \A t \in Sessions : Fresh(t)' => t \notin conns' /\ world'.owner # t
  BY <1>1, <1>2 DEF ServiceInv
<1>6. obj' \in [Sessions -> ObjType] /\ \A t \in Sessions : obj'[t] = Inactive
  BY <1>1, InactiveType
<1> QED BY <1>1, <1>3, <1>4, <1>5, <1>6, Zenon DEF ServiceInv

\* A connection whose object was destroyed without an exception leaves nothing.
LEMMA DestroyedLeavesNothing ==
  ASSUME ServiceInv, ~killed, NEW s \in conns, NEW r \in Destroy(obj[s], world), r.ok = TRUE
  PROVE  ~r.w.running /\ r.w.nodes = {}
<1>1. obj[s] \in ObjType /\ world \in WorldType
  BY DEF ServiceInv
<1>2. /\ world.nodes = obj[s].binders /\ (world.running => world.owner = s)
      /\ world.running => obj[s].handle
  <2>1. Tracked(s) /\ Owned /\ conns = {s}
    BY DEF ServiceInv
  <2> QED BY <2>1 DEF Owned, Tracked
<1>3. /\ r.w.running => world.running
      /\ \/ r.ok = FALSE
         \/ r.ok = TRUE /\ r.w.nodes = world.nodes \ obj[s].binders /\ (obj[s].handle => ~r.w.running)
  BY <1>1, DestroyOutcome, Zenon
<1> QED BY <1>2, <1>3

\* The end of a connection, or of the process when a destructor throws.
LEMMA ReadFailsKeeps ==
  ASSUME ServiceInv, NEW s \in Sessions, ReadFails(s)
  PROVE  ServiceInv'
<1>1. s \in conns /\ conns = {s} /\ obj[s] \in ObjType /\ world \in WorldType
  BY DEF ReadFails, ServiceInv
<1>2. PICK r \in Destroy(obj[s], world) :
       /\ world' = r.w
       /\ IF r.ok
            THEN /\ conns' = conns \ {s}
                 /\ obj' = [obj EXCEPT ![s] = Inactive]
                 /\ UNCHANGED <<managerVars, accepting, sessionVars, backlog, inbox, answer>>
            ELSE Down /\ killed' = TRUE
  BY DEF ReadFails
<1>3. /\ world' \in WorldType /\ world'.owner = world.owner
      /\ world'.running => world.running
  BY <1>1, <1>2, DestroyOutcome, Zenon
<1>4. CASE r.ok = FALSE
  BY <1>2, <1>3, <1>4, DownKeeps, Zenon
<1>5. CASE r.ok = TRUE
  <2>1. /\ conns' = {} /\ UNCHANGED <<up, killed, client, backlog>>
        /\ obj' = [obj EXCEPT ![s] = Inactive]
    BY <1>1, <1>2, <1>5 DEF managerVars, sessionVars
  <2>2. obj' \in [Sessions -> ObjType] /\ \A t \in Sessions : obj'[t] = Inactive
    BY <1>1, <2>1, InactiveType DEF ServiceInv
  <2>3. ~killed' => Owned'
    BY <1>1, <1>2, <1>5, <2>1, DestroyedLeavesNothing, Zenon DEF Owned
  <2>4. \A t \in Sessions : Fresh(t)' => t \notin conns' /\ world'.owner # t
    BY <1>3, <2>1 DEF ServiceInv, Fresh
  <2> QED BY <1>3, <2>1, <2>2, <2>3, <2>4 DEF ServiceInv
<1> QED BY <1>1, <1>2, <1>4, <1>5, DestroyOutcome, Zenon

\* The manager ends by a signal; a clean end leaves no container and no node.
LEMMA ShutdownKeeps ==
  ASSUME ServiceInv, NEW ok \in BOOLEAN, Shutdown(ok)
  PROVE  ServiceInv'
<1>1. Down /\ killed' = (killed \/ ~ok) /\ killed' \in BOOLEAN
  BY DEF Shutdown, ServiceInv
<1>2. CASE conns = {}
  <2>1. UNCHANGED world
    BY <1>2 DEF Shutdown
  <2>2. ~killed' => ~world'.running /\ world'.nodes = {}
    BY <1>1, <1>2, <2>1 DEF ServiceInv, Owned
  <2>3. world' \in WorldType
    BY <2>1 DEF ServiceInv
  <2> QED BY <1>1, <2>1, <2>2, <2>3, DownKeeps
<1>3. CASE conns # {}
  <2>1. PICK s \in conns : \E r \in Destroy(obj[s], world) : r.ok = ok /\ world' = r.w
    BY <1>3 DEF Shutdown
  <2>2. PICK r \in Destroy(obj[s], world) : r.ok = ok /\ world' = r.w
    BY <2>1
  <2>3. obj[s] \in ObjType /\ world \in WorldType
    BY DEF ServiceInv
  <2>4. world' \in WorldType /\ world'.owner = world.owner
    BY <2>2, <2>3, DestroyOutcome, Zenon
  <2>5. ~killed' => ~world'.running /\ world'.nodes = {}
    BY <1>1, <2>2, DestroyedLeavesNothing, Zenon
  <2> QED BY <1>1, <2>4, <2>5, DownKeeps
<1> QED BY <1>2, <1>3

\* The manager is killed.
LEMMA KillKeeps == ServiceInv /\ Kill => ServiceInv'
<1> SUFFICES ASSUME ServiceInv, Kill PROVE ServiceInv'
  OBVIOUS
<1>1. Down /\ killed' = TRUE /\ world' = world /\ world \in WorldType
  BY DEF Kill, ServiceInv
<1> QED BY <1>1, DownKeeps

\* The manager is started, the first time or again.
LEMMA StartServiceKeeps == ServiceInv /\ StartService => ServiceInv'
<1> SUFFICES ASSUME ServiceInv, StartService PROVE ServiceInv'
  OBVIOUS
<1>1. /\ ~up /\ up' = TRUE /\ conns = {}
      /\ UNCHANGED <<killed, client, backlog, conns, obj>>
  BY DEF StartService, sessionVars, ServiceInv
<1>2. PICK n \in {world.nodes, {}} : world' = [world EXCEPT !.next = 0, !.nodes = n]
  BY Zenon DEF StartService
<1>3. world \in WorldType
  BY DEF ServiceInv
<1>4. /\ world' \in WorldType /\ world'.owner = world.owner /\ world'.running = world.running
      /\ world'.nodes = n
  BY <1>2, <1>3, Zenon DEF WorldType
<1>5. ~killed' => Owned'
  BY <1>1, <1>2, <1>4 DEF ServiceInv, Owned
<1>6. \A t \in Sessions : Fresh(t)' => t \notin conns' /\ world'.owner # t
  BY <1>1, <1>4 DEF ServiceInv, Fresh
<1> QED BY <1>1, <1>4, <1>5, <1>6 DEF ServiceInv

\* The container dies.
LEMMA ContainerDiesKeeps == ServiceInv /\ ContainerDies => ServiceInv'
<1> SUFFICES ASSUME ServiceInv, ContainerDies PROVE ServiceInv'
  OBVIOUS
<1>1. UNCHANGED <<up, killed, client, backlog, conns, obj>>
  BY DEF ContainerDies, managerVars, sessionVars
<1>2. world \in WorldType /\ world' = Halted(world)
  BY DEF ContainerDies, ServiceInv
<1>3. /\ world' \in WorldType /\ ~world'.running /\ world'.owner = world.owner
      /\ world'.nodes = world.nodes
  BY <1>2, Zenon DEF Halted, WorldType
<1>4. \A t \in conns' : Tracked(t)'
  BY <1>1, <1>3 DEF ServiceInv, Tracked
<1>5. ~killed' => Owned'
  BY <1>1, <1>3 DEF ServiceInv, Owned
<1>6. \A t \in Sessions : Fresh(t)' => t \notin conns' /\ world'.owner # t
  BY <1>1, <1>3 DEF ServiceInv, Fresh
<1> QED BY <1>1, <1>3, <1>4, <1>5, <1>6 DEF ServiceInv

(***************************************************************************)
(* The mounts.                                                             *)
(***************************************************************************)
Entry == [fsname : {"loop", "squashfuse", "overlay", "cacheDir", "dataDir"}, dir : Mounts!Dirs]
Table == [kernel : Seq(Entry), busy : SUBSET Mounts!Dirs, loops : Int]
HostTable == [kernel |-> kernel, busy |-> busy, loops |-> loops]

\* What this process has mounted, in order.
RootDir == <<"rootfs">>
FinalDir(d) == <<Mounts!FinalRootfs, d>>
Own ==
  CASE pc = "mountOverlay" -> <<RootDir>>
    [] pc = "mountCache" -> IF overlay THEN <<RootDir, <<"combined">>>> ELSE <<RootDir>>
    [] pc = "mountData" -> IF overlay THEN <<RootDir, <<"combined">>, FinalDir("cache")>>
                           ELSE <<RootDir, FinalDir("cache")>>
    [] pc = "ready" ->
         IF overlay THEN <<RootDir, <<"combined">>, FinalDir("cache"), FinalDir("data")>>
         ELSE <<RootDir, FinalDir("cache"), FinalDir("data")>>
    [] OTHER -> <<>>

\* mounts_ lists what is on top of the mount table; if no process was killed and
\* no umount refused there is nothing below it, and the image has the loop device.
MountsInv ==
  /\ pc \in {"start", "mountRootfs", "mountOverlay", "mountCache", "mountData",
             "ready", "failed", "stopped"}
  /\ overlay \in BOOLEAN /\ (pc = "mountOverlay" => overlay)
  /\ HostTable \in Table
  /\ mounts = IF pc = "ready" THEN Mounts!Reversed(Own) ELSE Own
  /\ Len(Own) <= Len(kernel)
  /\ \A i \in 1..Len(Own) : kernel[Len(kernel) - Len(Own) + i].dir = Own[i]
  /\ ~killed /\ busy = {} =>
       /\ Len(kernel) = Len(Own)
       /\ loops = IF kernel # <<>> /\ kernel[1].fsname = "loop" THEN 1 ELSE 0
       /\ \A i \in 2..Len(kernel) : kernel[i].fsname # "loop"

DaemonInv == ServiceInv /\ MountsInv /\ (up => pc = "ready")

\* Taking an entry off a table leaves a table with one entry less.
LEMMA WithoutType ==
  ASSUME NEW k \in Seq(Entry), NEW i \in 1..Len(k)
  PROVE  /\ Mounts!Without(k, i) \in Seq(Entry)
         /\ Len(Mounts!Without(k, i)) = Len(k) - 1
         /\ \A j \in 1..(Len(k) - 1) : Mounts!Without(k, i)[j] = IF j < i THEN k[j] ELSE k[j + 1]
<1> DEFINE a == SubSeq(k, 1, i - 1)
           b == SubSeq(k, i + 1, Len(k))
<1>1. a \in Seq(Entry) /\ Len(a) = i - 1 /\ \A j \in 1..(i - 1) : a[j] = k[j]
  OBVIOUS
<1>2. b \in Seq(Entry) /\ Len(b) = Len(k) - i /\ \A j \in 1..(Len(k) - i) : b[j] = k[i + j]
  OBVIOUS
<1>3. Mounts!Without(k, i) = a \o b
  BY DEF Mounts!Without
<1> HIDE DEF a, b
<1>0. Len(k) \in Nat /\ i \in Nat
  OBVIOUS
<1>4. a \o b \in Seq(Entry) /\ Len(a \o b) = Len(k) - 1
  <2>1. a \o b \in Seq(Entry) /\ Len(a \o b) = Len(a) + Len(b)
    <3>1. a \in Seq(Entry) /\ b \in Seq(Entry)
      BY <1>1, <1>2
    <3> QED BY <3>1
  <2> QED BY <1>0, <1>1, <1>2, <2>1
<1>5. ASSUME NEW j \in 1..(Len(k) - 1) PROVE (a \o b)[j] = IF j < i THEN k[j] ELSE k[j + 1]
  <2>1. CASE j < i
    BY <1>1, <1>2, <2>1
  <2>2. CASE j >= i
    <3>1. (a \o b)[j] = b[j - (i - 1)] /\ j - (i - 1) \in 1..(Len(k) - i)
      BY <1>1, <1>2, <2>2
    <3>2. b[j - (i - 1)] = k[i + (j - (i - 1))] /\ i + (j - (i - 1)) = j + 1
      BY <1>2, <3>1
    <3>3. ~(j < i)
      BY <1>0, <2>2
    <3> QED BY <3>1, <3>2, <3>3
  <2>3. j < i \/ j >= i
    BY <1>0
  <2> QED BY <2>1, <2>2, <2>3, Zenon
<1> QED BY <1>3, <1>4, <1>5, Zenon

\* umount(2) on the directory of an entry that is the topmost there and has
\* nothing mounted under it: the entry goes, and with the image its loop device.
LEMMA UnmountTop ==
  ASSUME NEW s \in Table, NEW i \in 1..Len(s.kernel), NEW d, s.kernel[i].dir = d,
         \A j \in 1..Len(s.kernel) :
           j > i => s.kernel[j].dir # d /\ ~Mounts!Below(d, s.kernel[j].dir)
  PROVE  LET r == Mounts!Unmounted(s, d)
         IN  /\ r \in Table /\ r.kernel = Mounts!Without(s.kernel, i) /\ r.busy = s.busy
             /\ r.loops = IF s.kernel[i].fsname = "loop" THEN s.loops - 1 ELSE s.loops
<1>1. s.kernel \in Seq(Entry) /\ DOMAIN s.kernel = 1..Len(s.kernel) /\ s.loops \in Int
  BY DEF Table
<1>2. Mounts!TopAt(s.kernel, d) = {i}
  BY <1>1 DEF Mounts!TopAt
<1>3. (CHOOSE k \in Mounts!TopAt(s.kernel, d) : TRUE) = i
  BY <1>2
<1>4. ~Mounts!IsBusy(s.kernel, i)
  BY <1>1 DEF Mounts!IsBusy
<1>5. Mounts!Unmounted(s, d)
        = [s EXCEPT !.kernel = Mounts!Without(@, i),
                    !.loops = IF s.kernel[i].fsname = "loop" THEN @ - 1 ELSE @]
  BY <1>2, <1>3, <1>4, Zenon DEF Mounts!Unmounted
<1>6. Mounts!Without(s.kernel, i) \in Seq(Entry)
  BY <1>1, WithoutType
<1> DEFINE k == Mounts!Without(s.kernel, i)
           n == IF s.kernel[i].fsname = "loop" THEN s.loops - 1 ELSE s.loops
<1>7. n \in Int /\ k \in Seq(Entry) /\ Mounts!Unmounted(s, d) = [s EXCEPT !.kernel = k, !.loops = n]
  BY <1>1, <1>5, <1>6
<1> HIDE DEF k, n
<1>8. LET r == Mounts!Unmounted(s, d)
      IN  r \in Table /\ r.kernel = k /\ r.busy = s.busy /\ r.loops = n
  BY <1>7, Zenon DEF Table
<1> QED BY <1>8 DEF k, n

\* r is s without what was mounted after its first n entries.
Unwound(s, r, n) ==
  /\ r \in Table /\ r.busy = s.busy /\ n <= Len(s.kernel)
  /\ Len(r.kernel) = n /\ \A j \in 1..n : r.kernel[j] = s.kernel[j]

\* Entry n + 1 = m of s is mounted on d.
MountedOn(s, n, m, d) == n \in Nat /\ m = n + 1 /\ s.kernel \in Seq(Entry) /\ s.kernel[m].dir = d

\* The loop devices left when entry m of s has gone.
LoopsWithout(s, m, old, new) ==
  new = IF s.kernel[m].fsname = "loop" THEN old - 1 ELSE old

\* Unmounting the directory of the newest entry.
LEMMA UnmountLast ==
  ASSUME NEW s, NEW q, NEW n, NEW m, NEW d, Unwound(s, q, m), MountedOn(s, n, m, d)
  PROVE  /\ Unwound(s, Mounts!Unmounted(q, d), n)
         /\ LoopsWithout(s, m, q.loops, Mounts!Unmounted(q, d).loops)
<1>0. n \in Nat /\ m = n + 1 /\ s.kernel \in Seq(Entry) /\ s.kernel[m].dir = d
  BY DEF MountedOn
<1>1. /\ q.kernel \in Seq(Entry) /\ Len(q.kernel) = n + 1 /\ n + 1 \in 1..Len(q.kernel)
      /\ q.kernel[n + 1] = s.kernel[n + 1] /\ q \in Table
      /\ \A j \in 1..n : q.kernel[j] = s.kernel[j]
  BY <1>0 DEF Unwound, Table
<1>2. LET r == Mounts!Unmounted(q, d)
      IN  /\ r \in Table /\ r.kernel = Mounts!Without(q.kernel, n + 1) /\ r.busy = q.busy
          /\ r.loops = IF q.kernel[n + 1].fsname = "loop" THEN q.loops - 1 ELSE q.loops
  BY <1>0, <1>1, UnmountTop
<1>3. /\ Len(Mounts!Without(q.kernel, n + 1)) = n
      /\ \A j \in 1..n : Mounts!Without(q.kernel, n + 1)[j] = q.kernel[j]
  <2>1. Len(q.kernel) - 1 = n
    BY <1>0, <1>1
  <2>2. \A j \in 1..n : j < n + 1
    BY <1>0
  <2> QED BY <1>1, <2>1, <2>2, WithoutType, Zenon
<1>4. n <= Len(s.kernel) /\ q.busy = s.busy
  BY <1>0 DEF Unwound
<1> QED BY <1>0, <1>1, <1>2, <1>3, <1>4 DEF Unwound, LoopsWithout

\* Whatever the directory: the result is a table, and refusals are not forgotten.
LEMMA UnmountedType ==
  ASSUME NEW s \in Table, NEW d \in Mounts!Dirs
  PROVE  Mounts!Unmounted(s, d) \in Table /\ s.busy \subseteq Mounts!Unmounted(s, d).busy
<1> DEFINE top == Mounts!TopAt(s.kernel, d)
           i == CHOOSE k \in top : TRUE
<1>1. CASE top = {}
  BY <1>1 DEF Mounts!Unmounted
<1>2. CASE top # {} /\ Mounts!IsBusy(s.kernel, i)
  BY <1>2 DEF Mounts!Unmounted, Table
<1>3. CASE top # {} /\ ~Mounts!IsBusy(s.kernel, i)
  <2>1. i \in top
    BY <1>3
  <2>2. i \in 1..Len(s.kernel) /\ s.kernel \in Seq(Entry) /\ s.loops \in Int
    BY <2>1 DEF Mounts!TopAt, Table
  <2> HIDE DEF i
  <2>3. Mounts!Without(s.kernel, i) \in Seq(Entry)
    BY <2>2, WithoutType
  <2>4. Mounts!Unmounted(s, d)
          = [s EXCEPT !.kernel = Mounts!Without(@, i),
                      !.loops = IF s.kernel[i].fsname = "loop" THEN @ - 1 ELSE @]
    BY <1>3, Zenon DEF Mounts!Unmounted, i
  <2> DEFINE k == Mounts!Without(s.kernel, i)
             n == IF s.kernel[i].fsname = "loop" THEN s.loops - 1 ELSE s.loops
  <2>5. n \in Int /\ k \in Seq(Entry) /\ Mounts!Unmounted(s, d) = [s EXCEPT !.kernel = k, !.loops = n]
    BY <2>2, <2>3, <2>4
  <2> HIDE DEF k, n
  <2> QED BY <2>5, Zenon DEF Table
<1> QED BY <1>1, <1>2, <1>3

\* Destroying mounts_ with one entry, two, three and four.
LEMMA DestroyedOne ==
  ASSUME NEW a PROVE Mounts!Destroyed(<<a>>) = Mounts!Unmounted(HostTable, a)
<1>1. DOMAIN <<a>> = {1}
  OBVIOUS
<1> QED BY <1>1 DEF Mounts!Destroyed, HostTable

\* Two entries.
LEMMA DestroyedTwo ==
  ASSUME NEW a, NEW b
  PROVE  Mounts!Destroyed(<<a, b>>) = Mounts!Unmounted(Mounts!Unmounted(HostTable, a), b)
<1>1. DOMAIN <<a, b>> = {1, 2}
  OBVIOUS
<1> QED BY <1>1 DEF Mounts!Destroyed, HostTable

\* Three entries.
LEMMA DestroyedThree ==
  ASSUME NEW a, NEW b, NEW c
  PROVE  Mounts!Destroyed(<<a, b, c>>)
           = Mounts!Unmounted(Mounts!Unmounted(Mounts!Unmounted(HostTable, a), b), c)
<1>1. DOMAIN <<a, b, c>> = {1, 2, 3}
  OBVIOUS
<1> QED BY <1>1 DEF Mounts!Destroyed, HostTable

\* Four entries.
LEMMA DestroyedFour ==
  ASSUME NEW a, NEW b, NEW c, NEW d
  PROVE  Mounts!Destroyed(<<a, b, c, d>>)
           = Mounts!Unmounted(
               Mounts!Unmounted(Mounts!Unmounted(Mounts!Unmounted(HostTable, a), b), c), d)
<1>1. DOMAIN <<a, b, c, d>> = {1, 2, 3, 4}
  OBVIOUS
<1> QED BY <1>1 DEF Mounts!Destroyed, HostTable

\* The mount table after mounts_ is destroyed.
LEMMA TableAfterDestroy ==
  ASSUME Mounts!DestroyMounts, Mounts!Destroyed(mounts) \in Table
  PROVE  HostTable' = Mounts!Destroyed(mounts) /\ mounts' = <<>>
<1> DEFINE s == Mounts!Destroyed(mounts)
<1>1. kernel' = s.kernel /\ busy' = s.busy /\ loops' = s.loops /\ mounts' = <<>>
  BY DEF Mounts!DestroyMounts
<1>2. s \in Table
  OBVIOUS
<1> HIDE DEF s
<1>3. HostTable' = [kernel |-> s.kernel, busy |-> s.busy, loops |-> s.loops]
  BY <1>1 DEF HostTable
<1>4. s = [kernel |-> s.kernel, busy |-> s.busy, loops |-> s.loops]
  BY <1>2 DEF Table
<1> QED BY <1>1, <1>3, <1>4 DEF s

\* When the manager has served, destroying mounts_ takes exactly its own mounts off
\* the mount table: no umount is refused, whatever lies below them.
LEMMA DestroyTakesOwn ==
  ASSUME MountsInv, pc = "ready"
  PROVE  LET n == Len(kernel) - Len(Own)
             r == Mounts!Destroyed(mounts)
         IN  /\ Len(mounts) = Len(Own) /\ n \in Nat
             /\ r \in Table /\ Unwound(HostTable, r, n)
             /\ (\A i \in 2..Len(kernel) : kernel[i].fsname # "loop") /\ n = 0 =>
                  r.loops = IF kernel[1].fsname = "loop" THEN loops - 1 ELSE loops
<1>1. /\ HostTable \in Table /\ HostTable.kernel = kernel /\ HostTable.loops = loops
      /\ kernel \in Seq(Entry) /\ loops \in Int /\ Len(kernel) \in Nat
  BY DEF MountsInv, HostTable, Table
<1>0. HostTable.kernel \in Seq(Entry)
  BY <1>1
<1>2. Unwound(HostTable, HostTable, Len(kernel))
  BY <1>1 DEF Unwound
<1>3. /\ Len(Own) <= Len(kernel) /\ mounts = Mounts!Reversed(Own)
      /\ \A i \in 1..Len(Own) : kernel[Len(kernel) - Len(Own) + i].dir = Own[i]
  BY DEF MountsInv
<1>4. CASE overlay
  <2> DEFINE r == RootDir
             c == <<"combined">>
             e == FinalDir("cache")
             d == FinalDir("data")
             n == Len(kernel) - 4
             n1 == n + 1
             n2 == n + 2
             n3 == n + 3
             n4 == n + 4
  <2>1. Own = <<r, c, e, d>>
    BY <1>4 DEF Own
  <2> HIDE DEF r, c, e, d
  <2>2. mounts = <<d, e, c, r>> /\ Len(Own) = 4 /\ Len(mounts) = 4
    BY <1>3, <2>1 DEF Mounts!Reversed
  <2>3. n \in Nat /\ n4 = Len(kernel)
    BY <1>1, <1>3, <2>2
  <2>4. MountedOn(HostTable, n, n1, r)
    BY <1>0, <1>1, <1>3, <2>1, <2>2, <2>3 DEF MountedOn
  <2>5. MountedOn(HostTable, n1, n2, c)
    BY <1>0, <1>1, <1>3, <2>1, <2>2, <2>3 DEF MountedOn
  <2>6. MountedOn(HostTable, n2, n3, e)
    BY <1>0, <1>1, <1>3, <2>1, <2>2, <2>3 DEF MountedOn
  <2>7. MountedOn(HostTable, n3, n4, d)
    BY <1>0, <1>1, <1>3, <2>1, <2>2, <2>3 DEF MountedOn
  <2> DEFINE u1 == Mounts!Unmounted(HostTable, d)
             u2 == Mounts!Unmounted(u1, e)
             u3 == Mounts!Unmounted(u2, c)
             u4 == Mounts!Unmounted(u3, r)
  <2>8. Mounts!Destroyed(mounts) = u4
    BY <2>2, DestroyedFour
  <2> HIDE DEF n, n1, n2, n3, n4
  <2>9. Unwound(HostTable, u1, n3) /\ LoopsWithout(HostTable, n4, HostTable.loops, u1.loops)
    BY <1>2, <2>3, <2>7, UnmountLast
  <2> HIDE DEF u1
  <2>10. Unwound(HostTable, u2, n2) /\ LoopsWithout(HostTable, n3, u1.loops, u2.loops)
    BY <2>9, <2>6, UnmountLast
  <2> HIDE DEF u2
  <2>11. Unwound(HostTable, u3, n1) /\ LoopsWithout(HostTable, n2, u2.loops, u3.loops)
    BY <2>10, <2>5, UnmountLast
  <2> HIDE DEF u3
  <2>12. Unwound(HostTable, u4, n) /\ LoopsWithout(HostTable, n1, u3.loops, u4.loops)
    BY <2>11, <2>4, UnmountLast
  <2> HIDE DEF u4
  <2>13. ASSUME \A i \in 2..Len(kernel) : kernel[i].fsname # "loop", n = 0
        PROVE  u4.loops = IF kernel[1].fsname = "loop" THEN loops - 1 ELSE loops
    <3>1. n1 = 1 /\ n2 \in 2..Len(kernel) /\ n3 \in 2..Len(kernel) /\ n4 \in 2..Len(kernel)
      BY <2>3, <2>4, <2>5, <2>6, <2>7, <2>13 DEF MountedOn
    <3> QED BY <1>1, <2>9, <2>10, <2>11, <2>12, <2>13, <3>1 DEF LoopsWithout
  <2> QED BY <2>2, <2>3, <2>8, <2>12, <2>13, Zenon DEF n, Unwound
<1>5. CASE ~overlay
  <2> DEFINE r == RootDir
             e == FinalDir("cache")
             d == FinalDir("data")
             n == Len(kernel) - 3
             n1 == n + 1
             n2 == n + 2
             n3 == n + 3
  <2>1. Own = <<r, e, d>>
    BY <1>5 DEF Own
  <2> HIDE DEF r, e, d
  <2>2. mounts = <<d, e, r>> /\ Len(Own) = 3 /\ Len(mounts) = 3
    BY <1>3, <2>1 DEF Mounts!Reversed
  <2>3. n \in Nat /\ n3 = Len(kernel)
    BY <1>1, <1>3, <2>2
  <2>4. MountedOn(HostTable, n, n1, r)
    BY <1>0, <1>1, <1>3, <2>1, <2>2, <2>3 DEF MountedOn
  <2>5. MountedOn(HostTable, n1, n2, e)
    BY <1>0, <1>1, <1>3, <2>1, <2>2, <2>3 DEF MountedOn
  <2>6. MountedOn(HostTable, n2, n3, d)
    BY <1>0, <1>1, <1>3, <2>1, <2>2, <2>3 DEF MountedOn
  <2> DEFINE u1 == Mounts!Unmounted(HostTable, d)
             u2 == Mounts!Unmounted(u1, e)
             u3 == Mounts!Unmounted(u2, r)
  <2>7. Mounts!Destroyed(mounts) = u3
    BY <2>2, DestroyedThree
  <2> HIDE DEF n, n1, n2, n3
  <2>8. Unwound(HostTable, u1, n2) /\ LoopsWithout(HostTable, n3, HostTable.loops, u1.loops)
    BY <1>2, <2>3, <2>6, UnmountLast
  <2> HIDE DEF u1
  <2>9. Unwound(HostTable, u2, n1) /\ LoopsWithout(HostTable, n2, u1.loops, u2.loops)
    BY <2>8, <2>5, UnmountLast
  <2> HIDE DEF u2
  <2>10. Unwound(HostTable, u3, n) /\ LoopsWithout(HostTable, n1, u2.loops, u3.loops)
    BY <2>9, <2>4, UnmountLast
  <2> HIDE DEF u3
  <2>11. ASSUME \A i \in 2..Len(kernel) : kernel[i].fsname # "loop", n = 0
        PROVE  u3.loops = IF kernel[1].fsname = "loop" THEN loops - 1 ELSE loops
    <3>1. n1 = 1 /\ n2 \in 2..Len(kernel) /\ n3 \in 2..Len(kernel)
      BY <2>3, <2>4, <2>5, <2>6, <2>11 DEF MountedOn
    <3> QED BY <1>1, <2>8, <2>9, <2>10, <2>11, <3>1 DEF LoopsWithout
  <2> QED BY <2>2, <2>3, <2>7, <2>10, <2>11, Zenon DEF n, Unwound
<1> QED BY <1>4, <1>5

\* Which of the directories lies below which.
LEMMA Below ==
  /\ ~Mounts!Below(RootDir, <<"combined">>) /\ RootDir # <<"combined">>
  /\ ~Mounts!Below(RootDir, <<"combined", "cache">>) /\ RootDir # <<"combined", "cache">>
  /\ Mounts!Below(RootDir, <<"rootfs", "cache">>) /\ RootDir # <<"rootfs", "cache">>
  /\ Mounts!Below(<<"combined">>, <<"combined", "cache">>)
  /\ <<"combined">> # <<"combined", "cache">>
<1>1. ASSUME NEW a, NEW b PROVE SubSeq(<<a>>, 1, 1) = <<a>> /\ SubSeq(<<a, b>>, 1, 1) = <<a>>
  <2>1. SubSeq(<<a>>, 1, 1) = [i \in 1..1 |-> <<a>>[i]]
    BY DEF SubSeq
  <2>2. SubSeq(<<a, b>>, 1, 1) = [i \in 1..1 |-> <<a, b>>[i]]
    BY DEF SubSeq
  <2>3. \A i \in 1..1 : i = 1
    OBVIOUS
  <2>4. <<a>> = [i \in 1..1 |-> a]
    BY <2>3
  <2>5. <<a>>[1] = a /\ <<a, b>>[1] = a
    OBVIOUS
  <2>6. [i \in 1..1 |-> <<a>>[i]] = [i \in 1..1 |-> a] /\ [i \in 1..1 |-> <<a, b>>[i]] = [i \in 1..1 |-> a]
    BY <2>3, <2>5, Zenon
  <2> QED BY <2>1, <2>2, <2>4, <2>6, Zenon
<1>2. \A a : Len(<<a>>) = 1 /\ \A b : Len(<<a, b>>) = 2
  OBVIOUS
<1>3. <<"combined">> # <<"rootfs">>
  <2>1. <<"combined">>[1] # <<"rootfs">>[1]
    OBVIOUS
  <2> QED BY <2>1
<1>4. \A a, b, c : <<a>> # <<b, c>>
  BY <1>2
<1>5. /\ SubSeq(<<"combined", "cache">>, 1, 1) = <<"combined">>
      /\ SubSeq(<<"rootfs", "cache">>, 1, 1) = <<"rootfs">>
  BY <1>1, Zenon
<1> QED BY <1>2, <1>3, <1>4, <1>5 DEF Mounts!Below, RootDir

\* umount(2) refuses a directory with something mounted below it.
LEMMA UnmountRefused ==
  ASSUME NEW s \in Table, NEW i \in 1..Len(s.kernel), NEW d, s.kernel[i].dir = d,
         \A j \in 1..Len(s.kernel) : j > i => s.kernel[j].dir # d,
         NEW j \in 1..Len(s.kernel), j > i, Mounts!Below(d, s.kernel[j].dir)
  PROVE  d \in Mounts!Unmounted(s, d).busy
<1>1. s.kernel \in Seq(Entry) /\ DOMAIN s.kernel = 1..Len(s.kernel)
  BY DEF Table
<1>2. Mounts!TopAt(s.kernel, d) = {i}
  BY <1>1 DEF Mounts!TopAt
<1>3. (CHOOSE k \in Mounts!TopAt(s.kernel, d) : TRUE) = i
  BY <1>2
<1>4. Mounts!IsBusy(s.kernel, i)
  BY <1>1 DEF Mounts!IsBusy
<1>5. Mounts!Unmounted(s, d) = [s EXCEPT !.busy = @ \cup {d}]
  BY <1>2, <1>3, <1>4 DEF Mounts!Unmounted
<1> QED BY <1>5 DEF Table

\* When setup_mounts fails on the way, what is mounted is unmounted in the order
\* in which it was mounted: either everything goes, or an umount is refused.
LEMMA FailureTakesAllOrIsRefused ==
  ASSUME MountsInv, pc \in {"mountOverlay", "mountCache", "mountData"}
  PROVE  LET r == Mounts!Destroyed(mounts)
         IN  /\ r \in Table /\ busy \subseteq r.busy
             /\ ~killed /\ r.busy = {} => Len(r.kernel) = 0 /\ r.loops = 0
<1> DEFINE c == <<"combined">>
<1>1. /\ HostTable \in Table /\ HostTable.kernel = kernel /\ HostTable.loops = loops
      /\ HostTable.busy = busy
      /\ kernel \in Seq(Entry) /\ loops \in Int /\ Len(kernel) \in Nat
  BY DEF MountsInv, HostTable, Table
<1>2. /\ Len(Own) <= Len(kernel) /\ mounts = Own
      /\ \A i \in 1..Len(Own) : kernel[Len(kernel) - Len(Own) + i].dir = Own[i]
      /\ ~killed /\ busy = {} =>
           /\ Len(kernel) = Len(Own)
           /\ loops = IF kernel # <<>> /\ kernel[1].fsname = "loop" THEN 1 ELSE 0
           /\ \A i \in 2..Len(kernel) : kernel[i].fsname # "loop"
  BY DEF MountsInv
<1>9. ASSUME ~killed, busy = {}
      PROVE  /\ Len(kernel) = Len(mounts) /\ \A i \in 1..Len(mounts) : kernel[i].dir = mounts[i]
             /\ Len(kernel) >= 1 => loops = IF kernel[1].fsname = "loop" THEN 1 ELSE 0
             /\ \A i \in 2..Len(kernel) : kernel[i].fsname # "loop"
  <2>1. /\ Len(kernel) = Len(mounts) /\ mounts = Own
        /\ loops = IF kernel # <<>> /\ kernel[1].fsname = "loop" THEN 1 ELSE 0
        /\ \A i \in 2..Len(kernel) : kernel[i].fsname # "loop"
    BY <1>2, <1>9
  <2>2. \A i \in 1..Len(mounts) : Len(kernel) - Len(Own) + i = i
    BY <1>1, <2>1
  <2>3. \A i \in 1..Len(mounts) : kernel[i].dir = mounts[i]
    BY <1>2, <2>1, <2>2
  <2>4. Len(kernel) >= 1 => kernel # <<>>
    OBVIOUS
  <2> QED BY <2>1, <2>3, <2>4
<1>3. /\ RootDir \in Mounts!Dirs /\ c \in Mounts!Dirs /\ <<"combined", "cache">> \in Mounts!Dirs
      /\ <<"rootfs", "cache">> \in Mounts!Dirs
  BY DEF Mounts!Dirs, RootDir
<1>4. CASE mounts = <<RootDir>>
  <2>1. Mounts!Destroyed(mounts) = Mounts!Unmounted(HostTable, RootDir)
    BY <1>4, DestroyedOne
  <2>2. /\ Mounts!Unmounted(HostTable, RootDir) \in Table
        /\ busy \subseteq Mounts!Unmounted(HostTable, RootDir).busy
    BY <1>1, <1>3, UnmountedType
  <2>3. ASSUME ~killed, busy = {}
        PROVE  LET r == Mounts!Unmounted(HostTable, RootDir) IN Len(r.kernel) = 0 /\ r.loops = 0
    <3>1. /\ Len(kernel) = 1 /\ kernel[1].dir = RootDir
          /\ loops = IF kernel[1].fsname = "loop" THEN 1 ELSE 0
      <4>1. Len(mounts) = 1 /\ mounts[1] = RootDir
        BY <1>4
      <4> QED BY <1>9, <2>3, <4>1
    <3>2. MountedOn(HostTable, 0, 1, RootDir) /\ Unwound(HostTable, HostTable, 1)
      BY <1>1, <3>1 DEF MountedOn, Unwound
    <3>3. /\ Unwound(HostTable, Mounts!Unmounted(HostTable, RootDir), 0)
          /\ LoopsWithout(HostTable, 1, HostTable.loops, Mounts!Unmounted(HostTable, RootDir).loops)
      BY <3>2, UnmountLast
    <3> QED BY <1>1, <3>1, <3>3 DEF Unwound, LoopsWithout
  <2> QED BY <2>1, <2>2, <2>3
<1>5. CASE mounts = <<RootDir, c>>
  <2> DEFINE u1 == Mounts!Unmounted(HostTable, RootDir)
             u2 == Mounts!Unmounted(u1, c)
  <2>1. Mounts!Destroyed(mounts) = u2
    BY <1>5, DestroyedTwo
  <2>2. u1 \in Table /\ busy \subseteq u1.busy
    BY <1>1, <1>3, UnmountedType
  <2>3. ASSUME ~killed, busy = {}
        PROVE  /\ Len(u1.kernel) = 1 /\ u1.kernel[1] = kernel[2] /\ u1.loops = 0
               /\ kernel[2].dir = c /\ kernel[2].fsname # "loop"
    <3>1. /\ Len(kernel) = 2 /\ kernel[1].dir = RootDir /\ kernel[2].dir = c
          /\ loops = IF kernel[1].fsname = "loop" THEN 1 ELSE 0
          /\ kernel[2].fsname # "loop"
      <4>1. Len(mounts) = 2 /\ mounts[1] = RootDir /\ mounts[2] = c
        BY <1>5
      <4> QED BY <1>9, <2>3, <4>1
    <3>2. \A j \in 1..Len(HostTable.kernel) : j > 1 =>
             /\ HostTable.kernel[j].dir # RootDir
             /\ ~Mounts!Below(RootDir, HostTable.kernel[j].dir)
      BY <1>1, <3>1, Below
    <3>3. /\ u1.kernel = Mounts!Without(kernel, 1)
          /\ u1.loops = IF kernel[1].fsname = "loop" THEN loops - 1 ELSE loops
      BY <1>1, <3>1, <3>2, UnmountTop
    <3>4. Len(u1.kernel) = 1 /\ u1.kernel[1] = kernel[2]
      <4>0. kernel \in Seq(Entry) /\ 1 \in 1..Len(kernel)
        BY <1>1, <3>1
      <4>1. /\ Len(Mounts!Without(kernel, 1)) = Len(kernel) - 1
            /\ \A j \in 1..(Len(kernel) - 1) :
                 Mounts!Without(kernel, 1)[j] = IF j < 1 THEN kernel[j] ELSE kernel[j + 1]
        BY <4>0, WithoutType, Zenon
      <4>2. Len(kernel) - 1 = 1 /\ 1 \in 1..1 /\ ~(1 < 1) /\ 1 + 1 = 2
        BY <3>1
      <4> QED BY <3>3, <4>1, <4>2, Zenon
    <3> QED BY <1>1, <3>1, <3>3, <3>4
  <2> HIDE DEF u1
  <2>4. u2 \in Table /\ u1.busy \subseteq u2.busy
    BY <1>3, <2>2, UnmountedType
  <2>5. ASSUME ~killed, busy = {} PROVE Len(u2.kernel) = 0 /\ u2.loops = 0
    <3>1. MountedOn(u1, 0, 1, c) /\ Unwound(u1, u1, 1)
      BY <2>2, <2>3, <2>5 DEF MountedOn, Unwound, Table
    <3>2. Unwound(u1, u2, 0) /\ LoopsWithout(u1, 1, u1.loops, u2.loops)
      BY <3>1, UnmountLast
    <3> QED BY <2>3, <2>5, <3>2 DEF Unwound, LoopsWithout
  <2> QED BY <2>1, <2>2, <2>4, <2>5
<1>6. CASE mounts = <<RootDir, <<"rootfs", "cache">>>>
  <2> DEFINE u1 == Mounts!Unmounted(HostTable, RootDir)
             u2 == Mounts!Unmounted(u1, <<"rootfs", "cache">>)
  <2>1. Mounts!Destroyed(mounts) = u2
    BY <1>6, DestroyedTwo
  <2>2. u1 \in Table /\ busy \subseteq u1.busy
    BY <1>1, <1>3, UnmountedType
  <2>3. ASSUME ~killed, busy = {} PROVE u1.busy # {}
    <3>1. Len(kernel) = 2 /\ kernel[1].dir = RootDir /\ kernel[2].dir = <<"rootfs", "cache">>
      <4>1. Len(mounts) = 2 /\ mounts[1] = RootDir /\ mounts[2] = <<"rootfs", "cache">>
        BY <1>6
      <4> QED BY <1>9, <2>3, <4>1
    <3>2. /\ \A j \in 1..Len(HostTable.kernel) : j > 1 => HostTable.kernel[j].dir # RootDir
          /\ Mounts!Below(RootDir, HostTable.kernel[2].dir)
          /\ 1 \in 1..Len(HostTable.kernel) /\ 2 \in 1..Len(HostTable.kernel) /\ 2 > 1
          /\ HostTable.kernel[1].dir = RootDir
      BY <1>1, <3>1, Below
    <3>3. RootDir \in u1.busy
      BY <1>1, <3>2, UnmountRefused
    <3> QED BY <3>3
  <2> HIDE DEF u1
  <2>4. u2 \in Table /\ u1.busy \subseteq u2.busy
    BY <1>3, <2>2, UnmountedType
  <2> QED BY <2>1, <2>2, <2>3, <2>4
<1>7. CASE mounts = <<RootDir, c, <<"combined", "cache">>>>
  <2> DEFINE u1 == Mounts!Unmounted(HostTable, RootDir)
             u2 == Mounts!Unmounted(u1, c)
             u3 == Mounts!Unmounted(u2, <<"combined", "cache">>)
  <2>1. Mounts!Destroyed(mounts) = u3
    BY <1>7, DestroyedThree
  <2>2. u1 \in Table /\ busy \subseteq u1.busy
    BY <1>1, <1>3, UnmountedType
  <2>3. ASSUME ~killed, busy = {}
        PROVE  /\ Len(u1.kernel) = 2 /\ u1.kernel[1].dir = c
               /\ u1.kernel[2].dir = <<"combined", "cache">>
    <3>1. /\ Len(kernel) = 3 /\ kernel[1].dir = RootDir /\ kernel[2].dir = c
          /\ kernel[3].dir = <<"combined", "cache">>
      <4>1. /\ Len(mounts) = 3 /\ mounts[1] = RootDir /\ mounts[2] = c
            /\ mounts[3] = <<"combined", "cache">>
        BY <1>7
      <4> QED BY <1>9, <2>3, <4>1
    <3>2. \A j \in 1..Len(HostTable.kernel) : j > 1 =>
             /\ HostTable.kernel[j].dir # RootDir
             /\ ~Mounts!Below(RootDir, HostTable.kernel[j].dir)
      BY <1>1, <3>1, Below
    <3>3. u1.kernel = Mounts!Without(kernel, 1)
      BY <1>1, <3>1, <3>2, UnmountTop
    <3>4. Len(u1.kernel) = 2 /\ u1.kernel[1] = kernel[2] /\ u1.kernel[2] = kernel[3]
      <4>0. kernel \in Seq(Entry) /\ 1 \in 1..Len(kernel)
        BY <1>1, <3>1
      <4>1. /\ Len(Mounts!Without(kernel, 1)) = Len(kernel) - 1
            /\ \A j \in 1..(Len(kernel) - 1) :
                 Mounts!Without(kernel, 1)[j] = IF j < 1 THEN kernel[j] ELSE kernel[j + 1]
        BY <4>0, WithoutType, Zenon
      <4>2. /\ Len(kernel) - 1 = 2 /\ 1 \in 1..2 /\ 2 \in 1..2
            /\ ~(1 < 1) /\ ~(2 < 1) /\ 1 + 1 = 2 /\ 2 + 1 = 3
        BY <3>1
      <4> QED BY <3>3, <4>1, <4>2, Zenon
    <3> QED BY <3>1, <3>4
  <2> HIDE DEF u1
  <2>4. u2 \in Table /\ u1.busy \subseteq u2.busy
    BY <1>3, <2>2, UnmountedType
  <2>5. ASSUME ~killed, busy = {} PROVE u2.busy # {}
    <3>1. /\ \A j \in 1..Len(u1.kernel) : j > 1 => u1.kernel[j].dir # c
          /\ Mounts!Below(c, u1.kernel[2].dir)
          /\ 1 \in 1..Len(u1.kernel) /\ 2 \in 1..Len(u1.kernel) /\ 2 > 1
          /\ u1.kernel[1].dir = c
      BY <2>3, <2>5, Below
    <3>2. c \in u2.busy
      BY <2>2, <3>1, UnmountRefused
    <3> QED BY <3>2
  <2> HIDE DEF u2
  <2>6. u3 \in Table /\ u2.busy \subseteq u3.busy
    BY <1>3, <2>4, UnmountedType
  <2> QED BY <2>1, <2>2, <2>4, <2>5, <2>6
<1>8. \/ mounts = <<RootDir>> \/ mounts = <<RootDir, c>>
      \/ mounts = <<RootDir, <<"rootfs", "cache">>>>
      \/ mounts = <<RootDir, c, <<"combined", "cache">>>>
  BY <1>2 DEF MountsInv, Own, FinalDir, Mounts!FinalRootfs
<1> HIDE DEF c
<1> QED BY <1>4, <1>5, <1>6, <1>7, <1>8

\* At the beginning nothing is mounted.
LEMMA InitMounts == Mounts!Init => MountsInv
<1> SUFFICES ASSUME Mounts!Init PROVE MountsInv
  OBVIOUS
<1>1. /\ pc = "start" /\ overlay \in BOOLEAN /\ mounts = <<>> /\ kernel = <<>>
      /\ loops = 0 /\ busy = {} /\ killed = FALSE
  BY DEF Mounts!Init
<1>2. Own = <<>> /\ Len(<<>>) = 0
  BY <1>1 DEF Own
<1>3. HostTable \in Table
  BY <1>1 DEF HostTable, Table
<1> QED BY <1>1, <1>2, <1>3 DEF MountsInv

\* A mount on top of the table: [fsname, dir] is appended to it, dir to Own.
LEMMA AppendKeeps ==
  ASSUME MountsInv, NEW f \in {"loop", "squashfuse", "overlay", "cacheDir", "dataDir"},
         NEW d \in Mounts!Dirs,
         kernel' = Append(kernel, [fsname |-> f, dir |-> d]), Own' = Append(Own, d),
         busy' = busy, killed' = killed, loops' \in Int,
         f = "loop" => loops' = loops + 1 /\ Own = <<>>, f # "loop" => loops' = loops,
         Own \in Seq(Mounts!Dirs)
  PROVE  /\ HostTable' \in Table
         /\ Len(Own') <= Len(kernel')
         /\ \A i \in 1..Len(Own') : kernel'[Len(kernel') - Len(Own') + i].dir = Own'[i]
         /\ ~killed' /\ busy' = {} =>
              /\ Len(kernel') = Len(Own')
              /\ loops' = IF kernel' # <<>> /\ kernel'[1].fsname = "loop" THEN 1 ELSE 0
              /\ \A i \in 2..Len(kernel') : kernel'[i].fsname # "loop"
<1> DEFINE m == [fsname |-> f, dir |-> d]
<1>1. /\ kernel \in Seq(Entry) /\ busy \subseteq Mounts!Dirs /\ loops \in Int
      /\ Len(kernel) \in Nat /\ Len(Own) \in Nat /\ Len(Own) <= Len(kernel)
  <2>1. HostTable \in Table /\ Len(Own) <= Len(kernel)
    BY Zenon DEF MountsInv
  <2>2. kernel \in Seq(Entry) /\ busy \subseteq Mounts!Dirs /\ loops \in Int
    BY <2>1 DEF HostTable, Table
  <2>3. Len(kernel) \in Nat /\ Len(Own) \in Nat
    BY <2>2
  <2> QED BY <2>1, <2>2, <2>3, Zenon
<1>2. m \in Entry /\ m.dir = d /\ m.fsname = f
  BY DEF Entry
<1> HIDE DEF m
<1>3. /\ kernel' \in Seq(Entry) /\ Len(kernel') = Len(kernel) + 1
      /\ kernel'[Len(kernel) + 1] = m /\ \A i \in 1..Len(kernel) : kernel'[i] = kernel[i]
  BY <1>1, <1>2 DEF m
<1>4. /\ Len(Own') = Len(Own) + 1 /\ Own'[Len(Own) + 1] = d
      /\ \A i \in 1..Len(Own) : Own'[i] = Own[i]
  BY <1>1
<1>5. HostTable' \in Table
  BY <1>1, <1>3 DEF HostTable, Table
<1>6. ASSUME NEW i \in 1..Len(Own') PROVE kernel'[Len(kernel') - Len(Own') + i].dir = Own'[i]
  <2>1. CASE i = Len(Own) + 1
    <3>1. Len(kernel') - Len(Own') + i = Len(kernel) + 1
      BY <1>1, <1>3, <1>4, <2>1
    <3> QED BY <1>2, <1>3, <1>4, <2>1, <3>1
  <2>2. CASE i \in 1..Len(Own)
    <3>1. /\ Len(kernel') - Len(Own') + i = Len(kernel) - Len(Own) + i
          /\ Len(kernel) - Len(Own) + i \in 1..Len(kernel)
      BY <1>1, <1>3, <1>4, <2>2
    <3>2. kernel[Len(kernel) - Len(Own) + i].dir = Own[i]
      BY <2>2 DEF MountsInv
    <3> QED BY <1>3, <1>4, <2>2, <3>1, <3>2
  <2>3. i \in 1..Len(Own) \/ i = Len(Own) + 1
    BY <1>1, <1>4
  <2> QED BY <2>1, <2>2, <2>3, Zenon
<1>7. ASSUME ~killed', busy' = {}
      PROVE  /\ Len(kernel') = Len(Own')
             /\ loops' = IF kernel' # <<>> /\ kernel'[1].fsname = "loop" THEN 1 ELSE 0
             /\ \A i \in 2..Len(kernel') : kernel'[i].fsname # "loop"
  <2>1. /\ Len(kernel) = Len(Own)
        /\ loops = IF kernel # <<>> /\ kernel[1].fsname = "loop" THEN 1 ELSE 0
        /\ \A i \in 2..Len(kernel) : kernel[i].fsname # "loop"
    BY <1>7 DEF MountsInv
  <2>2. kernel' # <<>>
    BY <1>1, <1>3
  <2>3. CASE Len(kernel) = 0
    <3>1. kernel = <<>> /\ kernel'[1] = m /\ Len(kernel') = 1
      BY <1>1, <1>3, <2>3
    <3>2. loops = 0 /\ \A i \in 2..Len(kernel') : FALSE
      BY <2>1, <3>1
    <3> QED BY <1>2, <1>3, <1>4, <2>1, <2>2, <3>1, <3>2
  <2>4. CASE Len(kernel) > 0
    <3>1. Own # <<>> /\ f # "loop" /\ kernel # <<>>
      BY <1>1, <2>1, <2>4
    <3>2. kernel'[1] = kernel[1] /\ loops' = loops
      BY <1>1, <1>3, <2>4, <3>1
    <3>3. \A i \in 2..Len(kernel') : kernel'[i].fsname # "loop"
      <4> TAKE i \in 2..Len(kernel')
      <4>1. i = Len(kernel) + 1 \/ i \in 2..Len(kernel)
        BY <1>1, <1>3
      <4>2. i \in 2..Len(kernel) => i \in 1..Len(kernel)
        BY <1>1
      <4> QED BY <1>2, <1>3, <2>1, <3>1, <4>1, <4>2
    <3> QED BY <1>3, <1>4, <2>1, <2>2, <3>1, <3>2, <3>3
  <2> QED BY <1>1, <2>3, <2>4
<1>8. Len(Own') <= Len(kernel')
  BY <1>1, <1>3, <1>4
<1> QED BY <1>5, <1>6, <1>7, <1>8, Zenon

\* What this process has mounted are directories.
LEMMA OwnType == overlay \in BOOLEAN => Own \in Seq(Mounts!Dirs)
<1> SUFFICES ASSUME overlay \in BOOLEAN PROVE Own \in Seq(Mounts!Dirs)
  OBVIOUS
<1>1. /\ RootDir \in Mounts!Dirs /\ <<"combined">> \in Mounts!Dirs
      /\ FinalDir("cache") \in Mounts!Dirs /\ FinalDir("data") \in Mounts!Dirs
  BY DEF RootDir, FinalDir, Mounts!FinalRootfs, Mounts!Dirs
<1> QED BY <1>1 DEF Own

\* Each step of setup_mounts that mounts something; the last one reverses mounts_.
LEMMA MountingKeeps ==
  ASSUME MountsInv,
         \/ Mounts!MountRootfs \/ Mounts!MountOverlay \/ Mounts!MountCache \/ Mounts!MountData
  PROVE  MountsInv'
<1>1. /\ overlay' = overlay /\ busy' = busy /\ killed' = killed /\ overlay \in BOOLEAN
      /\ loops \in Int
  BY Zenon DEF Mounts!MountRootfs, Mounts!MountOverlay, Mounts!MountCache, Mounts!MountData, MountsInv,
         HostTable, Table
<1>2. Own \in Seq(Mounts!Dirs)
  BY <1>1, OwnType
<1>3. /\ RootDir \in Mounts!Dirs /\ <<"combined">> \in Mounts!Dirs
      /\ FinalDir("cache") \in Mounts!Dirs /\ FinalDir("data") \in Mounts!Dirs
  BY DEF RootDir, FinalDir, Mounts!FinalRootfs, Mounts!Dirs
<1>4. CASE Mounts!MountRootfs
  <2>1. PICK f \in {"loop", "squashfuse"} :
          /\ kernel' = Append(kernel, [fsname |-> f, dir |-> RootDir])
          /\ mounts' = Append(mounts, RootDir)
          /\ f = "loop" => loops' = loops + 1
          /\ f # "loop" => loops' = loops
    BY <1>4 DEF Mounts!MountRootfs, Mounts!Mounted, RootDir
  <2>2. pc = "mountRootfs" /\ pc' = IF overlay THEN "mountOverlay" ELSE "mountCache"
    BY <1>4 DEF Mounts!MountRootfs
  <2>3. Own = <<>> /\ Own' = <<RootDir>> /\ <<RootDir>> = Append(<<>>, RootDir) /\ mounts = <<>>
    BY <1>1, <2>2 DEF Own, MountsInv, RootDir
  <2>4. loops' \in Int /\ Own' = Append(Own, RootDir) /\ mounts' = Own'
        /\ f \in {"loop", "squashfuse", "overlay", "cacheDir", "dataDir"}
    BY <1>1, <2>1, <2>3
  <2> QED BY <1>1, <1>2, <1>3, <2>1, <2>2, <2>3, <2>4, AppendKeeps, Zenon DEF MountsInv
<1>5. CASE Mounts!MountOverlay
  <2> DEFINE c == <<"combined">>
  <2>1. /\ kernel' = Append(kernel, [fsname |-> "overlay", dir |-> c])
        /\ mounts' = Append(mounts, c) /\ loops' = loops
        /\ pc = "mountOverlay" /\ pc' = "mountCache"
    BY <1>5 DEF Mounts!MountOverlay, Mounts!Mounted
  <2>2. overlay /\ mounts = Own /\ Own = <<RootDir>> /\ Own' = <<RootDir, c>> /\ c \in Mounts!Dirs
    BY <1>1, <1>3, <2>1 DEF Own, MountsInv, RootDir
  <2> HIDE DEF c
  <2>3. Own' = Append(Own, c)
    BY <2>2
  <2>4. mounts' = Own' /\ loops' \in Int
    BY <1>1, <2>1, <2>2, <2>3, Zenon
  <2> QED BY <1>1, <1>2, <2>1, <2>2, <2>3, <2>4, AppendKeeps, Zenon DEF MountsInv
<1>6. CASE Mounts!MountCache
  <2> DEFINE d == FinalDir("cache")
  <2>1. /\ kernel' = Append(kernel, [fsname |-> "cacheDir", dir |-> d])
        /\ mounts' = Append(mounts, d) /\ loops' = loops
        /\ pc = "mountCache" /\ pc' = "mountData"
    BY <1>6 DEF Mounts!MountCache, Mounts!Mounted, FinalDir
  <2>2. mounts = Own
    BY <2>1 DEF MountsInv
  <2>3. FinalDir("cache")' = d /\ RootDir' = RootDir
    BY <1>1 DEF FinalDir, Mounts!FinalRootfs, RootDir
  <2>4. Own' = Append(Own, d)
    <3>1. CASE overlay
      <4>1. Own = <<RootDir, <<"combined">>>> /\ Own' = <<RootDir, <<"combined">>, d>>
        BY <1>1, <2>1, <2>3, <3>1 DEF Own
      <4> HIDE DEF d
      <4> QED BY <4>1
    <3>2. CASE ~overlay
      <4>1. Own = <<RootDir>> /\ Own' = <<RootDir, d>>
        BY <1>1, <2>1, <2>3, <3>2 DEF Own
      <4> HIDE DEF d
      <4> QED BY <4>1
    <3> QED BY <3>1, <3>2
  <2> HIDE DEF d
  <2>5. mounts' = Own' /\ loops' \in Int /\ d \in Mounts!Dirs
    BY <1>1, <1>3, <2>1, <2>2, <2>4 DEF d
  <2> QED BY <1>1, <1>2, <2>1, <2>4, <2>5, AppendKeeps, Zenon DEF MountsInv
<1>7. CASE Mounts!MountData
  <2> DEFINE d == FinalDir("data")
  <2>1. /\ kernel' = Append(kernel, [fsname |-> "dataDir", dir |-> d])
        /\ mounts' = Mounts!Reversed(Append(mounts, d)) /\ loops' = loops
        /\ pc = "mountData" /\ pc' = "ready"
    BY <1>7 DEF Mounts!MountData, FinalDir
  <2>2. mounts = Own
    BY <2>1 DEF MountsInv
  <2>3. FinalDir("cache")' = FinalDir("cache") /\ FinalDir("data")' = d /\ RootDir' = RootDir
    BY <1>1 DEF FinalDir, Mounts!FinalRootfs, RootDir
  <2>4. Own' = Append(Own, d)
    <3> DEFINE e == FinalDir("cache")
    <3>1. CASE overlay
      <4>1. Own = <<RootDir, <<"combined">>, e>> /\ Own' = <<RootDir, <<"combined">>, e, d>>
        BY <1>1, <2>1, <2>3, <3>1 DEF Own
      <4> HIDE DEF d, e
      <4> QED BY <4>1
    <3>2. CASE ~overlay
      <4>1. Own = <<RootDir, e>> /\ Own' = <<RootDir, e, d>>
        BY <1>1, <2>1, <2>3, <3>2 DEF Own
      <4> HIDE DEF d, e
      <4> QED BY <4>1
    <3> QED BY <3>1, <3>2
  <2> HIDE DEF d
  <2>5. mounts' = Mounts!Reversed(Own') /\ loops' \in Int /\ d \in Mounts!Dirs
    BY <1>1, <1>3, <2>1, <2>2, <2>4 DEF d, Mounts!Reversed
  <2> QED BY <1>1, <1>2, <2>1, <2>4, <2>5, AppendKeeps, Zenon DEF MountsInv
<1> QED BY <1>4, <1>5, <1>6, <1>7

\* A process that has nothing mounted.
LEMMA NothingMounted ==
  ASSUME pc' \in {"start", "mountRootfs", "failed", "stopped"}, overlay' \in BOOLEAN,
         mounts' = <<>>, HostTable' \in Table,
         ~killed' /\ busy' = {} => Len(kernel') = 0 /\ loops' = 0
  PROVE  MountsInv'
<1>1. Own' = <<>> /\ Len(<<>>) = 0
  BY DEF Own
<1>2. kernel' \in Seq(Entry) /\ Len(kernel') \in Nat
  BY DEF HostTable, Table
<1>3. Len(kernel') = 0 => kernel' = <<>> /\ \A i \in 2..Len(kernel') : FALSE
  BY <1>2
<1> QED BY <1>1, <1>2, <1>3 DEF MountsInv

\* The other steps of the mounts: the process has nothing mounted after them.
LEMMA UnmountingKeeps ==
  ASSUME MountsInv,
         \/ Mounts!Begin \/ Mounts!MountRootfsFails \/ Mounts!MountFails \/ Mounts!Stop
         \/ Mounts!Kill \/ Mounts!Restart
  PROVE  MountsInv'
<1>1. overlay \in BOOLEAN /\ HostTable \in Table /\ Len(<<>>) = 0
  BY DEF MountsInv
<1>2. CASE Mounts!Begin \/ Mounts!MountRootfsFails \/ Mounts!Restart
  <2>1. /\ pc \in {"start", "mountRootfs", "failed", "stopped"}
        /\ pc' \in {"start", "mountRootfs", "failed", "stopped"} /\ overlay' \in BOOLEAN
        /\ UNCHANGED <<mounts, kernel, loops, busy, killed>>
    BY <1>1, <1>2 DEF Mounts!Begin, Mounts!MountRootfsFails, Mounts!Restart
  <2>2. Own = <<>> /\ mounts = <<>> /\ HostTable' = HostTable
    BY <2>1 DEF Own, MountsInv, HostTable
  <2>3. ~killed /\ busy = {} => Len(kernel) = 0 /\ loops = 0
    BY <1>1, <2>2 DEF MountsInv
  <2> QED BY <1>1, <2>1, <2>2, <2>3, NothingMounted
<1>3. CASE Mounts!Kill
  <2>1. /\ pc' = "failed" /\ mounts' = <<>> /\ killed' = TRUE
        /\ UNCHANGED <<overlay, kernel, loops, busy>>
    BY <1>3 DEF Mounts!Kill
  <2>2. HostTable' = HostTable
    BY <2>1 DEF HostTable
  <2> QED BY <1>1, <2>1, <2>2, NothingMounted
<1>4. CASE Mounts!MountFails
  <2>1. /\ pc \in {"mountOverlay", "mountCache", "mountData"} /\ pc' = "failed"
        /\ Mounts!DestroyMounts /\ overlay' = overlay /\ killed' = killed
    BY <1>4 DEF Mounts!MountFails
  <2> DEFINE r == Mounts!Destroyed(mounts)
  <2>2. /\ r \in Table /\ busy \subseteq r.busy
        /\ ~killed /\ r.busy = {} => Len(r.kernel) = 0 /\ r.loops = 0
    BY <2>1, FailureTakesAllOrIsRefused
  <2>3. HostTable' = r /\ mounts' = <<>>
    BY <2>1, <2>2, TableAfterDestroy
  <2> HIDE DEF r
  <2>4. kernel' = r.kernel /\ busy' = r.busy /\ loops' = r.loops
    BY <2>3 DEF HostTable
  <2> QED BY <1>1, <2>1, <2>2, <2>3, <2>4, NothingMounted
<1>5. CASE Mounts!Stop
  <2>1. /\ pc = "ready" /\ pc' = "stopped" /\ Mounts!DestroyMounts
        /\ overlay' = overlay /\ killed' = killed
    BY <1>5 DEF Mounts!Stop
  <2> DEFINE r == Mounts!Destroyed(mounts)
             n == Len(kernel) - Len(Own)
  <2>2. /\ n \in Nat /\ r \in Table /\ Unwound(HostTable, r, n)
        /\ (\A i \in 2..Len(kernel) : kernel[i].fsname # "loop") /\ n = 0 =>
             r.loops = IF kernel[1].fsname = "loop" THEN loops - 1 ELSE loops
    BY <2>1, DestroyTakesOwn
  <2>3. HostTable' = r /\ mounts' = <<>>
    BY <2>1, <2>2, TableAfterDestroy
  <2> HIDE DEF r
  <2>4. kernel' = r.kernel /\ busy' = r.busy /\ loops' = r.loops
    BY <2>3 DEF HostTable
  <2>5. r.busy = busy /\ Len(r.kernel) = n
    BY <2>2 DEF Unwound, HostTable
  <2>6. ASSUME ~killed, busy = {} PROVE n = 0 /\ r.loops = 0
    <3>1. /\ Len(kernel) = Len(Own)
          /\ loops = IF kernel # <<>> /\ kernel[1].fsname = "loop" THEN 1 ELSE 0
          /\ \A i \in 2..Len(kernel) : kernel[i].fsname # "loop"
      BY <2>6 DEF MountsInv
    <3>2. kernel # <<>>
      <4>1. Own # <<>> /\ Own \in Seq(Mounts!Dirs)
        BY <1>1, <2>1, OwnType DEF Own
      <4>2. Len(Own) # 0
        BY <4>1
      <4> QED BY <1>1, <3>1, <4>2
    <3>3. n = 0
      BY <2>2, <3>1
    <3> QED BY <2>2, <3>1, <3>2, <3>3
  <2> HIDE DEF n
  <2> QED BY <1>1, <2>1, <2>2, <2>3, <2>4, <2>5, <2>6, NothingMounted
<1> QED BY <1>2, <1>3, <1>4, <1>5

(***************************************************************************)
(* The process.                                                            *)
(***************************************************************************)
\* The process has not been started.
LEMMA DaemonInitInv == DaemonInit => DaemonInv
BY InitService, InitMounts, Zenon DEF DaemonInit, DaemonInv, Init

\* A step of the mounts alone; it kills the process at most, which is not serving.
LEMMA SetUpKeeps == DaemonInv /\ SetUp => DaemonInv'
<1> SUFFICES ASSUME DaemonInv, SetUp PROVE DaemonInv'
  OBVIOUS
<1>1. UNCHANGED <<up, client, backlog, conns, obj, world>>
  BY DEF SetUp, serviceVars, sessionVars
<1>2. killed' = killed \/ killed' = TRUE
  BY DEF SetUp, Mounts!Begin, Mounts!MountRootfs, Mounts!MountRootfsFails, Mounts!MountOverlay,
         Mounts!MountCache, Mounts!MountData, Mounts!MountFails, Mounts!Restart, Mounts!Kill
<1>3. ~up
  BY DEF SetUp, DaemonInv, Mounts!Begin, Mounts!MountRootfs, Mounts!MountRootfsFails,
         Mounts!MountOverlay, Mounts!MountCache, Mounts!MountData, Mounts!MountFails, Mounts!Restart
<1>4. MountsInv'
  BY MountingKeeps, UnmountingKeeps DEF SetUp, DaemonInv
<1>5. ServiceInv'
  BY <1>1, <1>2, Zenon DEF DaemonInv, ServiceInv, Fresh, Tracked, Owned
<1> QED BY <1>1, <1>3, <1>4, <1>5 DEF DaemonInv

\* The mounts are not touched.
LEMMA MountsUnchanged == MountsInv /\ UNCHANGED mountVars /\ killed' = killed => MountsInv'
<1> SUFFICES ASSUME MountsInv, UNCHANGED mountVars, killed' = killed PROVE MountsInv'
  OBVIOUS
<1>1. UNCHANGED <<pc, overlay, mounts, kernel, loops, busy>>
  BY DEF mountVars
<1>2. Own' = Own /\ HostTable' = HostTable
  BY <1>1 DEF Own, HostTable, RootDir, FinalDir, Mounts!FinalRootfs
<1> QED BY <1>1, <1>2, Zenon DEF MountsInv

\* A handler, which the process may not survive.
LEMMA HandlingKeeps ==
  ASSUME DaemonInv, NEW s \in Sessions, DaemonAccepts(s) \/ DaemonHandles(s) \/ DaemonReleases(s)
  PROVE  DaemonInv'
<1>1. Accept(s) \/ Handle(s) \/ ReadFails(s)
  BY DEF DaemonAccepts, DaemonHandles, DaemonReleases, Handling
<1>2. ServiceInv'
  BY <1>1, AcceptKeeps, HandleKeeps, ReadFailsKeeps DEF DaemonInv
<1>3. IF up' THEN UNCHANGED mountVars ELSE Mounts!Kill
  BY DEF DaemonAccepts, DaemonHandles, DaemonReleases, Handling
<1>4. CASE up'
  <2>1. up /\ killed' = killed
    BY <1>1, <1>4, Zenon DEF Accept, Handle, ReadFails, Down, managerVars
  <2>2. UNCHANGED mountVars /\ pc' = pc
    BY <1>3, <1>4 DEF mountVars
  <2> QED BY <1>2, <2>1, <2>2, MountsUnchanged DEF DaemonInv
<1>5. CASE ~up'
  BY <1>2, <1>3, <1>5, UnmountingKeeps DEF DaemonInv
<1> QED BY <1>4, <1>5

\* Every step of the process and of its surroundings.
LEMMA DaemonStepKeeps == DaemonInv /\ [DaemonNext]_daemonVars => DaemonInv'
<1> SUFFICES ASSUME DaemonInv, [DaemonNext]_daemonVars PROVE DaemonInv'
  OBVIOUS
<1>0. ServiceInv /\ MountsInv /\ (up => pc = "ready")
  BY DEF DaemonInv
<1>1. CASE SetUp
  BY <1>1, SetUpKeeps
<1>2. CASE Serve
  <2>1. ServiceInv' /\ killed' = killed
    BY <1>0, <1>2, StartServiceKeeps, Zenon DEF Serve, StartService
  <2> QED BY <1>0, <1>2, <2>1, MountsUnchanged DEF Serve, DaemonInv, mountVars
<1>3. CASE ServiceFails
  <2>1. /\ UNCHANGED <<up, client, backlog, conns, obj, world>> /\ ~up /\ killed' = killed
    BY <1>3 DEF ServiceFails, serviceVars, sessionVars, Mounts!Stop
  <2>2. MountsInv'
    BY <1>0, <1>3, UnmountingKeeps DEF ServiceFails
  <2>3. ServiceInv'
    BY <1>0, <2>1, Zenon DEF ServiceInv, Fresh, Tracked, Owned
  <2> QED BY <2>1, <2>2, <2>3 DEF DaemonInv
<1>4. CASE End
  <2>1. up' = FALSE
    BY <1>4 DEF End, Shutdown, Kill, Down
  <2>2. Mounts!Stop \/ Mounts!Kill
    BY <1>4, Zenon DEF End
  <2>3. ServiceInv'
    BY <1>0, <1>4, ShutdownKeeps, KillKeeps, Zenon DEF End
  <2> QED BY <1>0, <2>1, <2>2, <2>3, UnmountingKeeps DEF DaemonInv
<1>5. CASE ContainerDies /\ UNCHANGED mountVars
  <2>1. ServiceInv' /\ killed' = killed /\ up' = up /\ pc' = pc
    BY <1>0, <1>5, ContainerDiesKeeps DEF ContainerDies, managerVars, mountVars
  <2> QED BY <1>0, <1>5, <2>1, MountsUnchanged DEF DaemonInv
<1>6. ASSUME NEW s \in Sessions, Outside(s) PROVE DaemonInv'
  <2>1. ServiceInv'
    BY <1>0, <1>6, SessionStepKeeps DEF Outside
  <2>2. killed' = killed /\ up' = up /\ pc' = pc /\ UNCHANGED mountVars
    BY <1>6, Zenon DEF Outside, Connect, Leave, AcceptThrows, Request, managerVars, mountVars
  <2> QED BY <1>0, <2>1, <2>2, MountsUnchanged DEF DaemonInv
<1>7. ASSUME NEW s \in Sessions, DaemonAccepts(s) \/ DaemonHandles(s) \/ DaemonReleases(s)
      PROVE DaemonInv'
  BY <1>7, HandlingKeeps
<1>8. CASE UNCHANGED daemonVars
  <2>1. /\ UNCHANGED <<up, client, backlog, conns, obj, world, killed>> /\ UNCHANGED mountVars
        /\ pc' = pc
    BY <1>8 DEF daemonVars, serviceVars, sessionVars, mountVars
  <2>2. ServiceInv'
    BY <1>0, <2>1, Zenon DEF ServiceInv, Fresh, Tracked, Owned
  <2> QED BY <1>0, <2>1, <2>2, MountsUnchanged DEF DaemonInv
<1> QED BY <1>1, <1>2, <1>3, <1>4, <1>5, <1>6, <1>7, <1>8 DEF DaemonNext

\* What the properties say follows from the invariant.
LEMMA DaemonInvSuffices ==
  ASSUME DaemonInv
  PROVE  /\ RunningContainerIsTracked /\ NoForeignContainer
         /\ BinderNodesAreOwned /\ CleanEndLeavesNothing
<1>0. ServiceInv /\ MountsInv /\ (up => pc = "ready")
  BY DEF DaemonInv
<1>1. RunningContainerIsTracked /\ NoForeignContainer
  BY <1>0, Zenon DEF ServiceInv, Tracked, RunningContainerIsTracked, NoForeignContainer
<1>2. BinderNodesAreOwned
  <2>1. \A s \in conns : world.running /\ world.owner = s => world.node \subseteq world.nodes
    BY <1>0, Zenon DEF ServiceInv, Tracked
  <2>2. ASSUME ~killed PROVE world.nodes = UNION {obj[s].binders : s \in Sessions}
    <3>1. Owned
      BY <1>0, <2>2 DEF ServiceInv
    <3>2. \A s \in Sessions : s \notin conns => obj[s].binders = {}
      BY <1>0, InactiveType DEF ServiceInv
    <3>3. \A s \in Sessions : s \in conns => world.nodes = obj[s].binders
      BY <3>1 DEF Owned
    <3>4. CASE conns = {}
      BY <3>1, <3>2, <3>4 DEF Owned
    <3>5. CASE conns # {}
      <4>1. PICK s \in Sessions : s \in conns
        BY <1>0, <3>5 DEF ServiceInv
      <4>2. \A x : x \in world.nodes <=> \E t \in Sessions : x \in obj[t].binders
        BY <3>2, <3>3, <4>1
      <4> QED BY <4>2
    <3> QED BY <3>4, <3>5
  <2> QED BY <2>1, <2>2 DEF BinderNodesAreOwned
<1>3. CleanEndLeavesNothing
  <2> SUFFICES ASSUME ~killed, pc \in {"failed", "stopped"}
               PROVE  /\ busy = {} => kernel = <<>> /\ loops = 0
                      /\ ~world.running /\ world.nodes = {}
    BY DEF CleanEndLeavesNothing
  <2>1. ~world.running /\ world.nodes = {}
    BY <1>0, Zenon DEF ServiceInv, Owned
  <2>2. ASSUME busy = {} PROVE kernel = <<>> /\ loops = 0
    <3>1. Own = <<>> /\ Len(<<>>) = 0 /\ kernel \in Seq(Entry)
      BY <1>0 DEF Own, MountsInv, HostTable, Table
    <3>2. /\ Len(kernel) = 0
          /\ loops = IF kernel # <<>> /\ kernel[1].fsname = "loop" THEN 1 ELSE 0
      BY <1>0, <2>2, <3>1 DEF MountsInv
    <3> QED BY <3>1, <3>2
  <2> QED BY <2>1, <2>2
<1> QED BY <1>1, <1>2, <1>3

\* The invariant holds of every state of the process.
LEMMA DaemonInvariance == DaemonSpec => []DaemonInv
<1> QED BY DaemonInitInv, DaemonStepKeeps, PTL DEF DaemonSpec

\* LxcContainer's state_ and handle never lose a container that runs for the
\* connected session, however starts, stops, deaths and restarts interleave.
THEOREM RunningContainersAreTracked == DaemonSpec => []RunningContainerIsTracked
BY DaemonInvariance, DaemonInvSuffices, PTL

\* A session whose container runs is alone with it: what another session, or
\* a manager that was killed, left running has been stopped by start.
THEOREM NoContainerIsForeign == DaemonSpec => []NoForeignContainer
BY DaemonInvariance, DaemonInvSuffices, PTL

\* The node of a running container is never unlinked under it, and no node is
\* leaked by a manager that is not killed.
THEOREM NodesAreOwned == DaemonSpec => []BinderNodesAreOwned
BY DaemonInvariance, DaemonInvSuffices, PTL

\* A manager that is not killed leaves no container, no binder node, and unless the
\* kernel refused an umount no mount and no loop device.
THEOREM NothingIsLeft == DaemonSpec => []CleanEndLeavesNothing
BY DaemonInvariance, DaemonInvSuffices, PTL

\* ~ContainerManager unmounts exactly what the process mounted, with no umount
\* refused, whatever mounts other processes have left below.
THEOREM CleanStopUnmounts == DaemonSpec => StopUnmountsAll
<1>1. DaemonInv /\ Mounts!Stop => Len(kernel') = Len(kernel) - Len(mounts) /\ busy' = busy
  <2> SUFFICES ASSUME MountsInv, Mounts!Stop
               PROVE  Len(kernel') = Len(kernel) - Len(mounts) /\ busy' = busy
    BY DEF DaemonInv
  <2> DEFINE r == Mounts!Destroyed(mounts)
  <2>1. /\ Len(mounts) = Len(Own) /\ r \in Table /\ Unwound(HostTable, r, Len(kernel) - Len(Own))
    BY DestroyTakesOwn DEF Mounts!Stop
  <2>2. HostTable' = r
    BY <2>1, TableAfterDestroy DEF Mounts!Stop
  <2> HIDE DEF r
  <2>3. kernel' = r.kernel /\ busy' = r.busy
    BY <2>2 DEF HostTable
  <2> QED BY <2>1, <2>3 DEF Unwound, HostTable
<1>2. DaemonInv => [Mounts!Stop => Len(kernel') = Len(kernel) - Len(mounts) /\ busy' = busy]_(Mounts!vars)
  BY <1>1
<1> QED BY <1>2, DaemonInvariance, PTL DEF StopUnmountsAll, Mounts!StopUnmountsAll

-----------------------------------------------------------------------------
(***************************************************************************)
(* The windows of Android's tasks.                                         *)
(***************************************************************************)
BridgeType ==
  [pc : {"idle", "update", "attach", "remove", "dead"}, left : Int, collected : SUBSET Tasks,
   cur : Ids \cup {None}]
FrameType ==
  [pc : {"idle", "find", "draw", "drawing"}, left : Int, held : SUBSET Ids, todo : SUBSET Ids,
   cur : Ids \cup {None}]
Window == [task : Tasks, handle : Ids, attached : BOOLEAN]

\* The manager's map has the window of each task.
MapInv ==
  /\ windows \in [Tasks -> Ids \cup {None}]
  /\ \A t \in Tasks : windows[t] # None => windows[t] \in live /\ made[windows[t]].task = t

\* The display server gives no handle to two windows.
HandlesInv == \A v, w \in live : made[v].handle = made[w].handle => v = w

\* A surface belongs to an attached window that its task still has.
NativeInv ==
  /\ native \in [Ids -> Ids \cup {None}]
  /\ \A h \in Ids : native[h] # None =>
       /\ native[h] \in live /\ made[native[h]].handle = h /\ made[native[h]].attached = TRUE
       /\ windows[made[native[h]].task] = native[h]

\* The window being attached is in no map yet.
BridgeInv ==
  bridge.pc = "attach" => bridge.cur \in live /\ windows[made[bridge.cur].task] = None

\* submit_layers holds references to what it draws; m_lock is held while it does.
FrameInv ==
  /\ frame.held \subseteq live /\ frame.todo \subseteq frame.held
  /\ frame.pc = "drawing" => lock = TRUE /\ frame.cur \in live
                             /\ native[made[frame.cur].handle] = frame.cur

WindowInv ==
  /\ made \in Seq(Window) /\ Len(made) <= MaxWindows /\ live \subseteq 1 .. Len(made)
  /\ bridge \in BridgeType
  /\ frame \in FrameType
  /\ input \in [pc : {"idle", "call", "close"}, win : Ids \cup {None}]
  /\ lock \in BOOLEAN
  /\ MapInv /\ HandlesInv /\ NativeInv /\ BridgeInv /\ FrameInv

\* A window that is alive was created.
LEMMA LiveIsMade ==
  ASSUME WindowInv, NEW w \in live
  PROVE  /\ made[w] \in Window /\ w \in 1 .. Len(made) /\ w \in Ids
         /\ made[w].handle \in Ids /\ made[w].task \in Tasks
<1>1. w \in 1 .. Len(made) /\ made \in Seq(Window) /\ Len(made) <= MaxWindows
  BY DEF WindowInv
<1>2. made[w] \in Window
  BY <1>1
<1>3. w \in Ids
  BY <1>1, WindowsAssumption DEF Ids
<1> QED BY <1>1, <1>2, <1>3 DEF Window

\* A set of natural numbers that is not empty has a least element.
LEMMA LeastElement ==
  ASSUME NEW S \in SUBSET Nat, S # {}
  PROVE  \E n \in S : \A m \in S : n <= m
<1> DEFINE R == OpToRel(<, Nat)
<1>1. PICK n \in S : \A m \in S : ~(<<m, n>> \in R)
  BY NatLessThanWellFounded, WFMin, Zenon
<1>2. \A m \in S : m < n => <<m, n>> \in R
  BY DEF OpToRel
<1>3. \A m \in S : ~(m < n)
  BY <1>1, <1>2, Zenon
<1> QED BY <1>3

\* As long as fewer windows were created than there are handles, one is free.
LEMMA FreeHandleIsFree ==
  ASSUME WindowInv, Len(made) < MaxWindows
  PROVE  FreeHandle \in Ids /\ \A w \in live : made[w].handle # FreeHandle
<1> DEFINE f == [w \in live |-> made[w].handle]
           used == {made[w].handle : w \in live}
           free == Ids \ used
           n == Len(made)
<1>1. n \in Nat /\ MaxWindows \in Nat /\ live \subseteq 1 .. n /\ n < MaxWindows
  BY WindowsAssumption DEF WindowInv
<1>2. \A w \in live : made[w].handle \in Ids
  BY LiveIsMade
<1>3. IsFiniteSet(live) /\ Cardinality(live) <= n
  <2>1. IsFiniteSet(1 .. n) /\ Cardinality(1 .. n) = n
    <3>1. 1 \in Int /\ n \in Int
      BY <1>1
    <3> HIDE DEF n
    <3>2. IsFiniteSet(1 .. n) /\ Cardinality(1 .. n) = IF 1 > n THEN 0 ELSE n - 1 + 1
      BY <3>1, FS_Interval
    <3> QED BY <1>1, <3>2
  <2>2. live \in SUBSET (1 .. n)
    BY <1>1
  <2> HIDE DEF n
  <2>3. IsFiniteSet(live) /\ Cardinality(live) <= Cardinality(1 .. n)
    BY <2>1, <2>2, FS_Subset, Zenon
  <2> QED BY <2>1, <2>3
<1>4. IsFiniteSet(used) /\ Cardinality(used) <= Cardinality(live)
  <2>1. f \in Surjection(live, used)
    BY DEF Surjection
  <2> HIDE DEF f, used
  <2> QED BY <1>3, <2>1, FS_Surjection
<1>5. IsFiniteSet(Ids) /\ Cardinality(Ids) = MaxWindows
  BY <1>1, FS_Interval DEF Ids
<1>6. free # {}
  <2> SUFFICES ASSUME used = Ids PROVE FALSE
    BY <1>2
  <2>1. Cardinality(Ids) <= Cardinality(live)
    BY <1>4, Zenon
  <2>2. Cardinality(live) \in Nat
    BY <1>3, FS_CardinalityType
  <2> HIDE DEF n
  <2> QED BY <1>1, <1>3, <1>5, <2>1, <2>2
<1>7. free \in SUBSET Nat
  BY DEF Ids
<1>8. PICK h \in free : \A g \in free : h <= g
  <2> HIDE DEF free
  <2> QED BY <1>6, <1>7, LeastElement
<1>9. ASSUME NEW g \in Ids, g < h PROVE \E w \in live : made[w].handle = g
  <2>1. g \notin free
    BY <1>7, <1>8, <1>9 DEF Ids
  <2> QED BY <2>1
<1>10. h \in Ids /\ \A w \in live : made[w].handle # h
  BY <1>8
<1>11. \E k \in Ids : /\ \A w \in live : made[w].handle # k
                      /\ \A g \in Ids : g < k => \E w \in live : made[w].handle = g
  BY <1>9, <1>10
<1> QED BY <1>11 DEF FreeHandle

\* What is referenced survives.
LEMMA SurviveKeeps ==
  ASSUME NEW wins, NEW b, NEW f, NEW i, Survive(wins, b, f, i), live \subseteq Ids
  PROVE  /\ live' \subseteq live
         /\ \A t \in Tasks : wins[t] \in live => wins[t] \in live'
         /\ b.cur \in live => b.cur \in live'
         /\ \A w \in live : w \in f.held => w \in live'
BY DEF Survive, Referenced

\* The bridge thread between two messages.
LEMMA IdleBridge ==
  ASSUME NEW c \in Ids \cup {None}
  PROVE  [pc |-> "idle", left |-> 0, collected |-> {}, cur |-> c] \in BridgeType
<1>1. 0 \in Int
  OBVIOUS
<1> QED BY <1>1, Zenon DEF BridgeType

\* At the beginning there is no window.
LEMMA InitWindow == WindowInit => WindowInv
<1> SUFFICES ASSUME WindowInit PROVE WindowInv
  OBVIOUS
<1>1. made = <<>> /\ live = {} /\ lock = FALSE
  BY Zenon DEF WindowInit
<1>2. bridge \in BridgeType /\ bridge.pc = "idle"
  <2>1. bridge = [pc |-> "idle", left |-> 0, collected |-> {}, cur |-> None]
    BY Zenon DEF WindowInit
  <2>2. bridge \in BridgeType
    BY <2>1, IdleBridge, Zenon
  <2> QED BY <2>1, <2>2, Zenon
<1>3. frame \in FrameType /\ frame.pc = "idle" /\ frame.held = {} /\ frame.todo = {}
  <2>1. frame = [pc |-> "idle", left |-> 0, held |-> {}, todo |-> {}, cur |-> None]
    BY Zenon DEF WindowInit
  <2>2. 0 \in Int
    OBVIOUS
  <2>3. frame \in FrameType
    BY <2>1, <2>2, Zenon DEF FrameType
  <2> QED BY <2>1, <2>3, Zenon
<1>4. input \in [pc : {"idle", "call", "close"}, win : Ids \cup {None}]
  <2>1. input = [pc |-> "idle", win |-> None]
    BY Zenon DEF WindowInit
  <2> QED BY <2>1
<1>5. MapInv /\ NativeInv
  BY Zenon DEF WindowInit, MapInv, NativeInv
<1>6. made \in Seq(Window) /\ Len(made) = 0
  BY <1>1
<1>7. Len(made) <= MaxWindows /\ live \subseteq 1 .. Len(made)
  BY <1>1, <1>6, WindowsAssumption
<1>8. HandlesInv /\ BridgeInv /\ FrameInv
  BY <1>1, <1>2, <1>3 DEF HandlesInv, BridgeInv, FrameInv
<1>9. lock \in BOOLEAN
  BY <1>1, Zenon
<1> QED BY <1>2, <1>3, <1>4, <1>5, <1>6, <1>7, <1>8, <1>9 DEF WindowInv

\* Handlers and loops that leave the windows and the renderer's surfaces alone.
LEMMA ScanKeeps ==
  ASSUME WindowInv, \/ Update \/ CreateWindowThrows \/ Updated \/ Applied
               \/ \E t \in Tasks : Collect(t)
  PROVE  WindowInv'
<1>1. UNCHANGED <<windows, made, live, native, lock, frame, input>>
  BY Zenon DEF Update, CreateWindowThrows, Updated, Applied, Collect
<1>2. /\ bridge' \in BridgeType
      /\ bridge'.pc # "attach"
  <2>0. bridge \in BridgeType /\ MaxList \in Int
    BY WindowsAssumption DEF WindowInv
  <2>1. CASE Update
    BY <2>0, <2>1 DEF Update, BridgeType
  <2>2. CASE CreateWindowThrows
    BY <2>0, <2>2, Zenon DEF CreateWindowThrows, BridgeType
  <2>3. CASE Updated
    BY <2>0, <2>3, Zenon DEF Updated, BridgeType
  <2>4. CASE Applied
    <3>1. bridge' = [pc |-> "idle", left |-> 0, collected |-> {}, cur |-> bridge.cur]
      BY <2>0, <2>4, Zenon DEF Applied, BridgeType
    <3>2. bridge.cur \in Ids \cup {None}
      BY <2>0, Zenon DEF BridgeType
    <3>3. bridge' \in BridgeType
      BY <3>1, <3>2, IdleBridge, Zenon
    <3> QED BY <3>1, <3>3, Zenon
  <2>5. ASSUME NEW t \in Tasks, Collect(t)
        PROVE  bridge' \in BridgeType /\ bridge'.pc # "attach"
    <3>1. bridge' = [pc |-> "update", left |-> bridge.left - 1,
                     collected |-> bridge.collected \cup {t}, cur |-> bridge.cur]
      BY <2>0, <2>5, Zenon DEF Collect, BridgeType
    <3>2. bridge.left - 1 \in Int /\ bridge.collected \cup {t} \in SUBSET Tasks
      BY <2>0 DEF BridgeType
    <3> QED BY <2>0, <3>1, <3>2 DEF BridgeType
  <2> QED BY <2>1, <2>2, <2>3, <2>4, <2>5
<1> QED BY <1>1, <1>2, Zenon DEF WindowInv, MapInv, HandlesInv, NativeInv, BridgeInv, FrameInv

\* The composer's steps up to the end of the frame: what it finds is alive, and what
\* it begins to draw has its own surface, as handles are unique.
LEMMA ComposeKeeps ==
  ASSUME WindowInv, \/ PostLayers \/ Composed \/ DrawEnd \/ (\E t \in Tasks : FindWindow(t))
               \/ \E w \in Ids : DrawBegin(w)
  PROVE  WindowInv'
<1>1. UNCHANGED <<windows, made, live, native, bridge, input>>
  BY Zenon DEF PostLayers, Composed, DrawEnd, FindWindow, DrawBegin
<1>2. live \subseteq Ids
  BY WindowsAssumption DEF WindowInv, Ids
<1>3. ASSUME frame' \in FrameType,
             lock' \in BOOLEAN, FrameInv'
      PROVE  WindowInv'
  BY <1>1, <1>3, Zenon DEF WindowInv, MapInv, HandlesInv, NativeInv, BridgeInv
<1>4. CASE PostLayers \/ Composed \/ DrawEnd
  <2>1. /\ frame' \in FrameType
        /\ frame'.held = frame.held /\ frame'.todo \subseteq frame.held
        /\ frame'.pc # "drawing" /\ lock' \in BOOLEAN
    <3>0. frame \in FrameType /\ MaxList \in Int /\ frame.todo \subseteq frame.held /\ lock \in BOOLEAN
      BY WindowsAssumption DEF WindowInv, FrameInv
    <3>1. CASE PostLayers
      BY <3>0, <3>1, Zenon DEF PostLayers, FrameType
    <3>2. CASE Composed
      <4>1. frame' = [pc |-> "draw", left |-> 0, held |-> frame.held, todo |-> frame.held,
                      cur |-> frame.cur]
        BY <3>0, <3>2, Zenon DEF Composed, FrameType
      <4> QED BY <3>0, <3>2, <4>1 DEF Composed, FrameType
    <3>3. CASE DrawEnd
      BY <3>0, <3>3, Zenon DEF DrawEnd, FrameType
    <3> QED BY <1>4, <3>1, <3>2, <3>3
  <2> QED BY <1>1, <1>3, <2>1, Zenon DEF WindowInv, FrameInv
<1>5. ASSUME NEW t \in Tasks, FindWindow(t) PROVE WindowInv'
  <2>1. /\ lock' = lock /\ frame.pc = "find"
        /\ frame' = [frame EXCEPT !.left = @ - 1,
                            !.held = IF windows[t] = None THEN @ ELSE @ \cup {windows[t]}]
    BY <1>5, Zenon DEF FindWindow
  <2>2. windows[t] # None => windows[t] \in live
    BY DEF WindowInv, MapInv
  <2>3. /\ frame' \in FrameType
        /\ frame'.held \subseteq live /\ frame'.todo \subseteq frame'.held
        /\ frame'.pc # "drawing"
    <3>0. frame \in FrameType /\ frame.todo \subseteq frame.held /\ frame.held \subseteq live
      BY Zenon DEF WindowInv, FrameInv
    <3> DEFINE h == IF windows[t] = None THEN frame.held ELSE frame.held \cup {windows[t]}
    <3>1. frame' = [pc |-> "find", left |-> frame.left - 1, held |-> h, todo |-> frame.todo,
                    cur |-> frame.cur]
      BY <2>1, <3>0, Zenon DEF FrameType
    <3>2. h \subseteq live /\ h \in SUBSET Ids /\ frame.todo \subseteq h /\ frame.left - 1 \in Int
      BY <1>2, <2>2, <3>0 DEF FrameType
    <3> HIDE DEF h
    <3> QED BY <3>0, <3>1, <3>2 DEF FrameType
  <2> QED BY <1>1, <1>3, <2>1, <2>3, Zenon DEF WindowInv, FrameInv
<1>6. ASSUME NEW w \in Ids, DrawBegin(w) PROVE WindowInv'
  <2>1. w \in frame.todo /\ w \in live /\ ~lock /\ frame.pc = "draw"
    BY <1>6, Zenon DEF DrawBegin, WindowInv, FrameInv
  <2>2. CASE frame' = [frame EXCEPT !.todo = @ \ {w}] /\ UNCHANGED lock
    <3>1. /\ frame' \in FrameType
          /\ frame'.held = frame.held /\ frame'.todo \subseteq frame.held /\ frame'.pc = "draw"
      BY <2>1, <2>2 DEF WindowInv, FrameInv, FrameType
    <3> QED BY <1>1, <1>3, <2>2, <3>1, Zenon DEF WindowInv, FrameInv
  <2>3. CASE /\ native[made[w].handle] # None
             /\ frame' = [frame EXCEPT !.pc = "drawing", !.todo = @ \ {w}, !.cur = w]
             /\ lock' = TRUE
    <3>1. /\ frame' \in FrameType
          /\ frame'.held = frame.held /\ frame'.todo \subseteq frame.held /\ frame'.cur = w
      BY <2>1, <2>3, Zenon DEF WindowInv, FrameInv, FrameType
    <3>2. made[w].handle \in Ids
      BY <2>1, LiveIsMade
    <3>3. native[made[w].handle] = w
      BY <2>1, <2>3, <3>2 DEF WindowInv, NativeInv, HandlesInv
    <3> QED BY <1>1, <1>3, <2>1, <2>3, <3>1, <3>3 DEF WindowInv, FrameInv
  <2> QED BY <1>6, <2>2, <2>3, Zenon DEF DrawBegin
<1> QED BY <1>4, <1>5, <1>6

\* A window is created with a handle no living window has.
LEMMA CreateWindowKeeps ==
  ASSUME WindowInv, NEW t \in Tasks, CreateWindow(t)
  PROVE  WindowInv'
<1> DEFINE n == Len(made)
           w == n + 1
           m == [task |-> t, handle |-> FreeHandle, attached |-> FALSE]
<1>1. /\ bridge.pc = "update" /\ windows[t] = None /\ n < MaxWindows
      /\ made' = Append(made, m) /\ live' = live \cup {w}
      /\ bridge' = [bridge EXCEPT !.pc = "attach", !.cur = w, !.left = @ - 1]
      /\ UNCHANGED <<windows, native, lock, frame, input>>
  BY DEF CreateWindow
<1>2. FreeHandle \in Ids /\ \A v \in live : made[v].handle # FreeHandle
  BY <1>1, FreeHandleIsFree
<1>3. m \in Window /\ m.handle = FreeHandle /\ m.task = t
  BY <1>2 DEF Window
<1>4. made \in Seq(Window) /\ n \in Nat /\ MaxWindows \in Nat /\ live \subseteq 1 .. n
  BY WindowsAssumption DEF WindowInv
<1>5. bridge \in BridgeType /\ windows \in [Tasks -> Ids \cup {None}]
  BY DEF WindowInv, MapInv
<1> HIDE DEF m
<1>6. /\ made' \in Seq(Window) /\ Len(made') = w /\ made'[w] = m
      /\ \A v \in live : made'[v] = made[v]
  BY <1>1, <1>3, <1>4
<1>7. w \notin live /\ w \in Ids /\ live' \subseteq 1 .. Len(made') /\ Len(made') <= MaxWindows
  BY <1>1, <1>4, <1>6 DEF Ids
<1> HIDE DEF w, n
<1>8. bridge' \in BridgeType /\ bridge'.pc = "attach" /\ bridge'.cur = w
  <2>1. bridge' = [pc |-> "attach", left |-> bridge.left - 1, collected |-> bridge.collected, cur |-> w]
    BY <1>1, <1>5, Zenon DEF BridgeType
  <2>2. bridge.left - 1 \in Int
    BY <1>5 DEF BridgeType
  <2> QED BY <1>5, <1>7, <2>1, <2>2 DEF BridgeType
<1>9. MapInv'
  BY <1>1, <1>6 DEF WindowInv, MapInv
<1>10. HandlesInv'
  BY <1>1, <1>2, <1>3, <1>6 DEF WindowInv, HandlesInv
<1>11. NativeInv'
  BY <1>1, <1>6 DEF WindowInv, NativeInv
<1>12. BridgeInv'
  BY <1>1, <1>3, <1>6, <1>8 DEF BridgeInv
<1>13. FrameInv'
  BY <1>1, <1>6 DEF WindowInv, FrameInv
<1> QED BY <1>1, <1>6, <1>7, <1>8, <1>9, <1>10, <1>11, <1>12, <1>13 DEF WindowInv

\* What replacing an entry of a sequence does.
Replaced(u, s, i, x, S) ==
  /\ u \in Seq(S) /\ Len(u) = Len(s) /\ u[i] = x
  /\ \A v \in 1 .. Len(s) : v # i => u[v] = s[v]

\* An entry is replaced by one of the same set.
LEMMA EntryReplaced ==
  ASSUME NEW S, NEW s \in Seq(S), NEW i \in 1 .. Len(s), NEW x \in S
  PROVE  Replaced([s EXCEPT ![i] = x], s, i, x, S)
BY DEF Replaced

\* The window gets its surface, if that can be created, and its place in the map.
LEMMA AttachKeeps ==
  ASSUME WindowInv, Attach
  PROVE  WindowInv'
<1> DEFINE w == bridge.cur
           h == made[w].handle
           t == made[w].task
<1>1. /\ bridge.pc = "attach" /\ ~lock /\ UNCHANGED <<live, lock, frame, input>>
      /\ windows' = [windows EXCEPT ![t] = w]
      /\ bridge' = [bridge EXCEPT !.pc = "update", !.cur = None]
      /\ \/ /\ native' = [native EXCEPT ![h] = IF @ = None THEN w ELSE @]
            /\ made' = [made EXCEPT ![w].attached = TRUE]
         \/ UNCHANGED <<native, made>>
  BY DEF Attach
<1>2. w \in live /\ windows[t] = None
  BY <1>1 DEF WindowInv, BridgeInv
<1>3. h \in Ids /\ t \in Tasks /\ w \in Ids /\ made[w] \in Window /\ w \in 1 .. Len(made)
  BY <1>2, LiveIsMade, Zenon
<1>4. /\ windows \in [Tasks -> Ids \cup {None}] /\ native \in [Ids -> Ids \cup {None}]
      /\ bridge \in BridgeType /\ made \in Seq(Window) /\ None \notin Ids
  BY WindowsAssumption, Zenon DEF WindowInv, MapInv, NativeInv
<1>5. native[h] = None
  BY <1>2, <1>3, Zenon DEF WindowInv, NativeInv, HandlesInv
<1>6. /\ made' \in Seq(Window) /\ Len(made') = Len(made)
      /\ \A v \in live : made'[v].handle = made[v].handle /\ made'[v].task = made[v].task
      /\ \A v \in live : made[v].attached = TRUE => made'[v].attached = TRUE
      /\ native' # native => made'[w].attached = TRUE
  <2>1. CASE UNCHANGED <<native, made>>
    BY <1>4, <2>1
  <2>2. CASE made' = [made EXCEPT ![w].attached = TRUE]
    <3> DEFINE x == [made[w] EXCEPT !.attached = TRUE]
    <3>1. /\ x \in Window /\ x.handle = made[w].handle /\ x.task = made[w].task
          /\ x.attached = TRUE
      BY <1>3, Zenon DEF Window
    <3>2. made' = [made EXCEPT ![w] = x]
      BY <2>2
    <3> HIDE DEF x
    <3>3. /\ made' \in Seq(Window) /\ Len(made') = Len(made) /\ made'[w] = x
          /\ \A v \in 1 .. Len(made) : v # w => made'[v] = made[v]
      <4>1. Replaced(made', made, w, x, Window)
        BY <1>3, <1>4, <3>1, <3>2, EntryReplaced, Zenon
      <4> QED BY <4>1, Zenon DEF Replaced
    <3>4. live \subseteq 1 .. Len(made)
      BY DEF WindowInv
    <3> QED BY <3>1, <3>3, <3>4, Zenon
  <2> QED BY <1>1, <2>1, <2>2, Zenon
<1>7. /\ native' \in [Ids -> Ids \cup {None}]
      /\ \A g \in Ids : native'[g] = native[g] \/ (g = h /\ native'[g] = w /\ native' # native)
  <2>1. CASE UNCHANGED native
    BY <1>4, <2>1
  <2>2. CASE native' = [native EXCEPT ![h] = IF @ = None THEN w ELSE @]
    <3>1. native' = [native EXCEPT ![h] = w]
      BY <1>5, <2>2, Zenon
    <3> HIDE DEF h, w
    <3>2. native'[h] # native[h]
      BY <1>3, <1>4, <1>5, <3>1
    <3> QED BY <1>3, <1>4, <3>1, <3>2
  <2> QED BY <1>1, <2>1, <2>2
<1> HIDE DEF w, h, t
<1>8. /\ windows' \in [Tasks -> Ids \cup {None}] /\ windows'[t] = w
      /\ \A u \in Tasks : u # t => windows'[u] = windows[u]
  BY <1>1, <1>3, <1>4
<1>9. MapInv'
  BY <1>1, <1>2, <1>3, <1>6, <1>8 DEF WindowInv, MapInv, t
<1>10. HandlesInv'
  BY <1>1, <1>6 DEF WindowInv, HandlesInv
<1>11. NativeInv'
  <2> SUFFICES ASSUME NEW g \in Ids, native'[g] # None
               PROVE  /\ native'[g] \in live' /\ made'[native'[g]].handle = g
                      /\ made'[native'[g]].attached = TRUE
                      /\ windows'[made'[native'[g]].task] = native'[g]
    BY <1>7, Zenon DEF NativeInv
  <2>1. CASE g = h /\ native'[g] = w /\ native' # native
    BY <1>1, <1>2, <1>6, <1>8, <2>1 DEF h, t
  <2>2. CASE native'[g] = native[g]
    <3> DEFINE v == native[g]
    <3>1. /\ v \in live /\ made[v].handle = g /\ made[v].attached = TRUE
          /\ windows[made[v].task] = v
      BY <2>2, Zenon DEF WindowInv, NativeInv
    <3> HIDE DEF v
    <3>2. made[v].task \in Tasks /\ v # None
      BY <1>4, <3>1, LiveIsMade, Zenon
    <3>3. made[v].task # t
      BY <1>2, <3>1, <3>2, Zenon DEF t
    <3> QED BY <1>1, <1>6, <1>8, <2>2, <3>1, <3>2, <3>3 DEF v
  <2> QED BY <1>7, <2>1, <2>2, Zenon
<1>12. FrameInv'
  <2>1. frame.pc # "drawing"
    BY <1>1 DEF WindowInv, FrameInv
  <2> QED BY <1>1, <2>1 DEF WindowInv, FrameInv
<1>13. bridge' \in BridgeType /\ bridge'.pc = "update"
  <2>1. bridge' = [pc |-> "update", left |-> bridge.left, collected |-> bridge.collected, cur |-> None]
    BY <1>1, <1>4, Zenon DEF BridgeType
  <2> QED BY <1>4, <2>1 DEF BridgeType
<1>14. BridgeInv'
  BY <1>13 DEF BridgeInv
<1> QED BY <1>1, <1>6, <1>9, <1>10, <1>11, <1>12, <1>13, <1>14 DEF WindowInv

\* Windows that are still in a map, being attached or drawn survive; the others may go.
LEMMA SurvivorsKeep ==
  ASSUME WindowInv, UNCHANGED <<made, native, windows, lock>>, live' \subseteq live,
         \A t \in Tasks : windows[t] \in live => windows[t] \in live',
         bridge'.pc = "attach" => bridge.pc = "attach" /\ bridge'.cur = bridge.cur
                                  /\ bridge.cur \in live',
         bridge' \in BridgeType, frame' \in FrameType,
         input' \in [pc : {"idle", "call", "close"}, win : Ids \cup {None}],
         frame'.held \subseteq live', frame'.todo \subseteq frame'.held,
         frame'.pc = "drawing" => frame.pc = "drawing" /\ frame'.cur = frame.cur
  PROVE  WindowInv'
<1>1. MapInv'
  BY Zenon DEF WindowInv, MapInv
<1>2. HandlesInv'
  BY Zenon DEF WindowInv, HandlesInv
<1>3. ASSUME NEW h \in Ids, native[h] # None PROVE native[h] \in live'
  <2>1. /\ native[h] \in live /\ windows[made[native[h]].task] = native[h]
    BY <1>3, Zenon DEF WindowInv, NativeInv
  <2>2. made[native[h]].task \in Tasks
    BY <2>1, LiveIsMade, Zenon
  <2> QED BY <2>1, <2>2, Zenon
<1>4. NativeInv'
  BY <1>3, Zenon DEF WindowInv, NativeInv
<1>5. BridgeInv'
  BY Zenon DEF WindowInv, BridgeInv
<1>6. FrameInv'
  <2> SUFFICES ASSUME frame'.pc = "drawing"
               PROVE  lock' = TRUE /\ frame'.cur \in live'
                      /\ native'[made'[frame'.cur].handle] = frame'.cur
    BY Zenon DEF FrameInv
  <2>1. lock = TRUE /\ frame.cur \in live /\ native[made[frame.cur].handle] = frame.cur
    BY Zenon DEF WindowInv, FrameInv
  <2>2. made[frame.cur].handle \in Ids /\ frame.cur # None
    BY <2>1, LiveIsMade, WindowsAssumption, Zenon
  <2> QED BY <1>3, <2>1, <2>2, Zenon
<1> QED BY <1>1, <1>2, <1>4, <1>5, <1>6, Zenon DEF WindowInv

\* submit_layers ends, a call of the event thread ends or begins.
LEMMA ReleaseKeeps ==
  ASSUME WindowInv, \/ EndFrame \/ CallReturns \/ CallThrows
               \/ \E w \in Ids, k \in {"call", "close"} : WindowEvent(w, k)
  PROVE  WindowInv'
<1>0. /\ live \subseteq Ids /\ bridge \in BridgeType /\ frame \in FrameType
      /\ input \in [pc : {"idle", "call", "close"}, win : Ids \cup {None}]
      /\ frame.held \subseteq live /\ frame.todo \subseteq frame.held
      /\ bridge.pc = "attach" => bridge.cur \in live
  BY LiveIsMade, Zenon DEF WindowInv, FrameInv, BridgeInv
<1>1. CASE EndFrame
  <2>1. /\ frame' = [frame EXCEPT !.pc = "idle", !.held = {}] /\ frame.todo = {}
        /\ Survive(windows, bridge, frame', input)
        /\ UNCHANGED <<windows, made, native, lock, bridge, input>>
    BY <1>1 DEF EndFrame
  <2>2. /\ frame' \in FrameType /\ frame'.pc = "idle" /\ frame'.held = {} /\ frame'.todo = {}
    <3>1. frame' = [pc |-> "idle", left |-> frame.left, held |-> {}, todo |-> {}, cur |-> frame.cur]
      BY <1>0, <2>1, Zenon DEF FrameType
    <3> QED BY <1>0, <3>1, Zenon DEF FrameType
  <2>3. /\ live' \subseteq live /\ \A t \in Tasks : windows[t] \in live => windows[t] \in live'
        /\ bridge.cur \in live => bridge.cur \in live'
    BY <1>0, <2>1, SurviveKeeps
  <2> QED BY <1>0, <2>1, <2>2, <2>3, SurvivorsKeep
<1>2. CASE CallReturns
  <2>1. /\ input' = [pc |-> "idle", win |-> None] /\ Survive(windows, bridge, frame, input')
        /\ UNCHANGED <<windows, made, native, lock, bridge, frame>>
    BY <1>2, Zenon DEF CallReturns
  <2>2. /\ live' \subseteq live /\ \A t \in Tasks : windows[t] \in live => windows[t] \in live'
        /\ bridge.cur \in live => bridge.cur \in live'
        /\ \A w \in live : w \in frame.held => w \in live'
    BY <1>0, <2>1, SurviveKeeps, Zenon
  <2>3. input' \in [pc : {"idle", "call", "close"}, win : Ids \cup {None}]
    BY <2>1
  <2>4. frame'.held \subseteq live'
    BY <1>0, <2>1, <2>2, Zenon
  <2> QED BY <1>0, <2>1, <2>2, <2>3, <2>4, SurvivorsKeep, Zenon
<1>3. CASE CallThrows
  <2>1. UNCHANGED <<windows, made, native, lock, bridge, frame, live, input>>
    BY <1>3 DEF CallThrows
  <2> QED BY <2>1, Zenon DEF WindowInv, MapInv, HandlesInv, NativeInv, BridgeInv, FrameInv
<1>4. ASSUME NEW w \in Ids, NEW k \in {"call", "close"}, WindowEvent(w, k) PROVE WindowInv'
  <2>1. /\ input' = [pc |-> k, win |-> w]
        /\ UNCHANGED <<windows, made, native, lock, bridge, frame, live>>
    BY <1>4 DEF WindowEvent
  <2>2. input' \in [pc : {"idle", "call", "close"}, win : Ids \cup {None}]
    BY <2>1
  <2> QED BY <2>1, <2>2, Zenon DEF WindowInv, MapInv, HandlesInv, NativeInv, BridgeInv, FrameInv
<1> QED BY <1>1, <1>2, <1>3, <1>4

\* A window is released and dropped: its surface goes before the window can.
LEMMA RemoveKeeps ==
  ASSUME WindowInv, NEW t \in Tasks, Remove(t)
  PROVE  WindowInv'
<1> DEFINE w == windows[t]
           h == made[w].handle
           b == [bridge EXCEPT !.left = @ - 1]
<1>1. /\ bridge.pc = "remove" /\ w # None /\ UNCHANGED <<made, lock, frame, input>>
      /\ IF made[w].attached /\ native[h] # None
           THEN ~lock /\ native' = [native EXCEPT ![h] = None]
           ELSE UNCHANGED native
      /\ windows' = [windows EXCEPT ![t] = None]
      /\ bridge' = b /\ Survive(windows', b, frame, input)
  BY DEF Remove, Drop
<1>2. /\ windows \in [Tasks -> Ids \cup {None}] /\ native \in [Ids -> Ids \cup {None}]
      /\ bridge \in BridgeType /\ live \subseteq Ids /\ frame.held \subseteq live
  BY LiveIsMade, Zenon DEF WindowInv, MapInv, NativeInv, FrameInv
<1>3. w \in live /\ made[w].task = t
  BY <1>1 DEF WindowInv, MapInv
<1>4. h \in Ids
  BY <1>3, LiveIsMade
<1>5. native' = native \/ (~lock /\ native' = [native EXCEPT ![h] = None])
  BY <1>1
<1>6. native'[h] = None \/ native[h] = None
  <2>1. CASE native' = [native EXCEPT ![h] = None]
    BY <1>2, <1>4, <2>1, Zenon
  <2>2. CASE native[h] # None /\ native' = native
    BY <1>1, <1>3, <1>4, <2>2 DEF WindowInv, NativeInv, HandlesInv
  <2> QED BY <1>5, <2>1, <2>2, Zenon
<1>7. /\ live' \subseteq live
      /\ \A u \in Tasks : windows'[u] \in live => windows'[u] \in live'
      /\ \A v \in live : v \in frame.held => v \in live'
  BY <1>1, <1>2, SurviveKeeps, Zenon
<1> HIDE DEF h, w
<1>8. /\ native' \in [Ids -> Ids \cup {None}] /\ native'[h] = None
      /\ \A g \in Ids : g # h => native'[g] = native[g]
  BY <1>2, <1>4, <1>5, <1>6
<1>9. /\ windows' \in [Tasks -> Ids \cup {None}] /\ windows'[t] = None
      /\ \A u \in Tasks : u # t => windows'[u] = windows[u]
  BY <1>1, <1>2
<1>10. bridge' \in BridgeType /\ bridge'.pc = "remove"
  <2>1. bridge' = [pc |-> "remove", left |-> bridge.left - 1, collected |-> bridge.collected,
                   cur |-> bridge.cur]
    BY <1>1, <1>2 DEF BridgeType
  <2>2. bridge.left - 1 \in Int
    BY <1>2 DEF BridgeType
  <2> QED BY <1>2, <2>1, <2>2, Zenon DEF BridgeType
<1>11. MapInv'
  BY <1>1, <1>7, <1>9 DEF WindowInv, MapInv
<1>12. HandlesInv'
  BY <1>1, <1>7 DEF WindowInv, HandlesInv
<1>13. NativeInv'
  <2> SUFFICES ASSUME NEW g \in Ids, native'[g] # None
               PROVE  /\ native'[g] \in live' /\ made'[native'[g]].handle = g
                      /\ made'[native'[g]].attached = TRUE
                      /\ windows'[made'[native'[g]].task] = native'[g]
    BY <1>8, Zenon DEF NativeInv
  <2> DEFINE v == native[g]
  <2>1. native'[g] = v /\ g # h
    BY <1>8
  <2>2. /\ v \in live /\ made[v].handle = g /\ made[v].attached = TRUE
        /\ windows[made[v].task] = v
    BY <2>1, Zenon DEF WindowInv, NativeInv
  <2> HIDE DEF v
  <2>3. made[v].task \in Tasks
    BY <2>2, LiveIsMade, Zenon
  <2>4. made[v].task # t
    BY <2>1, <2>2 DEF h, w
  <2>5. windows'[made[v].task] = v
    BY <1>9, <2>2, <2>3, <2>4
  <2>6. v \in live'
    BY <1>7, <2>2, <2>3, <2>5, Zenon
  <2> QED BY <1>1, <2>1, <2>2, <2>5, <2>6
<1>14. BridgeInv'
  BY <1>10 DEF BridgeInv
<1>15. FrameInv'
  <2>1. frame'.held \subseteq live' /\ frame'.todo \subseteq frame'.held
    BY <1>1, <1>2, <1>7 DEF WindowInv, FrameInv
  <2>2. ASSUME frame.pc = "drawing"
        PROVE  lock = TRUE /\ frame.cur \in live'
               /\ native'[made[frame.cur].handle] = frame.cur
    <3>1. lock = TRUE /\ frame.cur \in live /\ native[made[frame.cur].handle] = frame.cur
      BY <2>2 DEF WindowInv, FrameInv
    <3>2. native' = native
      BY <1>5, <3>1
    <3>3. made[frame.cur].handle \in Ids /\ frame.cur # None
      BY <3>1, LiveIsMade, WindowsAssumption, Zenon
    <3> QED BY <1>13, <3>1, <3>2, <3>3, Zenon DEF NativeInv
  <2> QED BY <1>1, <2>1, <2>2, Zenon DEF FrameInv
<1>16. made' = made /\ live' \subseteq live /\ frame' = frame /\ input' = input /\ lock' = lock
  BY <1>1, <1>7
<1> QED BY <1>10, <1>11, <1>12, <1>13, <1>14, <1>15, <1>16 DEF WindowInv

\* Every step.
LEMMA NextKeepsWindow == WindowInv /\ [WindowNext]_windowVars => WindowInv'
<1> SUFFICES ASSUME WindowInv, [WindowNext]_windowVars PROVE WindowInv'
  OBVIOUS
<1>1. CASE Update \/ CreateWindowThrows \/ Updated \/ Applied \/ \E t \in Tasks : Collect(t)
  BY <1>1, ScanKeeps
<1>2. CASE \/ PostLayers \/ Composed \/ DrawEnd \/ (\E t \in Tasks : FindWindow(t))
           \/ \E w \in Ids : DrawBegin(w)
  BY <1>2, ComposeKeeps
<1>3. CASE \/ EndFrame \/ CallReturns \/ CallThrows
           \/ \E w \in Ids, k \in {"call", "close"} : WindowEvent(w, k)
  BY <1>3, ReleaseKeeps
<1>4. CASE \E t \in Tasks : CreateWindow(t) \/ Remove(t)
  BY <1>4, CreateWindowKeeps, RemoveKeeps
<1>5. CASE Attach
  BY <1>5, AttachKeeps
<1>6. CASE UNCHANGED windowVars
  <2>1. UNCHANGED <<windows, made, live, native, lock, bridge, frame, input>>
    BY <1>6 DEF windowVars
  <2> QED BY <2>1, Zenon DEF WindowInv, MapInv, HandlesInv, NativeInv, BridgeInv, FrameInv
<1> QED BY <1>1, <1>2, <1>3, <1>4, <1>5, <1>6 DEF WindowNext, BridgeStep, FrameStep, InputStep

\* The invariant holds in every state.
LEMMA WindowInvariance == WindowSpec => []WindowInv
BY InitWindow, NextKeepsWindow, PTL DEF WindowSpec

\* m_nativeWindows has no surface of a window that is gone, for any number of tasks,
\* windows and frames, although handles are reused: release comes before the last
\* reference goes, and the window of a surface is always in the manager's map.
THEOREM SurfacesHaveWindows == WindowSpec => []NativeWindowsAreLive
<1>1. WindowInv => NativeWindowsAreLive
  BY DEF WindowInv, NativeInv, NativeWindowsAreLive
<1> QED BY <1>1, WindowInvariance, PTL

\* What is drawn goes to the window it was composed for: submit_layers' references
\* keep the handle from being reused, and m_lock the surface from being destroyed.
THEOREM FramesReachTheirWindow == WindowSpec => []DrawsIntoItsWindow
<1>1. WindowInv => DrawsIntoItsWindow
  BY DEF WindowInv, FrameInv, DrawsIntoItsWindow
<1> QED BY <1>1, WindowInvariance, PTL
=============================================================================
