---------------------------- MODULE LxcContainer ----------------------------
(***************************************************************************)
(* container::LxcContainer (src/anbox/container/lxc_container.cpp) and the *)
(* binder nodes it allocates (common/binder_device*.cpp), as operators.  A *)
(* method maps an object o and the world w to the set of its outcomes      *)
(* [o, w, ok]; ok is FALSE when it throws, and what it changed before      *)
(* throwing stays changed.                                                 *)
(*                                                                         *)
(*   o.state    state_                                                     *)
(*   o.handle   container_ is not null                                     *)
(*   o.binders  the nodes owned by binder_devices_                         *)
(*   w.running  LXC runs the container "default"                           *)
(*   w.owner    for whom it was started last                               *)
(*   w.node     the binder node it was started with (a set)                *)
(*   w.nodes    the nodes in binderfs                                      *)
(*   w.next     BinderDeviceAllocator's next_id                            *)
(*   w.binderfs binderfs is supported                                      *)
(***************************************************************************)
EXTENDS Naturals

Inactive == [state |-> "inactive", handle |-> FALSE, binders |-> {}]

Returns(o, w) == [o |-> o, w |-> w, ok |-> TRUE]
Throws(o, w) == [o |-> o, w |-> w, ok |-> FALSE]

Halted(w) == [w EXCEPT !.running = FALSE]

\* container_->stop whose result start() ignores.
StopIgnored(w) == IF w.running THEN {Halted(w), w} ELSE {w}

\* The object and the world after ~BinderDevice has unlinked its nodes.
ClearBinders(o) == [o EXCEPT !.binders = {}]
WithoutBinders(o, w) == [w EXCEPT !.nodes = @ \ o.binders]

\* A container that still runs is stopped, for the handle that is open ...
StopOld(o, w) == IF o.handle THEN StopIgnored(w) ELSE {w}
\* ... or for a handle that lxc_container_new opens now, "for example after a
\* crash".
StopLeftOver(o, w) == IF o.handle THEN {w} ELSE StopIgnored(w)

\* Mutant of NewBinder: the nodes held so far are forgotten, not unlinked.
NewBinderForgets(o, w) ==
  LET w1 == [w EXCEPT !.next = @ + 1]
  IN  IF w.next \in w.nodes
        THEN {Throws(o, w1)}
        ELSE {Throws(o, w1), Returns([o EXCEPT !.binders = {w.next}],
                                     [w1 EXCEPT !.nodes = @ \cup {w.next}])}

\* create_binder_devices for the one node needed: its name is taken from
\* next_id, and BINDER_CTL_ADD refuses a name that exists.  The new node
\* replaces (and so unlinks) those of an earlier start.
NewBinder(o, w) ==
  LET w1 == [w EXCEPT !.next = @ + 1]
  IN  IF w.next \in w.nodes
        THEN {Throws(o, w1)}
        ELSE {Throws(o, w1),
              Returns([o EXCEPT !.binders = {w.next}],
                      [WithoutBinders(o, w1) EXCEPT !.nodes = @ \cup {w.next}])}

BinderFor(o, w) == IF w.binderfs THEN NewBinder(o, w) ELSE {Returns(o, w)}

\* Mutant of Launch: state_ is not set.
LaunchForgetsState(o, w, s) ==
  {Throws(o, w)} \cup
  (IF w.running THEN {}
   ELSE {Returns(o, [w EXCEPT !.running = TRUE, !.owner = s, !.node = o.binders])})

\* Mutant of Launch: a container that runs already counts as started.
LaunchTakesOver(o, w, s) ==
  {Throws(o, w)} \cup
  (IF w.running THEN {Returns([o EXCEPT !.state = "running"], w)}
   ELSE {Returns([o EXCEPT !.state = "running"],
                 [w EXCEPT !.running = TRUE, !.owner = s, !.node = o.binders])})

\* The rest of start: mount entries, device nodes, default.prop, save_config
\* and LXC's start, each of which may fail.  LXC does not start a container
\* that runs.
Launch(o, w, s) ==
  {Throws(o, w)} \cup
  (IF w.running THEN {}
   ELSE {Returns([o EXCEPT !.state = "running"],
                 [w EXCEPT !.running = TRUE, !.owner = s, !.node = o.binders])})

\* LxcContainer::start.  The configuration items may fail before any binder node
\* is allocated, lxc_container_new before there is a handle.
Start(o, w, s) ==
  UNION {LET opened == [o EXCEPT !.handle = TRUE]
         IN  {Throws(o, w1), Throws(opened, w1)} \cup
             UNION {{Throws(opened, w2)} \cup
                    UNION {IF b.ok THEN Launch(b.o, b.w, s) ELSE {b} :
                             b \in BinderFor(opened, w2)} :
                      w2 \in StopLeftOver(o, w1)} :
           w1 \in StopOld(o, w)}

\* LxcContainer::stop.
Stop(o, w) ==
  IF ~o.handle \/ ~w.running THEN {Returns(o, w)}
  ELSE {Throws(o, w),
        Returns([ClearBinders(o) EXCEPT !.state = "inactive"], WithoutBinders(o, Halted(w)))}

\* Mutant of Destroy: the container is not stopped.
DestroyOnly(o, w) == {[w |-> WithoutBinders(o, w), ok |-> TRUE]}

\* ~LxcContainer: stop, then the members.  A throw out of a destructor ends the
\* process (ok is FALSE).
Destroy(o, w) ==
  {[w |-> IF r.ok THEN WithoutBinders(r.o, r.w) ELSE r.w, ok |-> r.ok] : r \in Stop(o, w)}
=============================================================================
