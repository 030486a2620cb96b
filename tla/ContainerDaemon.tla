-------------------------- MODULE ContainerDaemon --------------------------
(***************************************************************************)
(* The container manager as one process (cmds/container_manager.cpp):      *)
(* first the mounts of ContainerMounts, then the service of                *)
(* ContainerManager; at the end the service with its connections and       *)
(* containers goes before the mounts, unless the process is killed.        *)
(***************************************************************************)
EXTENDS ContainerManager

VARIABLES pc, overlay, mounts, kernel, loops, busy, runs   \* of ContainerMounts

Mounts == INSTANCE ContainerMounts WITH MaxRuns <- MaxStarts

mountVars == <<pc, overlay, mounts, kernel, loops, busy, runs>>
serviceVars == <<up, starts, accepting, sessionVars, backlog, inbox, answer, conns, reading,
                 obj, world>>
daemonVars == <<mountVars, killed, serviceVars>>

DaemonInit == Init /\ Mounts!Init

\* setup_mounts, and its failures.
SetUp ==
  /\ \/ Mounts!Begin \/ Mounts!MountRootfs \/ Mounts!MountRootfsFails \/ Mounts!MountOverlay
     \/ Mounts!MountCache \/ Mounts!MountData \/ Mounts!MountFails \/ Mounts!Restart
     \/ ~up /\ Mounts!Kill
  /\ UNCHANGED serviceVars

Serve == pc = "ready" /\ StartService /\ UNCHANGED mountVars

\* Service::create throws: the process ends as after a signal.
ServiceFails == pc = "ready" /\ ~up /\ Mounts!Stop /\ UNCHANGED serviceVars

\* A handler runs; ~LxcContainer may end the process in ReadFails.
Handling(A) == A /\ (IF up' THEN UNCHANGED mountVars ELSE Mounts!Kill)

DaemonAccepts(s) == Handling(Accept(s))
DaemonHandles(s) == Handling(Handle(s))
DaemonReleases(s) == Handling(ReadFails(s))

Outside(s) ==
  /\ \/ Connect(s) \/ Leave(s) \/ AcceptThrows(s) \/ \E r \in {"start", "stop"} : Request(s, r)
  /\ UNCHANGED mountVars

\* The service is destroyed at the end of the action, mounts_ with the command.
End ==
  \/ Shutdown(TRUE) /\ Mounts!Stop
  \/ Shutdown(FALSE) /\ Mounts!Kill
  \/ Kill /\ Mounts!Kill

DaemonNext ==
  \/ SetUp \/ Serve \/ ServiceFails \/ End
  \/ ContainerDies /\ UNCHANGED mountVars
  \/ \E s \in Sessions : \/ Outside(s) \/ DaemonAccepts(s) \/ DaemonHandles(s)
                         \/ DaemonReleases(s)

DaemonSpec ==
  /\ DaemonInit /\ [][DaemonNext]_daemonVars
  /\ \A s \in Sessions : /\ WF_daemonVars(DaemonAccepts(s)) /\ WF_daemonVars(DaemonHandles(s))
                         /\ WF_daemonVars(DaemonReleases(s))

-----------------------------------------------------------------------------
\* A manager that is never killed and ends, by a signal or by a failure, leaves
\* nothing behind on the host: no mount and no loop device (unless the kernel
\* refused an umount), no container and no binder node, whatever its sessions
\* were doing (container_manager.cpp:103-124, service.cpp:36-38).
CleanEndLeavesNothing ==
  ~killed /\ pc \in {"failed", "stopped"} =>
    /\ busy = {} => kernel = <<>> /\ loops = 0
    /\ ~world.running /\ world.nodes = {}

\* A clean stop unmounts the directories in an order the kernel accepts
\* (container_manager.cpp:255-256).
StopUnmountsAll == Mounts!StopUnmountsAll
=============================================================================
