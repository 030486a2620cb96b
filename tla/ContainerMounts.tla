-------------------------- MODULE ContainerMounts --------------------------
(***************************************************************************)
(* How the container manager mounts the Android root file system before it *)
(* serves anybody, and unmounts it when it ends: setup_mounts and          *)
(* setup_rootfs_overlay (cmds/container_manager.cpp), MountEntry and       *)
(* LoopDevice (common/).  The process may be killed at any moment; its     *)
(* mounts and its loop device then stay, and it is started again.          *)
(***************************************************************************)
EXTENDS Naturals, Sequences

CONSTANT MaxRuns     \* bound: how often the process is started

VARIABLES
  pc,         \* how far setup_mounts has come
  overlay,    \* --use-rootfs-overlay
  mounts,     \* mounts_: the directories of its MountEntry objects, in order
  kernel,     \* the mount table: [fsname, dir], oldest first
  loops,      \* loop devices attached to the image
  busy,       \* directories whose umount the kernel has refused
  runs,       \* how often the process has been started
  killed      \* whether it has ever been killed

vars == <<pc, overlay, mounts, kernel, loops, busy, runs, killed>>

\* A directory is its path: <<"rootfs">>, <<"rootfs", "cache">>, ...
Dirs == {<<r>> : r \in {"rootfs", "combined"}}
          \cup ({"rootfs", "combined"} \X {"cache", "data"})

\* final_android_rootfs_dir, where cache and data are mounted.
FinalRootfs == IF overlay THEN "combined" ELSE "rootfs"

\* utils::is_mounted looks the path up among the mounted devices (mnt_fsname).
IsMounted(path) == \E i \in DOMAIN kernel : kernel[i].fsname = path

(***************************************************************************)
(* umount(2), and what destroying a MountEntry and its LoopDevice does.    *)
(***************************************************************************)
\* Directory e is inside directory d.
Below(d, e) == Len(d) < Len(e) /\ SubSeq(e, 1, Len(d)) = d

Without(table, i) == SubSeq(table, 1, i - 1) \o SubSeq(table, i + 1, Len(table))

Reversed(s) == [i \in 1 .. Len(s) |-> s[Len(s) + 1 - i]]

TopAt(table, d) == {i \in DOMAIN table :
  /\ table[i].dir = d
  /\ \A j \in DOMAIN table : table[j].dir = d => j <= i}

IsBusy(table, i) == \E j \in DOMAIN table : j > i /\ Below(table[i].dir, table[j].dir)

\* Unmounting one directory: s has the mount table, the refusals, the loops.
Unmounted(s, d) ==
  LET top == TopAt(s.kernel, d)
      i == CHOOSE k \in top : TRUE
  IN  IF top = {} THEN s
      ELSE IF IsBusy(s.kernel, i) THEN [s EXCEPT !.busy = @ \cup {d}]
      ELSE [s EXCEPT !.kernel = Without(@, i),
                     !.loops = IF s.kernel[i].fsname = "loop" THEN @ - 1 ELSE @]

\* The elements of mounts_, four at most, are destroyed from the first to the last.
Destroyed(order) ==
  LET Destroy(s, i) == IF i \in DOMAIN order THEN Unmounted(s, order[i]) ELSE s
      none == [kernel |-> kernel, busy |-> busy, loops |-> loops]
  IN  Destroy(Destroy(Destroy(Destroy(none, 1), 2), 3), 4)

DestroyMounts ==
  LET s == Destroyed(mounts)
  IN  kernel' = s.kernel /\ busy' = s.busy /\ loops' = s.loops /\ mounts' = <<>>

-----------------------------------------------------------------------------
Init ==
  /\ pc = "start" /\ overlay \in BOOLEAN
  /\ mounts = <<>> /\ kernel = <<>> /\ loops = 0 /\ busy = {}
  /\ runs = 1 /\ killed = FALSE

\* The checks at the beginning: no image, or the root file system is mounted.
Begin ==
  /\ pc = "start"
  /\ \/ pc' = "failed"
     \/ pc' = IF IsMounted("rootfs") THEN "failed" ELSE "mountRootfs"
  /\ UNCHANGED <<overlay, mounts, kernel, loops, busy, runs, killed>>

\* MountEntry::create succeeded and the entry was appended to mounts_.
Mounted(fsname, dir) ==
  /\ kernel' = Append(kernel, [fsname |-> fsname, dir |-> dir])
  /\ mounts' = Append(mounts, dir)

\* The image, on a loop device or with squashfuse ...
MountRootfs ==
  /\ pc = "mountRootfs"
  /\ \/ Mounted("loop", <<"rootfs">>) /\ loops' = loops + 1
     \/ Mounted("squashfuse", <<"rootfs">>) /\ UNCHANGED loops
  /\ pc' = IF overlay THEN "mountOverlay" ELSE "mountCache"
  /\ UNCHANGED <<overlay, busy, runs, killed>>

\* ... or neither: no loop device, attach_file or mount fails, no FUSE.  The
\* LoopDevice is released on every one of these paths.
MountRootfsFails ==
  /\ pc = "mountRootfs" /\ pc' = "failed"
  /\ UNCHANGED <<overlay, mounts, kernel, loops, busy, runs, killed>>

MountOverlay ==
  /\ pc = "mountOverlay" /\ pc' = "mountCache"
  /\ Mounted("overlay", <<"combined">>)
  /\ UNCHANGED <<overlay, loops, busy, runs, killed>>

MountCache ==
  /\ pc = "mountCache" /\ pc' = "mountData"
  /\ Mounted("cacheDir", <<FinalRootfs, "cache">>)
  /\ UNCHANGED <<overlay, loops, busy, runs, killed>>

\* Mutant of MountData: the order of mounts_ is kept.
MountDataKeepsOrder ==
  /\ pc = "mountData" /\ pc' = "ready"
  /\ kernel' = Append(kernel, [fsname |-> "dataDir", dir |-> <<FinalRootfs, "data">>])
  /\ mounts' = Append(mounts, <<FinalRootfs, "data">>)
  /\ UNCHANGED <<overlay, loops, busy, runs, killed>>

\* The last mount; then mounts_ is reversed for the unmounting.
MountData ==
  /\ pc = "mountData" /\ pc' = "ready"
  /\ kernel' = Append(kernel, [fsname |-> "dataDir", dir |-> <<FinalRootfs, "data">>])
  /\ mounts' = Reversed(Append(mounts, <<FinalRootfs, "data">>))
  /\ UNCHANGED <<overlay, loops, busy, runs, killed>>

\* Mutant of MountFails: mounts_ is not cleared.
MountFailsKeepsMounts ==
  /\ pc \in {"mountOverlay", "mountCache", "mountData"} /\ pc' = "failed"
  /\ UNCHANGED <<overlay, mounts, kernel, loops, busy, runs, killed>>

\* The overlay, a directory, its owner or its bind mount fails: mounts_.clear().
MountFails ==
  /\ pc \in {"mountOverlay", "mountCache", "mountData"} /\ pc' = "failed"
  /\ DestroyMounts
  /\ UNCHANGED <<overlay, runs, killed>>

\* The manager ends by a signal: ~ContainerManager destroys mounts_.
Stop ==
  /\ pc = "ready" /\ pc' = "stopped"
  /\ DestroyMounts
  /\ UNCHANGED <<overlay, runs, killed>>

\* The process is killed and loses its memory, the kernel keeps the mounts.
Kill ==
  /\ pc \notin {"start", "failed", "stopped"}
  /\ pc' = "failed" /\ mounts' = <<>> /\ killed' = TRUE
  /\ UNCHANGED <<overlay, kernel, loops, busy, runs>>

\* The init system starts it again, perhaps with another option.
Restart ==
  /\ pc \in {"failed", "stopped"} /\ runs < MaxRuns
  /\ pc' = "start" /\ overlay' \in BOOLEAN /\ runs' = runs + 1
  /\ UNCHANGED <<mounts, kernel, loops, busy, killed>>

Next ==
  \/ Begin \/ MountRootfs \/ MountRootfsFails \/ MountOverlay \/ MountCache \/ MountData
  \/ MountFails \/ Stop \/ Kill \/ Restart

Spec == Init /\ [][Next]_vars

-----------------------------------------------------------------------------
\* The values the program's variables can have.
TypeOK ==
  /\ pc \in {"start", "mountRootfs", "mountOverlay", "mountCache", "mountData",
             "ready", "failed", "stopped"}
  /\ mounts \in Seq(Dirs) /\ Len(mounts) <= 4
  /\ kernel \in Seq([fsname : {"loop", "squashfuse", "overlay", "cacheDir", "dataDir"},
                     dir : Dirs])
  /\ loops \in Nat /\ loops <= Len(kernel)

\* A clean stop unmounts the directories in an order the kernel accepts:
\* everything this process mounted goes away (container_manager.cpp:255-256).
StopUnmountsAll ==
  [][Stop => Len(kernel') = Len(kernel) - Len(mounts) /\ busy' = busy]_vars
=============================================================================
