--------------------------- MODULE WindowManager ---------------------------
(***************************************************************************)
(* The windows of Android's tasks on the desktop, in multi-window mode.    *)
(* Three threads of the session manager use them:                          *)
(*   - the thread that reads the bridge connection applies the window      *)
(*     updates of Android (wm/multi_window_manager.cpp);                   *)
(*   - a render thread composes Android's layers into the windows          *)
(*     (graphics/layer_composer.cpp, multi_window_composer_strategy.cpp);  *)
(*   - the event thread of SDL reports what the user does with a window    *)
(*     (platform/sdl/platform.cpp) and calls Android.                      *)
(* A window is destroyed when the last shared_ptr to it goes; the renderer *)
(* knows it by its native handle, which the display server may reuse.      *)
(***************************************************************************)
EXTENDS Naturals, Sequences, FiniteSets

CONSTANTS
  Tasks,       \* task ids
  None,        \* no window, no task
  MaxWindows,  \* bound: windows created
  MaxUpdates,  \* bound: updates Android sends
  MaxList,     \* bound: entries of an update, layers of a frame
  MaxFrames,   \* bound: frames Android posts
  MaxInputs    \* bound: window events of the user

VARIABLES
  windows,   \* MultiWindowManager::windows_: task -> window or None
  known,     \* Platform::windows_: weak references
  made,      \* the windows created so far, as a sequence of [task, handle, attached]
  live,      \* those not destroyed
  native,    \* m_nativeWindows: handle -> the window it was created for
  mutex,     \* who holds MultiWindowManager::mutex_
  lock,      \* whether Renderer::m_lock is held
  bridge,    \* bridge thread: [pc, left, collected, cur]; left counts the entries to come
  frame,     \* composer: [pc, left, held, todo, cur]
  input,     \* event thread: [pc, win]
  budget,    \* how many updates, frames and inputs are still to come
  crashed    \* an exception left the event thread

windowVars == <<windows, known, made, live, native, mutex, lock, bridge, frame, input,
          budget, crashed>>

Ids == 1 .. MaxWindows

ASSUME WindowsAssumption == MaxWindows \in Nat /\ MaxList \in Nat /\ None \notin Ids

WindowInit ==
  /\ windows = [t \in Tasks |-> None] /\ known = {} /\ made = <<>> /\ live = {}
  /\ native = [h \in Ids |-> None]
  /\ mutex = None /\ lock = FALSE
  /\ bridge = [pc |-> "idle", left |-> 0, collected |-> {}, cur |-> None]
  /\ frame = [pc |-> "idle", left |-> 0, held |-> {}, todo |-> {}, cur |-> None]
  /\ input = [pc |-> "idle", win |-> None]
  /\ budget = [updates |-> MaxUpdates, frames |-> MaxFrames, inputs |-> MaxInputs]
  /\ crashed = FALSE

\* Mutant of Referenced: submit_layers holds no references.
ReferencedNotByFrame(wins, b, f, i) ==
  {w \in Ids : (\E t \in Tasks : wins[t] = w) \/ b.cur = w \/ i.win = w}

\* The windows a shared_ptr refers to: the manager's map, the locals of
\* apply_window_state_update, of submit_layers and of the event handler.
Referenced(wins, b, f, i) ==
  {w \in Ids : \/ \E t \in Tasks : wins[t] = w
               \/ b.cur = w \/ w \in f.held \/ i.win = w}

\* ~Window for the windows to which the last reference went.  Its release() finds
\* no surface: in the destructor of the base class native_handle() is 0.
Survive(wins, b, f, i) == live' = live \cap Referenced(wins, b, f, i)

(***************************************************************************)
(* The bridge thread.                                                      *)
(***************************************************************************)
\* An update arrives: handle_window_state_update_event.  The windows it updates
\* and removes are chosen when the loops come to them.
Update ==
  /\ bridge.pc = "idle" /\ mutex = None /\ budget.updates > 0
  /\ mutex' = "bridge"
  /\ bridge' = [pc |-> "update", left |-> MaxList, collected |-> {}, cur |-> None]
  /\ budget' = [budget EXCEPT !.updates = @ - 1]
  /\ UNCHANGED <<windows, known, made, live, native, lock, frame, input, crashed>>

\* A window of the update whose task has a desktop window.  Windows that are not
\* freeform or have no surface are skipped.
Collect(t) ==
  /\ bridge.pc = "update" /\ bridge.left > 0 /\ windows[t] # None
  /\ bridge' = [bridge EXCEPT !.left = @ - 1, !.collected = @ \cup {t}]
  /\ UNCHANGED <<windows, known, made, live, native, mutex, lock, frame, input,
                 budget, crashed>>

\* Handles of destroyed windows are given out again.
FreeHandle ==
  CHOOSE h \in Ids : /\ \A w \in live : made[w].handle # h
                     /\ \A g \in Ids : g < h => \E w \in live : made[w].handle = g

\* Platform::create_window for a task that has none.
CreateWindow(t) ==
  /\ bridge.pc = "update" /\ bridge.left > 0 /\ windows[t] = None /\ Len(made) < MaxWindows
  /\ LET w == Len(made) + 1
     IN  /\ made' = Append(made, [task |-> t, handle |-> FreeHandle, attached |-> FALSE])
         /\ live' = live \cup {w} /\ known' = known \cup {w}
         /\ bridge' = [bridge EXCEPT !.pc = "attach", !.cur = w, !.left = @ - 1]
  /\ UNCHANGED <<windows, native, mutex, lock, frame, input, budget, crashed>>

\* SDL cannot create the window: the exception leaves the read handler, which
\* does not read again.
CreateWindowThrows ==
  /\ bridge.pc = "update" /\ bridge.left > 0 /\ \E t \in Tasks : windows[t] = None
  /\ bridge' = [bridge EXCEPT !.pc = "dead", !.collected = {}] /\ mutex' = None
  /\ UNCHANGED <<windows, known, made, live, native, lock, frame, input, budget, crashed>>

\* Mutant of Attach: createNativeWindow returns without unlocking m_lock when it
\* cannot create the surface.
AttachKeepsLock ==
  /\ bridge.pc = "attach" /\ ~lock
  /\ LET w == bridge.cur
         h == made[w].handle
     IN  /\ \/ /\ native' = [native EXCEPT ![h] = IF @ = None THEN w ELSE @]
               /\ made' = [made EXCEPT ![w].attached = TRUE] /\ UNCHANGED lock
            \/ UNCHANGED <<native, made>> /\ lock' = TRUE
         /\ windows' = [windows EXCEPT ![made[w].task] = w]
  /\ bridge' = [bridge EXCEPT !.pc = "update", !.cur = None]
  /\ UNCHANGED <<known, live, mutex, frame, input, budget, crashed>>

\* attach, createNativeWindow.  Its failure is not looked at; insert keeps an
\* entry that exists.
Attach ==
  /\ bridge.pc = "attach" /\ ~lock
  /\ LET w == bridge.cur
         h == made[w].handle
     IN  /\ \/ /\ native' = [native EXCEPT ![h] = IF @ = None THEN w ELSE @]
               /\ made' = [made EXCEPT ![w].attached = TRUE]
            \/ UNCHANGED <<native, made>>
         /\ windows' = [windows EXCEPT ![made[w].task] = w]
  /\ bridge' = [bridge EXCEPT !.pc = "update", !.cur = None]
  /\ UNCHANGED <<known, live, mutex, lock, frame, input, budget, crashed>>

\* The windows are through, the removals begin.
Updated ==
  /\ bridge.pc = "update"
  /\ bridge' = [bridge EXCEPT !.pc = "remove", !.left = MaxList]
  /\ UNCHANGED <<windows, known, made, live, native, mutex, lock, frame, input,
                 budget, crashed>>

\* Mutant of Drop: the window is erased and not released.
DropUnreleased(t) ==
  LET b == [bridge EXCEPT !.left = @ - 1]
  IN  /\ windows' = [windows EXCEPT ![t] = None] /\ UNCHANGED native
      /\ bridge' = b /\ Survive(windows', b, frame, input)

\* release and erase the window of task t; destroyNativeWindow takes m_lock when
\* the handle has a surface.
Drop(t) ==
  LET w == windows[t]
      h == made[w].handle
      b == [bridge EXCEPT !.left = @ - 1]
  IN  /\ IF made[w].attached /\ native[h] # None
           THEN ~lock /\ native' = [native EXCEPT ![h] = None]
           ELSE UNCHANGED native
      /\ windows' = [windows EXCEPT ![t] = None]
      /\ bridge' = b /\ Survive(windows', b, frame, input)

\* A removed window of a task that has a desktop window and was not collected.
Remove(t) ==
  /\ bridge.pc = "remove" /\ bridge.left > 0
  /\ windows[t] # None /\ t \notin bridge.collected
  /\ Drop(t)
  /\ UNCHANGED <<known, made, mutex, lock, frame, input, budget, crashed>>

Applied ==
  /\ bridge.pc = "remove"
  /\ bridge' = [bridge EXCEPT !.pc = "idle", !.left = 0, !.collected = {}] /\ mutex' = None
  /\ UNCHANGED <<windows, known, made, live, native, lock, frame, input, budget, crashed>>

(***************************************************************************)
(* The render thread that composes.                                        *)
(***************************************************************************)
\* rcPostAllLayersDone: submit_layers.
PostLayers ==
  /\ frame.pc = "idle" /\ budget.frames > 0
  /\ frame' = [frame EXCEPT !.pc = "find", !.left = MaxList]
  /\ budget' = [budget EXCEPT !.frames = @ - 1]
  /\ UNCHANGED <<windows, known, made, live, native, mutex, lock, bridge, input, crashed>>

\* process_layers: find_window_for_task, under mutex_, for a layer of task t.
FindWindow(t) ==
  /\ frame.pc = "find" /\ frame.left > 0 /\ mutex = None
  /\ frame' = [frame EXCEPT !.left = @ - 1,
                            !.held = IF windows[t] = None THEN @ ELSE @ \cup {windows[t]}]
  /\ UNCHANGED <<windows, known, made, live, native, mutex, lock, bridge, input,
                 budget, crashed>>

Composed ==
  /\ frame.pc = "find"
  /\ frame' = [frame EXCEPT !.pc = "draw", !.left = 0, !.todo = frame.held]
  /\ UNCHANGED <<windows, known, made, live, native, mutex, lock, bridge, input,
                 budget, crashed>>

\* Renderer::draw: m_lock is taken and the handle looked up and bound, if it has
\* a surface and eglMakeCurrent accepts it ...
DrawBegin(w) ==
  /\ frame.pc = "draw" /\ w \in frame.todo /\ ~lock
  /\ \/ frame' = [frame EXCEPT !.todo = @ \ {w}] /\ UNCHANGED lock
     \/ /\ native[made[w].handle] # None
        /\ frame' = [frame EXCEPT !.pc = "drawing", !.todo = @ \ {w}, !.cur = w]
        /\ lock' = TRUE
  /\ UNCHANGED <<windows, known, made, live, native, mutex, bridge, input, budget, crashed>>

\* ... until the buffers are swapped.
DrawEnd ==
  /\ frame.pc = "drawing" /\ lock' = FALSE
  /\ frame' = [frame EXCEPT !.pc = "draw", !.cur = None]
  /\ UNCHANGED <<windows, known, made, live, native, mutex, bridge, input, budget, crashed>>

\* Mutant of EndFrame: the list of windows is kept until the next frame.
EndFrameKeeps ==
  /\ frame.pc = "draw" /\ frame.todo = {}
  /\ frame' = [frame EXCEPT !.pc = "idle"]
  /\ UNCHANGED <<windows, known, made, live, native, mutex, lock, bridge, input,
                 budget, crashed>>

\* submit_layers returns and drops its references.
EndFrame ==
  /\ frame.pc = "draw" /\ frame.todo = {}
  /\ frame' = [frame EXCEPT !.pc = "idle", !.held = {}]
  /\ Survive(windows, bridge, frame', input)
  /\ UNCHANGED <<windows, known, made, native, mutex, lock, bridge, input, budget, crashed>>

(***************************************************************************)
(* The event thread.                                                       *)
(***************************************************************************)
\* process_events: the user focuses, moves, resizes or closes a window.  The
\* handler locks its weak reference and calls Android; the calls other than
\* remove_task differ in their arguments only.
WindowEvent(w, kind) ==
  /\ input.pc = "idle" /\ w \in known \cap live /\ budget.inputs > 0
  /\ input' = [pc |-> kind, win |-> w]
  /\ budget' = [budget EXCEPT !.inputs = @ - 1]
  /\ UNCHANGED <<windows, known, made, live, native, mutex, lock, bridge, frame, crashed>>

\* The call returns.  window_deleted then forgets the window, whose removal is
\* left to Android.
CallReturns ==
  /\ input.pc # "idle" /\ input' = [pc |-> "idle", win |-> None]
  /\ known' = IF input.pc = "close" THEN known \ {input.win} ELSE known
  /\ Survive(windows, bridge, frame, input')
  /\ UNCHANGED <<windows, made, native, mutex, lock, bridge, frame, budget, crashed>>

\* It throws (no client, a failing send, a timeout), and nothing catches that.
CallThrows ==
  /\ input.pc # "idle" /\ crashed' = TRUE
  /\ UNCHANGED <<windows, known, made, live, native, mutex, lock, bridge, frame,
                 input, budget>>

BridgeStep ==
  \/ \E t \in Tasks : Collect(t) \/ CreateWindow(t) \/ Remove(t)
  \/ CreateWindowThrows \/ Attach \/ Updated \/ Applied
FrameStep ==
  \/ \E t \in Tasks : FindWindow(t)
  \/ \E w \in Ids : DrawBegin(w)
  \/ Composed \/ DrawEnd \/ EndFrame
InputStep == CallReturns \/ CallThrows

WindowNext ==
  /\ ~crashed
  /\ \/ Update \/ PostLayers
     \/ \E w \in Ids, k \in {"call", "close"} : WindowEvent(w, k)
     \/ BridgeStep \/ FrameStep \/ InputStep

\* Each thread runs.  As the frames are finite in number, weak fairness also
\* gives the bridge thread m_lock.
WindowFairness == WF_windowVars(BridgeStep) /\ WF_windowVars(FrameStep) /\ WF_windowVars(InputStep)

WindowSpec == WindowInit /\ [][WindowNext]_windowVars /\ WindowFairness

-----------------------------------------------------------------------------
\* The values of the variables.
WindowTypeOK ==
  /\ windows \in [Tasks -> Ids \cup {None}] /\ live \subseteq 1 .. Len(made)
  /\ native \in [Ids -> Ids \cup {None}]
  /\ known \subseteq 1 .. Len(made) /\ mutex \in {None, "bridge"} /\ lock \in BOOLEAN
  /\ \A t \in Tasks : windows[t] # None => windows[t] \in live /\ made[windows[t]].task = t

\* The renderer keeps no surface of a window that is gone: what it would draw
\* into always exists (multi_window_manager.cpp:101-103, window.cpp:56-60).
NativeWindowsAreLive ==
  \A h \in Ids : native[h] # None => native[h] \in live /\ made[native[h]].handle = h

\* A frame is drawn into the window it was composed for, even when that window
\* is removed meanwhile and another one gets a native handle
\* (layer_composer.cpp:30-37, Renderer.cpp:938-964).
DrawsIntoItsWindow ==
  frame.pc = "drawing" => native[made[frame.cur].handle] = frame.cur

\* A window that its manager dropped disappears from the desktop once the threads
\* that use it are done.
RemovedWindowCloses ==
  \A w \in Ids :
    (w \in live /\ w # bridge.cur /\ \A t \in Tasks : windows[t] # w)
      ~> (w \notin live \/ crashed)

\* An update is applied, or fails, in any case: no thread waits for ever for
\* mutex_ or for m_lock, which is locked and unlocked by hand
\* (Renderer.cpp:300-349).
UpdatesAreApplied ==
  (bridge.pc \in {"update", "attach", "remove"}) ~> (bridge.pc \in {"idle", "dead"} \/ crashed)
=============================================================================
