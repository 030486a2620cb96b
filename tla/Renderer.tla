------------------------------ MODULE Renderer ------------------------------
(***************************************************************************)
(* The handle tables of emugl's Renderer, shared by all render threads (one *)
(* per connection of a guest thread): render contexts, window surfaces and *)
(* reference-counted colour buffers.  Objects are held by shared_ptr, from *)
(* the tables, from each other and from the thread that has them current,  *)
(* so an object may outlive its handle.  Every operation runs under m_lock *)
(* and is one step.  Pixels and EGL configurations are left out, width and *)
(* height are one size; EGL is external.                                   *)
(***************************************************************************)
EXTENDS Naturals, FiniteSets, Functions

CONSTANTS
  Threads,       \* the render threads
  MaxHandle,     \* HandleType counts modulo MaxHandle + 1 (2^32 in the code)
  MaxCreations,  \* bound: nothing is created once nextHandle has reached it
  MaxContexts,   \* bounds on the objects alive at a time
  MaxWindows,
  MaxBuffers,
  MaxRefs,       \* bound on refcount
  Sizes,         \* the sizes a window surface may be created with
  SizeOf         \* ColorBuffer -> the size it is created with

VARIABLES
  nextHandle,    \* s_nextHandle
  contexts,      \* m_contexts: handle -> RenderContext
  windows,       \* m_windows: handle -> [win: WindowSurface, cb: colour buffer handle]
  colorbuffers,  \* m_colorbuffers: handle -> [cb: ColorBuffer, refcount]
  surface,       \* WindowSurface -> [attached, readCtx, drawCtx]
  info,          \* RenderThreadInfo of each thread
  pc,            \* RenderThread::main: "run", "unbound", "drained", "exited"
  creator,       \* RenderContext -> the thread that created it
  pbuffer        \* WindowSurface -> [size, lost]: mWidth and mHeight, and whether
                 \* EGL may have lost the pbuffer that is current to a thread

vars == <<nextHandle, contexts, windows, colorbuffers, surface, info, pc, creator, pbuffer>>

None == 0
Handles == 1 .. MaxHandle
Contexts == 1 .. MaxContexts
Windows == 1 .. MaxWindows
Buffers == 1 .. MaxBuffers
FreshSurface == [attached |-> None, readCtx |-> None, drawCtx |-> None]
FreshInfo == [ctx |-> None, draw |-> None, read |-> None, contextSet |-> {}, windowSet |-> {}]
Empty == <<>>

ASSUME RendererAssumption ==
  /\ {MaxHandle, MaxCreations, MaxContexts, MaxWindows} \subseteq Nat /\ None \notin Threads

Init ==
  /\ nextHandle = 0
  /\ contexts = Empty /\ windows = Empty /\ colorbuffers = Empty
  /\ surface = [w \in Windows |-> FreshSurface]
  /\ info = [t \in Threads |-> FreshInfo]
  /\ pc = [t \in Threads |-> "run"]
  /\ creator = [c \in Contexts |-> None]
  /\ pbuffer = [w \in Windows |-> [size |-> 0, lost |-> FALSE]]

(***************************************************************************)
(* Lifetimes: what a shared_ptr still refers to.                           *)
(***************************************************************************)
WindowsAlive(wins, inf) ==
  ({wins[h].win : h \in DOMAIN wins} \cup UNION {{inf[t].draw, inf[t].read} : t \in Threads}) \ {None}

ContextsAlive(ctxs, wins, inf, surf) ==
  (Range(ctxs) \cup {inf[t].ctx : t \in Threads}
     \cup UNION {{surf[w].readCtx, surf[w].drawCtx} : w \in WindowsAlive(wins, inf)}) \ {None}

BuffersAlive(cbs, wins, inf, surf) ==
  ({cbs[h].cb : h \in DOMAIN cbs}
     \cup {surf[w].attached : w \in WindowsAlive(wins, inf)}) \ {None}

\* A table with the entry v for handle h, new or replaced.
With(table, h, v) == [x \in DOMAIN table \cup {h} |-> IF x = h THEN v ELSE table[x]]

Lowest(S) == CHOOSE x \in S : \A y \in S : x <= y

\* The tables and the threads' pointers after a step; objects nothing refers to
\* any more are destroyed, and a new context belongs to thread t.
Becomes(t, ctxs, wins, inf, surf) ==
  LET alive == ContextsAlive(ctxs, wins, inf, surf)
  IN  /\ contexts' = ctxs /\ windows' = wins /\ info' = inf
      /\ surface' = [w \in Windows |-> IF w \in WindowsAlive(wins, inf) THEN surf[w] ELSE FreshSurface]
      /\ creator' = [c \in Contexts |-> IF c \notin alive THEN None
                                        ELSE IF creator[c] = None THEN t ELSE creator[c]]

(***************************************************************************)
(* genHandle                                                               *)
(***************************************************************************)
HandleInUse(h) == h = 0 \/ h \in DOMAIN contexts \/ h \in DOMAIN windows

Ahead(k) == (nextHandle + k) % (MaxHandle + 1)

\* Mutant of GenHandle: a handle that was given back is given out again first.
LowestHandle == Lowest({h \in Handles : ~HandleInUse(h)})

GenHandle == Ahead(Lowest({k \in 1 .. MaxHandle + 1 : ~HandleInUse(Ahead(k))}))

CanGenHandle ==
  nextHandle < MaxCreations /\ \E h \in Handles : ~HandleInUse(h)

(***************************************************************************)
(* Render contexts and window surfaces.                                    *)
(***************************************************************************)
CreateRenderContext(t) ==
  LET free == Contexts \ ContextsAlive(contexts, windows, info, surface)
  IN  /\ pc[t] = "run" /\ CanGenHandle /\ free # {}
      /\ nextHandle' = GenHandle
      /\ Becomes(t, With(contexts, GenHandle, Lowest(free)), windows,
                 [info EXCEPT ![t].contextSet = @ \cup {GenHandle}], surface)
      /\ UNCHANGED <<colorbuffers, pc, pbuffer>>

CreateWindowSurface(t) ==
  LET free == Windows \ WindowsAlive(windows, info)
  IN  /\ pc[t] = "run" /\ CanGenHandle /\ free # {}
      /\ nextHandle' = GenHandle
      /\ Becomes(t, contexts, With(windows, GenHandle, [win |-> Lowest(free), cb |-> None]),
                 [info EXCEPT ![t].windowSet = @ \cup {GenHandle}], surface)
      /\ \E size \in Sizes :
           pbuffer' = [pbuffer EXCEPT ![Lowest(free)] = [size |-> size, lost |-> FALSE]]
      /\ UNCHANGED <<colorbuffers, pc>>

\* Mutant of DestroyRenderContext: only the thread's own record of it goes.
ForgetRenderContext(t, h) ==
  /\ pc[t] = "run"
  /\ Becomes(t, contexts, windows, [info EXCEPT ![t].contextSet = @ \ {h}], surface)
  /\ UNCHANGED <<nextHandle, colorbuffers, pc, pbuffer>>

\* The handle may be another thread's, whose contextSet then keeps it, and it may
\* be gone from the table.
DestroyRenderContext(t, h) ==
  /\ pc[t] = "run"
  /\ Becomes(t, Restrict(contexts, DOMAIN contexts \ {h}), windows,
             [info EXCEPT ![t].contextSet = @ \ {h}], surface)
  /\ UNCHANGED <<nextHandle, colorbuffers, pc, pbuffer>>

DestroyWindowSurface(t, h) ==
  /\ pc[t] = "run" /\ h \in DOMAIN windows
  /\ Becomes(t, contexts, Restrict(windows, DOMAIN windows \ {h}),
             [info EXCEPT ![t].windowSet = @ \ {h}], surface)
  /\ UNCHANGED <<nextHandle, colorbuffers, pc, pbuffer>>

\* EGL has current to the thread what the thread records as current.
Intact(u) == info[u].draw # None /\ ~pbuffer[info[u].draw].lost /\ ~pbuffer[info[u].read].lost

\* eglMakeCurrent: what is current to another thread is refused.  Of a thread
\* that is not intact nothing is known.
MakesCurrent(t, c, d, r) ==
  \A u \in Threads \ {t} : Intact(u) =>
    /\ info[u].ctx # c
    /\ {info[u].draw, info[u].read} \cap {d, r} = {}

\* The pbuffers of the windows W are lost.
Lose(pbs, W) ==
  [w \in Windows |-> [size |-> pbs[w].size, lost |-> pbs[w].lost \/ w \in W]]

\* Mutant of Bind: the surface is always bound for reading.
BindRead(surf, d, r, c) == [surf EXCEPT ![d].readCtx = c, ![r].readCtx = c]

\* WindowSurface::bind of the draw surface for drawing, the read surface for reading.
Bind(surf, d, r, c) == [surf EXCEPT ![d].drawCtx = c, ![r].readCtx = c]

\* bindContext with three good handles; the surfaces current until now keep
\* their context.
BindContext(t, hc, hd, hr) ==
  /\ pc[t] = "run"
  /\ hc \in DOMAIN contexts /\ {hd, hr} \subseteq DOMAIN windows
  /\ LET c == contexts[hc]
         d == windows[hd].win
         r == windows[hr].win
     IN  /\ MakesCurrent(t, c, d, r)
         /\ Becomes(t, contexts, windows,
                    [info EXCEPT ![t].ctx = c, ![t].draw = d, ![t].read = r],
                    Bind(surface, d, r, c))
         /\ pbuffer' = Lose(pbuffer, IF pbuffer[d].lost \/ pbuffer[r].lost THEN {d, r} ELSE {})
  /\ UNCHANGED <<nextHandle, colorbuffers, pc>>

\* bindContext(0, 0, 0)
Unbound(t) ==
  LET i == info[t]
  IN  Becomes(t, contexts, windows,
              [info EXCEPT ![t].ctx = None, ![t].draw = None, ![t].read = None],
              IF i.draw = None THEN surface ELSE Bind(surface, i.draw, i.read, None))

UnbindContext(t) ==
  /\ pc[t] = "run" /\ info[t].ctx # None
  /\ Unbound(t)
  /\ UNCHANGED <<nextHandle, colorbuffers, pc, pbuffer>>

\* WindowSurface::flushColorBuffer by thread t, and the blit it does.
FlushColorBuffer(t, w) ==
  \/ surface[w].attached = None
  \/ /\ pbuffer[w].size # 0 /\ SizeOf[surface[w].attached] = pbuffer[w].size
     /\ surface[w].drawCtx # None
     /\ MakesCurrent(t, surface[w].drawCtx, w, w)
     /\ info[t].ctx # None

\* flushWindowSurfaceColorBuffer finds the window and copies what was drawn.
FlushWindowSurfaceColorBuffer(t, h) ==
  h \in DOMAIN windows /\ FlushColorBuffer(t, windows[h].win)

(***************************************************************************)
(* Colour buffers.                                                         *)
(***************************************************************************)
\* A handle of a live colour buffer is not seen by genHandle: its entry would be
\* overwritten.
CreateColorBuffer(t) ==
  LET free == Buffers \ BuffersAlive(colorbuffers, windows, info, surface)
  IN  /\ pc[t] = "run" /\ CanGenHandle
      /\ nextHandle' = GenHandle
      /\ \E b \in free : colorbuffers' = With(colorbuffers, GenHandle, [cb |-> b, refcount |-> 1])
      /\ UNCHANGED <<contexts, windows, surface, info, pc, creator, pbuffer>>

OpenColorBuffer(t, h) ==
  /\ pc[t] = "run" /\ h \in DOMAIN colorbuffers
  /\ colorbuffers[h].refcount < MaxRefs
  /\ colorbuffers' = [colorbuffers EXCEPT ![h].refcount = @ + 1]
  /\ UNCHANGED <<nextHandle, contexts, windows, surface, info, pc, creator, pbuffer>>

\* One reference less; the entry goes with the last.
Dropped(cbs, h) ==
  IF h \notin DOMAIN cbs THEN cbs
  ELSE IF cbs[h].refcount = 1 THEN Restrict(cbs, DOMAIN cbs \ {h})
  ELSE [cbs EXCEPT ![h].refcount = @ - 1]

\* Any client may close any colour buffer, however often it opened it.
CloseColorBuffer(t, h) ==
  /\ pc[t] = "run" /\ h \in DOMAIN colorbuffers
  /\ colorbuffers' = Dropped(colorbuffers, h)
  /\ UNCHANGED <<nextHandle, contexts, windows, surface, info, pc, creator, pbuffer>>

\* Mutant of Resized: setColorBuffer leaves the window's size alone.
Unresized(t, w, size) == {pbuffer}

\* WindowSurface::resize of window w by thread t: the old pbuffer is destroyed and
\* a new one made, which may fail; then the size stays.  A thread that has w
\* current is bound to the new pbuffer if it is t; any other one is not, nor is
\* t if there is none.
Resized(t, w, size) ==
  LET users == {u \in Threads : w \in {info[u].draw, info[u].read}}
      Held(U) == UNION {{info[u].draw, info[u].read} : u \in U}
  IN  IF pbuffer[w].size = size THEN {pbuffer}
      ELSE {Lose([pbuffer EXCEPT ![w].size = size], Held(users \ {t})),
            Lose(pbuffer, {w} \cup Held(users))}

\* Mutant of SetWindowSurfaceColorBuffer: the handle is not recorded.
AttachColorBuffer(t, hw, h) ==
  /\ pc[t] = "run" /\ hw \in DOMAIN windows /\ h \in DOMAIN colorbuffers
  /\ Becomes(t, contexts, [windows EXCEPT ![hw].cb = IF @ = None THEN h ELSE @], info,
             [surface EXCEPT ![windows[hw].win].attached = colorbuffers[h].cb])
  /\ pbuffer' \in Resized(t, windows[hw].win, SizeOf[colorbuffers[h].cb])
  /\ UNCHANGED <<nextHandle, colorbuffers, pc>>

SetWindowSurfaceColorBuffer(t, hw, h) ==
  /\ pc[t] = "run" /\ hw \in DOMAIN windows /\ h \in DOMAIN colorbuffers
  /\ Becomes(t, contexts, [windows EXCEPT ![hw].cb = h], info,
             [surface EXCEPT ![windows[hw].win].attached = colorbuffers[h].cb])
  /\ pbuffer' \in Resized(t, windows[hw].win, SizeOf[colorbuffers[h].cb])
  /\ UNCHANGED <<nextHandle, colorbuffers, pc>>

(***************************************************************************)
(* The client is gone: the end of RenderThread::main, in three steps that  *)
(* other threads' operations may separate.                                 *)
(***************************************************************************)
ThreadUnbinds(t) ==
  /\ pc[t] = "run" /\ pc' = [pc EXCEPT ![t] = "unbound"]
  /\ Unbound(t)
  /\ UNCHANGED <<nextHandle, colorbuffers, pbuffer>>

\* The colour buffers after each of these windows, by handle, gave a reference back.
GivenBack(mine) ==
  LET after[h \in 0 .. MaxHandle] ==
        IF h = 0 THEN colorbuffers
        ELSE IF h \in mine THEN Dropped(after[h - 1], windows[h].cb) ELSE after[h - 1]
  IN  after[MaxHandle]

\* drainWindowSurface drops a reference for every window with a colour buffer.
DrainWindowSurface(t) ==
  LET mine == info[t].windowSet \cap DOMAIN windows
  IN  /\ pc[t] = "unbound" /\ pc' = [pc EXCEPT ![t] = "drained"]
      /\ colorbuffers' = GivenBack(mine)
      /\ Becomes(t, contexts, Restrict(windows, DOMAIN windows \ mine),
                 [info EXCEPT ![t].windowSet = {}], surface)
      /\ UNCHANGED <<nextHandle, pbuffer>>

DrainRenderContext(t) ==
  /\ pc[t] = "drained" /\ pc' = [pc EXCEPT ![t] = "exited"]
  /\ Becomes(t, Restrict(contexts, DOMAIN contexts \ info[t].contextSet), windows,
             [info EXCEPT ![t].contextSet = {}], surface)
  /\ UNCHANGED <<nextHandle, colorbuffers, pbuffer>>

ClientStep(t) ==
  \/ CreateRenderContext(t) \/ CreateWindowSurface(t) \/ CreateColorBuffer(t)
  \/ UnbindContext(t)
  \/ \E h \in Handles :
       \/ DestroyRenderContext(t, h) \/ DestroyWindowSurface(t, h)
       \/ OpenColorBuffer(t, h) \/ CloseColorBuffer(t, h)
  \/ \E h, w, r \in Handles : BindContext(t, h, w, r)
  \/ \E w, h \in Handles : SetWindowSurfaceColorBuffer(t, w, h)

ExitStep(t) == ThreadUnbinds(t) \/ DrainWindowSurface(t) \/ DrainRenderContext(t)

Next == \E t \in Threads : ClientStep(t) \/ ExitStep(t)

Spec == Init /\ [][Next]_vars

-----------------------------------------------------------------------------
\* The values of the variables; no entry of m_colorbuffers has a count of 0.
TypeOK ==
  /\ nextHandle \in 0 .. MaxHandle
  /\ DOMAIN contexts \subseteq Handles /\ Range(contexts) \subseteq Contexts
  /\ \A h \in DOMAIN windows : windows[h].win \in Windows /\ windows[h].cb \in {None} \cup Handles
  /\ \A h \in DOMAIN colorbuffers :
       colorbuffers[h].cb \in Buffers /\ colorbuffers[h].refcount \in 1 .. MaxRefs
  /\ surface \in [Windows -> [attached : {None} \cup Buffers,
                              readCtx : {None} \cup Contexts, drawCtx : {None} \cup Contexts]]
  /\ \A t \in Threads : info[t].contextSet \cup info[t].windowSet \subseteq Handles

\* Every context and window of the tables is in the set of a thread that will
\* drain it, whoever destroyed what and whatever handles came back to: nothing
\* outlives the last render thread (Renderer.cpp:403-407, 425-429, 434-489).
TablesAreTracked ==
  /\ \A h \in DOMAIN contexts : \E t \in Threads : pc[t] # "exited" /\ h \in info[t].contextSet
  /\ \A h \in DOMAIN windows : \E t \in Threads : pc[t] \in {"run", "unbound"} /\ h \in info[t].windowSet

\* A thread that draws to a window can flush it, by every handle the window has:
\* the window has the size of its colour buffer, and the thread's context as its
\* draw context (Renderer.cpp:523-535, 665-690, WindowSurface.cpp:91-118).  Not so
\* for a window without area, and not once another thread resized a window that
\* was current or resizing one failed: a second thread may then bind it.
CurrentSurfaceFlushes ==
  \A t \in Threads : Intact(t) =>
    /\ \A h \in DOMAIN windows : windows[h].win = info[t].draw /\ pbuffer[info[t].draw].size # 0 =>
         FlushWindowSurfaceColorBuffer(t, h)
    /\ surface[info[t].draw].drawCtx = info[t].ctx
    /\ surface[info[t].read].readCtx = info[t].ctx

\* The colour buffer attached to a window is the one its recorded handle names,
\* as long as that handle is in the table: drainWindowSurface gives back a
\* reference to the buffer that is attached (Renderer.cpp:456-461, 558-559).
WindowNamesItsBuffer ==
  \A h \in DOMAIN windows :
    windows[h].cb \in DOMAIN colorbuffers =>
      colorbuffers[windows[h].cb].cb = surface[windows[h].win].attached

\* The end of a thread takes contexts out of the table that this thread created,
\* and no others: "destroy all the remaining contexts it created"
\* (Renderer.h:135-138).
DrainsOnlyItsOwn ==
  [][\A t \in Threads : pc[t] = "drained" /\ pc'[t] = "exited" =>
       \A h \in DOMAIN contexts : h \notin DOMAIN contexts' => creator[contexts[h]] = t]_vars

\* A handle names one context or one window until it is destroyed, also when
\* the 32-bit counter has wrapped around (Renderer.cpp:351-359).
HandleIsStable ==
  [][/\ \A h \in DOMAIN contexts \cap DOMAIN contexts' : contexts'[h] = contexts[h]
     /\ \A h \in DOMAIN windows \cap DOMAIN windows' : windows'[h].win = windows[h].win]_vars
=============================================================================
