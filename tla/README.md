# TLA+ models of the Anbox daemons

This directory holds a verification development for the C++ code under
`src/src/anbox` and for the binder driver: the *session manager*, the host process
that gives an Android container its graphics, audio, input, windows and
telephony, the *container manager*, the privileged process that mounts Android's
root file system and starts and stops the container, and the kernel module that
the processes in the container call each other through.  Paths below are relative to `src/src/anbox`;
`binder.c` is `src/modules/anbox/binder/binder.c`.

## The system

The session manager runs eight worker threads (`runtime.cpp`) over one
boost::asio service.  Acceptors (`network/*_connector.cpp`) turn each guest
connection into a `SocketConnection` with a message processor of its own.

| part | code | what it does |
| --- | --- | --- |
| OpenGL ES stream | `graphics/buffer_queue.cpp`, `buffered_io_stream.cpp`, `opengles_message_processor.cpp`, `emugl/RenderThread.cpp` | a worker posts the bytes of a guest thread, a render thread decodes and answers them, a third thread writes the answers |
| Renderer | `graphics/emugl/Renderer.cpp`, `WindowSurface.cpp`, `RenderControl.cpp` | tables of contexts, window surfaces and colour buffers shared by all render threads |
| Windows | `wm/`, `graphics/layer_composer.cpp`, `platform/sdl/` | a desktop window per Android task; frames drawn into them; events of the user |
| Bridge | `bridge/`, `rpc/`, `common/wait_handle.cpp` | protobuf calls in both directions between session manager and Android |
| Container client | `container/client.cpp`, `management_api_stub.cpp`, `cmds/session_manager.cpp` | asks the container manager for the container, and ends the session |
| Container service | `container/service.cpp`, `management_api_skeleton.cpp`, `lxc_container.cpp` | serves one session at a time and drives LXC and binderfs |
| Mounts | `cmds/container_manager.cpp`, `common/mount_entry.cpp`, `loop_device.cpp` | image, overlay and bind mounts of the root file system |
| Pipes | `qemu/` | boot properties, sensors, GSM modem, ADB proxy, camera, fingerprint |
| Binder | `binder.c` | the kernel module that carries the calls between the processes in the container, each in a buffer of the called process |
| Audio, input | `audio/`, `input/`, `platform/sdl/` | sound to SDL, input events to Android |
| Applications | `application/`, `dbus/`, `cmds/` | launchers of installed applications, command line |

`PROJECT.json` lists every part with its files and its state, and every hazard
known so far with the line where it bites.

## Modules

**`BufferQueue`** is `graphics::BufferQueue`: the ring (`buffers_`, `pos_`,
`count_`, `closed_`), the sets of threads asleep on `can_push_` and `can_pop_`,
and the calls in progress.  One action is one stretch of code under the caller's
mutex, up to the return or to `wait`; a waiter may also wake up for no reason.
**`BoundedFifo`** says what such a queue promises: a sequence of bounded length,
calls that return its elements in order, and failure once it is closed.
`BufferQueue` defines the mapping (`Contents`) and `RefinesBoundedFifo`.

**`BufferedIOStream`** composes two instances of `BufferQueue` with the three
threads of one client.  `in_queue_` is used under `lock_`; `out_queue_` under
`out_lock_`, except in `forceStop`, which closes it holding `lock_` only.  For
that reason the steps of `pop_locked` and `close_locked` on `out_queue_` are split
where another thread can come in between: test, wait, notification.  Bytes are
numbers in the order of arrival.  The render thread counts what it has read and not
yet decoded (`valid`, the `ReadBuffer`), and decodes and answers under `global_lock`,
which the render threads of the other clients take and release (`OthersStep`).  A
write that fails gives up the rest of its buffer (`givenUp`), and the worker goes on.

**`ContainerMounts`** follows `setup_mounts` mount by mount against a mount table
in which a directory with something mounted in it cannot be unmounted.  The
process can fail at each step, stop, be killed, and be started again.  The
set `busy` has the directories whose umount the kernel refused.

**`LxcContainer`** gives `start`, `stop` and the destructor as operators from an
object and the world (LXC, binderfs) to the set of outcomes, exceptions included.
**`ContainerManager`** composes them with the connections of the service:
accepting, refusing, reading, answering, removing, for sessions that come and go
at will.  One handler is one action, as the code runs it on one worker.
**`ContainerDaemon`** is the process that has both: the service exists only after
`setup_mounts`, a signal destroys the service and its container before the mounts,
and a kill, or an exception out of a destructor, leaves everything as it is for
the next start.

**`SessionManager`** has the three threads that matter when a session ends: the
start task, the reader of answers and the main thread.  It keeps
`PendingCallCache` at the granularity of its mutex, because the reader uses it
twice for one answer and a failing send may complete everything in between.

**`AndroidApiStub`** has the calls of several threads through one wait handle and
the unprotected counter of message ids, over successive connections of Android.

**`Renderer`** has the three handle tables, the `shared_ptr` lifetimes behind
them (an object exists as long as something refers to it), `bindContext`, and the
end of a render thread in three steps.  Each operation holds `m_lock` and is one
action.  Any thread may close or destroy what another one made.  Width and height
are one number.  `setColorBuffer` resizes the window: its pbuffer is destroyed and
made anew, which may fail.  A thread that had it current has then lost it (`lost`),
except the one that resizes and binds it again.  What EGL does with a lost pbuffer is
left open: the thread may or may not still keep others from binding it.

**`WindowManager`** has the bridge thread that creates and removes windows, the
render thread that composes a frame, and the event thread.  A native handle is
given out again as soon as its window is destroyed.  The entries of an update and
the layers of a frame are chosen when the loops come to them.

**`MessageFraming`** has the three ways in which the daemons cut a byte stream into
messages: the RPC header of size and type, the four digits of qemud, and the lines
of the modem.  `Encode` is the sender's code, `RpcStep`, `QemudStep` and `AtStep` are
one turn of each receiving loop, and `Write` is `BaseSocketMessenger::send` on a
non-blocking socket, with the repetition of a write that was cut short.  A byte
is a digit to a small base, so that sizes still need several digits.  Header bytes
that have not arrived are read from behind the vector: any value is possible.  An
rpc body may be longer than the three digits of its header can say, which no code
prevents; the guest's qemud commands are not empty (`qemud.h:94`) and assumed to need
four digits at most.

**`AdbProxy`** has the connections that adbd opens, one active and one standing,
`active_instance_`, the listening port, the connections of adb on the host, and the
pool of workers.  What is ready to run is queued as the reactor does it, and run
when a worker is free; a worker in `lock()`, in `identify_client`, or on its way through
a handler of several steps is not.  The steps are those between which another worker
may come in: the lock, then the port; and in the destructor the port, then the lock,
then the sockets, as members are destroyed in reverse.  Opening the port may throw.

**`BinderAlloc`** is the buffer area of one process: buffers in the order of their
addresses, each behind a header, and the pages that are mapped.  `AllocBuf` takes
a best fit and splits it, `Freed` merges with both neighbours; sizes are in words
and a page has four of them, a header three.  An assertion that fails sets `bug`.

**`BinderTransactions`** has the transactions with their pointers to threads and to
each other, the stacks, the work lists of threads and processes, the two pending
errors of a thread, and who sleeps on which wait queue.  A read buffer may be too small
for an error, for the second of two, or for a call.  The driver's global lock
is held except in the wait, so an action reaches from one release of it to the
next.  Every process has one object that can be called.

`MCBufferQueue`, `MCContainerManager`, `MCAndroidApiStub`, `MCRenderer`,
`MCWindowManager`, `MCBinderAlloc` and `MCBinderTransactions` give the constants
their values; symmetry is used only where a run has no liveness property.

## Runs that pass

* `buffer_queue`: one producer, one consumer, one closing thread, two buffers and
  three slots, so that the ring wraps around while it is partly full.  Nobody
  sleeps on a queue that can serve them, the ring implements `BoundedFifo`, and
  closing it releases every caller.
* `stream`: two bytes in, three bytes out, chunks of up to two, and queues of one
  buffer, which makes both fill; three bytes out are a buffer whose write fails and
  one after it.  The render thread reads exactly what was sent, also after the
  connection is closed; what reaches the socket is what was accepted, in order,
  without the rests of the buffers whose write failed; the lock of all the clients is
  released again although answers wait for room under it; the render thread stops.
* `container_manager`: two lives of the manager, which is enough for a kill and what
  the next one finds, two sessions with three requests between them, an overlay or
  none.  No container runs that its object does not know of, no session is told
  that a foreign container is its own, binder nodes are neither leaked nor taken
  from a running container; a manager that was never killed leaves no mount, loop
  device, container or node behind, however it ended, except for what the kernel
  refused to unmount, and after a signal nothing is refused.
* `session_manager`: the whole state space, without bounds.  Closures run once;
  a refused start, a dead manager and a signal after the start was answered all
  end the process.
* `android_api_stub`: two threads, two calls each, two connections.  A closure
  runs once even when two calls draw the same id, and a reported timeout means
  that the call was not completed.
* `renderer`: two render threads, three objects, two references, two sizes, one of
  them zero.  Three objects are a context, a window and a buffer, or two of a kind
  that threads can mix up; the theorems have no such bound.  Every entry has
  a thread that will remove it, a thread can flush what it draws to, the recorded
  colour buffer is the attached one, and a thread that ends takes only its own
  contexts away.
* `window_manager`: two tasks, three updates (create, remove, create again, which
  is what reuses a handle), one frame and one window event at every point in
  between.  No surface outlives its window, a frame goes to the window it was
  composed for, removed windows disappear and updates are applied.
* `framing`: two messages, enough for one to wait behind another, with bodies of none,
  one and two bytes and of one more than the header of an rpc message can say, read in
  pieces of one to eight.  Up to a repeated write or such a body, what was dispatched
  and what is still on its way are together what was sent; no whole message stays in the
  buffer, with the one exception of qemud described below.
* `adb_proxy`: three connections of adbd, two of the host, three workers.  Only the
  holder of the lock has the port open, and the lock comes free again and again
  after the host or adbd went away.  Three workers are one more than connections
  can wait; with two the second property fails, so the eight workers of
  `runtime.h:39` are needed as soon as adbd holds several connections open.
* `binder_alloc`: five pages of four words, sizes chosen so that headers fall on a
  page of their own, share one, and lie across two.  The buffers tile the area
  and no two neighbours are free, the mapped pages are those that used buffers
  and headers need, no assertion fails, and the space for one-way calls adds up.
* `binder_transactions`: a process with two threads and one with a single thread,
  three transactions at a time: a call, the call back into the waiting thread,
  and another one; one-way calls go to the first process only, and a thread
  writes a command only while its own work list is empty (`MaxTodo` 1).  Nothing
  points to what was freed, every caller is told in the end by somebody who still has
  its call, nobody sleeps on work, and one-way calls to an object follow each other.

Of the type invariants, the one of `BufferQueue` is checked by its run and proved;
those of the other modules document the state, and the proofs have their own.

Each property has a mutant in `PROJECT.json`: a change of one definition, as a
slip in the code would make it, under which the same run fails.

## A run that finds a disagreement

* `stream_destruction`: the destructor of the stream may wait for ever.  The
  worker tests `closed_` under `out_lock_`, `forceStop` closes and notifies under
  `lock_`, and the worker then goes to sleep.

## Known deviations

Met while modelling.  Where a property is named with its exception, TLC finds the
property violated once the exception is dropped; the others follow from reading the
code and no run is about them.

* A session that disconnects while its request is carried out leaves a connection
  that nobody reads or removes, and every later session is refused
  (`rpc/template_message_processor.h:69`).  `IdleSessionStopsContainer` is about
  sessions without a pending request.
* A signal before the start request is answered, with a slow container manager: the
  stop request times out, the service is stopped, and the join waits for a start
  task whose answer nobody will read (`container/management_api_stub.cpp:71`).
  `ExitsOnceReleased` names the cases in which the process does exit.
* The wait handle is never reset, so that after one result every later call that is
  not answered returns as if it were (`common/wait_handle.cpp:71`).  `TimeoutIsReal`
  states the other direction, which holds; its converse, that a call which returns as
  successful was completed, does not.
* `mounts_.clear()` on the error paths comes before the reversal, although "Unmounting
  needs to happen in reverse order" (`cmds/container_manager.cpp:255`).
  `CleanEndLeavesNothing` excepts the mounts whose umount was refused.
* A write that fails gives up the rest of its buffer, and the buffers after it are
  written all the same (`graphics/buffered_io_stream.cpp:126-129`): the guest may see an
  answer with a hole.  `OutputIsByteExact` says that the hole is all it loses.
* The test behind "Androd rootfs is already mounted!?" (`cmds/container_manager.cpp:146`)
  compares the directory with device names (`utils.cpp:187`) and never holds; the
  image is mounted a second time after a kill.
* `genHandle` does not look at `m_colorbuffers`, and `drainWindowSurface` gives back a
  reference that `setWindowSurfaceColorBuffer` never took (`graphics/emugl/Renderer.cpp:353`
  and `:460`), so that the buffer of a client that still has it open may leave the table.
  The `renderer` run keeps the handle counter from wrapping around.
* `WindowSurface::resize` destroys a pbuffer that may be current to another thread
  (`graphics/emugl/WindowSurface.cpp:144`), and forgets its own when it cannot make a new
  one (`:156`): the premise `Intact` of `CurrentSurfaceFlushes`.
* A task whose first window comes in the update that also removes another of its
  windows gets a desktop window and loses it in the same call
  (`wm/multi_window_manager.cpp:92-105`).
* A write that was cut short is repeated from its first byte, and the peer reads the
  part twice (`network/base_socket_messenger.cpp:98`): the premise `retries = 0` of
  `StreamStaysAligned`.  So is the size of an rpc message of 2^24 bytes or more, of which
  the header keeps three bytes (`rpc/channel.cpp:77`): the premise `SizesFit`.
* qemud's loop subtracts what it consumed twice, so a second command of the same
  length waits in the buffer until more data comes
  (`qemu/qemud_message_processor.cpp:71`): the conclusion of `NoWholeMessageWaits`.
* When adbd's data meets a host that has just gone, the send throws, no read of
  adbd's connection follows, and closing it reaches no handler: the lock stays taken
  (`qemu/adb_message_processor.cpp:187` against the comment at 170-175).  A second
  host that replaces the first one has the same effect, and so has a port that cannot
  be opened, because another program has it (`:116`).  `LockIsPassedOn`
  excepts these handlers that threw by `stuck`, the second host because a host that is
  there again does not count as ended.  A read of the host that completed before the processor was deleted
  still runs its handler on it; the comment at 162-166 considers cancelled reads only,
  and the model drops such a handler.
* A one-way call that BC_FREE_BUFFER moved to a thread which then exits is dropped, and
  its object stays busy (`binder.c:2471`, `3041-3047`): the variable `lost` of
  `BinderTransactions`.
* A read buffer with no room behind BR_NOOP: an error of the thread is not told, a thread
  that waits for a reply spins (`binder.c:2795-2797`), and one that waits for work of the
  process sleeps with its error (`2690`): `procfull` in `NoLostWakeup`.
* A client that closes its pipe before it sent a byte of its name ends the accepting of
  pipes: the name is made from a null pointer (`qemu/pipe_connection_creator.cpp:110`).

No run lists `HandleIsStable` (`Renderer`), which is proved: contexts and windows
keep their handles also when the counter wraps around.

## Fairness

Weak fairness of a thread's steps stands for the operating system running it; no
module assumes that a guest sends, that a user acts, or that a condition variable
wakes up by itself.  `BufferQueue` assumes only that a woken thread gets the
mutex.  In `BufferedIOStream` a thread that can take a mutex again and again takes it
(strong fairness), the socket takes a byte or fails in the end, and the other clients
release `global_lock`, as they run the same code; that this client does so is
`DecodeLockIsReleased`.  `SessionManager` also assumes that a wait with a limit ends, and that a
container manager which is alive answers in the end; it may die instead.
`ContainerManager` assumes that the runtime starts handlers that are ready.  In
`WindowManager` the frames are finite in number, so that weak fairness suffices
for a thread that waits for `m_lock`.  `AdbProxy` assumes that completions are
queued and queued handlers run when a worker is free, and that a client which
connected sends its name.  A thread in `lock()` gets the mutex if it is free again
and again (strong fairness): the standing connection is the only one that waits
for long, and a mutex has no other promise to give.

## Proofs

Everything below holds for every value of the constants that satisfies the named
assumptions: any number of threads, sessions, windows, handles and bytes.  Each
inductive invariant was checked by TLC on the constants of the component's run
before it was proved, and each preservation proof has a lemma for every action
or group of actions.

### `BufferQueueProofs`

* `TypeCorrect` and `RingIntegrity`, from the inductive invariant
  `IInv == TypeOK /\ RingHoldsBuffers`.  Neither half is inductive by itself where
  it matters: that a pop returns a buffer needs the occupied slots to hold
  buffers, and that they do after the next push needs the range of the indices.
  The index arithmetic is in the lemmas `WrapInSlots`, `WrapShift` and
  `WrapInjective`.
* `ImplementsBoundedFifo`: each step is a step of `BoundedFifo` or invisible to it.
  The work is in `EnqueuedAppends` and `DequeuedIsTail`, which say what the two
  changes of the ring do to the sequence it represents.
* `NoWakeupLost`, under the assumption `OneEach` of one producer and one consumer.
  The assumption is needed: `notify_one` is called only on the transitions from
  empty and from full, which does not wake a second waiter.  `BufferedIOStream` and
  the audio sink use the queue in this way.

### `BufferedIOStreamProofs`

The lemmas of `BufferQueueProofs` are used through instances of that module, one for each
queue.

* `InputPassesUnchanged` and `OutputPassesUnchanged`, from `InputInv` and `OutputInv`.
  These say where every byte is: what was read, what is left of the current
  buffer, the queue, and the buffer being pushed follow each other without gap
  or overlap, and no thread ends while something is left for it.  Buffers have
  different lengths, so `Tiles` states that a sequence of buffers is a segment of
  the bytes cut in pieces, without a function that flattens it.  On the output side
  bytes may be given up, so the invariant (`OutLayout`) says up to which byte everything is
  settled: written in order, or given up, never both.

### `SessionProofs`

Three parts of the session manager.

* `ClosuresRunOnce` of `AndroidApiStub`: ids may be drawn twice, so a call is
  identified by its thread and its number; `PendingInv` says that it is in one cache
  at most, under one id, and in none once it is completed.  `TimeoutsAreReal` is the
  action property that follows.
* `NoClosureRunsTwice` of `SessionManager`: a call is not begun, pending or completed,
  and never two of these.
* `ThePortHasOneOwner` of `AdbProxy`, from `OwnerInv`: a connection that is about to
  open the port holds the lock too, and one that is being destroyed has closed the port
  before it unlocks.  A second connection comes in between these steps, so without either
  half the property is not inductive.

### `DaemonProofs`

The container manager, and the windows of the session manager.

* `RunningContainersAreTracked`, `NoContainerIsForeign` and `NodesAreOwned`, from
  `ServiceInv`: there is one connection at most, only a connection has an object, and
  without a kill the nodes that exist are those of the connection's object.
* `NothingIsLeft` and `CleanStopUnmounts`, from `DaemonInv`, which adds `MountsInv`: the
  list of mounts is what lies on top of the mount table, reversed once setup is
  through.  That the reversal is needed shows in `CleanStopUnmounts`; the error paths
  do without, which is the exception that `NothingIsLeft` makes for refused mounts.
* `SurfacesHaveWindows` and `FramesReachTheirWindow`, from an invariant in five parts:
  the manager's map (`MapInv`), handles that are unique among live windows
  (`HandlesInv`), surfaces that belong to a window its task still has (`NativeInv`),
  the window being attached, which is in no map yet (`BridgeInv`), and the frame,
  which keeps its windows alive and holds `m_lock` while it draws (`FrameInv`).

### `RendererProofs`

* `EntriesAreTracked`, from `IInv`, which adds the types and that a thread has a context and
  two surfaces current, or nothing.
* `DrawingThreadsFlush`, from a second invariant on top of it, `DrawInv`: among the threads
  that have lost nothing a context and a surface are current to one at most, the
  surfaces agree with the thread (`Whole`, `Apart`), a thread loses both of its surfaces or
  none, and a window that was not lost has the size of its buffer (`Sized`).
* `HandlesAreStable`, from what `genHandle` skips (`GenHandleIsNew`).
* `DrainsWhatItCreated` and `WindowsNameTheirBuffers` have the premise
  `MaxCreations <= MaxHandle`: the counter does not wrap around.  It is needed: with
  `MaxCreations` 4 and `MaxHandle` 3 TLC violates both.  `CreatedInv` says that
  the counter is past every handle in a set and that a set has contexts of its
  thread only; `NamesInv` says the same of colour buffers, and that no two handles
  name one surface.

### `BinderFreeProofs` and `BinderAllocProofs`

The first has pages, merging and freeing, the second allocation, the whole life of
the area and the theorems.

* `AreaStaysTiled`, `PagesFollowNeed`, `AssertionsHold` and `AsyncSpaceBalances`, from one
  invariant: while the area is mapped its state is `Sound`.  `Sound` is stronger than
  the properties together in two places.  The order of the buffers is stated for
  any two of them, because pages are shared with buffers that are not neighbours;
  and a buffer in use has at most a header's room more than was asked for:
  `binder_free_buf` gives back the pages up to the next buffer, and a page behind
  what was asked for would not be there.
* That a loop over buffers ends with the sum of their sizes, or frees all of
  them, is an induction over a sequence.  It is carried out on the least number
  for which a statement fails, which needs no theorem with an operator as a
  parameter; `DrainWindowSurface` of `Renderer` is treated in the same way.

### `MessageFramingProofs`

* `TheStreamStaysAligned`, from `FrameInv`, which adds the types of the state.  The
  argument has three layers.  A header says the size it was made from
  (`ThreeDigits`, `EncodeRpc`, `EncodeQemud`, `EncodeAt`).  A turn of a loop that takes
  something from a buffer that begins like the stream takes exactly the next message,
  whatever lies behind the vector (`StepAligned`): for RPC because the test asks for
  the four bytes of the header too, whichever size was read.  And a whole loop
  comes to its end within as many turns as there are bytes, and takes some number of
  messages (`LoopEnds`, `LoopAligned`).
* `NoWholeMessageIsLeft`, from `WaitInv`.  Here the state in which a loop stops matters:
  a turn that stops has seen that no whole message is there, except for
  the second condition of qemud (`StepSettles`, `LoopSettles`).
* That the recursive functions `Loop` and `Upto` exist, and what they are, is proved on
  the least turn, or message, for which it would fail.

### Assumptions

`CapacityAssumption`, `MovedAssumption` and `BoundsAssumption`: queues have a slot, and a
moved-from buffer is not one that was pushed.  `NobodyAssumption`, `WindowsAssumption`
and `RendererAssumption`: the value for "none" is no session, window or thread, and
bounds are numbers.  `StubAssumption`: there is at least one connection.
`LayoutAssumption`: an area has a page, and a header is not empty and smaller than
a page.  `FramingAssumption`: a byte has three values at least, a body consists of bytes,
and lengths are numbers; that sizes fit their header is a premise of the property.  `AdbProxy` and `SessionManager` need none.

### Made for the proofs

`ContainerMounts`, `Renderer`, `AndroidApiStub` and `BinderAlloc` define some operations on
sequences and functions themselves (`Reversed`, `With`, `Saved`, `Inserted`, `Removed`): the
provers do not see through the folds of the libraries nor through `:>` and `@@`, and
large libraries make every obligation slow.  For the same reason `MessageFraming` writes
sizes digit by digit (`Digits3`, `Value4`) and sums up what was sent in `Upto`.  `Destroyed` of `ContainerMounts` is written out for four entries,
which is the most that `setup_mounts` makes.

### Only model-checked

* Every liveness property: fairness and ENABLED are out of the prover's reach.
* `BinderTransactions`: that nothing points to what was freed needs the shape of all
  stacks, lists and pointers of all threads at once as its invariant, and the ways
  in which threads end and transactions fail are folds over them.  Its other
  properties rest on this one.

No module declares a recursive operator, so that proofs about all of them are
possible.

## Not modelled

Pixels, shaders, EGL images, coordinates and the text of configurations, launchers
and logs are left out as data.  Generated protobuf code, third-party libraries
and the Android side are other programs, seen only through what they send.  Of the
binder driver, references and death notifications, the growth of a thread pool and
poll are left out, and so is ashmem.  Audio, input, the touch slots and the
application database have no module yet: the sink blocks a worker while its queue is
full (`platform/sdl/audio_sink.cpp:113`), `Connections::at` looks up an id where
`input/device.cpp:84` means a position, and `application/database.cpp:37` leaves a
launcher without an entry when the icon cannot be written.  Data races on standard
containers and on `shared_ptr` have no outcomes that could be enumerated.

## Plan

1. Proofs of the safety of `BinderTransactions`, beginning with the invariant that
   nothing points to what was freed.
2. References and death notifications of binder, on top of `BinderTransactions`.
3. `AudioSink` as another composition of `BufferQueue`.
4. Launcher files against the application database, and the touch slots and
   device connections of the input side.
5. Of the code that runs inside the container, the platform service
   (`android/hardware/anbox/service`), as the other end of the bridge.
