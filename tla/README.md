# emul-4leaf in TLA+

emul-4leaf runs the Win32 client "4Leaf Browser" on a CPU emulator (Unicorn) with
its own implementation of the Win32 API, and puts the game server it talks to into
the same process. The modules here specify the parts of it whose correctness depends
on the order of events or on long sequences of calls: blocking calls and the
scheduler of the guest's threads, the heap, the sockets, the game server, window
messages, the windows of the host, the picture of a window, GDI objects, regions and
bitmaps, sound, and the files and strings of the two C runtimes. TLC checks each on
small instances. TLAPS proves the main results about waits, threads, heap, server,
messages, sockets, windows, surfaces and GDI objects for all values of the constants.

Paths below are relative to the program's crate, e.g. `dll/win32/ws2_32.rs`.

## 1. The system

### Threads of the host

| thread | runs | talks to the others through |
|---|---|---|
| emulator thread | all guest code and every API call, `helper/emulator.rs` | everything below |
| UI thread | winit event loop, `ui/win_frame.rs` | input: pushes onto `message_queues` and sets ready flags; commands: `ui_tx` channel |
| DNet handler, one per connection | `server/handler.rs` | two mpsc channels |
| feeder, one per connection | a closure in `connect`, `ws2_32.rs` | takes from the handler's channel, feeds the socket's, marks WSA events, sets ready flags |
| audio callback | `dll/rare.rs` | the `rare_sounds` map |
| watchdog | `main.rs` | counters, prints only |

The guest's threads are *not* host threads. They take turns on the emulator thread,
a quantum of instructions at a time. Nothing in an API call blocks: a call that cannot
complete registers what it waits for, clears its thread's ready flag and asks for a
*retry*, which stops the CPU with the instruction pointer still on the call, so that
it is executed again from the start at the thread's next quantum. Other host threads
end a wait by setting the ready flag. All state is in `Win32Context`, each field
behind its own lock. An API call of a guest thread is therefore atomic towards the
other guest threads, but not towards the UI thread and the feeders, which may run
between any two of its critical sections.

### Components

For each: its state, its operations, what is hard, and what makes it correct.

**Events, waits, run loop** (`kernel32/sync.rs`, `thread.rs`, `mod.rs`,
`helper/emulator.rs`). State: event objects; per thread ready, suspended, resume time,
wait deadline, wait handles. Operations: the event functions, WaitForSingleObject,
WaitForMultipleObjects, Sleep, thread creation and end, the round over the workers. Hard: retries, wake-ups that turn out to be for nothing, time limits
that must survive them, and a round that runs copies of thread records. Correct: no
wake-up is lost, no limit is forgotten or inherited, and the guest cannot tell the
retries from a real wait.

**Guest threads and nested calls** (`kernel32/thread.rs`, `helper/emulator.rs`). State:
thread list, the CPU's registers, the stack of rounds and window procedures on the
host's stack. Operations: quantum, round, write-back, CreateThread, _endthreadex,
calling a guest procedure from an API. Hard: rounds run inside
procedures inside rounds, registers are written back by index, threads come and go
meanwhile. Correct: each thread goes on where it stopped, on a stack that is its own.

**Heap** (`dll/win32/mod.rs` 299-383, `msvcrt/memory.rs`, `kernel32/memory.rs`). State:
allocations, free list, cursor. Operations: malloc, calloc, realloc, free, Global*,
thread stacks. Hard: long sequences of splits and merges. Correct: blocks are
disjoint, nothing is lost, free neighbours are merged, live blocks stay.

**DNet server** (`server/*`). State: byte buffer, open channels, accounts, session.
Operations: one per control message and per request of each channel. Hard: chunks
that cut frames anywhere, and the open/close protocol. Correct: it behaves as if
frames arrived whole, and data is handled only on open channels.

**Window messages** (`user32/message.rs`, `mod.rs`, `paint.rs`, `ui/win_frame.rs`).
State: queue per thread, timers, windows and what needs painting, pointer state of
both sides. Operations: post, fetch, wait, timers, invalidate, destroy, input. Hard:
two writers of the queues, merging of messages in place, and parking after a look.
Correct: nobody sleeps on a message, messages are in the owner's queue, a message
loop ends after its last window.

**Sockets** (`ws2_32.rs`). State: socket table, receive buffers, channels of each
connection, WSA event entries, what each thread waits for. Operations: socket, connect,
closesocket, send, recv, select, ioctlsocket, WSARecv, WSAEventSelect,
WSAEnumNetworkEvents, waits on WSA events, the steps of handler and feeder. Hard: the
feeder between any two critical sections; close and reconnect under a waiting
thread; peeked data. Correct: the byte stream arrives intact, its end after its data,
and nobody sleeps on data (but where a wake-up is lost, section 6).

**Windows** (`user32/window.rs`, `ui/win_event.rs`, `ui/win_frame.rs`). State: a
`WindowState` per window in `WinEvent`; the host windows of the UI thread; the channel
of commands between them and the flag of its wake-up event. Operations: create,
destroy, show, move, SetWindowPos, SetWindowLong, message boxes, the user's
moves and closing. Hard: creations nest, the tree changes while commands about it are
under way, one wake-up event stands for many commands. Correct: the host's windows
follow the guest's, no raw parent handle dangles, no command is left lying.

**Surfaces and rendering** (`dll/win32/mod.rs` 395-972, `ui/render/mod.rs`). State: the
bitmap of a window, its queue of operations for the GPU, the flags that ask for the
whole bitmap, the number of open DCs; the texture. Operations: draw, release, move,
resize, redraw, upload. Hard: both threads change the bitmap's size, and the UI thread
gives up wherever it would have to wait. Correct: the window ends up showing what was
drawn.

**GDI** (`gdi32/*`). State: the table of objects, what is selected where, pixels and
guest memory of DIB sections, lists of rectangles. Operations: create, select, delete,
clip, combine regions, draw, blit, SetDIBits, compressed bitmaps. Hard: deletion of
what is in use, calls that take any handle for a DC or a region, two copies of a section's pixels, every format of pixels, and drawing
done once on the CPU and once on the GPU. Correct: DeleteObject takes nothing that is
selected, no drawing is lost, regions cover the points they should, both pictures agree.

**Sound** (`dll/rare.rs`). State: contexts, sounds with position and flags, shared with
the host's audio callback. Operations: open, close, play, pause, stop, reset, set
frequency and repetition, mix. Hard: positions in fractions of frames, ends and
repetitions inside a buffer. Correct: a sound is heard through, in time.

**Files and strings** (`msvcrt/io.rs`, `msvcp60/*`). State: open files, the read-ahead
areas of filebufs and the strings, both in guest memory. Operations: those of FILE,
descriptors, streambuf, filebuf, istream and basic_string. Hard: read-ahead against
the position of the file, sources inside the string that is changed. Correct: the
guest reads on where it was, and a string holds what its calls put there.

**Others**: dialogs, menus and input state (`user32/dialog.rs`, `menu.rs`, `input.rs`);
text and fonts (`gdi32/text.rs`); files, modules, registry and small DLLs; PE loader
(`helper/dll_loader.rs`); debugger (`debug/*`); packet log (`server/packet_logger.rs`).
Section 7 says why they are not modelled.

The hazards found on the way are in `PROJECT.json`, each at its line, with the
properties that would catch it going wrong or the reason why none does.

## 2. The modules

| module | what it specifies | state in the code |
|---|---|---|
| `BlockingWait` | what a wait promises: no retries, no ready flags | none, abstract |
| `KernelWait` | events, waits, Sleep, the run loop | `events`, `main_*`, fields of `EmulatedThread` |
| `KernelWait_proof` | theorems about `KernelWait` | |
| `Scheduler` | quanta, rounds, nested procedures, stacks, TLS | `threads`, registers, host call stack |
| `Scheduler_proof` | theorems about `Scheduler` | |
| `Heap` | the allocator | `heap_blocks`, `heap_cursor` |
| `DNetSession` | what one frame does | `open_channels`, `Session` |
| `FrameServer` | the server if frames arrived whole | none, abstract |
| `DNetServer` | chunks, the buffer, the handler's loop; extends `DNetSession` | `byte_buf`, the channels |
| `DNetServer_proof` | theorems about `DNetServer` and `DNetSession` | |
| `MessageQueue` | messages, timers, input | `message_queues`, `timers`, `WinEvent`, `WinFrame` |
| `MessageQueue_proof` | theorems about `MessageQueue` | |
| `Sockets` | sockets, feeder, WSA events | `tcp_sockets`, `wsa_event_map`, mpsc channels |
| `Sockets_proof` | theorems about `Sockets` | |
| `WindowTree` | windows on both sides, commands, wake-ups, message boxes | `WinEvent`, `WinFrame::windows`, `UI_WAKE_PENDING` |
| `WindowTree_proof` | theorems about `WindowTree`, and those of `Surface` and `GdiObjects` for `MCDesktop`, the run that joins the three; theorems about `Regions` | |
| `Surface` | drawing, queue, uploads, resizes of one window | the surface bitmap, `surface_bitmap_sync`, the frame texture |
| `GdiObjects` | objects, selection, deletion, section memory | `gdi_objects`, `window_rgn`, `active_dc_count` |
| `Gdi_proof` | theorems about `Surface` and `GdiObjects` | |
| `Regions` | lists of rectangles, clips of DCs, the inferred frame | `GdiObject::Region`, native frame of a window |
| `Dib` | pixels of DIB sections in every format | guest memory at `bits_addr` |
| `RleBitmap` | decoding of compressed bitmaps | local variables of the decoders |
| `Raster` | rectangles, lines, blits on CPU and GPU | pixels, queued `GpuBitmapUpdate`s applied to the texture |
| `Sound` | sounds and the mixer | `rare_sounds`, `rare_audio` |
| `Streams` | FILE, descriptors, filebufs, istream | `files`, fields of streambufs |
| `BasicString` | std::string | the three fields of a string, its buffer |
| `Runtime_proof` | theorems about `Heap`, `Sound`, `Streams`, `BasicString`, `Raster` and `RleBitmap` | |

The `MC` modules give the constants values for TLC. Three of them put several models
that share no state into one run, with a variable `part` that says which one moves:
`MCProgress` (the liveness of `Scheduler`, `KernelWait` and `Sockets`), `MCDesktop`
(`WindowTree`, `Surface`, `GdiObjects`) and `MCRuntime` (`Heap`, `Regions`, `Dib`,
`RleBitmap`, `Raster`, `Sound`, `Streams`, `BasicString`). `MCMessageQueue` and
`MCSockets` choose between instances of one model in the same way. Such a run explores
the parts beside each other and not their product. `PROJECT.json` maps every
definition to its lines. Three conventions hold throughout:

* A call is one action as long as no other host thread can tell. Where the UI thread
  or a feeder can come between two critical sections of a call and it matters, the
  call has two steps: `Empty` and `Park` in `MessageQueue`, the first look and `Park`
  in `Sockets`, `EnumNetworkEvents` and `EnumClears` in `Sockets`.
* A thread in a blocking call is parked with its call recorded in `call`; a retry is
  the same action as the first execution, with the same arguments, as in the code.
* A definition preceded by `Mutant:` is a plausible mistake in the definition after
  it. It is not part of the model; each property has one that breaks it.

Notes on single modules:

*KernelWait.* Time is a counter. A retry happens when a round or the main loop picks
a thread that is ready or due, so spurious wake-ups (`WakeMessageWait`) lead to
retries that park again. `todo` is the rest of the round's snapshot. `Opaque` are
handles the event table does not know (mutexes, threads), which no wait finds
signaled. bWaitAll is part of a call and ignored, as in the code.

*Scheduler.* The registers of a thread are abstracted to the number of steps it has
made, so "goes on where it stopped" is an equality between that number and a
history variable. `frames` is the stack of the host: a round with its snapshot,
position, caller and saved registers, or a procedure. `InOrder` gives the indices of
a set in ascending order, which is what filtering a list comes to.

*Heap.* The free list is a set because the code keeps it sorted and disjoint.
`MergeLoop` is the code's pass over the sorted list, `PushFree` what it comes to; the
run compares the two in every reachable state and `MergeLoopIsRight` proves them
equal. The transitions use `PushFree` so that they can be proved about.

*DNetServer.* A byte is a frame and an index, so a lost boundary shows. The client
may write any pieces. What matters of a frame is kept: channel, type, control code,
user and password; answers are tags in the log, in the order they are sent. `Whole`
gives the frames whose last byte is in a sequence of bytes; with it `Todo` is what
a server would have before it to which frames arrive whole.

*MessageQueue.* Messages are window, type and one argument. The UI thread's handler
is split where it releases a lock. `unwoken` marks the threads that have been left
asleep at one of the places known to omit the wake-up (section 6), so that the
property is about all the others. `Without` is what `retain` leaves, written as a
recursive function because the provers know nothing of `SelectSeq`.

*Sockets.* A byte is a connection and an index, so a byte that reaches another
connection shows. The handler's thread is reduced to its channel ends: it takes
a chunk and sends any chunks, or leaves. `FeederSeesEnd` and `FeederDrops` are
separate steps, as the code wakes waiters before it drops its sender. `unwoken` marks
the threads whose last wake-up came between their look and their parking, and those
whose WSA event was given to another socket: these do sleep on data (section 6), and
`NoSleepOnData` is about the others.

*WindowTree.* A call of the guest holds the lock of `WinEvent` throughout and is one
step; the UI thread handles a command, or drains the channel, in its own. `untold` are
the windows whose visibility changed without a command, at the places that send none
(section 6). A destroyed window's host window goes with the command.

*Surface.* A picture is the sequence of drawings that made it, so an operation that is
lost, doubled or out of order shows. The UI thread's render is split at each lock it
takes or tries. Two history variables mark where the code may leave an old picture
until something asks for the next one: `missed`, a redraw that met a lock in both its
attempts, after which the code schedules no third, until a later render presents;
and `late`, a bitmap that the emulator thread fitted to a size the window had before,
until the UI thread fits it again. A third, `unasked`, marks that the background was
erased (`erase_window_background` needs no DC and tells the UI thread nothing) or that
DeleteDC took a DC (nor does it), and that no ReleaseDC or EndPaint has come since,
which asks for the render. ReleaseDC of a handle that is no DC of the window has the
second and third step all the same.

*GdiObjects.* A picture is the set of drawings and guest writes that went into it. What
the code does before a drawing (`sync_dib_pixels`) and after it
(`flush_dib_pixels_to_memory`) is part of each call. ReleaseDC, EndPaint and DeleteDC
take any handle and remove what it names, SetWindowRgn keeps any, and DeleteObject
removes a DC of the window as it does any other object. Three history variables say
where that breaks what the properties are about: `dropped`, objects in use that were
given to ReleaseDC; the `valid` of the window, which is false when its region was none;
and `leaked`, DCs of the window given to DeleteObject, which its surface counts for ever.

*Regions, Dib, RleBitmap, Raster.* Pixels of grids of four by four at most, with the
code's own arithmetic, against the set of points, the colour or the picture that
should come out. `Regions` has the set of points beside every list of rectangles, which
may reach beyond the window by a margin. The answer of CombineRgn to a mode that is none
(`drawing.rs:595`, the rectangle around both) is left out. The rectangles of `Raster`
may be empty or given from right to left. `Dib` has the bytes of the guest's memory; masks, palettes, padding
and row order are those of the header.

*Sound.* A position counts quarters of frames. The callback mixes a buffer in one
step, as it holds the lock of the sounds.

*Streams.* A file is its bytes and each open file its position and flags. `at` and
`alone` follow what the guest has been given by its own count, so that the read-ahead
can be compared with it. A seek to a place before the file's beginning moves the read
position alone (`SeekBefore`); the file is not `alone` after it.

*BasicString.* `value` is what C++ says a string holds after the same calls; buffers
hold the bytes. Sources lie in strings, also the string itself.

## 3. What the runs show

| run | instance | shows |
|---|---|---|
| `waits` | main and two workers, two events, one opaque handle, four kinds of wait, two ticks | `IInv`, the inductive invariant of the proofs, no lost wake-up, nothing left over from a call, valid snapshots, refinement of `BlockingWait` |
| `progress` | two workers with procedures called by the main thread; main and a worker with waits; a receiver and a thread that closes | ready workers run, finite calls end, a signal releases its waiter, recv ends with the socket; threads go on where they stopped, on stacks that are theirs |
| `dnet` | two channels, three frames, chunks that cut headers and bodies | refinement of `FrameServer`, frame boundaries and open/close protocol, no frame left waiting |
| `messages` | a worker's window with input; the same with timers; the worker alone, with timers and two input events | nobody sleeps on work the code wakes it for, messages at the owner, WM_QUIT after the last window, no repetitions in a queue |
| `sockets` | two threads and one socket: every blocking call for the data of one connection; one connection with a WSA event, whose waiters race with reads; two connections of the same handle, with a thread in recv when the first is closed | the stream is intact with its end after its data, nobody sleeps on data unless its wake-up was lost while it parked |
| `desktop` | three windows, two places, nested creation, four calls; one window with two draws and two moves; five GDI objects | the eight properties of windows, surfaces and objects in section 1 |
| `runtime` | ten words of heap; two regions in a window of four by four pixels; sections of three by two in eight formats; compressed pictures of four by two; three DCs; two sounds; one file; two strings | blocks, regions, pixels, drawing, sound, streams and strings are right after any sequence of calls |
| `message_lost` | main thread with a window | violation: section 6 |
| `select_blind` | as `sockets` | violation: section 6 |
| `worker_reenters` | as `progress`, a worker may call procedures | violation: section 6 |
| `torn_upload` | one window, two sizes | violation: section 6 |
| `self_blit` | five GDI objects | violation: section 6 |

### Bounds

The bounds are constants named in the modules: `MaxTime` (clock), `MaxQueue`,
`MaxInput` (messages and input), `MaxConns`, `MaxSends`, `MaxBytes` (sockets),
`MaxFrames`, `MaxChunks`, `MaxRest` (server), `MaxSteps`, `MaxNest` (scheduler),
`Limit` (heap), `MaxHwnd`, `MaxDepth`, `MaxCalls`, `MaxCmds` (windows), `MaxDraws`,
`MaxMoves`, `MaxDcs` (surface), `MaxHandle`, `MaxMarks` (GDI), `MaxOps`, `MaxPieces`,
`MaxLen` and the sizes of grids (runtime). They are chosen so that what can go wrong
does happen:

* Two ticks give a deadline that is before, at and after the clock, and a second wait
  that could inherit the limit of the first.
* Two workers make one wait on an event that the other consumes, and one vanish from
  the list in front of the other. With one procedure level, a round runs
  inside a procedure inside a round.
* Ten words hold three live blocks with free ones between, so that a free merges on
  the left, the right, on both sides and on neither.
* Three frames and one chunk in the channel let chunks end inside a header, inside a
  body, and after more than one frame, while the handler is behind.
* Two bytes of a connection are read in one piece, in two, and peeked first; two
  connections let an old feeder live on under a new connection. TLC has the three uses of
  a socket one at a time (`use`); the theorems are about all of it together, one thread
  asleep in recv while another waits for the event included.
* One posted message at a time is enough for sleep and wake-up, since a queue with
  one message and one with several are the same to a waiter; the merging needs two
  input events, which the third instance of `messages` has.
* Three windows are a parent, a child and a grandchild, or an owner between others;
  the third one's siblings are restacked. One command in the channel with another one
  blocked behind it is enough for a wake-up that is posted once for both.
* One open DC of the window is enough: a render looks only at whether there is any, and
  a release while others are open is the case of `ReleaseGdiDc` that finds no DC of the
  window. `torn_upload` has two.
* Two draws and two moves put a draw before, between and after two uploads and the
  resizes of both threads. A third move is what it takes for `late` to matter; the
  theorem covers any number.
* Five objects are a DC of the window, one of a bitmap, a bitmap or section, a region
  and a tool; two marks let a guest's write and a drawing follow each other in either order.
* Pictures of two or three rows have a first and a last row, padding at the end of
  each, and rectangles that lie inside, across and outside of them, are empty, or are
  given from right to left.
* Regions in a window of four by four have room for a hole, pieces that touch and one
  that reaches beyond the window. Two regions and three calls combine what was combined,
  compare it with a region that came about in another way, and guess a frame from it.
* A read-ahead area of two bytes in a file of five is refilled twice and left half
  read; strings of three characters have a beginning, a middle and an end to replace.

Mutants of the code, one for every property, confirm that the instances are large
enough for each property to fail.

Deadlock is checked in `waits` and `progress`. In the others the bounded client,
user or guest may have nothing left to do.

## 4. Fairness

Safety runs use none. The liveness properties assume:

* `KernelWait`, `FairSpec`: the loop of `run_emulator_impl` goes on, a retried call is
  executed when its thread has the CPU, a quantum ends (its instruction count is
  finite), and time passes. Guest code need not do anything.
* `Scheduler`, `FairSpec`: quanta end, and the host goes on with rounds. Guest code
  need not return from a procedure.
* `DNetServer`, `FairSpec`: the handler's thread runs. The client need not.
* `Sockets`, `LiveSpec`: the host threads run, and a thread that has begun to park
  finishes. A thread that is ready again and again gets its retry: this is strong
  fairness, because ready threads share one CPU, and `ReadyRuns` of `Scheduler` is
  the reason it may be assumed. `CloseEndsRecv` excludes connections that the handler
  has ended by itself, whose feeder is gone.

## 5. What is proved

TLAPS has checked the theorems below for every value of the constants: any number of
threads, windows, sockets, handles, frames, channels and calls. The eight proof modules
hold more than seven hundred lemmas. Each rests on an inductive invariant, because none of the
properties is inductive by itself.

* `KernelWait_proof`: `Inductive`, `TypeCorrect`, `NothingLeftOver`,
  `RetriesKeepRegistration`, `WakeupsAreNotLost`, `SnapshotsStayValid` and `Refinement`
  (`KernelWait` implements `BlockingWait`). That no wake-up is lost needs that a parked
  thread is registered for exactly the handles of its call, which needs that nothing
  was left over from the call before, which needs that a thread in a call is alive
  and not suspended, and that the round's snapshot does not hold the running thread.
  `IInv` is their conjunction with `Supporting`. It is split into `ThreadOK(t)`, for
  one thread, and `LoopInv`, because a step disturbs one thread and `Undisturbed`
  settles the others. For the refinement, `blocked` is the call of a thread in a
  wait: a retry that parks again leaves it as it is, which is why retries are
  invisible.
* `Scheduler_proof`: `ListHoldsItsStacks` needs nothing of the guest. `GoesOn` and
  `StacksAreInUse` assume `Callers \subseteq {Main}`, that only the main thread calls
  guest procedures; the run `worker_reenters` shows that they are false without it.
  The invariant is `TurnInv`: besides one entry and one stack per thread, that there
  is at most one round and it is on top of all procedures (`OneRound`), that its
  indices still name the threads they were taken from, and that the registers in
  the CPU, in a snapshot not yet run and in the list are those after the last step
  of their thread (`Registers`). `OneRound` is why indices may be used for the write-back:
  the list shrinks only where no snapshot is alive.
* `Runtime_proof`, on `Heap`: `BlocksDisjoint`, `MemoryConserved`, `FreeBlocksCoalesced`,
  `LiveBlocksAreStable`, `MergeLoopIsRight`, for every heap size and set of requests.
  `HeapInv` joins type, disjointness, conservation and merging. Every operation is a
  take from the free list or the cursor, a give-back, or both; the lemmas say that each
  keeps `HeapOK`. For the loop of `push_free_block`, `ByAddressIs` says that sorting
  gives every block its place, and `Midway` what the loop has made of the blocks it has
  passed: the same as `PushFree` of them, with the last one last. It needs all of
  `HeapInv`: the blocks do not overlap, and no two of the free list touched before.
* `DNetServer_proof`: `HandlerIsFrameServer` (`DNetServer` implements `FrameServer`) and
  `ChannelsStayInOrder`. For the first, `Stream` says that buffer, chunks and what the
  client has yet to write are together a sequence of whole frames. A write of the
  client then adds whole frames to `Todo` or none, a chunk that is received leaves it as
  it is, and a turn of the loop takes exactly its first frame. For the second,
  `Conversation` says that `open_channels` holds just those channels whose last
  OPEN_OK no close or abort of the client followed in the log.
* `MessageQueue_proof`: `QueueInvHolds`, `NobodySleepsWhileThereIsWork`,
  `MessagesReachTheirOwners`, `NothingPilesUp`, `LoopsLearnOfTheirEnd`. The first part
  is about queues: `QueueOK` says that a queue's messages are for its thread's windows
  (`For`) and not repeated (`Single`), and there is a lemma for each way a queue is
  changed. A queue some of whose messages are taken out is `Drawn` from it; a message
  that is added `MayFollow` the others. The second is about who sleeps. `QueueInv` adds
  to the queues that a timer belongs to the thread of its window, that an event the UI
  thread has under way has looked up the thread of its window (`UIOK`), and `Noticed`:
  a thread that is parked, *or between its last look and its parking*, has nothing to
  do, or a wake-up is on its way to it, or it is one of those the code does not wake.
  Without the second case the property is not inductive, and `message_lost` is why
  the last one cannot go.
* `WindowTree_proof`: `WindowTreeHolds`, `ParentsOutliveTheirHostWindows`,
  `EveryCommandWakes`, `RestackingKeepsOrder`, `HostWindowsFollow`. `TreeInv` says of
  every handle where it exists: a window without its host window has its create
  command under way, a host window without its window the destroy command, each once
  and in this order. `LinkInv` says that whoever is or will be linked to a window is
  destroyed in the channel before it; it holds because `DestroyOrder` goes children
  first and because commands keep their order. `WakeInv` relates the pending flag and
  the event.
  For the last theorem, `HostInv` says of every window of the guest that the last
  command under way about its existence, its place or its visibility, or if there is
  none the host's window, has what the guest believes.
* `Gdi_proof`, on `Surface`: `SurfaceHolds`, `WindowShowsWhatWasDrawn`, `BitmapHasWindowsSize`.
  `TextureInv` says that the texture has what is on the bitmap, or that a flag, a
  call or a render under way knows that it has not; `SizesInv` that the last event or
  command still under way has the size the bitmap will get; `ShownInv` that what is
  shown is the bitmap, or a render is owed or under way. The proof showed that the
  property had been too strong: with three moves, which no run had, the emulator
  thread can fit the bitmap to a size it read before the UI thread fitted it to the
  next (`late`).  What the emulator thread changes without telling the UI thread, by
  erasing or by DeleteDC, is remembered in `unasked` until it does.
* `Gdi_proof`, on `GdiObjects`: `TableHolds`, `SelectedAlwaysExist`, `OpenDcsAreCounted`,
  `NothingStaysUndrawn`. `delete_object` keeps what is selected, and the count of
  open DCs never has to go below zero because each DC that is released was counted:
  both need the types of all objects that a DC refers to. Handles are not used again,
  so what was `dropped` or `leaked` stays so, and the theorems say exactly which
  references dangle and by how much the count is too high.
* `Sockets_proof`: `SocketTypes`, `StreamsAreIntact`, `NobodySleeps`. The first invariant,
  `Streams`, says of every connection that what the guest has received, what is in
  `recv_buf` and what is in the two channels are together what the handler sent; that
  handles and connections do not get mixed up (`Numbered`); and that a feeder that is
  ending, whose socket is still there, leaves no chunk behind and no handler that could
  send another (`EndsEmpty`). Without the last one an end that is reported need not mean
  that all has been received. Every call that reads moves bytes from the right end of
  this concatenation to the left without changing it (`Moved`): the lemmas `RecvMoves`,
  `LookMoves`, `SelectMoves`, `WaitMoves` and `EnumMoves` say so of each. The second
  invariant, `Waits`, says that a thread is registered for what its call waits for, and
  that one that sleeps, *or has looked and has not parked yet*, has nothing to receive
  unless the feeder is still to come to its waking steps and has the thread's event
  listed (`Announced`); those in `unwoken` are excepted. The property names the feeder's position alone, which is why it
  is not inductive.
* `Runtime_proof`, on `BasicString`: `StringsHoldTheirValues`. The property alone is not
  inductive: two strings with one buffer and the same value satisfy it until one is
  written to. `OwnBuffers` adds that only the buffer of the empty string is shared and
  that no byte of it is in a string. A new buffer is always one that no string points
  to (`NewBufferIsNew`, by the pigeonhole principle), and `BufferKeeps` says that giving
  one string such a buffer leaves the others as they were; what remains of each call is
  that the bytes it copies are those C++ says (`PieceIs`, `ReplacedIs`, `CStringIs`).
* `Runtime_proof`, on `Sound`: `SoundsHold`, `SoundsAreHeardThrough`, `SoundsKeepTime`.
  `SoundOK` relates what was heard of a sound to its position: the position is one step
  behind what was heard last, unless the sound is back at its start, and it never
  exceeds the end by a step. `FrameIs` says what a frame of the mixer does to a sound
  that goes on, wraps or ends, and the loop over a buffer is unfolded as above
  (`FramesIs`). For the time, `InTime` compares the position after i frames with
  i steps and, for a sound that repeats, the number of times it was wrapped.
* `Runtime_proof`, on `Streams`: `ReadsAlwaysGoOn`. The property speaks of what is unread;
  put-backs make read bytes unread again, so `StreamInv` says of a filebuf that has its
  file for itself that all of its area up to the write position, read or not, is the
  file just before the file's position, and that the guest stands where the unread part
  begins (`Mirrors`). A call that reads takes one reader to another (`Follows`): filling
  the area (`RefillIs`), one byte (`TakeByteOK`), and, by unfolding their loop, blocks,
  lines and numbers (`TakeWhileOK`). What any call does to the other filebufs is said
  once (`StepOK`): each is as it was with its file `Quiet`, or is told that it is not
  alone any more (`Moved`). While proving it the loops of the model turned out to leave
  the area and the end-of-file flag as they were when the byte they stop at has to be
  read first; the code has filled the area by then, and now so has the model (`TakeIf`).
* `Runtime_proof`, on `Raster`: `TextureRepeats`, `DrawnInsideClip`. Rectangles cut by a
  clip cover what lies in one of them and in the clip (`ClippedIs`). The interesting
  call is Rectangle, which the CPU draws as four lines point by point and the GPU as
  four thin rectangles: the loop of `draw_line` on a level or upright line is unfolded
  into the points it visits (`Walks`, `LevelLine`, `UprightLine`), and then the four
  sides have the same points (`SidesDrawn`, `SidesAre`). That fails for a rectangle
  without points, given from right to left for instance: its lines are drawn, its
  sides are empty and not queued. The model had missed it, because its run never tried
  one; it now counts as approximated, and the run tries turned rectangles as well.
* `Runtime_proof`, on `RleBitmap`: `PicturesAreDecoded`. The property says nothing about
  a decoder on the way. `InStep` says that the turns of its loop for the bytes so far,
  each of which had all its bytes (`Complete`), have brought it to the encoder's offset,
  place and picture, or to an end behind which nothing counts. Such turns do the same
  when more bytes follow (`TraceStays`), so that a piece is one more turn
  (`PieceKeeps`): one lemma for each kind of piece says that this turn undoes it. For
  literal runs that is that the values are read back from their halves of bytes and
  that the padding is skipped (`LiteralBytesAre`, `LiteralPiece`).
* `WindowTree_proof`, on `Regions`: `RegionsAreExact`. `RegionsInv` says of each region that
  its points, in the whole plane, are those the calls say, and that its rectangles lie
  apart by their edges (`Separate`), not only in the points the run looks at. Cutting
  one rectangle out of another leaves at most four that lie apart and cover the rest
  (`SubtractIs`), and so does the loop over lists (`CutOutIs`, `SubtractRegionIs`). For
  the canonical form, intervals and bands are one kind of thing, spans with something in
  them, and one lemma about the merging loop serves both (`MergedIs`): what comes out is
  `Tidy`, that is sorted, apart, and merged wherever it could be. The theorem needs that
  the form is a function of the points alone: two tidy lists with the same in them
  everywhere are the same list (`SameLists`, by the first span in which they differ),
  once for the intervals of each row and once for the bands (`CanonicalSame`). The
  edges between which the bands lie differ from list to list; `RowIs` says that
  between two of them the same rectangles are in every row.
* In `WindowTree_proof` as well, since the run `desktop` has the three parts beside each
  other: `DesktopShowsWhatWasDrawn`, `DesktopSelectedExist`, `DesktopCountsOpenDcs` and
  `DesktopLeavesNothingUndrawn` carry the theorems over to it.

Assumptions are those named in `KernelWait` (`DistinctAssumption`,
`WaitCallsAssumption`), `Heap` (`HeapAssumption`), `BasicString` (`StringAssumption`: finitely many strings at a
time, a byte of a literal is not NUL), `Sound` (`SoundAssumption`: waves have a rate,
frequencies are finitely many), `Streams` (`StreamAssumption`: bytes are numbers, the
area is not empty, a call that reads or writes does so to one byte at least), `Raster` (`RasterAssumption`: rectangles and points have whole
coordinates, a clip is a list of rectangles), `RleBitmap` (`RleAssumption`: what is
encoded fits the bytes it is written in; a literal run has three to 255 values, as fewer
are other codes), `Regions` (`RegionsAssumption`: rectangles have whole coordinates, and those that regions are made
of lie within the margin), `DNetSession` (`SessionAssumption`),
`DNetServer` (`FrameAssumption`), `Sockets` (`EntryAssumption`: the values that stand
for "no entry" and "no socket" are neither) and in the other modules, and TLC evaluates them in
the runs.

The proofs by induction (that the frames in a stream are those of its two parts, that
a subtree is listed children first, that the loop of `push_free_block` merges what it
should) go over the least exception: `Least`, from the library's `WFMin`, gives a
least element of a set of numbers. It also unfolds the recursive functions behind
`FlattenSeq`, `SubtractRegion`, `Merged`, `Whole`, `MergeLoop`, `Without`, `Postorder`, `Walk` and `Decoding`, which are functions chosen by
an equation.

Model-checked only:

* the liveness properties of `progress` and `dnet`, which no prover here handles;
* the formats of DIB sections (`PictureStays`), where pixels go to bytes and back in
  every format, which TLC compares for all pictures of a small size.

## 6. Where the code and its comments disagree

* **A message can be slept on** (`message_lost`). GetMessage finds its queue empty,
  releases the lock and then clears its ready flag. A message and wake-up of the UI
  thread in between are undone by the clearing. `wake_emulator` says it has the new
  message handled at once (`ui/win_frame.rs:779`). The thread wakes with its next
  timer or message.
* **select sleeps on data** (`select_blind`). It writes the result, an empty set, to
  the fd_set before it parks, and registers from and retries with that set.
* **A worker is run twice at once** (`worker_reenters`). Inside a window procedure
  called by a worker, a round takes that worker as ready and runs it from the
  registers it had at the start of its quantum.
* **The size of a bitmap and its pixels are read apart** (`torn_upload`). The renderer
  takes the size under the lock of the objects and locks the pixels later. When the
  emulator thread, which has read the window's new and smaller size, fits the bitmap
  between the two, the upload has fewer pixels than its size asks for.
  `sync_window_surface_bitmap` keeps the part that both bitmaps have so that the picture
  does not break right after a resize (`dll/win32/mod.rs:954`); this one does.
* **A blit inside one bitmap never returns** (`self_blit`). BitBlt and StretchBlt lock
  the pixels of target and source, which are then one mutex. In the run a memory DC
  is copied onto itself.

The properties of passing runs are stated where these do not apply, and where the code
has no answer to what its callers do:

* `NobodySleepsOnWork` excepts threads in `unwoken` of `MessageQueue`: a wake-up came
  while they were parking; or a message, a window to paint or a timer came from a call
  that wakes nobody: TranslateMessage, DefWindowProc (WM_SYSCOMMAND and WM_CLOSE,
  `user32/message.rs:1104`), ScrollWindowEx (`paint.rs:360`) and SetTimer for a window of
  another thread, and the WM_MOUSEMOVE before a button other than left and right.
* `NoSleepOnData` and `SelectNotices` except threads in `unwoken` of `Sockets`. As with
  messages, recv and WSARecv look at the socket under its lock (`ws2_32.rs:559`), give
  that up, and clear the ready flag (`:588`); when the feeder has passed on data and
  woken the thread in between, the thread sleeps on the data until more comes or
  something else wakes it. So does a wait on a WSA event. WSAEventSelect, which puts
  another socket under an event, wakes nobody either (`:1226`).
* `GoesOnWhereItStopped` is checked where only the main thread calls procedures.
* `ShowsWhatWasDrawn` excepts pictures with a torn upload, those in `missed` and `late`,
  and those in `unasked`: WM_ERASEBKGND draws without asking for a render and without
  needing a DC (`paint.rs:166`), and DeleteDC closes a DC without one.
* `SelectedExist` excepts what was `dropped`: `release_gdi_dc` removes the handle before it
  looks whether it was a DC (`dll/win32/mod.rs:537`); and a window region that was none
  when SetWindowRgn took it (`window.rs:1039`).
* `CountsOpenDcs` counts the `leaked` DCs of a window that DeleteObject took
  (`gdi32/dc.rs:176`); the window is not rendered again.
* `GpuRepeats` excepts what the GPU only approximates, frames of empty or reversed
  rectangles among it, and `ReadsGoOn` filebufs after a seek that their file refused.

Also met while modelling, with no line in the repository that says otherwise:

* A redraw whose two attempts both meet a held lock is not tried again until the next
  one is asked for (`missed` in `Surface`).
* SetWindowLong changes visibility without a command to the UI thread in some cases, and
  a host window without a parent is created visible whatever the guest says (`untold` in
  `WindowTree`, which `HostFollows` excepts); the UI thread's main window and the guest's
  can differ (`win_event.rs:55`, `win_frame.rs:483`).
* An empty rectangle, or one given from right to left, is framed on the CPU and not on the GPU
  (`gdi32/drawing.rs:811`, where sides without points are dropped at `:41`), until the
  next upload of the whole bitmap.
* SetPixel does not ask for the clip (`gdi32/drawing.rs:1173`); GetPixel does not look
  at a section's memory (`:1093`).
* Selecting another bitmap into a DC of a window leaves the window's count of open DCs
  as it was (`gdi32/dc.rs:84`); guests are assumed to select into memory DCs only.
* A write through a filebuf goes to where its read-ahead ended (`msvcp60/mod.rs:816`),
  and a seek from the current position counts from there (`streambuf.rs:164`). A seek to
  before the file's beginning, which the file refuses (`mod.rs:882`), moves the read
  position in the area alone (`streambuf.rs:195`).
* A string written into memory that is too small for it is written as far as the
  *remaining* bytes of the capacity beyond the write position (`msvcp60/mod.rs:853`).
* `_Eos` after `_Grow` zeroes what the guest wrote in between
  (`msvcp60/basic_string.rs:86`).
* A sound played without an audio device, or without samples, plays for ever
  (`rare.rs:1135`).

## 7. Not modelled, and what comes next

Left out of the modelled components: critical sections, mutexes and interlocked
functions (no state, or one assignment); PulseEvent and TerminateThread (no effect);
SendMessage and hooks (nested calls, which `Scheduler` has in general); socket options
and name look-ups (no state); contents of server answers; window classes and texts
(tables without rules); text, fonts, ellipses and polygons (pictures without a
reference to compare them with); volume, pan, and the decoding of WAV and MP3 (data);
locales and formatting.

Left out altogether: GPU pipelines and shaders, string and number formatting, the PE
loader (runs once, before any guest code), files and registry (passed to the host),
dialogs, menus and input state (single assignments or fixed answers), logging and
drawing of the debugger.

Not proved, and why: what `Dib` promises. It multiplies and divides by powers of two
that depend on the format, which no prover here handles; its run enumerates small
pictures in every format instead.
