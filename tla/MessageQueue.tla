---------------------------- MODULE MessageQueue ----------------------------
(***************************************************************************)
(* Window messages: every guest thread has a queue in                      *)
(* Win32Context::message_queues.  Guest threads post to it, set timers,    *)
(* invalidate and destroy windows, and fetch messages with GetMessage,     *)
(* PeekMessage and MsgWaitForMultipleObjects; the host's UI thread adds    *)
(* input.  The guest threads take turns on one host thread, so an API call *)
(* is one step; only the calls that block give way to the UI thread        *)
(* between looking at the queue and parking.                               *)
(***************************************************************************)
EXTENDS Integers, Sequences, FiniteSets, SequencesExt

CONSTANTS
  Threads,        \* queue keys; 0 is the main thread
  Windows,        \* the windows that exist at the start
  FirstOwner,     \* owner_thread_id of each
  TimerIds,
  Positions,      \* mouse positions
  Never,          \* no time, no position, no thread
  MaxTime,        \* bound: the clock
  MaxQueue,       \* bound: length of a queue a sender adds to
  MaxInput        \* bound: input events of the user

ASSUME MessageAssumption ==
  /\ 0 \in Threads /\ 1 \notin Threads /\ FirstOwner \in [Windows -> Threads]
  /\ 0 \notin Windows /\ Never \notin Threads \cup Positions \cup Nat
  /\ MaxTime \in Nat /\ MaxQueue \in Nat /\ MaxInput \in Nat

VARIABLES
  queue,       \* message_queues
  timers,      \* Win32Context::timers, by id
  windows,     \* the windows in WinEvent::windows
  needsPaint,  \* those with WindowState::needs_paint
  hostWindows, \* WinFrame::id_to_hwnd, the windows the UI thread knows
  call,        \* "none", or the blocking call a thread is in
  parking,     \* the guest thread between its last look and its parking
  ready,       \* main_ready, EmulatedThread::ready
  deadline,    \* main_resume_time and main_wait_deadline, resume_time and wait_deadline
  now,         \* the clock
  mouse,       \* Win32Context::mouse_x, mouse_y
  lastSent,    \* WinFrame::last_sent_mouse_pos
  lastMoved,   \* the window of WinFrame::last_cursor_moved
  track,       \* the window of Win32Context::track_mouse_event
  ui,          \* what the UI thread is about to do
  inputs,      \* events so far
  unwoken,     \* threads that got a message or a timer and no wake-up that lasts
  quitSeen     \* workers that took a WM_QUIT off their queue

pump  == <<queue, timers, windows, needsPaint, quitSeen>>
waits == <<call, parking, ready, deadline, unwoken>>
host  == <<hostWindows, mouse, lastSent, lastMoved, track, ui, inputs>>
vars  == <<pump, waits, host, now>>

NoWindow == 0

\* A message is "post" when nothing depends on its type.
Msg(w, type, arg) == [hwnd |-> w, type |-> type, arg |-> arg]
UIIdle == [step |-> "idle"]

\* window_owner_thread_id: a window that is gone counts as the main thread's.
Owner(w)  == IF w \in windows THEN FirstOwner[w] ELSE 0
Owned(t)  == {w \in windows : FirstOwner[w] = t}
Has(q, w, type) == \E i \in DOMAIN q : q[i].hwnd = w /\ q[i].type = type

\* The queue that retain() leaves.  (The provers know nothing of SelectSeq.)
Without(q, gone) ==
  LET kept[n \in 0 .. Len(q)] ==
        IF n = 0 THEN <<>>
        ELSE IF q[n] \in gone THEN kept[n - 1] ELSE Append(kept[n - 1], q[n])
  IN  kept[Len(q)]

Init ==
  /\ queue = [t \in Threads |-> <<>>]
  /\ timers = [i \in {} |-> Never]
  /\ windows = Windows /\ needsPaint = {} /\ hostWindows = Windows
  /\ call = [t \in Threads |-> "none"] /\ parking = Never
  /\ ready = [t \in Threads |-> TRUE]
  /\ deadline = [t \in Threads |-> Never]
  /\ now = 0
  /\ mouse \in Positions /\ lastSent = <<NoWindow, Never>> /\ lastMoved = NoWindow
  /\ track = NoWindow /\ ui = UIIdle /\ inputs = 0
  /\ unwoken = {} /\ quitSeen = {}

-----------------------------------------------------------------------------
(* Waking and timers.                                                        *)

\* wake_thread_message_wait.
Woken(r, t) == [r EXCEPT ![t] = TRUE]
WakeUp(t)   == ready' = Woken(ready, t) /\ unwoken' = unwoken \ {t}

Expired(t) == {i \in DOMAIN timers : timers[i].owner = t /\ now >= timers[i].due}

\* enqueue_elapsed_timer_messages: one WM_TIMER per timer at a time, and the next
\* tick counts from now either way.
WithTimers(t, q) ==
  LET msgs == {Msg(timers[i].hwnd, "timer", i) : i \in Expired(t)}
  IN  q \o SetToSeq(msgs \ ToSet(q))

Rearmed(t) ==
  [i \in DOMAIN timers |->
     IF i \in Expired(t) THEN [timers[i] EXCEPT !.due = now + timers[i].elapse]
     ELSE timers[i]]

\* next_timer_deadline.
NextTimer(ts, t) ==
  LET due == {ts[i].due : i \in {j \in DOMAIN ts : ts[j].owner = t}}
  IN  IF due = {} THEN Never ELSE CHOOSE d \in due : \A e \in due : d <= e

Earlier(a, b) == IF a = Never \/ (b # Never /\ b < a) THEN b ELSE a

\* The deadline of a thread has passed.
Due(t) == IF deadline[t] = Never THEN FALSE ELSE now >= deadline[t]

\* A thread the scheduler may run: woken, or its time has come.  No other guest
\* thread runs while one is parking.
MayRun(t) ==
  /\ parking = Never
  /\ ready[t] \/ Due(t)

Free(t) == MayRun(t) /\ call[t] = "none"
Room(t) == Len(queue[t]) < MaxQueue

-----------------------------------------------------------------------------
(* Calls of the guest that do not block.                                     *)

\* PostMessageA, PostThreadMessageA, PostQuitMessage: the message is queued, then
\* the owner of the queue is woken.
Post(t, m) ==
  /\ Room(t)
  /\ queue' = [queue EXCEPT ![t] = Append(@, m)]
  /\ WakeUp(t)
  /\ UNCHANGED <<timers, windows, needsPaint, quitSeen, call, parking,
                 deadline, host, now>>

\* normalize_queue_thread_id: the main thread is 1 to the guest.
Key(id) == IF id = 1 THEN 0 ELSE id

PostMessage(s) ==
  \/ \E w \in Windows : Post(Owner(w), Msg(w, "post", Never))
  \/ Post(s, Msg(NoWindow, "post", Never))
PostThreadMessage(s) == \E id \in Threads \cup {1} : Post(Key(id), Msg(NoWindow, "post", Never))
PostQuit(s)          == Post(s, Msg(NoWindow, "quit", Never))

\* A message for one of the windows in ws is queued and nobody is woken.
QueueOnly(ws) ==
  /\ \E w \in ws :
       LET t == Owner(w)
       IN  /\ Room(t)
           /\ queue' = [queue EXCEPT ![t] = Append(@, Msg(w, "post", Never))]
           /\ unwoken' = IF ready[t] THEN unwoken ELSE unwoken \cup {t}
  /\ UNCHANGED <<timers, windows, needsPaint, quitSeen, call, parking, ready,
                 deadline, host, now>>

\* TranslateMessage for a message the thread took off its queue; the owner of a window
\* that is gone is another thread.
TranslateMessage(s) == QueueOnly(Owned(s) \cup (Windows \ windows))

\* DefWindowProc queues a WM_SYSCOMMAND for a click on a caption button and a WM_CLOSE
\* for SC_CLOSE.
DefWindowProc(s) == QueueOnly(Windows)

\* _TrackMouseEvent: ask for a WM_MOUSELEAVE, or no more.
TrackMouseEvent(s) ==
  /\ \E w \in windows \cup {NoWindow} : track' = w
  /\ UNCHANGED <<pump, waits, hostWindows, mouse, lastSent, lastMoved, ui, inputs, now>>

\* Mutant: the timer belongs to the thread that sets it.
SetTimerForCaller(s) ==
  /\ \E w \in windows \cup {NoWindow}, i \in TimerIds :
       timers' = [j \in DOMAIN timers \cup {i} |->
                    IF j = i THEN [hwnd |-> w, owner |-> s, elapse |-> 1, due |-> now + 1]
                    ELSE timers[j]]
  /\ UNCHANGED <<queue, windows, needsPaint, quitSeen, waits, host, now>>

\* SetTimer: the timer belongs to the thread of the window, which is not woken to see
\* it.  The table is keyed by the id alone, so it replaces any other with that id.
SetTimer(s) ==
  /\ \E w \in windows \cup {NoWindow}, i \in TimerIds :
       /\ timers' = [j \in DOMAIN timers \cup {i} |->
                       IF j = i THEN [hwnd |-> w, owner |-> Owner(w), elapse |-> 1, due |-> now + 1]
                       ELSE timers[j]]
       /\ unwoken' = IF ready[Owner(w)] THEN unwoken ELSE unwoken \cup {Owner(w)}
  /\ UNCHANGED <<queue, windows, needsPaint, quitSeen, call, parking, ready, deadline,
                 host, now>>

\* KillTimer: the window has to match as well.
KillTimer(s) ==
  /\ \E i \in DOMAIN timers :
       timers' = [j \in DOMAIN timers \ {i} |-> timers[j]]
  /\ UNCHANGED <<queue, windows, needsPaint, quitSeen, waits, host, now>>

InvalidateRect(s) ==
  /\ \E w \in windows :
       /\ needsPaint' = needsPaint \cup {w}
       /\ WakeUp(Owner(w))
  /\ UNCHANGED <<queue, timers, windows, quitSeen, call, parking, deadline, host, now>>

\* ScrollWindowEx with SW_INVALIDATE or SW_ERASE marks the window and wakes nobody.
ScrollWindowEx(s) ==
  /\ \E w \in windows :
       /\ needsPaint' = needsPaint \cup {w}
       /\ unwoken' = IF ready[Owner(w)] THEN unwoken ELSE unwoken \cup {Owner(w)}
  /\ UNCHANGED <<queue, timers, windows, quitSeen, call, parking, ready, deadline, host, now>>

\* UpdateWindow: a WM_PAINT is queued unless there is one.
UpdateWindow(s) ==
  /\ \E w \in needsPaint :
       /\ queue' = IF Has(queue[Owner(w)], w, "paint") THEN queue
                   ELSE [queue EXCEPT ![Owner(w)] = Append(@, Msg(w, "paint", Never))]
       /\ WakeUp(Owner(w))
  /\ UNCHANGED <<timers, windows, needsPaint, quitSeen, call, parking,
                 deadline, host, now>>

\* ValidateRect, BeginPaint.
ValidateRect(s) ==
  /\ \E w \in needsPaint : needsPaint' = needsPaint \ {w}
  /\ UNCHANGED <<queue, timers, windows, quitSeen, waits, host, now>>

Purged(w) ==
  [t \in Threads |-> Without(queue[t], {m \in ToSet(queue[t]) : m.hwnd = w})]

\* cleanup_window_runtime_state.
TimersLeft(w) == [i \in {j \in DOMAIN timers : timers[j].hwnd # w} |-> timers[i]]

\* Mutant: the owners that remain are collected before the window is removed.
OrphanedBefore(w) == FirstOwner[w] # 0 /\ Owned(FirstOwner[w]) = {}

\* The thread whose last window goes away, unless it is the main thread.
Orphaned(w) == FirstOwner[w] # 0 /\ Owned(FirstOwner[w]) = {w}

\* queue_thread_quit: one WM_QUIT at most.
QuitQueued(q) == IF Has(q, NoWindow, "quit") THEN q
                 ELSE Append(q, Msg(NoWindow, "quit", Never))

\* DestroyWindow: the window's timers and messages are removed, then the window,
\* then its thread is told to quit if it has no other.  The UI thread learns of it
\* later; a message it adds in between counts as one added afterwards.
DestroyWindow(s) ==
  /\ \E w \in windows :
       LET t == FirstOwner[w]
           q == Purged(w)
       IN  /\ timers' = TimersLeft(w)
           /\ windows' = windows \ {w} /\ needsPaint' = needsPaint \ {w}
           /\ IF Orphaned(w)
              THEN queue' = [q EXCEPT ![t] = QuitQueued(@)] /\ WakeUp(t)
              ELSE queue' = q /\ UNCHANGED <<ready, unwoken>>
  /\ UNCHANGED <<quitSeen, call, parking, deadline, host, now>>

-----------------------------------------------------------------------------
(* Fetching messages.                                                        *)

\* The effect of handing message m to thread t.
Delivered(t, m) ==
  /\ needsPaint' = IF m.type = "paint" THEN needsPaint \ {m.hwnd} ELSE needsPaint
  /\ quitSeen' = IF m.type = "quit" /\ t # 0 THEN quitSeen \cup {t} ELSE quitSeen

\* clear_retry_wait.
Leave(t) ==
  /\ call' = [call EXCEPT ![t] = "none"]
  /\ ready' = [ready EXCEPT ![t] = TRUE]
  /\ deadline' = [deadline EXCEPT ![t] = Never]
  /\ unwoken' = unwoken \ {t}
  /\ UNCHANGED parking

\* GetMessageA finds a message: the oldest, or a WM_PAINT if there is none.  The
\* WM_PAINT is pushed and popped again.
GetMessage(t) ==
  /\ MayRun(t) /\ call[t] \in {"none", "get"}
  /\ LET q == WithTimers(t, queue[t])
     IN  \/ /\ q # <<>>
            /\ queue' = [queue EXCEPT ![t] = Tail(q)]
            /\ Delivered(t, Head(q))
         \/ /\ q = <<>>
            /\ \E w \in Owned(t) \cap needsPaint : Delivered(t, Msg(w, "paint", Never))
            /\ UNCHANGED queue
  /\ timers' = Rearmed(t)
  /\ Leave(t)
  /\ UNCHANGED <<windows, host, now>>

\* PeekMessageA looks for the first message of a window, or of any, and makes up a
\* WM_PAINT if there is none; PM_REMOVE takes it.
Matches(m, w) == w = NoWindow \/ m.hwnd = w

PeekMessage(t) ==
  /\ Free(t)
  /\ \E w \in windows \cup {NoWindow}, remove \in BOOLEAN :
       LET q    == WithTimers(t, queue[t])
           hits == {i \in DOMAIN q : Matches(q[i], w)}
           hit  == CHOOSE i \in hits : \A j \in hits : i <= j
           painted == {x \in Owned(t) \cap needsPaint : w \in {NoWindow, x}}
       IN  /\ queue' = [queue EXCEPT ![t] = IF remove /\ hits # {} THEN RemoveAt(q, hit) ELSE q]
           /\ \/ remove /\ hits # {} /\ Delivered(t, q[hit])
              \/ remove /\ hits = {} /\ \E x \in painted : Delivered(t, Msg(x, "paint", Never))
              \/ /\ ~remove \/ (hits = {} /\ painted = {})
                 /\ UNCHANGED <<needsPaint, quitSeen>>
  /\ timers' = Rearmed(t)
  /\ UNCHANGED <<windows, waits, host, now>>

\* has_pending_ui_message.
Pending(t) == WithTimers(t, queue[t]) # <<>> \/ Owned(t) \cap needsPaint # {}

\* MsgWaitForMultipleObjects returns: a message is there, or its time is over (or
\* was 0).  "msgforever" is the call with INFINITE.
MsgWaitReturns(t) ==
  /\ MayRun(t) /\ call[t] \in {"none", "msgwait", "msgforever"}
  /\ \/ Pending(t) \/ call[t] = "none"
     \/ call[t] = "msgwait" /\ Due(t)
  /\ queue' = [queue EXCEPT ![t] = WithTimers(t, @)]
  /\ timers' = Rearmed(t)
  /\ Leave(t)
  /\ UNCHANGED <<windows, needsPaint, quitSeen, host, now>>

\* Neither call finds anything and decides to park.
Empty(t, kind) ==
  /\ MayRun(t) /\ call[t] \in {"none", kind} /\ ~Pending(t)
  /\ kind = "msgwait" => ~Due(t)
  /\ call' = [call EXCEPT ![t] = kind]
  /\ parking' = t
  /\ unwoken' = unwoken \ {t}
  /\ UNCHANGED <<pump, ready, deadline, host, now>>

\* Mutant: the thread parks without looking at its timers.
ParkForever(t) ==
  /\ parking = t
  /\ ready' = [ready EXCEPT ![t] = FALSE]
  /\ deadline' = [deadline EXCEPT ![t] = Never]
  /\ parking' = Never
  /\ UNCHANGED <<pump, call, unwoken, host, now>>

\* The time MsgWait asks for; a retry finds it in wait_deadline, where the next
\* timer may have replaced it.
Limits(t) ==
  CASE call[t] # "msgwait"   -> {Never}
    [] deadline[t] = Never   -> {now + 1}
    [] OTHER                 -> {deadline[t]}

\* set_wait_handles, next_timer_deadline, schedule_retry_wait.
Park(t) ==
  /\ parking = t
  /\ ready' = [ready EXCEPT ![t] = FALSE]
  /\ \E limit \in Limits(t) :
       deadline' = [deadline EXCEPT ![t] = Earlier(limit, NextTimer(timers, t))]
  /\ parking' = Never
  /\ UNCHANGED <<pump, call, unwoken, host, now>>

-----------------------------------------------------------------------------
(* The UI thread.  Input is handled in steps that the emulator thread may   *)
(* come between: look up the owner, queue, wake.                             *)

Input(step, w) == [step |-> step, hwnd |-> w, tid |-> Owner(w), wake |-> <<>>]
Wake(tids)     == [step |-> "wake", wake |-> tids]

\* CursorMoved within 16 ms of the last one on the window only stores the position.
CursorThrottled ==
  /\ ui = UIIdle /\ inputs < MaxInput /\ lastMoved \in hostWindows
  /\ \E p \in Positions : mouse' = p
  /\ inputs' = inputs + 1
  /\ UNCHANGED <<pump, waits, hostWindows, lastSent, lastMoved, track, ui, now>>

CursorMoved ==
  /\ ui = UIIdle /\ inputs < MaxInput
  /\ \E p \in Positions, w \in hostWindows :
       /\ mouse' = p /\ lastSent' = <<w, p>> /\ lastMoved' = w
       /\ ui' = Input("move", w)
  /\ inputs' = inputs + 1
  /\ UNCHANGED <<pump, waits, hostWindows, track, now>>

\* MouseInput; a button other than left and right sends no message of its own.
MouseInput ==
  /\ ui = UIIdle /\ inputs < MaxInput
  /\ \E w \in hostWindows, step \in {"click", "othermouse"} : ui' = Input(step, w)
  /\ inputs' = inputs + 1
  /\ UNCHANGED <<pump, waits, hostWindows, mouse, lastSent, lastMoved, track, now>>

\* CloseRequested, KeyboardInput, Ime, Focused, Moved ("post"), Resized ("size").
OtherInput ==
  /\ ui = UIIdle /\ inputs < MaxInput
  /\ \E w \in hostWindows, step \in {"post", "size"} : ui' = Input(step, w)
  /\ inputs' = inputs + 1
  /\ UNCHANGED <<pump, waits, hostWindows, mouse, lastSent, lastMoved, track, now>>

\* CursorLeft: WM_MOUSELEAVE for the window, if it asked for one.
CursorLeft ==
  /\ ui = UIIdle /\ inputs < MaxInput /\ track \in hostWindows
  /\ ui' = Input("leave", track)
  /\ inputs' = inputs + 1
  /\ UNCHANGED <<pump, waits, hostWindows, mouse, lastSent, lastMoved, track, now>>

FirstOf(q, w, type) ==
  CHOOSE i \in DOMAIN q :
    /\ q[i].hwnd = w /\ q[i].type = type
    /\ \A j \in 1 .. i - 1 : q[j].hwnd # w \/ q[j].type # type

\* A message that is queued already gets the new position in its place.
Coalesced(q, w, type, p) == [q EXCEPT ![FirstOf(q, w, type)].arg = p]

\* A queued WM_SETCURSOR and WM_MOUSEMOVE of the window are brought up to date; a new
\* WM_SETCURSOR goes before the WM_MOUSEMOVE, unless the mouse is captured.
MovePushed(q, w, p, captured) ==
  LET cursor == Msg(w, "setcursor", p)
      q1 == IF captured THEN q
            ELSE IF Has(q, w, "setcursor") THEN Coalesced(q, w, "setcursor", p)
            ELSE IF Has(q, w, "move") THEN InsertAt(q, FirstOf(q, w, "move"), cursor)
            ELSE Append(q, cursor)
  IN  IF Has(q, w, "move") THEN Coalesced(q1, w, "move", p)
      ELSE Append(q1, Msg(w, "move", p))

\* Mutant: a queued WM_SIZE stays.
SizePushedTwice(q, w) == Append(q, Msg(w, "size", Never))

\* enqueue_window_message: only the last WM_SIZE counts.
SizePushed(q, w) ==
  LET sizes == {m \in ToSet(q) : m.hwnd = w /\ m.type = "size"}
  IN  Append(Without(q, sizes), Msg(w, "size", Never))

\* The UI thread replaces the queue it looked up and goes on with next.
UIQueue(step, q, next) ==
  /\ ui # UIIdle /\ ui.step = step
  /\ queue' = [queue EXCEPT ![ui.tid] = q]
  /\ ui' = next
  /\ UNCHANGED <<timers, windows, needsPaint, quitSeen, call, parking, ready,
                 deadline, hostWindows, mouse, lastMoved, inputs, now>>

\* The rest of CursorMoved: coalesce, then WM_MOUSELEAVE for another window that is
\* tracked.
MoveQueued ==
  /\ \E captured \in BOOLEAN :
       UIQueue("move", MovePushed(queue[ui.tid], ui.hwnd, mouse, captured),
               IF track \in {NoWindow, ui.hwnd} THEN Wake(<<ui.tid>>)
               ELSE [Input("leave", track) EXCEPT !.wake = <<ui.tid>>])
  /\ UNCHANGED <<lastSent, track, unwoken>>

\* track_mouse_event is locked from the look at it to here.
LeaveQueued ==
  /\ UIQueue("leave", Append(queue[ui.tid], Msg(ui.hwnd, "post", Never)),
             Wake(<<ui.tid>> \o ui.wake))
  /\ track' = NoWindow
  /\ UNCHANGED <<lastSent, unwoken>>

\* Before a button message, a WM_MOUSEMOVE to its position unless one was the last
\* sent.  With another button nobody is woken for it.
MoveBeforeClick ==
  /\ \E step \in {"click", "othermouse"} :
       UIQueue(step, IF lastSent = <<ui.hwnd, mouse>> THEN queue[ui.tid]
                     ELSE Append(queue[ui.tid], Msg(ui.hwnd, "move", mouse)),
               IF step = "click" THEN [ui EXCEPT !.step = "button"] ELSE UIIdle)
  /\ lastSent' = <<ui.hwnd, mouse>>
  /\ unwoken' = IF ui.step = "othermouse" /\ (parking = ui.tid \/ ~ready[ui.tid]) THEN unwoken \cup {ui.tid} ELSE unwoken
  /\ UNCHANGED track

ButtonQueued ==
  /\ UIQueue("button", Append(queue[ui.tid], Msg(ui.hwnd, "button", mouse)), Wake(<<ui.tid>>))
  /\ UNCHANGED <<lastSent, track, unwoken>>

OtherQueued ==
  /\ \/ UIQueue("post", Append(queue[ui.tid], Msg(ui.hwnd, "post", Never)), Wake(<<ui.tid>>))
     \/ UIQueue("size", SizePushed(queue[ui.tid], ui.hwnd), Wake(<<ui.tid>>))
  /\ UNCHANGED <<lastSent, track, unwoken>>

\* wake_emulator; it has no effect on a thread that is about to park.
UIWake ==
  /\ ui # UIIdle /\ ui.step = "wake"
  /\ IF parking = Head(ui.wake)
     THEN unwoken' = unwoken \cup {parking} /\ UNCHANGED ready
     ELSE WakeUp(Head(ui.wake))
  /\ ui' = IF Len(ui.wake) = 1 THEN UIIdle ELSE Wake(Tail(ui.wake))
  /\ UNCHANGED <<pump, call, parking, deadline, hostWindows, mouse, lastSent, lastMoved,
                 track, inputs, now>>

\* process_ui_commands: DestroyWindow.
UIDestroys ==
  /\ ui = UIIdle
  /\ \E w \in hostWindows \ windows : hostWindows' = hostWindows \ {w}
  /\ UNCHANGED <<pump, waits, mouse, lastSent, lastMoved, track, ui, inputs, now>>

-----------------------------------------------------------------------------

Tick == now < MaxTime /\ now' = now + 1 /\ UNCHANGED <<pump, waits, host>>

GuestCall(s) ==
  /\ Free(s)
  /\ \/ PostMessage(s) \/ PostThreadMessage(s) \/ PostQuit(s) \/ TranslateMessage(s)
     \/ DefWindowProc(s) \/ ScrollWindowEx(s)
     \/ SetTimer(s) \/ KillTimer(s) \/ DestroyWindow(s)
     \/ InvalidateRect(s) \/ UpdateWindow(s) \/ ValidateRect(s)
     \/ (ui # UIIdle => ui.step # "leave") /\ TrackMouseEvent(s)

Fetch(t) ==
  \/ GetMessage(t) \/ PeekMessage(t) \/ MsgWaitReturns(t)
  \/ \E kind \in {"get", "msgwait", "msgforever"} : Empty(t, kind)
  \/ Park(t)

Host == \/ CursorThrottled \/ CursorMoved \/ MouseInput \/ OtherInput \/ CursorLeft
        \/ MoveQueued \/ LeaveQueued \/ MoveBeforeClick \/ ButtonQueued \/ OtherQueued
        \/ UIWake \/ UIDestroys

\* The host, and the guest threads in who.
Run(who) == Tick \/ Host \/ \E t \in who : GuestCall(t) \/ Fetch(t)

Next == Run(Threads)

Spec == Init /\ [][Next]_vars

-----------------------------------------------------------------------------
(* Properties.                                                               *)

Messages == [hwnd : Windows \cup {NoWindow},
             type : {"post", "quit", "timer", "paint", "move", "setcursor", "button", "size"},
             arg : Positions \cup TimerIds \cup {Never}]

\* What the UI thread is doing: nothing, waking threads, or on its way with an event.
Doings ==
  {UIIdle} \cup [step : {"wake"}, wake : Seq(Threads) \ {<<>>}]
    \cup [step : {"move", "click", "othermouse", "button", "post", "size", "leave"},
           hwnd : Windows, tid : Threads, wake : Seq(Threads)]

TypeOK ==
  /\ queue \in [Threads -> Seq(Messages)]
  /\ DOMAIN timers \subseteq TimerIds
  /\ \A i \in DOMAIN timers :
       timers[i] \in [hwnd : windows \cup {NoWindow}, owner : Threads, elapse : Nat, due : Nat]
  /\ needsPaint \subseteq windows /\ windows \subseteq hostWindows /\ hostWindows \subseteq Windows
  /\ call \in [Threads -> {"none", "get", "msgwait", "msgforever"}]
  /\ parking \in Threads \cup {Never} /\ ready \in [Threads -> BOOLEAN]
  /\ deadline \in [Threads -> Nat \cup {Never}] /\ now \in 0 .. MaxTime
  /\ mouse \in Positions /\ lastMoved \in Windows \cup {NoWindow}
  /\ track \in Windows \cup {NoWindow} /\ ui \in Doings
  /\ unwoken \subseteq Threads /\ quitSeen \subseteq Threads

Parked(t) == call[t] # "none" /\ ~ready[t]
BeingWoken(t) ==
  /\ ui # UIIdle
  /\ (ui.step = "button" /\ ui.tid = t) \/ \E i \in DOMAIN ui.wake : ui.wake[i] = t

\* No thread sleeps on work: when a thread is parked its queue is empty and its
\* windows are painted, unless the UI thread is about to wake it.  Left out are the
\* places where the code does not wake it: a wake-up that comes while the thread is
\* parking; TranslateMessage, DefWindowProc, ScrollWindowEx and SetTimer for a window of
\* another thread; and the WM_MOUSEMOVE before a button other than left and right.
NoSleepOnMessages ==
  \A t \in Threads :
    Parked(t) =>
      \/ queue[t] = <<>> /\ Owned(t) \cap needsPaint = {}
      \/ t \in unwoken \/ BeingWoken(t)

\* The same without what is left out, for the threads the UI thread wakes: it wakes
\* the emulator thread at once so that the new message is handled
\* (win_frame.rs:779).
EveryMessageWakes ==
  \A t \in Threads :
    Parked(t) /\ (\E i \in DOMAIN queue[t] : queue[t][i].type \in {"button", "size"})
      => BeingWoken(t)

\* A thread sleeps at most until the next of its timers, unless another thread set it.
TimersWake ==
  \A t \in Threads : \A i \in DOMAIN timers :
    Parked(t) /\ timers[i].owner = t /\ t \notin unwoken =>
      deadline[t] # Never /\ deadline[t] <= timers[i].due

\* No thread sleeps on messages, paints or timers that the code wakes it for
\* (get_message_a, msg_wait_for_multiple_objects, wake_emulator).
NobodySleepsOnWork == NoSleepOnMessages /\ TimersWake

\* A busy thread's queue does not fill up with repetitions: one WM_TIMER for a
\* timer, one WM_PAINT, WM_SIZE and WM_SETCURSOR for a window.
OneOfEach ==
  \A t \in Threads : \A i, j \in DOMAIN queue[t] :
    /\ i < j /\ queue[t][i].type \in {"timer", "paint", "size"} => queue[t][i] # queue[t][j]
    /\ i < j /\ queue[t][i].type = "setcursor" =>
         ~(queue[t][j].type = "setcursor" /\ queue[t][j].hwnd = queue[t][i].hwnd)

\* A message for a window is in the queue of the window's thread and no other.
MessagesAtOwner ==
  \A t \in Threads : \A i \in DOMAIN queue[t] :
    queue[t][i].hwnd \in windows => FirstOwner[queue[t][i].hwnd] = t

\* A thread that has lost its last window finds a WM_QUIT: its message loop ends.
LastWindowQuits ==
  \A t \in Threads \ {0} :
    (Owned(t) = {} /\ \E w \in Windows : FirstOwner[w] = t) =>
      t \in quitSeen \/ Has(queue[t], NoWindow, "quit")

=============================================================================
