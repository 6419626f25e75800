----------------------------- MODULE KernelWait -----------------------------
(***************************************************************************)
(* Blocking calls of the guest on the single emulator thread: the Win32    *)
(* events, WaitForSingleObject / WaitForMultipleObjects, Sleep, and the    *)
(* run loop that gives the main thread and the worker threads their        *)
(* quanta.  Nothing really blocks in this emulator: a call that cannot     *)
(* complete marks its thread as not ready, stops the CPU with the          *)
(* instruction pointer still at the API hook, and is executed again from   *)
(* the start when the thread next gets a quantum ("retry").                *)
(*                                                                         *)
(* The main thread is a pseudo thread whose flags live in the context      *)
(* (main_ready, main_resume_time, ...); the workers are records of         *)
(* ctx.threads.  Both are kept here in functions and sets over Tids.       *)
(* Sockets and WSA events are the subject of module Sockets.               *)
(***************************************************************************)
EXTENDS Integers, Sequences, Functions

CONSTANTS
  Main,         \* the main thread (current_thread_idx = 0)
  Workers,      \* thread ids CreateThread / _beginthreadex may hand out
  Events,       \* handles CreateEventA may hand out
  Opaque,       \* handles with no entry in ctx.events (mutex, thread handles)
  WaitCalls,    \* the wait calls a guest may make: [hs, ms, all]
  Naps,         \* the arguments a guest may pass to Sleep
  MaxTime,      \* the clock stops here (bound)
  Infinite,     \* dwMilliseconds = 0xFFFFFFFF
  NoTime,       \* Option::<Instant>::None
  NoCall        \* the thread is not inside a blocking API call

Tids    == Workers \cup {Main}
Handles == Events \cup Opaque
Clock   == 0 .. MaxTime

ASSUME DistinctAssumption ==
  /\ Main \notin Workers
  /\ Events \cap Opaque = {}
  /\ MaxTime \in Nat
  /\ Infinite \notin Nat /\ NoTime \notin Nat
  /\ Naps \subseteq Nat

ASSUME WaitCallsAssumption ==
  WaitCalls \subseteq [hs : Seq(Handles), ms : Nat \cup {Infinite}, all : BOOLEAN]

\* A pending call: what the guest pushed on its stack, and (history) the
\* moment it was first executed.
PendingCall ==
  [op : {"wait", "sleep"}, hs : Seq(Handles), ms : Nat \cup {Infinite},
   all : BOOLEAN, since : Nat]

\* NoCall is no call, neither here nor as BlockingWait sees it.
ASSUME NoCallAssumption ==
  /\ NoCall \notin PendingCall
  /\ NoCall \notin [hs : Seq(Handles), ms : Nat \cup {Infinite}, since : Nat]

VARIABLES
  events, manual, signaled,   \* ctx.events: the created handles and their flags
  created,                    \* thread ids handed out, never used again
  alive, suspended,           \* ctx.threads: live workers, CREATE_SUSPENDED ones
  ready,                      \* main_ready, EmulatedThread::ready
  resume, deadline,           \* resume_time, wait_deadline
  waitH,                      \* main_wait_handles, wait_handles
  call,                       \* the API call the thread's EIP rests on
  phase, cur, todo,           \* the run loop: stage, running thread, round
  returned,                   \* the guest's main function has returned
  now

objects == <<events, manual, signaled>>
threads == <<created, alive, suspended>>
waits   == <<ready, resume, deadline, waitH>>
loop    == <<phase, cur, todo, returned>>
vars    == <<objects, threads, waits, call, loop, now>>

-----------------------------------------------------------------------------
(* Retry waits: kernel32/mod.rs. *)

\* Mutant: wait_deadline survives the completed call.
ClearRetryWaitKeepsDeadline(t) ==
  /\ ready' = ready \cup {t}
  /\ resume' = [resume EXCEPT ![t] = NoTime]
  /\ waitH' = [waitH EXCEPT ![t] = {}]
  /\ UNCHANGED deadline

\* clear_retry_wait: the call completes, the thread is ready again.
ClearRetryWait(t) ==
  /\ ready' = ready \cup {t}
  /\ resume' = [resume EXCEPT ![t] = NoTime]
  /\ deadline' = [deadline EXCEPT ![t] = NoTime]
  /\ waitH' = [waitH EXCEPT ![t] = {}]

\* set_wait_handles followed by schedule_retry_wait.
ParkUntil(t, hs, limit) ==
  /\ ready' = ready \ {t}
  /\ resume' = [resume EXCEPT ![t] = limit]
  /\ deadline' = [deadline EXCEPT ![t] = limit]
  /\ waitH' = [waitH EXCEPT ![t] = hs]

\* Mutant: main_wait_handles is not consulted.
WokenByWorkersOnly(h) == {t \in alive : h \in waitH[t]}

\* wake_threads_waiting_on_handle: makes ready, clears nothing.
WokenBy(h) == {t \in alive \cup {Main} : h \in waitH[t]}

-----------------------------------------------------------------------------
(* The scheduling round: thread.rs schedule_threads_impl, emulator.rs. *)

Reached(limit) == limit # NoTime /\ now >= limit
\* Mutant: resume_time is never compared with the clock.
DueNever(t) == FALSE

Due(t) == Reached(resume[t])

\* Mutant: suspended is not looked at.
RunnableIgnoresSuspended == {t \in alive : t \in ready \/ Due(t)}

\* The snapshot of runnable workers.  A suspended worker is skipped even when
\* something made it ready.
Runnable == {t \in alive : t \notin suspended /\ (t \in ready \/ Due(t))}

\* The running thread gives up the CPU: its quantum is used up, or the hook
\* stopped the CPU.
YieldCPU ==
  /\ phase' = IF cur = Main THEN "snapshot" ELSE "round"
  /\ UNCHANGED <<cur, todo, returned>>

\* Top of run_emulator_impl: should_run_main.
RunMain ==
  /\ phase = "loop" /\ ~returned
  /\ Main \in ready \/ Due(Main)
  /\ phase' = "run" /\ cur' = Main
  /\ UNCHANGED <<objects, threads, waits, call, todo, returned, now>>

SkipMain ==
  /\ phase = "loop" /\ ~returned
  /\ ~(Main \in ready \/ Due(Main))
  /\ phase' = "snapshot"
  /\ UNCHANGED <<objects, threads, waits, call, cur, todo, returned, now>>

\* EIP rests on EXIT_ADDRESS at the top of the loop: the emulator stops, and
\* the workers with it.
Halt ==
  /\ phase = "loop" /\ returned
  /\ phase' = "halted"
  /\ UNCHANGED <<objects, threads, waits, call, cur, todo, returned, now>>

TakeSnapshot ==
  /\ phase = "snapshot"
  /\ phase' = "round" /\ todo' = Runnable
  /\ UNCHANGED <<objects, threads, waits, call, cur, returned, now>>

\* The list order of the round is abstracted to any order.
RunNext ==
  /\ phase = "round"
  /\ \E t \in todo :
       /\ cur' = t /\ todo' = todo \ {t}
       /\ phase' = "run"
  /\ UNCHANGED <<objects, threads, waits, call, returned, now>>

EndRound ==
  /\ phase = "round" /\ todo = {}
  /\ phase' = "loop"
  /\ UNCHANGED <<objects, threads, waits, call, cur, todo, returned, now>>

\* t executes guest code, not inside an API hook.
Running(t) == phase = "run" /\ cur = t /\ call[t] = NoCall

QuantumExpires ==
  /\ Running(cur)
  /\ YieldCPU
  /\ UNCHANGED <<objects, threads, waits, call, now>>

-----------------------------------------------------------------------------
(* Waits: sync.rs wait_for_single_object (a wait on one handle) and          *)
(* wait_for_multiple_objects.  c is the call, with the moment it was issued. *)

\* try_consume_signaled_event succeeds on the i-th handle and on no earlier
\* one.  A handle without an entry in ctx.events is never signaled.
FirstSignaled(c, i) ==
  /\ i \in DOMAIN c.hs /\ c.hs[i] \in signaled
  /\ \A j \in DOMAIN c.hs : j < i => c.hs[j] \notin signaled

NoneSignaled(c) == \A i \in DOMAIN c.hs : c.hs[i] \notin signaled

\* Mutant: every execution starts the time limit anew.
WaitLimitRestarts(t, c) == IF c.ms = Infinite THEN NoTime ELSE now + c.ms

\* A deadline left by an earlier execution of the same call is kept.
WaitLimit(t, c) ==
  IF c.ms = Infinite THEN NoTime
  ELSE IF deadline[t] # NoTime THEN deadline[t]
  ELSE now + c.ms

\* Mutant: an auto-reset event stays signaled.
WaitSucceedsWithoutReset(t, c) ==
  /\ ~NoneSignaled(c)
  /\ ClearRetryWait(t)
  /\ call' = [call EXCEPT ![t] = NoCall]
  /\ UNCHANGED <<objects, loop>>

\* WAIT_OBJECT_0 + i, an auto-reset event is consumed.  bWaitAll is read and
\* never used.
WaitSucceeds(t, c) ==
  /\ \E i \in DOMAIN c.hs :
       /\ FirstSignaled(c, i)
       /\ signaled' = IF c.hs[i] \in manual THEN signaled
                                            ELSE signaled \ {c.hs[i]}
  /\ ClearRetryWait(t)
  /\ call' = [call EXCEPT ![t] = NoCall]
  /\ UNCHANGED <<events, manual, loop>>

\* WAIT_TIMEOUT: a poll (ms = 0), or the limit is reached.
WaitTimesOut(t, c) ==
  /\ NoneSignaled(c)
  /\ c.ms = 0 \/ Reached(WaitLimit(t, c))
  /\ ClearRetryWait(t)
  /\ call' = [call EXCEPT ![t] = NoCall]
  /\ UNCHANGED <<objects, loop>>

WaitRetries(t, c) ==
  /\ NoneSignaled(c)
  /\ c.ms # 0
  /\ ~Reached(WaitLimit(t, c))
  /\ ParkUntil(t, Range(c.hs), WaitLimit(t, c))
  /\ call' = [call EXCEPT ![t] = c]
  /\ YieldCPU
  /\ UNCHANGED objects

WaitForObjects(t, c) ==
  /\ \/ WaitSucceeds(t, c)
     \/ WaitTimesOut(t, c)
     \/ WaitRetries(t, c)
  /\ UNCHANGED <<threads, now>>

CallWait ==
  /\ Running(cur)
  /\ \E w \in WaitCalls :
       /\ Range(w.hs) \subseteq events \cup Opaque
       /\ w.ms # Infinite => now + w.ms <= MaxTime
       /\ WaitForObjects(cur, [op |-> "wait", hs |-> w.hs, ms |-> w.ms,
                               all |-> w.all, since |-> now])

\* The thread got a quantum again and its EIP still rests on the hook.
RetryWait ==
  /\ phase = "run" /\ call[cur] # NoCall /\ call[cur].op = "wait"
  /\ WaitForObjects(cur, call[cur])

-----------------------------------------------------------------------------
(* Sleep: thread.rs.  Sleep(0) returns at once and is not modelled.          *)

CallSleep ==
  /\ Running(cur)
  /\ \E ms \in Naps \ {0} :
       /\ now + ms <= MaxTime
       /\ IF resume[cur] = NoTime
          THEN /\ ready' = ready \ {cur}
               /\ resume' = [resume EXCEPT ![cur] = now + ms]
               /\ deadline' = [deadline EXCEPT ![cur] = NoTime]
               /\ waitH' = IF cur = Main THEN waitH
                                         ELSE [waitH EXCEPT ![cur] = {}]
               /\ call' = [call EXCEPT ![cur] =
                     [op |-> "sleep", hs |-> <<>>, ms |-> ms, all |-> FALSE,
                      since |-> now]]
               /\ YieldCPU
          ELSE UNCHANGED <<waits, call, loop>>
  /\ UNCHANGED <<objects, threads, now>>

\* Executed again with resume_time set, the call returns whatever the clock
\* says.
RetrySleep ==
  /\ phase = "run" /\ call[cur] # NoCall /\ call[cur].op = "sleep"
  /\ ready' = ready \cup {cur}
  /\ resume' = [resume EXCEPT ![cur] = NoTime]
  /\ deadline' = [deadline EXCEPT ![cur] = NoTime]
  /\ waitH' = IF cur = Main THEN waitH ELSE [waitH EXCEPT ![cur] = {}]
  /\ call' = [call EXCEPT ![cur] = NoCall]
  /\ UNCHANGED <<objects, threads, loop, now>>

-----------------------------------------------------------------------------
(* The other calls of a running thread.                                      *)

CreateEvent ==
  /\ Running(cur)
  /\ \E h \in Events \ events, m, s \in BOOLEAN :
       /\ events' = events \cup {h}
       /\ manual' = IF m THEN manual \cup {h} ELSE manual
       /\ signaled' = IF s THEN signaled \cup {h} ELSE signaled
  /\ UNCHANGED <<threads, waits, call, loop, now>>

SetEvent ==
  /\ Running(cur)
  /\ \E h \in events :
       /\ signaled' = signaled \cup {h}
       /\ ready' = ready \cup WokenBy(h)
  /\ UNCHANGED <<events, manual, threads, resume, deadline, waitH,
                 call, loop, now>>

ResetEvent ==
  /\ Running(cur)
  /\ \E h \in events : signaled' = signaled \ {h}
  /\ UNCHANGED <<events, manual, threads, waits, call, loop, now>>

\* CreateThread, with or without CREATE_SUSPENDED; there is no ResumeThread.
CreateThread ==
  /\ Running(cur)
  /\ \E t \in Workers \ created, susp \in BOOLEAN :
       /\ created' = created \cup {t}
       /\ alive' = alive \cup {t}
       /\ suspended' = IF susp THEN suspended \cup {t} ELSE suspended
       /\ ready' = IF susp THEN ready ELSE ready \cup {t}
  /\ UNCHANGED <<objects, resume, deadline, waitH, call, loop, now>>

\* The worker returns to EXIT_ADDRESS or calls _endthreadex: its record is
\* removed by the cleanup at the end of the round, and it runs no more.
EndThread ==
  /\ Running(cur) /\ cur \in alive
  /\ alive' = alive \ {cur}
  /\ YieldCPU
  /\ UNCHANGED <<objects, created, suspended, waits, call, now>>

\* The guest's main function returns to EXIT_ADDRESS.  run_emulator_impl looks
\* at EIP only at the top of its loop: the workers get one more round.
MainReturns ==
  /\ Running(Main)
  /\ phase' = "snapshot" /\ returned' = TRUE
  /\ UNCHANGED <<cur, todo>>
  /\ UNCHANGED <<objects, threads, waits, call, now>>

-----------------------------------------------------------------------------
(* The other host threads and the clock.                                     *)

\* wake_thread_message_wait: the UI thread (or a guest thread posting a
\* message) makes t ready whatever t is waiting for.
WakeMessageWait ==
  /\ \E t \in alive \cup {Main} : ready' = ready \cup {t}
  /\ UNCHANGED <<objects, threads, resume, deadline, waitH, call,
                 loop, now>>

Tick ==
  /\ now < MaxTime
  /\ now' = now + 1
  /\ UNCHANGED <<objects, threads, waits, call, loop>>

-----------------------------------------------------------------------------
Init ==
  /\ events = {} /\ manual = {} /\ signaled = {}
  /\ created = {} /\ alive = {} /\ suspended = {}
  /\ ready = {Main}
  /\ resume = [t \in Tids |-> NoTime]
  /\ deadline = [t \in Tids |-> NoTime]
  /\ waitH = [t \in Tids |-> {}]
  /\ call = [t \in Tids |-> NoCall]
  /\ phase = "loop" /\ cur = Main /\ todo = {} /\ returned = FALSE
  /\ now = 0

Scheduling == \/ RunMain \/ SkipMain \/ Halt
              \/ TakeSnapshot \/ RunNext \/ EndRound
Retrying   == RetryWait \/ RetrySleep
GuestCall  == \/ CallWait \/ CallSleep \/ CreateEvent \/ SetEvent \/ ResetEvent
              \/ CreateThread \/ EndThread \/ MainReturns

Next == Scheduling \/ Retrying \/ QuantumExpires \/ GuestCall
          \/ WakeMessageWait \/ Tick

Spec == Init /\ [][Next]_vars

\* The emulator thread keeps executing its loop, emu_start always returns (its
\* instruction budget is finite), and time passes.  Nothing forces the guest to
\* make any call.
Fairness == /\ WF_vars(Scheduling) /\ WF_vars(Retrying)
            /\ WF_vars(QuantumExpires) /\ WF_vars(Tick)

FairSpec == Spec /\ Fairness

-----------------------------------------------------------------------------
(* Properties.                                                               *)

TypeOK ==
  /\ events \in SUBSET Events /\ manual \in SUBSET events
  /\ signaled \in SUBSET events
  /\ created \in SUBSET Workers /\ alive \in SUBSET created
  /\ suspended \in SUBSET created
  /\ ready \in SUBSET (created \cup {Main})
  /\ resume \in [Tids -> Nat \cup {NoTime}]
  /\ deadline \in [Tids -> Nat \cup {NoTime}]
  /\ waitH \in [Tids -> SUBSET Handles]
  /\ call \in [Tids -> PendingCall \cup {NoCall}]
  /\ phase \in {"loop", "run", "snapshot", "round", "halted"}
  /\ cur \in Tids /\ todo \in SUBSET Workers /\ returned \in BOOLEAN
  /\ now \in Clock

Waiting(t)  == call[t] # NoCall /\ call[t].op = "wait"
Sleeping(t) == call[t] # NoCall /\ call[t].op = "sleep"
Limit(c)    == IF c.ms = Infinite THEN NoTime ELSE c.since + c.ms

\* A thread that executes guest code has nothing left over from the wait it
\* came out of: a leftover resume_time would make its next Sleep return at once,
\* a leftover wait_deadline would shorten its next wait, and a thread left not
\* ready would never be scheduled again.
NoLeftovers ==
  \A t \in created \cup {Main} :
    call[t] = NoCall =>
      /\ resume[t] = NoTime /\ deadline[t] = NoTime /\ waitH[t] = {}
      /\ t \in ready \cup suspended

\* A pending call is registered for exactly what it waits for, and keeps the
\* limit computed when it was first executed however often it is woken for
\* nothing and retried.
RegisteredForCall ==
  \A t \in Tids :
    /\ Waiting(t) => /\ waitH[t] = Range(call[t].hs)
                     /\ deadline[t] = Limit(call[t])
                     /\ resume[t] = deadline[t]
    /\ Sleeping(t) => /\ resume[t] = call[t].since + call[t].ms
                      /\ deadline[t] = NoTime /\ waitH[t] = {}
    /\ call[t] # NoCall => t \in alive \cup {Main} /\ t \notin suspended

\* No lost wake-up: while a thread is parked in a wait, none of its handles is
\* signaled.  The check of the events and the registration are two critical
\* sections of the code; SetEvent, ResetEvent, a competing waiter consuming an
\* auto-reset event and message wake-ups happen between quanta.
NoLostWakeup ==
  \A t \in Tids : Waiting(t) /\ t \notin ready =>
    \A i \in DOMAIN call[t].hs : call[t].hs[i] \notin signaled

\* The snapshot of a round is taken once and used for many quanta; still no
\* thread gets a quantum that is dead, suspended, or neither ready nor due.
SnapshotStaysValid ==
  /\ \A t \in todo : t \in alive \ suspended /\ (t \in ready \/ Due(t))
  /\ phase = "run" => cur \in (alive \ suspended) \cup {Main}

\* The rest of the inductive invariant.  A thread id not handed out yet has the
\* initial wait state; a pending wait is not a poll and names only handles that
\* existed when it was issued; the running thread is not in the rest of its round.
Supporting ==
  /\ \A t \in Tids \ (created \cup {Main}) :
       resume[t] = NoTime /\ deadline[t] = NoTime /\ waitH[t] = {}
         /\ call[t] = NoCall
  /\ \A t \in Tids : Waiting(t) => /\ Range(call[t].hs) \subseteq events \cup Opaque
                                 /\ call[t].ms # 0
  /\ phase = "run" => cur \notin todo

IInv == /\ TypeOK /\ NoLeftovers /\ RegisteredForCall /\ NoLostWakeup
        /\ SnapshotStaysValid /\ Supporting

\* KernelWait implements BlockingWait: retries and spurious wake-ups are
\* invisible, a wait blocks exactly while the abstract one does.
blocked == [t \in Tids |->
              IF Waiting(t)
              THEN [hs |-> call[t].hs, ms |-> call[t].ms, since |-> call[t].since]
              ELSE NoCall]

Abstract == INSTANCE BlockingWait WITH blocked <- blocked

ImplementsBlockingWait == Abstract!Spec

\* A finite wait and a Sleep always end, even if no event is ever set.
FiniteCallsEnd ==
  \A t \in Tids :
    (call[t] # NoCall /\ call[t].ms # Infinite)
      ~> (call[t] = NoCall \/ phase = "halted")

\* A thread waiting for a signaled event gets it, unless the event is reset or
\* another thread consumes it first.
SignalReleases ==
  \A t \in Tids, h \in Events :
    (Waiting(t) /\ h \in waitH[t] /\ h \in signaled)
      ~> (call[t] = NoCall \/ h \notin signaled \/ phase = "halted")

=============================================================================
