-------------------------- MODULE KernelWait_proof --------------------------
(***************************************************************************)
(* KernelWait for every number of threads, events and wait calls and every *)
(* clock bound: the wait state of the threads is consistent, no wake-up is *)
(* lost, and the retry protocol implements BlockingWait.                   *)
(***************************************************************************)
EXTENDS KernelWait, TLAPS

\* The conjuncts of IInv that speak of the wait state, for one thread.
ThreadOK(t) ==
  /\ (t \in created \cup {Main} /\ call[t] = NoCall) =>
       /\ resume[t] = NoTime /\ deadline[t] = NoTime /\ waitH[t] = {}
       /\ t \in ready \cup suspended
  /\ Waiting(t) => /\ waitH[t] = Range(call[t].hs)
                   /\ deadline[t] = Limit(call[t])
                   /\ resume[t] = deadline[t]
                   /\ Range(call[t].hs) \subseteq events \cup Opaque
                   /\ call[t].ms # 0
  /\ Sleeping(t) => /\ resume[t] = call[t].since + call[t].ms
                    /\ deadline[t] = NoTime /\ waitH[t] = {}
  /\ call[t] # NoCall => t \in alive \cup {Main} /\ t \notin suspended
  /\ (Waiting(t) /\ t \notin ready) =>
       \A i \in DOMAIN call[t].hs : call[t].hs[i] \notin signaled
  /\ t \notin created \cup {Main} =>
       resume[t] = NoTime /\ deadline[t] = NoTime /\ waitH[t] = {}
         /\ call[t] = NoCall

\* The conjuncts that speak of the run loop.
LoopInv == SnapshotStaysValid /\ (phase = "run" => cur \notin todo)

LEMMA Split == TypeOK => (IInv <=> LoopInv /\ \A t \in Tids : ThreadOK(t))
<1> SUFFICES ASSUME TypeOK
             PROVE  IInv <=> LoopInv /\ \A t \in Tids : ThreadOK(t)
  OBVIOUS
<1>1. created \cup {Main} \subseteq Tids
  BY DEF TypeOK, Tids
<1>2. ASSUME IInv PROVE LoopInv
  BY <1>2 DEF IInv, LoopInv, Supporting
<1>3. ASSUME IInv, NEW t \in Tids PROVE ThreadOK(t)
  BY <1>3 DEF IInv, ThreadOK, NoLeftovers, RegisteredForCall, NoLostWakeup,
              Supporting
<1>4. ASSUME LoopInv, \A t \in Tids : ThreadOK(t) PROVE IInv
  <2>1. NoLeftovers        BY <1>1, <1>4 DEF NoLeftovers, ThreadOK
  <2>2. RegisteredForCall  BY <1>4 DEF RegisteredForCall, ThreadOK
  <2>3. NoLostWakeup       BY <1>4 DEF NoLostWakeup, ThreadOK
  <2>4. Supporting         BY <1>4 DEF Supporting, ThreadOK, LoopInv
  <2> QED BY <1>4, <2>1, <2>2, <2>3, <2>4 DEF IInv, LoopInv
<1> QED BY <1>2, <1>3, <1>4

LEMMA SplitNext == TypeOK' => (IInv' <=> LoopInv' /\ (\A t \in Tids : ThreadOK(t))')
BY Split, PTL

\* A thread whose own state a step leaves alone stays consistent if nothing it
\* waits for becomes signaled while it stays parked.
LEMMA Undisturbed ==
  ASSUME NEW t \in Tids, ThreadOK(t),
         t \in ready => t \in ready',
         t \in created <=> t \in created',
         t \in suspended <=> t \in suspended',
         (call[t] # NoCall /\ t \in alive) => t \in alive',
         resume'[t] = resume[t], deadline'[t] = deadline[t],
         waitH'[t] = waitH[t], call'[t] = call[t],
         events \subseteq events',
         (Waiting(t) /\ t \notin ready') =>
            \A i \in DOMAIN call[t].hs :
               call[t].hs[i] \in signaled' => call[t].hs[i] \in signaled
  PROVE  ThreadOK(t)'
BY DEF ThreadOK, Waiting, Sleeping, Limit

-----------------------------------------------------------------------------
(* The run loop and the clock.                                               *)

LEMMA SchedulingStep ==
  ASSUME IInv, Scheduling \/ QuantumExpires
  PROVE  IInv'
<1>1. UNCHANGED <<objects, threads, waits, call, now>>
  BY DEF Scheduling, RunMain, SkipMain, Halt, TakeSnapshot, RunNext, EndRound,
         QuantumExpires
<1>2. TypeOK /\ LoopInv /\ \A t \in Tids : ThreadOK(t)
  BY Split DEF IInv
<1>3. TypeOK'
  <2>1. cur' \in Tids /\ todo' \in SUBSET Workers /\ returned' \in BOOLEAN
          /\ phase' \in {"loop", "run", "snapshot", "round", "halted"}
    BY <1>2 DEF TypeOK, Tids, Scheduling, RunMain, SkipMain, Halt, TakeSnapshot,
                RunNext, EndRound, QuantumExpires, Runnable, YieldCPU
  <2> QED BY <1>1, <1>2, <2>1 DEF TypeOK, objects, threads, waits
<1>4. \A t \in Tids : ThreadOK(t)'
  BY <1>1, <1>2, Undisturbed DEF objects, threads, waits
<1>5. LoopInv'
  <2> USE <1>1, <1>2 DEF objects, threads, waits, LoopInv, SnapshotStaysValid,
                         Due, Reached
  <2>1. CASE RunMain         BY <2>1, DistinctAssumption DEF RunMain, TypeOK
  <2>2. CASE SkipMain        BY <2>2 DEF SkipMain
  <2>3. CASE EndRound \/ Halt  BY <2>3 DEF EndRound, Halt
  <2>4. CASE QuantumExpires  BY <2>4 DEF QuantumExpires, YieldCPU
  <2>5. CASE TakeSnapshot    BY <2>5 DEF TakeSnapshot, Runnable
  <2>6. CASE RunNext         BY <2>6 DEF RunNext
  <2> QED BY <2>1, <2>2, <2>3, <2>4, <2>5, <2>6 DEF Scheduling
<1> QED BY <1>3, <1>4, <1>5, SplitNext

-----------------------------------------------------------------------------
(* Waits and Sleep.                                                          *)

\* Only the wait state of cur changes, and cur is not in the rest of its round.
LEMMA RoundUndisturbed ==
  ASSUME LoopInv, phase = "run",
         UNCHANGED <<threads, now>>,
         \A t \in Workers : t # cur =>
            (t \in ready => t \in ready') /\ resume'[t] = resume[t],
         todo \in SUBSET Workers,
         UNCHANGED loop \/ YieldCPU
  PROVE  LoopInv'
BY DEF LoopInv, SnapshotStaysValid, Due, Reached, threads, loop, YieldCPU

\* The running thread exists, is not suspended and is in Tids.
LEMMA RunningThread ==
  ASSUME TypeOK, LoopInv, phase = "run"
  PROVE  /\ cur \in Tids /\ cur \in alive \cup {Main} /\ cur \notin suspended
         /\ cur \in created \cup {Main}
BY DistinctAssumption DEF TypeOK, LoopInv, SnapshotStaysValid, Tids

\* A call that completes leaves its thread without leftovers.
LEMMA Completion ==
  ASSUME TypeOK, NEW t \in created \cup {Main}, ClearRetryWait(t),
         call' = [call EXCEPT ![t] = NoCall], UNCHANGED threads
  PROVE  ThreadOK(t)' /\ ready' \in SUBSET (created' \cup {Main})
         /\ resume' \in [Tids -> Nat \cup {NoTime}]
         /\ deadline' \in [Tids -> Nat \cup {NoTime}]
         /\ waitH' \in [Tids -> SUBSET Handles]
         /\ call' \in [Tids -> PendingCall \cup {NoCall}]
<1>1. t \in Tids BY DEF TypeOK, Tids
<1>2. resume'[t] = NoTime /\ deadline'[t] = NoTime /\ waitH'[t] = {}
        /\ call'[t] = NoCall /\ t \in ready'
  BY <1>1 DEF TypeOK, ClearRetryWait
<1> QED BY <1>1, <1>2
    DEF TypeOK, ThreadOK, ClearRetryWait, threads, Waiting, Sleeping

LEMMA WaitStep ==
  ASSUME TypeOK, LoopInv, \A t \in Tids : ThreadOK(t), phase = "run",
         NEW c \in PendingCall, c.op = "wait",
         Range(c.hs) \subseteq events \cup Opaque,
         WaitLimit(cur, c) = Limit(c),
         WaitForObjects(cur, c)
  PROVE  IInv'
<1>1. cur \in Tids /\ cur \in alive \cup {Main} /\ cur \notin suspended
        /\ cur \in created \cup {Main}
  BY RunningThread
<1>2. UNCHANGED <<threads, now>>
  BY DEF WaitForObjects
<1>3. CASE WaitSucceeds(cur, c) \/ WaitTimesOut(cur, c)
  <2>1. /\ ClearRetryWait(cur) /\ call' = [call EXCEPT ![cur] = NoCall]
        /\ signaled' \subseteq signaled /\ UNCHANGED <<events, manual, loop>>
    BY <1>3 DEF WaitSucceeds, WaitTimesOut, objects
  <2>2. TypeOK'
    BY <1>1, <1>2, <2>1, Completion DEF TypeOK, threads, loop
  <2>3. ASSUME NEW t \in Tids PROVE ThreadOK(t)'
    <3>1. CASE t = cur
      BY <1>1, <1>2, <2>1, <3>1, Completion
    <3>2. CASE t # cur
      <4>1. resume'[t] = resume[t] /\ deadline'[t] = deadline[t]
              /\ waitH'[t] = waitH[t] /\ call'[t] = call[t]
        BY <2>1, <3>2 DEF ClearRetryWait, TypeOK
      <4>2. t \in ready => t \in ready'
        BY <2>1 DEF ClearRetryWait
      <4> QED BY <1>2, <2>1, <4>1, <4>2, Undisturbed DEF threads
    <3> QED BY <3>1, <3>2
  <2>4. LoopInv'
    <3>1. \A t \in Workers : t # cur =>
            (t \in ready => t \in ready') /\ resume'[t] = resume[t]
      BY <2>1 DEF ClearRetryWait, TypeOK, Tids
    <3> QED BY <1>2, <2>1, <3>1, RoundUndisturbed DEF TypeOK
  <2> QED BY <2>2, <2>3, <2>4, SplitNext
<1>4. CASE WaitRetries(cur, c)
  <2>1. /\ ready' = ready \ {cur}
        /\ resume' = [resume EXCEPT ![cur] = Limit(c)]
        /\ deadline' = [deadline EXCEPT ![cur] = Limit(c)]
        /\ waitH' = [waitH EXCEPT ![cur] = Range(c.hs)]
        /\ call' = [call EXCEPT ![cur] = c]
        /\ YieldCPU /\ UNCHANGED objects
        /\ c.ms # 0 /\ \A i \in DOMAIN c.hs : c.hs[i] \notin signaled
    BY <1>4 DEF WaitRetries, ParkUntil, NoneSignaled
  <2>2. TypeOK'
    <3>1. Limit(c) \in Nat \cup {NoTime}
      BY DEF Limit, PendingCall
    <3>2. Range(c.hs) \in SUBSET Handles
      BY DEF Handles, TypeOK
    <3>3. phase' \in {"snapshot", "round"} /\ UNCHANGED <<cur, todo, returned>>
      BY <2>1 DEF YieldCPU
    <3> QED BY <1>2, <2>1, <3>1, <3>2, <3>3 DEF TypeOK, threads, objects
  <2>3. ASSUME NEW t \in Tids PROVE ThreadOK(t)'
    <3>1. CASE t = cur
      <4>1. resume'[t] = Limit(c) /\ deadline'[t] = Limit(c)
              /\ waitH'[t] = Range(c.hs) /\ call'[t] = c
        BY <2>1, <3>1 DEF TypeOK
      <4>2. c # NoCall BY NoCallAssumption
      <4> QED BY <1>1, <1>2, <2>1, <3>1, <4>1, <4>2
          DEF ThreadOK, threads, objects, Waiting, Sleeping, Limit
    <3>2. CASE t # cur
      <4>1. resume'[t] = resume[t] /\ deadline'[t] = deadline[t]
              /\ waitH'[t] = waitH[t] /\ call'[t] = call[t]
              /\ (t \in ready => t \in ready')
        BY <2>1, <3>2 DEF TypeOK
      <4> QED BY <1>2, <2>1, <4>1, Undisturbed DEF threads, objects
    <3> QED BY <3>1, <3>2
  <2>4. LoopInv'
    <3>1. \A t \in Workers : t # cur =>
            (t \in ready => t \in ready') /\ resume'[t] = resume[t]
      BY <2>1 DEF TypeOK, Tids
    <3> QED BY <1>2, <2>1, <3>1, RoundUndisturbed DEF TypeOK
  <2> QED BY <2>2, <2>3, <2>4, SplitNext
<1> QED BY <1>3, <1>4 DEF WaitForObjects

LEMMA CallWaitStep ==
  ASSUME IInv, CallWait
  PROVE  IInv'
<1>1. TypeOK /\ LoopInv /\ \A t \in Tids : ThreadOK(t)
  BY Split DEF IInv
<1>2. phase = "run" /\ call[cur] = NoCall
  BY DEF CallWait, Running
<1>3. PICK w \in WaitCalls :
        /\ Range(w.hs) \subseteq events \cup Opaque
        /\ WaitForObjects(cur, [op |-> "wait", hs |-> w.hs, ms |-> w.ms,
                                all |-> w.all, since |-> now])
  BY DEF CallWait
<1> DEFINE c == [op |-> "wait", hs |-> w.hs, ms |-> w.ms, all |-> w.all,
                 since |-> now]
<1>4. now \in Nat
  BY <1>1, DistinctAssumption DEF TypeOK, Clock
<1>5. c \in PendingCall
  BY <1>4, WaitCallsAssumption DEF PendingCall
<1>6. deadline[cur] = NoTime
  BY <1>1, <1>2, RunningThread DEF ThreadOK
<1>7. WaitLimit(cur, c) = Limit(c)
  BY <1>6 DEF WaitLimit, Limit
<1> QED BY <1>1, <1>2, <1>3, <1>5, <1>7, WaitStep

LEMMA RetryWaitStep ==
  ASSUME IInv, RetryWait
  PROVE  IInv'
<1>1. TypeOK /\ LoopInv /\ \A t \in Tids : ThreadOK(t)
  BY Split DEF IInv
<1>2. phase = "run" /\ Waiting(cur) /\ WaitForObjects(cur, call[cur])
  BY DEF RetryWait, Waiting
<1>3. cur \in Tids /\ call[cur] \in PendingCall
  BY <1>1, <1>2 DEF TypeOK, Waiting
<1>4. /\ deadline[cur] = Limit(call[cur])
      /\ Range(call[cur].hs) \subseteq events \cup Opaque
  BY <1>1, <1>2, <1>3 DEF ThreadOK
<1>5. WaitLimit(cur, call[cur]) = Limit(call[cur])
  BY <1>3, <1>4, DistinctAssumption DEF WaitLimit, Limit, PendingCall
<1> QED BY <1>1, <1>2, <1>3, <1>4, <1>5, WaitStep DEF Waiting

LEMMA CallSleepStep ==
  ASSUME IInv, CallSleep
  PROVE  IInv'
<1>1. TypeOK /\ LoopInv /\ \A t \in Tids : ThreadOK(t)
  BY Split DEF IInv
<1>2. phase = "run" /\ call[cur] = NoCall /\ UNCHANGED <<objects, threads, now>>
  BY DEF CallSleep, Running
<1>3. cur \in Tids /\ cur \in alive \cup {Main} /\ cur \notin suspended
        /\ cur \in created \cup {Main}
  BY <1>1, <1>2, RunningThread
<1>4. resume[cur] = NoTime /\ deadline[cur] = NoTime /\ waitH[cur] = {}
  BY <1>1, <1>2, <1>3 DEF ThreadOK
<1>5. PICK ms \in Naps \ {0} :
        /\ ready' = ready \ {cur}
        /\ resume' = [resume EXCEPT ![cur] = now + ms]
        /\ deadline' = [deadline EXCEPT ![cur] = NoTime]
        /\ waitH' = IF cur = Main THEN waitH ELSE [waitH EXCEPT ![cur] = {}]
        /\ call' = [call EXCEPT ![cur] =
              [op |-> "sleep", hs |-> <<>>, ms |-> ms, all |-> FALSE,
               since |-> now]]
        /\ YieldCPU
  BY <1>4 DEF CallSleep
<1> DEFINE c == [op |-> "sleep", hs |-> <<>>, ms |-> ms, all |-> FALSE,
                 since |-> now]
<1>6. now \in Nat /\ now + ms \in Nat /\ c \in PendingCall /\ c # NoCall
  <2>1. now \in Nat /\ ms \in Nat
    BY <1>1, DistinctAssumption DEF TypeOK, Clock
  <2>2. <<>> \in Seq(Handles)
    OBVIOUS
  <2>3. c \in PendingCall
    BY <2>1, <2>2 DEF PendingCall
  <2>4. c # NoCall
    <3> HIDE DEF c
    <3> QED BY <2>3, NoCallAssumption
  <2>5. now + ms \in Nat
    BY <2>1
  <2> QED BY <2>1, <2>3, <2>4, <2>5
<1>7. TypeOK'
  <2>1. phase' \in {"snapshot", "round"} /\ UNCHANGED <<cur, todo, returned>>
    BY <1>5 DEF YieldCPU
  <2> QED BY <1>1, <1>2, <1>5, <1>6, <2>1 DEF TypeOK, threads, objects
<1>8. ASSUME NEW t \in Tids PROVE ThreadOK(t)'
  <2>1. CASE t = cur
    <3>1. resume'[t] = now + ms /\ deadline'[t] = NoTime /\ waitH'[t] = {}
            /\ call'[t] = c
      BY <1>1, <1>4, <1>5, <2>1 DEF TypeOK
    <3> QED BY <1>2, <1>3, <1>6, <2>1, <3>1
        DEF ThreadOK, threads, Waiting, Sleeping
  <2>2. CASE t # cur
    <3>1. resume'[t] = resume[t] /\ deadline'[t] = deadline[t]
            /\ waitH'[t] = waitH[t] /\ call'[t] = call[t]
            /\ (t \in ready => t \in ready')
      BY <1>1, <1>5, <2>2 DEF TypeOK
    <3> QED BY <1>1, <1>2, <3>1, Undisturbed DEF threads, objects
  <2> QED BY <2>1, <2>2
<1>9. LoopInv'
  <2>1. \A t \in Workers : t # cur =>
          (t \in ready => t \in ready') /\ resume'[t] = resume[t]
    BY <1>1, <1>5 DEF TypeOK, Tids
  <2> QED BY <1>1, <1>2, <1>5, <2>1, RoundUndisturbed DEF TypeOK
<1> QED BY <1>7, <1>8, <1>9, SplitNext

LEMMA RetrySleepStep ==
  ASSUME IInv, RetrySleep
  PROVE  IInv'
<1>1. TypeOK /\ LoopInv /\ \A t \in Tids : ThreadOK(t)
  BY Split DEF IInv
<1>2. phase = "run" /\ Sleeping(cur) /\ UNCHANGED <<objects, threads, loop, now>>
        /\ call' = [call EXCEPT ![cur] = NoCall]
  BY DEF RetrySleep, Sleeping
<1>3. cur \in Tids /\ cur \in created \cup {Main}
  BY <1>1, <1>2, RunningThread
<1>4. waitH[cur] = {}
  BY <1>1, <1>2, <1>3 DEF ThreadOK
<1>5. ClearRetryWait(cur)
  <2>1. waitH' = [waitH EXCEPT ![cur] = {}]
    BY <1>1, <1>3, <1>4 DEF RetrySleep, TypeOK
  <2> QED BY <2>1 DEF RetrySleep, ClearRetryWait
<1>6. TypeOK'
  BY <1>1, <1>2, <1>3, <1>5, Completion DEF TypeOK, threads, objects, loop
<1>7. ASSUME NEW t \in Tids PROVE ThreadOK(t)'
  <2>1. CASE t = cur
    BY <1>1, <1>2, <1>3, <1>5, <2>1, Completion
  <2>2. CASE t # cur
    <3>1. resume'[t] = resume[t] /\ deadline'[t] = deadline[t]
            /\ waitH'[t] = waitH[t] /\ call'[t] = call[t]
            /\ (t \in ready => t \in ready')
      BY <1>1, <1>2, <1>5, <2>2 DEF TypeOK, ClearRetryWait
    <3> QED BY <1>1, <1>2, <3>1, Undisturbed DEF threads, objects
  <2> QED BY <2>1, <2>2
<1>8. LoopInv'
  <2>1. \A t \in Workers : t # cur =>
          (t \in ready => t \in ready') /\ resume'[t] = resume[t]
    BY <1>1, <1>5 DEF TypeOK, Tids, ClearRetryWait
  <2> QED BY <1>1, <1>2, <2>1, RoundUndisturbed DEF TypeOK
<1> QED BY <1>6, <1>7, <1>8, SplitNext

-----------------------------------------------------------------------------
(* The other calls, the other host threads and the clock.                    *)

LEMMA CreateEventStep ==
  ASSUME IInv, CreateEvent
  PROVE  IInv'
<1>1. TypeOK /\ LoopInv /\ \A t \in Tids : ThreadOK(t)
  BY Split DEF IInv
<1>2. UNCHANGED <<threads, waits, call, loop, now>>
  BY DEF CreateEvent
<1>3. PICK h \in Events \ events, m, s \in BOOLEAN :
        /\ events' = events \cup {h}
        /\ manual' = IF m THEN manual \cup {h} ELSE manual
        /\ signaled' = IF s THEN signaled \cup {h} ELSE signaled
  BY DEF CreateEvent
<1>4. TypeOK'
  BY <1>1, <1>2, <1>3 DEF TypeOK, threads, waits, loop
<1>5. ASSUME NEW t \in Tids PROVE ThreadOK(t)'
  <2>1. ASSUME Waiting(t), NEW i \in DOMAIN call[t].hs PROVE call[t].hs[i] # h
    <3>1. call[t].hs[i] \in events \cup Opaque
      BY <1>1, <2>1 DEF ThreadOK, Range
    <3> QED BY <3>1, DistinctAssumption
  <2> QED BY <1>1, <1>2, <1>3, <2>1, Undisturbed DEF threads, waits
<1>6. LoopInv'
  BY <1>1, <1>2 DEF LoopInv, SnapshotStaysValid, Due, Reached, threads, waits, loop
<1> QED BY <1>4, <1>5, <1>6, SplitNext

LEMMA SetEventStep ==
  ASSUME IInv, SetEvent
  PROVE  IInv'
<1>1. TypeOK /\ LoopInv /\ \A t \in Tids : ThreadOK(t)
  BY Split DEF IInv
<1>2. UNCHANGED <<events, manual, threads, resume, deadline, waitH, call, loop,
                  now>>
  BY DEF SetEvent
<1>3. PICK h \in events : signaled' = signaled \cup {h}
                            /\ ready' = ready \cup WokenBy(h)
  BY DEF SetEvent
<1>4. TypeOK'
  BY <1>1, <1>2, <1>3 DEF TypeOK, threads, loop, WokenBy
<1>5. ASSUME NEW t \in Tids PROVE ThreadOK(t)'
  <2>1. ASSUME Waiting(t), NEW i \in DOMAIN call[t].hs, call[t].hs[i] = h
        PROVE  t \in ready'
    <3>1. h \in waitH[t]
      BY <1>1, <2>1 DEF ThreadOK, Range
    <3>2. t \in alive \cup {Main}
      BY <1>1, <2>1 DEF ThreadOK, Waiting
    <3> QED BY <1>3, <3>1, <3>2 DEF WokenBy
  <2> QED BY <1>1, <1>2, <1>3, <2>1, Undisturbed DEF threads
<1>6. LoopInv'
  BY <1>1, <1>2, <1>3 DEF LoopInv, SnapshotStaysValid, Due, Reached, threads, loop
<1> QED BY <1>4, <1>5, <1>6, SplitNext

LEMMA ResetEventStep ==
  ASSUME IInv, ResetEvent
  PROVE  IInv'
<1>1. TypeOK /\ LoopInv /\ \A t \in Tids : ThreadOK(t)
  BY Split DEF IInv
<1>2. UNCHANGED <<events, manual, threads, waits, call, loop, now>>
        /\ signaled' \subseteq signaled
  BY DEF ResetEvent
<1>3. TypeOK'
  BY <1>1, <1>2 DEF TypeOK, threads, waits, loop
<1>4. \A t \in Tids : ThreadOK(t)'
  BY <1>1, <1>2, Undisturbed DEF threads, waits
<1>5. LoopInv'
  BY <1>1, <1>2 DEF LoopInv, SnapshotStaysValid, Due, Reached, threads, waits, loop
<1> QED BY <1>3, <1>4, <1>5, SplitNext

LEMMA CreateThreadStep ==
  ASSUME IInv, CreateThread
  PROVE  IInv'
<1>1. TypeOK /\ LoopInv /\ \A t \in Tids : ThreadOK(t)
  BY Split DEF IInv
<1>2. UNCHANGED <<objects, resume, deadline, waitH, call, loop, now>>
  BY DEF CreateThread
<1>3. PICK u \in Workers \ created, susp \in BOOLEAN :
        /\ created' = created \cup {u} /\ alive' = alive \cup {u}
        /\ suspended' = IF susp THEN suspended \cup {u} ELSE suspended
        /\ ready' = IF susp THEN ready ELSE ready \cup {u}
  BY DEF CreateThread
<1>4. TypeOK'
  BY <1>1, <1>2, <1>3 DEF TypeOK, objects, loop
<1>5. ASSUME NEW t \in Tids PROVE ThreadOK(t)'
  <2>1. CASE t = u
    <3>1. u \notin created \cup {Main}
      BY <1>3, DistinctAssumption
    <3>2. resume'[t] = NoTime /\ deadline'[t] = NoTime /\ waitH'[t] = {}
            /\ call'[t] = NoCall /\ t \in created' /\ t \in ready' \cup suspended'
      BY <1>1, <1>2, <1>3, <2>1, <3>1 DEF ThreadOK
    <3> QED BY <3>2 DEF ThreadOK, Waiting, Sleeping
  <2>2. CASE t # u
    BY <1>1, <1>2, <1>3, <2>2, Undisturbed DEF objects
  <2> QED BY <2>1, <2>2
<1>6. LoopInv'
  <2>1. u \notin todo /\ (phase = "run" => cur # u)
    BY <1>1, <1>3, DistinctAssumption DEF LoopInv, SnapshotStaysValid, TypeOK
  <2> QED BY <1>1, <1>2, <1>3, <2>1
      DEF LoopInv, SnapshotStaysValid, Due, Reached, loop
<1> QED BY <1>4, <1>5, <1>6, SplitNext

LEMMA EndThreadStep ==
  ASSUME IInv, EndThread
  PROVE  IInv'
<1>1. TypeOK /\ LoopInv /\ \A t \in Tids : ThreadOK(t)
  BY Split DEF IInv
<1>2. /\ phase = "run" /\ call[cur] = NoCall /\ alive' = alive \ {cur}
      /\ YieldCPU /\ UNCHANGED <<objects, created, suspended, waits, call, now>>
  BY DEF EndThread, Running
<1>3. TypeOK'
  <2>1. phase' \in {"snapshot", "round"} /\ UNCHANGED <<cur, todo, returned>>
    BY <1>2 DEF YieldCPU
  <2> QED BY <1>1, <1>2, <2>1 DEF TypeOK, objects, waits
<1>4. \A t \in Tids : ThreadOK(t)'
  BY <1>1, <1>2, Undisturbed DEF objects, waits
<1>5. LoopInv'
  BY <1>1, <1>2 DEF LoopInv, SnapshotStaysValid, Due, Reached, waits, YieldCPU
<1> QED BY <1>3, <1>4, <1>5, SplitNext

LEMMA RemainingSteps ==
  ASSUME IInv, MainReturns \/ WakeMessageWait \/ Tick
  PROVE  IInv'
<1>1. TypeOK /\ LoopInv /\ \A t \in Tids : ThreadOK(t)
  BY Split DEF IInv
<1>2. /\ UNCHANGED <<objects, threads, resume, deadline, waitH, call, cur, todo>>
      /\ phase' \in {phase, "snapshot"} /\ returned' \in {returned, TRUE}
      /\ ready \subseteq ready'
      /\ now' \in {now, now + 1}
  BY DEF MainReturns, WakeMessageWait, Tick, waits, loop
<1>3. now \in Nat /\ now' >= now
  BY <1>1, <1>2, DistinctAssumption DEF TypeOK, Clock
<1>4. TypeOK'
  <2>1. now' \in Clock
    BY <1>1, <1>3, DistinctAssumption
    DEF TypeOK, Clock, MainReturns, WakeMessageWait, Tick
  <2>2. ready' \in SUBSET (created \cup {Main})
    BY <1>1 DEF TypeOK, MainReturns, WakeMessageWait, Tick, waits
  <2> QED BY <1>1, <1>2, <2>1, <2>2 DEF TypeOK, objects, threads
<1>5. \A t \in Tids : ThreadOK(t)'
  BY <1>1, <1>2, Undisturbed DEF objects, threads
<1>6. LoopInv'
  <2>1. \A t \in todo : resume[t] \in Nat \cup {NoTime}
    BY <1>1 DEF TypeOK, Tids
  <2>2. \A t \in todo : Due(t) => Due(t)'
    BY <1>2, <1>3, <2>1 DEF Due, Reached
  <2> QED BY <1>1, <1>2, <2>2 DEF LoopInv, SnapshotStaysValid, threads
<1> QED BY <1>4, <1>5, <1>6, SplitNext

-----------------------------------------------------------------------------
(* The theorems.                                                             *)

LEMMA InitIInv == Init => IInv
<1> SUFFICES ASSUME Init PROVE IInv
  OBVIOUS
<1>1. TypeOK
  <2>1. Main \in Tids /\ 0 \in Clock
    BY DistinctAssumption DEF Tids, Clock
  <2>2. /\ resume \in [Tids -> Nat \cup {NoTime}]
        /\ deadline \in [Tids -> Nat \cup {NoTime}]
        /\ waitH \in [Tids -> SUBSET Handles]
        /\ call \in [Tids -> PendingCall \cup {NoCall}]
    BY DEF Init
  <2> QED BY <2>1, <2>2 DEF Init, TypeOK
<1>2. \A t \in Tids : ThreadOK(t)
  BY DEF Init, ThreadOK, Waiting, Sleeping, Tids
<1>3. LoopInv
  BY DEF Init, LoopInv, SnapshotStaysValid
<1> QED BY <1>1, <1>2, <1>3, Split

LEMMA NextIInv == IInv /\ [Next]_vars => IInv'
<1> SUFFICES ASSUME IInv, [Next]_vars PROVE IInv'
  OBVIOUS
<1>1. CASE Scheduling \/ QuantumExpires
  BY <1>1, SchedulingStep
<1>2. CASE Retrying
  BY <1>2, RetryWaitStep, RetrySleepStep DEF Retrying
<1>3. CASE GuestCall
  BY <1>3, CallWaitStep, CallSleepStep, CreateEventStep, SetEventStep,
     ResetEventStep, CreateThreadStep, EndThreadStep, RemainingSteps
  DEF GuestCall
<1>4. CASE WakeMessageWait \/ Tick
  BY <1>4, RemainingSteps
<1>5. CASE UNCHANGED vars
  <2>1. UNCHANGED <<objects, threads, waits, call, phase, cur, todo, returned,
                    now>>
    BY <1>5 DEF vars, loop
  <2>2. TypeOK /\ LoopInv /\ \A t \in Tids : ThreadOK(t)
    BY Split DEF IInv
  <2>3. TypeOK'
    BY <2>1, <2>2 DEF TypeOK, objects, threads, waits
  <2>4. \A t \in Tids : ThreadOK(t)'
    BY <2>1, <2>2, Undisturbed DEF objects, threads, waits
  <2>5. LoopInv'
    BY <2>1, <2>2 DEF LoopInv, SnapshotStaysValid, Due, Reached, threads, waits
  <2> QED BY <2>3, <2>4, <2>5, SplitNext
<1> QED BY <1>1, <1>2, <1>3, <1>4, <1>5 DEF Next

\* IInv is an inductive invariant: the wait state of every thread matches the
\* call it is in, whatever the run loop, the other threads and the UI do.
THEOREM Inductive == Spec => []IInv
BY InitIInv, NextIInv, PTL DEF Spec

\* The fields of ctx.events, ctx.threads and of the main pseudo thread keep
\* their types, and only created threads are ready, alive or suspended.
THEOREM TypeCorrect == Spec => []TypeOK
<1>1. IInv => TypeOK BY DEF IInv
<1> QED BY <1>1, Inductive, PTL

\* clear_retry_wait is called on every path out of a blocking call: no thread
\* runs guest code with the limits or handles of an earlier call.
THEOREM NothingLeftOver == Spec => []NoLeftovers
<1>1. IInv => NoLeftovers BY DEF IInv
<1> QED BY <1>1, Inductive, PTL

\* Retries keep the handles and the limit of the first execution of the call.
THEOREM RetriesKeepRegistration == Spec => []RegisteredForCall
<1>1. IInv => RegisteredForCall BY DEF IInv
<1> QED BY <1>1, Inductive, PTL

\* No thread is parked on a signaled event.
THEOREM WakeupsAreNotLost == Spec => []NoLostWakeup
<1>1. IInv => NoLostWakeup BY DEF IInv
<1> QED BY <1>1, Inductive, PTL

\* The snapshot of a scheduling round holds only threads that may run.
THEOREM SnapshotsStayValid == Spec => []SnapshotStaysValid
<1>1. IInv => SnapshotStaysValid BY DEF IInv
<1> QED BY <1>1, Inductive, PTL

-----------------------------------------------------------------------------
(* KernelWait implements BlockingWait.                                       *)

\* What BlockingWait sees of a pending call.
Seen(c) == IF c # NoCall /\ c.op = "wait"
           THEN [hs |-> c.hs, ms |-> c.ms, since |-> c.since]
           ELSE NoCall

LEMMA BlockedOf ==
  /\ blocked = [t \in Tids |-> Seen(call[t])]
  /\ blocked' = [t \in Tids |-> Seen(call'[t])]
BY DEF blocked, Waiting, Seen

\* Changing one pending call changes one entry of "blocked".
LEMMA BlockedChanges ==
  ASSUME TypeOK, NEW t \in Tids, NEW c, call' = [call EXCEPT ![t] = c]
  PROVE  blocked' = [blocked EXCEPT ![t] = Seen(c)]
<1>1. \A u \in Tids : call'[u] = IF u = t THEN c ELSE call[u]
  BY DEF TypeOK
<1> QED BY <1>1, BlockedOf

\* Steps that leave the pending calls alone leave "blocked" alone.
LEMMA BlockedStutters ==
  ASSUME call' = call
  PROVE  blocked' = blocked
BY BlockedOf

\* An execution of a wait is a step of BlockingWait, or changes nothing there (a
\* poll that fails, a retry for nothing).
LEMMA WaitRefines ==
  ASSUME TypeOK, cur \in Tids, NEW c \in PendingCall, c.op = "wait",
         \/ call[cur] = c /\ c.ms # 0
         \/ /\ call[cur] = NoCall /\ c.since = now
            /\ \E w \in WaitCalls : w.hs = c.hs /\ w.ms = c.ms,
         WaitLimit(cur, c) = Limit(c),
         WaitForObjects(cur, c)
  PROVE  [Abstract!Next]_(Abstract!vars)
<1> DEFINE s == [hs |-> c.hs, ms |-> c.ms, since |-> c.since]
<1>1. blocked[cur] = Seen(call[cur]) /\ UNCHANGED now
  BY BlockedOf DEF WaitForObjects
<1>2. Seen(NoCall) = NoCall /\ Seen(c) = s /\ s # NoCall
  <2>1. Seen(NoCall) = NoCall /\ Seen(c) = s
    BY NoCallAssumption DEF Seen
  <2>2. s \in [hs : Seq(Handles), ms : Nat \cup {Infinite}, since : Nat]
    BY DEF PendingCall
  <2>3. s # NoCall
    <3> HIDE DEF s
    <3> QED BY <2>2, NoCallAssumption
  <2> QED BY <2>1, <2>3
<1>3. CASE WaitSucceeds(cur, c)
  <2>1. Abstract!Consume(c.hs) /\ UNCHANGED <<events, manual>>
    BY <1>3 DEF WaitSucceeds, FirstSignaled, Abstract!Consume
  <2>2. blocked' = [blocked EXCEPT ![cur] = NoCall]
    <3>1. call' = [call EXCEPT ![cur] = NoCall]
      BY <1>3 DEF WaitSucceeds
    <3>2. blocked' = [blocked EXCEPT ![cur] = Seen(NoCall)]
      BY <3>1, BlockedChanges
    <3> QED BY <1>2, <3>2
  <2>3. CASE call[cur] = c
    <3>1. Abstract!Grant(cur)
      BY <1>1, <1>2, <2>1, <2>2, <2>3 DEF Abstract!Grant
    <3> QED BY <3>1 DEF Abstract!Next
  <2>4. CASE call[cur] = NoCall
    <3>1. blocked' = blocked
      BY <1>1, <1>2, <2>2, <2>4, BlockedOf
    <3>2. Abstract!Take(cur)
      BY <1>1, <1>2, <2>1, <2>4, <3>1, NoCallAssumption DEF Abstract!Take
    <3> QED BY <3>2 DEF Abstract!Next
  <2> QED BY <2>3, <2>4
<1>4. CASE WaitTimesOut(cur, c)
  <2>1. Abstract!Quiet(c.hs) /\ UNCHANGED <<events, manual, signaled>>
    BY <1>4 DEF WaitTimesOut, NoneSignaled, Abstract!Quiet, objects
  <2>2. blocked' = [blocked EXCEPT ![cur] = NoCall]
    <3>1. call' = [call EXCEPT ![cur] = NoCall]
      BY <1>4 DEF WaitTimesOut
    <3>2. blocked' = [blocked EXCEPT ![cur] = Seen(NoCall)]
      BY <3>1, BlockedChanges
    <3> QED BY <1>2, <3>2
  <2>3. CASE call[cur] = c /\ c.ms # 0
    <3>1. Abstract!Past(s)
      BY <1>4, <2>3 DEF WaitTimesOut, Reached, Limit, Abstract!Past
    <3>2. Abstract!Expire(cur)
      BY <1>1, <1>2, <2>1, <2>2, <2>3, <3>1 DEF Abstract!Expire
    <3> QED BY <3>2 DEF Abstract!Next
  <2>4. CASE call[cur] = NoCall
    <3>1. blocked' = blocked
      BY <1>1, <1>2, <2>2, <2>4, BlockedOf
    <3> QED BY <1>1, <2>1, <3>1 DEF Abstract!vars
  <2> QED BY <2>3, <2>4
<1>5. CASE WaitRetries(cur, c)
  <2>1. /\ Abstract!Quiet(c.hs) /\ UNCHANGED <<events, manual, signaled>>
        /\ c.ms # 0
    BY <1>5 DEF WaitRetries, NoneSignaled, Abstract!Quiet, objects
  <2>2. blocked' = [blocked EXCEPT ![cur] = s]
    <3>1. call' = [call EXCEPT ![cur] = c]
      BY <1>5 DEF WaitRetries
    <3>2. blocked' = [blocked EXCEPT ![cur] = Seen(c)]
      BY <3>1, BlockedChanges
    <3> QED BY <1>2, <3>2
  <2>3. CASE call[cur] = c
    <3>1. blocked' = blocked
      BY <1>1, <1>2, <2>2, <2>3, BlockedOf
    <3> QED BY <1>1, <2>1, <3>1 DEF Abstract!vars
  <2>4. CASE /\ call[cur] = NoCall /\ c.since = now
             /\ \E w \in WaitCalls : w.hs = c.hs /\ w.ms = c.ms
    <3>1. Abstract!Block(cur)
      BY <1>1, <1>2, <2>1, <2>2, <2>4 DEF Abstract!Block
    <3> QED BY <3>1 DEF Abstract!Next
  <2> QED BY <2>3, <2>4
<1> QED BY <1>3, <1>4, <1>5 DEF WaitForObjects

LEMMA NextRefines ==
  ASSUME IInv, [Next]_vars
  PROVE  [Abstract!Next]_(Abstract!vars)
<1>1. TypeOK /\ LoopInv /\ \A t \in Tids : ThreadOK(t)
  BY Split DEF IInv
<1>2. now \in Nat
  BY <1>1, DistinctAssumption DEF TypeOK, Clock
<1>3. CASE CallWait
  <2>1. phase = "run" /\ call[cur] = NoCall
    BY <1>3 DEF CallWait, Running
  <2>2. PICK w \in WaitCalls :
          WaitForObjects(cur, [op |-> "wait", hs |-> w.hs, ms |-> w.ms,
                               all |-> w.all, since |-> now])
    BY <1>3 DEF CallWait
  <2> DEFINE c == [op |-> "wait", hs |-> w.hs, ms |-> w.ms, all |-> w.all,
                   since |-> now]
  <2>3. c \in PendingCall
    BY <1>2, WaitCallsAssumption DEF PendingCall
  <2>4. deadline[cur] = NoTime /\ cur \in Tids
    BY <1>1, <2>1, RunningThread DEF ThreadOK
  <2>5. WaitLimit(cur, c) = Limit(c)
    BY <2>4 DEF WaitLimit, Limit
  <2> QED BY <1>1, <2>1, <2>2, <2>3, <2>4, <2>5, WaitRefines
<1>4. CASE RetryWait
  <2>1. phase = "run" /\ Waiting(cur) /\ WaitForObjects(cur, call[cur])
    BY <1>4 DEF RetryWait, Waiting
  <2>2. cur \in Tids /\ call[cur] \in PendingCall
    BY <1>1, <2>1 DEF TypeOK, Waiting
  <2>3. deadline[cur] = Limit(call[cur]) /\ call[cur].ms # 0
    BY <1>1, <2>1, <2>2 DEF ThreadOK
  <2>4. WaitLimit(cur, call[cur]) = Limit(call[cur])
    BY <2>2, <2>3, DistinctAssumption DEF WaitLimit, Limit, PendingCall
  <2> QED BY <1>1, <2>1, <2>2, <2>3, <2>4, WaitRefines DEF Waiting
<1>5. CASE CallSleep \/ RetrySleep
  <2>1. UNCHANGED <<events, manual, signaled, now>>
    BY <1>5 DEF CallSleep, RetrySleep, objects
  <2>2. cur \in Tids /\ blocked[cur] = NoCall
    BY <1>1, <1>5, BlockedOf DEF CallSleep, RetrySleep, Running, TypeOK, Seen
  <2>3. call' = call \/ \E c : Seen(c) = NoCall /\ call' = [call EXCEPT ![cur] = c]
    <3>1. CASE RetrySleep
      BY <3>1 DEF RetrySleep, Seen
    <3>2. CASE CallSleep
      <4>1. ASSUME NEW ms
            PROVE  Seen([op |-> "sleep", hs |-> <<>>, ms |-> ms,
                         all |-> FALSE, since |-> now]) = NoCall
        BY DEF Seen
      <4> QED BY <3>2, <4>1 DEF CallSleep, waits
    <3> QED BY <1>5, <3>1, <3>2
  <2>4. blocked' = blocked
    BY <1>1, <2>2, <2>3, BlockedStutters, BlockedChanges, BlockedOf
  <2> QED BY <2>1, <2>4 DEF Abstract!vars
<1>6. CASE CreateEvent
  BY <1>6, BlockedStutters
  DEF CreateEvent, Abstract!Create, Abstract!Next
<1>7. CASE SetEvent
  BY <1>7, BlockedStutters DEF SetEvent, Abstract!Set, Abstract!Next
<1>8. CASE ResetEvent
  BY <1>8, BlockedStutters DEF ResetEvent, Abstract!Reset, Abstract!Next
<1>9. CASE Tick
  BY <1>9, BlockedStutters DEF Tick, objects, Abstract!Tick, Abstract!Next
<1>10. CASE \/ Scheduling \/ QuantumExpires \/ CreateThread \/ EndThread
            \/ MainReturns \/ WakeMessageWait \/ UNCHANGED vars
  <2>1. UNCHANGED <<objects, call, now>>
    BY <1>10
    DEF Scheduling, RunMain, SkipMain, Halt, TakeSnapshot, RunNext, EndRound,
        QuantumExpires, CreateThread, EndThread, MainReturns,
        WakeMessageWait, vars
  <2> QED BY <2>1, BlockedStutters DEF Abstract!vars, objects
<1> QED BY <1>3, <1>4, <1>5, <1>6, <1>7, <1>8, <1>9, <1>10
    DEF Next, Retrying, GuestCall

LEMMA InitRefines == Init => Abstract!Init
BY BlockedOf DEF Init, Abstract!Init, Seen

\* The run loop, the retries and the spurious wake-ups implement the waits of
\* BlockingWait: a wait returns exactly when its handles or its limit let it.
THEOREM Refinement == Spec => ImplementsBlockingWait
BY InitRefines, NextRefines, Inductive, PTL
DEF Spec, ImplementsBlockingWait, Abstract!Spec

=============================================================================
