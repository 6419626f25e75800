----------------------------- MODULE Scheduler -----------------------------
(***************************************************************************)
(* How the guest threads share the one emulated CPU.  The run loop gives   *)
(* the main thread a quantum, then runs a round: it copies the threads     *)
(* that may run, loads the registers of each copy in turn, and writes the  *)
(* registers back to the thread list by index.  An API that calls a window *)
(* or timer procedure runs guest code inside itself, and between the       *)
(* quanta of that code it runs rounds too.  The waits that make a thread   *)
(* ready or not are the subject of module KernelWait.                      *)
(*                                                                         *)
(* The registers of a thread are abstracted to the number of steps it has  *)
(* made; the stack of host calls is a sequence of frames.                  *)
(***************************************************************************)
EXTENDS Integers, Sequences, FiniteSets, SequencesExt

CONSTANTS
  Workers,   \* the ids of the threads the guest creates
  Callers,   \* the threads that call window procedures
  MaxSteps,  \* bound: steps of a thread
  MaxNest    \* bound: window procedures within one another

Main == 0

ASSUME SchedulerAssumption ==
  /\ Main \notin Workers /\ Callers \subseteq Workers \cup {Main}
  /\ MaxSteps \in Nat /\ MaxNest \in Nat

Tids == Workers \cup {Main}

VARIABLES
  threads,   \* ctx.threads: id, registers, alive, terminate_requested
  created,   \* ids handed out
  ready,     \* main_ready, EmulatedThread::ready
  cpu,       \* the CPU's registers
  tid,       \* current_thread_idx
  frames,    \* the host's calls: rounds and procedures
  at,        \* "top" of the run loop, in "guest" code, or before a "round"
  stacks,    \* the heap blocks that are thread stacks, by the thread they were for
  tls,       \* the threads that have a tls_slots entry
  steps      \* history: the steps each thread has made

vars == <<threads, created, ready, cpu, tid, frames, at, stacks, tls, steps>>

\* The members of a set of indices, in order.
InOrder(S) ==
  [n \in 1 .. Cardinality(S) |->
     CHOOSE i \in S : Cardinality({j \in S : j < i}) = n - 1]

Ids      == {threads[i].id : i \in DOMAIN threads}
Top      == Last(frames)
InRound  == frames # <<>> /\ Top.kind = "round"
Nested   == Cardinality({i \in DOMAIN frames : frames[i].kind = "proc"})

Init ==
  /\ threads = <<>> /\ created = {} /\ ready = {Main}
  /\ cpu = 0 /\ tid = Main /\ frames = <<>> /\ at = "top"
  /\ stacks = {} /\ tls = {}
  /\ steps = [t \in Tids |-> 0]

-----------------------------------------------------------------------------
(* Guest code.                                                               *)

Running == at = "guest"

\* Some instructions.
Step ==
  /\ Running /\ steps[tid] < MaxSteps
  /\ cpu' = cpu + 1
  /\ steps' = [steps EXCEPT ![tid] = @ + 1]
  /\ UNCHANGED <<threads, created, ready, tid, frames, at, stacks, tls>>

\* CreateThread, _beginthreadex, _beginthread: a stack from the heap, and a new
\* entry at the end of the list.
CreateThread(w) ==
  /\ Running /\ w \notin created
  /\ created' = created \cup {w}
  /\ threads' = Append(threads, [id |-> w, regs |-> 0, alive |-> TRUE, term |-> FALSE])
  /\ stacks' = stacks \cup {w}
  /\ ready' = ready \cup {w}
  /\ UNCHANGED <<cpu, tid, frames, at, tls, steps>>

\* TlsSetValue makes an entry for the thread.
TlsSetValue ==
  /\ Running
  /\ tls' = tls \cup {tid}
  /\ UNCHANGED <<threads, created, ready, cpu, tid, frames, at, stacks, steps>>

\* dispatch_to_wndproc, dispatch_to_timer_proc.
CallProcedure ==
  /\ Running /\ tid \in Callers /\ Nested < MaxNest
  /\ frames' = Append(frames, [kind |-> "proc", tid |-> tid])
  /\ UNCHANGED <<threads, created, ready, cpu, tid, at, stacks, tls, steps>>

\* The procedure reaches EXIT_ADDRESS.
ReturnFromProcedure ==
  /\ Running /\ frames # <<>> /\ Top.kind = "proc"
  /\ frames' = Front(frames)
  /\ UNCHANGED <<threads, created, ready, cpu, tid, at, stacks, tls, steps>>

-----------------------------------------------------------------------------
(* The end of a quantum.                                                     *)

\* The entries of the threads that live, and the ids of the others.
Living(list) ==
  LET alive == InOrder({i \in DOMAIN list : list[i].alive})
  IN  [n \in DOMAIN alive |-> list[alive[n]]]
Dead(list) == {list[i].id : i \in {j \in DOMAIN list : ~list[j].alive}}

\* Mutant: the entry goes, the TLS values of the thread stay.
CleanupKeepsTls(list) ==
  /\ threads' = Living(list)
  /\ stacks' = stacks \ Dead(list)
  /\ UNCHANGED tls

\* cleanup_finished_threads: the entries of dead threads go, with their TLS and
\* their stacks.
Cleanup(list) ==
  /\ threads' = Living(list)
  /\ tls' = tls \ Dead(list)
  /\ stacks' = stacks \ Dead(list)

\* The registers go back to the entry that is at the index of the copy now.
WrittenBack(list, r, exits) ==
  LET i == r.list[r.pos].index
  IN  IF i > Len(list) THEN list
      ELSE [list EXCEPT ![i].regs = cpu, ![i].alive = ~list[i].term /\ ~exits]

\* The next copy is loaded.
NextInRound(list, r, exits) ==
  /\ r.pos < Len(r.list)
  /\ threads' = WrittenBack(list, r, exits)
  /\ frames' = Append(Front(frames), [r EXCEPT !.pos = @ + 1])
  /\ tid' = r.list[r.pos + 1].id /\ cpu' = r.list[r.pos + 1].regs
  /\ UNCHANGED <<at, stacks, tls>>

\* Mutant: the caller goes on with the registers of the last thread.
EndOfRoundOnly(list, r, exits) ==
  /\ r.pos = Len(r.list)
  /\ Cleanup(WrittenBack(list, r, exits))
  /\ frames' = Front(frames)
  /\ tid' = r.caller /\ UNCHANGED cpu
  /\ at' = IF Len(frames) = 1 THEN "top" ELSE "guest"

\* The round is over: the dead go, the caller's registers come back.
EndOfRound(list, r, exits) ==
  /\ r.pos = Len(r.list)
  /\ Cleanup(WrittenBack(list, r, exits))
  /\ frames' = Front(frames)
  /\ tid' = r.caller /\ cpu' = r.saved
  /\ at' = IF Len(frames) = 1 THEN "top" ELSE "guest"

\* Mutant: a procedure goes on without a round.
EmuStopsInProcedure(list, exits) ==
  IF InRound THEN NextInRound(list, Top, exits) \/ EndOfRound(list, Top, exits)
  ELSE /\ at' = IF frames = <<>> THEN "round" ELSE "guest"
       /\ threads' = list /\ UNCHANGED <<cpu, tid, frames, stacks, tls>>

\* emu_start returns to a round, or to a loop that runs a round next.
EmuStops(list, exits) ==
  IF InRound THEN NextInRound(list, Top, exits) \/ EndOfRound(list, Top, exits)
  ELSE at' = "round" /\ threads' = list /\ UNCHANGED <<cpu, tid, frames, stacks, tls>>

\* The instructions of the quantum are used up, or a USER32 call has ended it.
QuantumEnds == Running /\ EmuStops(threads, FALSE) /\ UNCHANGED <<created, ready, steps>>

\* A call that blocks is to be retried.
Blocks ==
  /\ Running /\ EmuStops(threads, FALSE)
  /\ ready' = ready \ {tid}
  /\ UNCHANGED <<created, steps>>

\* _endthreadex asks for the end and stops the CPU.
EndThreadEx ==
  /\ Running /\ tid # Main
  /\ \E i \in DOMAIN threads : threads[i].id = tid
  /\ LET asked == [i \in DOMAIN threads |->
                     IF threads[i].id = tid THEN [threads[i] EXCEPT !.term = TRUE] ELSE threads[i]]
     IN  EmuStops(asked, FALSE)
  /\ UNCHANGED <<created, ready, steps>>

\* The thread procedure returns to EXIT_ADDRESS.  (The end of the main
\* function ends the run loop: module KernelWait.)
ThreadEnds ==
  /\ Running /\ InRound /\ EmuStops(threads, TRUE)
  /\ UNCHANGED <<created, ready, steps>>

-----------------------------------------------------------------------------
(* Rounds.                                                                   *)

MayRun(x) == x.alive /\ (x.term \/ x.id \in ready)

\* The copies, with their indices.
Snapshot ==
  LET run == InOrder({i \in DOMAIN threads : MayRun(threads[i])})
  IN  [n \in DOMAIN run |->
         [index |-> run[n], id |-> threads[run[n]].id, regs |-> threads[run[n]].regs]]

\* schedule_threads_impl.
StartRound ==
  /\ at = "round"
  /\ IF Snapshot = <<>>
     THEN /\ at' = IF frames = <<>> THEN "top" ELSE "guest"
          /\ UNCHANGED <<cpu, tid, frames>>
     ELSE /\ frames' = Append(frames,
               [kind |-> "round", list |-> Snapshot, pos |-> 1, caller |-> tid, saved |-> cpu])
          /\ tid' = Snapshot[1].id /\ cpu' = Snapshot[1].regs
          /\ at' = "guest"
  /\ UNCHANGED <<threads, created, ready, stacks, tls, steps>>

\* The run loop gives the main thread its quantum if it is ready.
RunMain ==
  /\ at = "top"
  /\ at' = IF Main \in ready THEN "guest" ELSE "round"
  /\ UNCHANGED <<threads, created, ready, cpu, tid, frames, stacks, tls, steps>>

\* Other threads of the host, and other guest threads, make a thread ready.
Wake(t) ==
  /\ t \in Ids \cup {Main} /\ t \notin ready
  /\ ready' = ready \cup {t}
  /\ UNCHANGED <<threads, created, cpu, tid, frames, at, stacks, tls, steps>>

Next ==
  \/ Step \/ TlsSetValue \/ CallProcedure \/ ReturnFromProcedure
  \/ \E w \in Workers : CreateThread(w)
  \/ QuantumEnds \/ Blocks \/ EndThreadEx \/ ThreadEnds
  \/ StartRound \/ RunMain
  \/ \E t \in Tids : Wake(t)

Spec == Init /\ [][Next]_vars

\* The host never stops.
FairSpec == Spec /\ WF_vars(QuantumEnds) /\ WF_vars(StartRound) /\ WF_vars(RunMain)

-----------------------------------------------------------------------------

Rounds == {i \in DOMAIN frames : frames[i].kind = "round"}

TypeOK ==
  /\ \A i \in DOMAIN threads :
       threads[i] \in [id : Workers, regs : 0 .. MaxSteps, alive : BOOLEAN, term : BOOLEAN]
  /\ \A i, j \in DOMAIN threads : threads[i].id = threads[j].id => i = j
  /\ created \subseteq Workers /\ Ids \subseteq created
  /\ ready \subseteq Tids /\ tls \subseteq Tids /\ stacks \subseteq created
  /\ cpu \in 0 .. MaxSteps /\ tid \in Tids /\ at \in {"top", "guest", "round"}
  /\ \A i \in DOMAIN frames :
       \/ frames[i].kind = "proc" /\ frames[i].tid \in Callers
       \/ frames[i].kind = "round" /\ frames[i].pos \in DOMAIN frames[i].list
  /\ steps \in [Tids -> 0 .. MaxSteps]

\* A thread goes on where it stopped: wherever a thread's registers are, in the CPU, in
\* the thread list, in a copy that is still to run or among those a round has saved for
\* its caller, they are those after its last step, and the index of a copy still names
\* its thread when the registers are written back.
GoesOnWhereItStopped ==
  /\ cpu = steps[tid]
  /\ \A i \in DOMAIN threads : threads[i].id # tid => threads[i].regs = steps[threads[i].id]
  /\ \A i \in Rounds :
       /\ frames[i].saved = steps[frames[i].caller]
       /\ \A j \in DOMAIN frames[i].list :
            j > frames[i].pos => frames[i].list[j].regs = steps[frames[i].list[j].id]
       /\ \A j \in DOMAIN frames[i].list :
            LET x == frames[i].list[j]
            IN  x.index \in DOMAIN threads /\ threads[x.index].id = x.id

\* A thread keeps its stack and its TLS values as long as it is in the list, and no
\* longer: the running thread has its stack, no stack is freed twice or leaks, and a
\* thread that ends leaves no value behind.  No thread is in the list twice (TypeOK).
StacksInUse ==
  /\ TypeOK
  /\ stacks = Ids /\ (tid # Main => tid \in stacks)
  /\ tls \subseteq Ids \cup {Main}

\* A ready worker gets the CPU, even while the main thread is inside a window procedure
\* that never returns.
ReadyRuns ==
  \A w \in Workers :
    (w \in Ids /\ w \in ready) ~> (tid = w \/ w \notin ready \/ w \notin Ids)

\* A round runs threads that wait for the CPU, never one that is in the middle of a
\* window procedure (mod.rs calls them the waiting threads).  Holds if only the main
\* thread calls procedures.
RunsWaitingThreads ==
  \A i \in Rounds : i = Len(frames) =>
    \A j \in DOMAIN frames : frames[j].kind = "proc" => frames[j].tid # tid

=============================================================================
