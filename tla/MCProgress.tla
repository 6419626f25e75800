----------------------------- MODULE MCProgress -----------------------------
(***************************************************************************)
(* What has to happen in the end, under the fairness of the run loop and   *)
(* of the host's threads: threads get the CPU, waits end, and a receiver   *)
(* learns that its connection is gone.  The three models share no state;   *)
(* "part" says which of them takes steps, the others stay as they begin.   *)
(***************************************************************************)
EXTENDS Scheduler

CONSTANTS
  w, e, mutex, Infinite, NoTime,          \* KernelWait
  s, NoThread, NoCall, NoEntry, NoSock    \* Sockets

VARIABLES
  part,
  \* KernelWait
  events, manual, signaled, made, alive, suspended, awake, resume, deadline, waitH,
  call, phase, cur, todo, returned, now,
  \* Sockets
  sock, buf, conns, home, inbox, server, out, chan, feeder, toWake, wsa, asked, up,
  waitS, waitE, mid, sent, got, eof, quit, unwoken

scheduler == vars
waits ==
  <<events, manual, signaled, made, alive, suspended, awake, resume, deadline, waitH,
    call, phase, cur, todo, returned, now>>
sockets ==
  <<sock, buf, conns, home, inbox, server, out, chan, feeder, toWake, wsa, asked, up,
    waitS, waitE, mid, sent, got, eof, quit, unwoken>>

----------------------------------------------------------------------------
(* Bounds. *)

\* Main waits for an event as long as it takes, or for a while beside a mutex.
WaitCalls ==
  {[hs |-> <<e>>, ms |-> Infinite, all |-> FALSE],
   [hs |-> <<mutex, e>>, ms |-> 2, all |-> FALSE]}

\* A worker reads and peeks; the main thread connects and closes.
Receiving(peek) == [op |-> "recv", s |-> s, n |-> 1, peek |-> peek, finite |-> FALSE]
CallsOf == [t \in {0, 1} |-> IF t = 0 THEN {} ELSE {Receiving(peek) : peek \in BOOLEAN}]

Kw == INSTANCE KernelWait WITH
  Main <- 0, Workers <- {w}, Events <- {e}, Opaque <- {mutex}, Naps <- {1}, MaxTime <- 2,
  created <- made, ready <- awake
So == INSTANCE Sockets WITH
  Threads <- {0, 1}, Socks <- {s}, WsaEvents <- {}, Interests <- {{"connect"}}, Asks <- {1},
  MaxConns <- 1, MaxSends <- 1, MaxBytes <- 1, call <- asked, ready <- up, waitH <- waitE

----------------------------------------------------------------------------

MCInit ==
  /\ part \in {"scheduler", "waits", "sockets"}
  /\ Init /\ Kw!Init /\ So!Init

MCNext ==
  /\ UNCHANGED part
  /\ \/ part = "scheduler" /\ Next /\ UNCHANGED <<waits, sockets>>
     \/ part = "waits" /\ Kw!Next /\ UNCHANGED <<scheduler, sockets>>
     \/ part = "sockets" /\ So!Next /\ UNCHANGED <<scheduler, waits>>

\* The fairness of the three models.  Nothing obliges the guest to make any call.
Scheduled ==
  /\ WF_scheduler(part = "scheduler" /\ QuantumEnds)
  /\ WF_scheduler(part = "scheduler" /\ StartRound)
  /\ WF_scheduler(part = "scheduler" /\ RunMain)

Waited ==
  /\ WF_waits(part = "waits" /\ Kw!Scheduling) /\ WF_waits(part = "waits" /\ Kw!Retrying)
  /\ WF_waits(part = "waits" /\ Kw!QuantumExpires) /\ WF_waits(part = "waits" /\ Kw!Tick)

MCSpec ==
  /\ MCInit /\ [][MCNext]_<<part, scheduler, waits, sockets>>
  /\ Scheduled /\ Waited /\ So!Fairness

----------------------------------------------------------------------------

\* A finite wait and a Sleep always end, even if no event is ever set.
FiniteCallsEnd == Kw!FiniteCallsEnd

\* A thread waiting for a signaled event gets it, unless the event is reset or
\* another thread consumes it first.
SignalReleases == Kw!SignalReleases

\* A thread in recv learns that another one has closed the socket, as long as a
\* feeder is left to wake it.
CloseEndsRecv == So!CloseEndsRecv
=============================================================================
