---------------------------- MODULE MCKernelWait ----------------------------
(***************************************************************************)
(* Small instances of KernelWait for TLC.                                  *)
(***************************************************************************)
EXTENDS KernelWait, TLC

CONSTANTS m, w1, w2, e1, e2, mutex

\* One wait of each kind: a poll, a finite and an infinite wait on one event, a
\* wait on two events, a finite wait on a handle that nothing ever signals.
MCWaitCalls ==
  { [hs |-> <<e1>>, ms |-> 0, all |-> FALSE],
    [hs |-> <<e1>>, ms |-> Infinite, all |-> FALSE],
    [hs |-> <<e1, e2>>, ms |-> 1, all |-> TRUE],
    [hs |-> <<mutex, e2>>, ms |-> 2, all |-> FALSE] }
=============================================================================
