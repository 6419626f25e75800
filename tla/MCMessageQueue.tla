--------------------------- MODULE MCMessageQueue ---------------------------
(***************************************************************************)
(* Small instances of MessageQueue, with one window that a worker owns:    *)
(* an input event comes while nobody sets a timer; there are timers and no *)
(* input; and the worker alone, with timers and two input events.          *)
(***************************************************************************)
EXTENDS MessageQueue

CONSTANTS popup, timer

VARIABLE guest   \* which of the instances

WorkerOwns == [w \in {popup} |-> 2]

MCInit == guest \in {"input", "timed", "alone"} /\ Init

MCNext ==
  /\ UNCHANGED guest
  /\ \/ guest = "input" /\ Run(Threads) /\ timers' = timers /\ now' <= 1 /\ inputs' <= 1
     \/ guest = "timed" /\ Run(Threads) /\ inputs' = inputs
     \/ guest = "alone" /\ Run({2}) /\ now' <= 1

MCSpec == MCInit /\ [][MCNext]_<<guest, vars>>
=============================================================================
