---------------------------- MODULE BlockingWait ----------------------------
(***************************************************************************)
(* What WaitForSingleObject and WaitForMultipleObjects promise to a guest, *)
(* with no run loop, no ready flags and no retries: a wait returns with    *)
(* the first of its handles that is signaled, consuming an auto-reset      *)
(* event in the same step, or it times out, never before its milliseconds  *)
(* have passed and never while one of its handles is signaled.             *)
(* KernelWait implements this specification.                               *)
(***************************************************************************)
EXTENDS Integers, Sequences

CONSTANTS
  Tids, Events,
  WaitCalls,    \* the waits that may be asked for: records with hs and ms
  Infinite, NoCall

VARIABLES
  events, manual, signaled,   \* the event objects
  blocked,                    \* per thread: [hs, ms, since], or NoCall
  now

vars == <<events, manual, signaled, blocked, now>>

Quiet(hs) == \A i \in DOMAIN hs : hs[i] \notin signaled
Past(b)   == b.ms # Infinite /\ now >= b.since + b.ms

\* The first signaled handle ends the wait; it is consumed if it resets itself.
Consume(hs) ==
  \E i \in DOMAIN hs :
    /\ hs[i] \in signaled
    /\ \A j \in DOMAIN hs : j < i => hs[j] \notin signaled
    /\ signaled' = IF hs[i] \in manual THEN signaled ELSE signaled \ {hs[i]}

Init ==
  /\ events = {} /\ manual = {} /\ signaled = {}
  /\ blocked = [t \in Tids |-> NoCall]
  /\ now = 0

Create ==
  /\ \E h \in Events \ events, m, s \in BOOLEAN :
       /\ events' = events \cup {h}
       /\ manual' = IF m THEN manual \cup {h} ELSE manual
       /\ signaled' = IF s THEN signaled \cup {h} ELSE signaled
  /\ UNCHANGED <<blocked, now>>

Set ==
  /\ \E h \in events : signaled' = signaled \cup {h}
  /\ UNCHANGED <<events, manual, blocked, now>>

Reset ==
  /\ \E h \in events : signaled' = signaled \ {h}
  /\ UNCHANGED <<events, manual, blocked, now>>

Tick ==
  /\ now' = now + 1
  /\ UNCHANGED <<events, manual, signaled, blocked>>

\* A wait that finds a signaled handle does not block.
Take(t) ==
  /\ blocked[t] = NoCall
  /\ \E w \in WaitCalls : Consume(w.hs)
  /\ UNCHANGED <<events, manual, blocked, now>>

Block(t) ==
  /\ blocked[t] = NoCall
  /\ \E w \in WaitCalls :
       /\ w.ms # 0 /\ Quiet(w.hs)
       /\ blocked' = [blocked EXCEPT ![t] =
                        [hs |-> w.hs, ms |-> w.ms, since |-> now]]
  /\ UNCHANGED <<events, manual, signaled, now>>

Grant(t) ==
  /\ blocked[t] # NoCall
  /\ Consume(blocked[t].hs)
  /\ blocked' = [blocked EXCEPT ![t] = NoCall]
  /\ UNCHANGED <<events, manual, now>>

Expire(t) ==
  /\ blocked[t] # NoCall
  /\ Quiet(blocked[t].hs) /\ Past(blocked[t])
  /\ blocked' = [blocked EXCEPT ![t] = NoCall]
  /\ UNCHANGED <<events, manual, signaled, now>>

Next == \/ Create \/ Set \/ Reset \/ Tick
        \/ \E t \in Tids : Take(t) \/ Block(t) \/ Grant(t) \/ Expire(t)

Spec == Init /\ [][Next]_vars

=============================================================================
