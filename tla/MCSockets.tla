----------------------------- MODULE MCSockets -----------------------------
(***************************************************************************)
(* The main thread and a worker with one socket handle, in three uses of   *)
(* it: blocking calls for its data; a WSA event; and a handle the main     *)
(* thread closes and connects a second time under a worker that waits for  *)
(* data of the first connection.                                           *)
(***************************************************************************)
EXTENDS Sockets

CONSTANTS s, e

VARIABLE use  \* of the socket, chosen at the start

MCInterests == {{"connect", "read"}, {"connect"}}

Receiving(op, n, peek) == [op |-> op, s |-> s, n |-> n, peek |-> peek, finite |-> FALSE]
Waiting(finite) == [op |-> "wait", e |-> e, finite |-> finite]
Selecting(writes) == [op |-> "select", fds |-> {s}, writes |-> writes, finite |-> FALSE]

\* Short and long reads, looks that leave the data where it is, and the waits.
MCCallsOf ==
  [t \in Threads |->
    IF t = 0
    THEN {Receiving("recv", 1, FALSE), Receiving("recv", 2, TRUE), Waiting(FALSE)}
    ELSE {Receiving("recv", 1, peek) : peek \in BOOLEAN}
           \cup {Receiving("wsarecv", 2, FALSE), Selecting(FALSE), Waiting(TRUE)}]

\* The calls the threads sleep in.
Sleepers(ops) == \A t \in Threads : call'[t] # NoCall => call'[t].op \in ops

\* One connection, no event, and the threads sleep for its data; one connection and the
\* event, and they sleep in nothing but the wait for it, while recv and WSARecv may take
\* what is there; or two connections of one byte each, no event and no FIONBIO, and the
\* worker sleeps in recv, the main thread not at all.
Data    == conns' <= 1 /\ wsa' = wsa /\ Sleepers({"recv", "wsarecv", "select"})
Events  == conns' <= 1 /\ Sleepers({"wait"})
Renewed ==
  /\ \A c \in Conns : sent'[c] <= 1
  /\ wsa' = wsa
  /\ \A x \in Socks : sock'[x] # NoSock => ~sock'[x].nb
  /\ call'[0] = NoCall /\ Sleepers({"recv"})

MCInit == Init /\ use \in {"data", "events", "again"}
MCNext ==
  /\ Next /\ use' = use
  /\ use = "data" => Data
  /\ use = "events" => Events
  /\ use = "again" => Renewed
MCSpec == MCInit /\ [][MCNext]_<<use, vars>>
============================================================================
