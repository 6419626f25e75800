------------------------------ MODULE Sockets ------------------------------
(***************************************************************************)
(* The virtual sockets of WS2_32.  connect() starts two host threads: the  *)
(* DNet handler (module DNetServer, here only what it does to the          *)
(* channels) and a feeder that passes the handler's chunks on to the guest *)
(* and wakes the guest threads that wait for the socket.  Guest threads    *)
(* take turns on the emulator thread, and an API call is one step, except  *)
(* that the feeder may come between the look of a blocking call at the     *)
(* socket and its parking, and between the locks of WSAEnumNetworkEvents.  *)
(***************************************************************************)
EXTENDS Integers, Sequences, FiniteSets, SequencesExt

CONSTANTS
  Threads,      \* guest threads; 0 is the main thread
  Socks,        \* socket handles
  WsaEvents,    \* WSA event handles
  Interests,    \* the masks a guest passes to WSAEventSelect
  Asks,         \* the lengths it asks for
  CallsOf,      \* the blocking calls each thread makes
  NoThread, NoCall, NoEntry, NoSock,
  MaxConns,     \* bound: connect() calls
  MaxSends,     \* bound: send() calls of one connection
  MaxBytes      \* bound: bytes the handler sends on one connection

ASSUME SocketAssumption ==
  /\ 0 \in Threads /\ NoThread \notin Threads
  /\ MaxConns \in Nat /\ MaxSends \in Nat /\ MaxBytes \in Nat /\ Asks \subseteq Nat \ {0}
  /\ Interests \subseteq SUBSET {"connect", "read", "write"}

Conns == 1 .. MaxConns

\* The blocking calls; a select asks for one socket.
Calls ==
  [op : {"recv", "wsarecv"}, s : Socks, n : Asks, peek : BOOLEAN, finite : {FALSE}]
    \cup [op : {"select"}, fds : {{s} : s \in Socks}, writes : BOOLEAN, finite : BOOLEAN]
    \cup [op : {"wait"}, e : WsaEvents, finite : BOOLEAN]

\* What WSAEventSelect keeps of a socket under an event.
Entries == [sock : Socks, interest : Interests, pending : SUBSET {"connect", "read"}]

ASSUME CallAssumption == NoCall \notin Calls /\ CallsOf \in [Threads -> SUBSET Calls]
ASSUME EntryAssumption ==
  NoEntry \notin Entries /\ NoSock \notin [conn : 0 .. MaxConns, nb : BOOLEAN]

VARIABLES
  sock,      \* tcp_sockets: the connection (0: none) and non_blocking
  buf,       \* VirtualSocket::recv_buf
  conns,     \* connections made so far
  home,      \* the handle a connection was made for
  inbox,     \* chan_tx to handler_rx: chunks the handler has not taken
  server,    \* the handler thread runs
  out,       \* handler_tx to handler_output_rx
  chan,      \* guest_feed_tx to chan_rx
  feeder,    \* what the feeder thread does next
  toWake,    \* the events it is to wake
  wsa,       \* wsa_event_map
  call,      \* the blocking call a thread is in
  ready,     \* main_ready, EmulatedThread::ready
  waitS,     \* main_wait_sockets, wait_sockets
  waitH,     \* main_wait_handles, wait_handles
  mid,       \* the thread between two locks of an API call, and which
  sent,      \* history: bytes the handler has sent
  got,       \* history: bytes the guest has received
  eof,       \* history: connections the guest has seen the end of
  quit,      \* history: connections the handler ended of its own accord
  unwoken    \* history: threads that missed a wake-up

net    == <<sock, buf, conns, home, inbox, server, out, chan, feeder, toWake, sent, quit>>
guest  == <<call, ready, waitS, waitH, unwoken>>
vars   == <<net, guest, wsa, mid, got, eof>>

Byte(c, i) == <<c, i>>
SentBy(c)  == [i \in 1 .. sent[c] |-> Byte(c, i)]
Idle       == [t |-> NoThread, at |-> "none"]

\* What socket() and WSASocketA leave in tcp_sockets.
Fresh      == [conn |-> 0, nb |-> FALSE]

Open(s)    == sock[s] # NoSock /\ sock[s].conn # 0
Current(c) == \E s \in Socks : Open(s) /\ sock[s].conn = c
ConnOf(s)  == sock[s].conn
ChanOf(s)  == chan[ConnOf(s)]

\* try_recv finds the channel Disconnected: the feeder has dropped its end and
\* nothing is left in it.
AtEof(s)   == ChanOf(s) = <<>> /\ feeder[ConnOf(s)] = "gone"

Init ==
  /\ sock = [s \in Socks |-> Fresh] /\ buf = [s \in Socks |-> <<>>]
  /\ conns = 0 /\ home = [c \in Conns |-> NoSock]
  /\ inbox = [c \in Conns |-> 0] /\ server = [c \in Conns |-> FALSE]
  /\ out = [c \in Conns |-> <<>>] /\ chan = [c \in Conns |-> <<>>]
  /\ feeder = [c \in Conns |-> "gone"] /\ toWake = [c \in Conns |-> {}]
  /\ wsa = [e \in WsaEvents |-> NoEntry]
  /\ call = [t \in Threads |-> NoCall] /\ ready = Threads
  /\ waitS = [t \in Threads |-> {}] /\ waitH = [t \in Threads |-> {}]
  /\ mid = Idle
  /\ sent = [c \in Conns |-> 0] /\ got = [c \in Conns |-> <<>>] /\ eof = {} /\ quit = {}
  /\ unwoken = {}

-----------------------------------------------------------------------------
(* Retry waits (module KernelWait has the whole of them).                    *)

\* A woken thread, or one whose time may be over.  One API call at a time.
MayRun(t) == mid = Idle /\ (t \in ready \/ (call[t] # NoCall /\ call[t].finite))

\* The call a thread executes: a new one, or the same again.
Executes(t, k) == MayRun(t) /\ k \in IF call[t] = NoCall THEN CallsOf[t] ELSE {call[t]}

\* clear_retry_wait.
Return(t) ==
  /\ call' = [call EXCEPT ![t] = NoCall] /\ ready' = ready \cup {t}
  /\ waitS' = [waitS EXCEPT ![t] = {}] /\ waitH' = [waitH EXCEPT ![t] = {}]
  /\ unwoken' = unwoken \ {t}
  /\ UNCHANGED mid

\* The error returns of recv and WSARecv leave the wait state as it is.
ReturnError(t) ==
  /\ call' = [call EXCEPT ![t] = NoCall]
  /\ UNCHANGED <<ready, waitS, waitH, unwoken, mid>>

\* The call finds nothing; it lets go of its lock before it parks.
GoToSleep(t, k) ==
  /\ call' = [call EXCEPT ![t] = k]
  /\ mid' = [t |-> t, at |-> "park"]
  /\ unwoken' = unwoken \ {t}
  /\ UNCHANGED <<ready, waitS, waitH>>

\* What a call registers for.  select has overwritten its fd_set with the sockets
\* it found ready, none, when it reads the set again to register for them.
SocksOf(k)  == IF k.op \in {"recv", "wsarecv"} THEN {k.s} ELSE {}
EventsOf(k) == IF k.op = "wait" THEN {k.e} ELSE {}

\* set_wait_handles, set_wait_sockets, schedule_retry_wait.
Park ==
  /\ mid.at = "park"
  /\ LET t == mid.t
     IN  /\ ready' = ready \ {t}
         /\ waitS' = [waitS EXCEPT ![t] = SocksOf(call[t])]
         /\ waitH' = [waitH EXCEPT ![t] = EventsOf(call[t])]
  /\ mid' = Idle
  /\ UNCHANGED <<net, call, unwoken, wsa, got, eof>>

\* wake_threads_waiting_on_socket, wake_threads_waiting_on_handle: a thread that is
\* about to park is woken in vain.
Parking(t) == mid.at = "park" /\ mid.t = t
Wakes(woken, missed) ==
  /\ ready' = ready \cup woken
  /\ unwoken' = (unwoken \ {t \in woken : ~Parking(t)}) \cup missed

WakeSocket(s) ==
  Wakes({t \in Threads : s \in waitS[t]},
        {t \in Threads : Parking(t) /\ s \in SocksOf(call[t])})
WakeEvents(es) ==
  Wakes({t \in Threads : waitH[t] \cap es # {}},
        {t \in Threads : Parking(t) /\ EventsOf(call[t]) \cap es # {}})

\* A message for the thread (module MessageQueue).
WakeForMessage(t) ==
  /\ call[t] # NoCall
  /\ ready' = ready \cup {t}
  /\ UNCHANGED <<net, call, waitS, waitH, unwoken, wsa, mid, got, eof>>

-----------------------------------------------------------------------------
(* Calls that do not block.                                                  *)

Calling(t) == MayRun(t) /\ call[t] = NoCall

\* The entries of wsa_event_map for a socket with some interest.
Watching(s, kind) ==
  {e \in WsaEvents : wsa[e] # NoEntry /\ wsa[e].sock = s /\ kind \in wsa[e].interest}
Pending(es, kind) ==
  [e \in WsaEvents |-> IF e \in es THEN [wsa[e] EXCEPT !.pending = @ \cup {kind}] ELSE wsa[e]]

\* Mutant: the new connection keeps what the old one had received.
DropChannelOnly(s) ==
  /\ chan' = IF Open(s) THEN [chan EXCEPT ![ConnOf(s)] = <<>>] ELSE chan
  /\ UNCHANGED buf

\* The guest's end of a socket's channels is dropped.
Drop(s) ==
  /\ buf' = [buf EXCEPT ![s] = <<>>]
  /\ chan' = IF Open(s) THEN [chan EXCEPT ![ConnOf(s)] = <<>>] ELSE chan

\* connect: new channels, a handler, a feeder.  What the handle had is dropped.
Connect(t, s) ==
  /\ Calling(t) /\ conns < MaxConns
  /\ LET c == conns + 1
     IN  /\ conns' = c
         /\ sock' = [sock EXCEPT ![s] =
                       [conn |-> c, nb |-> IF sock[s] = NoSock THEN FALSE ELSE sock[s].nb]]
         /\ home' = [home EXCEPT ![c] = s]
         /\ server' = [server EXCEPT ![c] = TRUE]
         /\ feeder' = [feeder EXCEPT ![c] = "recv"]
  /\ Drop(s)
  /\ wsa' = Pending(Watching(s, "connect"), "connect")
  /\ WakeEvents(Watching(s, "connect"))
  /\ UNCHANGED <<inbox, out, toWake, sent, quit, call, waitS, waitH, mid, got, eof>>

\* closesocket forgets the socket, and wakes nobody.
CloseSocket(t, s) ==
  /\ Calling(t) /\ sock[s] # NoSock
  /\ sock' = [sock EXCEPT ![s] = NoSock]
  /\ Drop(s)
  /\ UNCHANGED <<conns, home, inbox, server, out, feeder, toWake, sent, quit,
                 guest, wsa, mid, got, eof>>

\* ioctlsocket(FIONBIO) makes an entry for a handle that has none.
IoctlSocket(t, s, nb) ==
  /\ Calling(t)
  /\ sock' = [sock EXCEPT ![s] = [conn |-> IF sock[s] = NoSock THEN 0 ELSE @.conn, nb |-> nb]]
  /\ UNCHANGED <<buf, conns, home, inbox, server, out, chan, feeder, toWake, sent, quit,
                 guest, wsa, mid, got, eof>>

\* send, WSASend.  To a handler that has ended it is an error and changes nothing.
Send(t, s) ==
  /\ Calling(t) /\ Open(s) /\ server[ConnOf(s)] /\ inbox[ConnOf(s)] < MaxSends
  /\ inbox' = [inbox EXCEPT ![ConnOf(s)] = @ + 1]
  /\ UNCHANGED <<sock, buf, conns, home, server, out, chan, feeder, toWake, sent, quit,
                 guest, wsa, mid, got, eof>>

\* WSAEventSelect replaces the entry and wakes nobody, not even when the socket is
\* connected already.
WsaEventSelect(t, s, e, interest) ==
  /\ Calling(t)
  /\ wsa' = [wsa EXCEPT ![e] =
       [sock |-> s, interest |-> interest,
        pending |-> IF Open(s) /\ "connect" \in interest THEN {"connect"} ELSE {}]]
  /\ unwoken' = unwoken \cup {u \in Threads \ ready : e \in waitH[u]}
  /\ UNCHANGED <<net, call, ready, waitS, waitH, mid, got, eof>>

\* WSAEnumNetworkEvents moves all there is to recv_buf, and clears what is pending
\* under another lock, with whatever the feeder has marked since.
EnumNetworkEvents(t, e) ==
  /\ Calling(t) /\ wsa[e] # NoEntry
  /\ IF Open(wsa[e].sock)
     THEN /\ buf' = [buf EXCEPT ![wsa[e].sock] = @ \o FlattenSeq(ChanOf(wsa[e].sock))]
          /\ chan' = [chan EXCEPT ![ConnOf(wsa[e].sock)] = <<>>]
     ELSE UNCHANGED <<buf, chan>>
  /\ mid' = [t |-> t, at |-> "clear", e |-> e]
  /\ UNCHANGED <<sock, conns, home, inbox, server, out, feeder, toWake, sent, quit,
                 guest, wsa, got, eof>>

EnumClears ==
  /\ mid.at = "clear"
  /\ wsa' = [wsa EXCEPT ![mid.e].pending = {}]
  /\ mid' = Idle
  /\ UNCHANGED <<net, guest, got, eof>>

-----------------------------------------------------------------------------
(* recv and WSARecv.                                                         *)

\* recv_pending_data: what recv_buf holds, and one more chunk if that is not enough.
Source(s, n) ==
  IF Len(buf[s]) >= n \/ ChanOf(s) = <<>> THEN buf[s] ELSE buf[s] \o Head(ChanOf(s))
Taken(s, n) == SubSeq(Source(s, n), 1, IF Len(Source(s, n)) < n THEN Len(Source(s, n)) ELSE n)
ChanLeft(s, n) ==
  IF Len(buf[s]) >= n \/ ChanOf(s) = <<>> THEN ChanOf(s) ELSE Tail(ChanOf(s))

Receives(t, k) == Executes(t, k) /\ k.op \in {"recv", "wsarecv"}
HasData(s)     == Open(s) /\ (buf[s] # <<>> \/ ChanOf(s) # <<>>)

RecvData(t, k) ==
  /\ Receives(t, k) /\ HasData(k.s)
  /\ LET data == Taken(k.s, k.n)
         src  == Source(k.s, k.n)
         c    == ConnOf(k.s)
     IN  /\ buf' = [buf EXCEPT ![k.s] =
                     IF k.peek THEN src ELSE SubSeq(src, Len(data) + 1, Len(src))]
         /\ chan' = [chan EXCEPT ![c] = ChanLeft(k.s, k.n)]
         /\ got' = IF k.peek THEN got ELSE [got EXCEPT ![c] = @ \o data]
  /\ Return(t)
  /\ UNCHANGED <<sock, conns, home, inbox, server, out, feeder, toWake, sent, quit, wsa, eof>>

\* Only recv reports the end of the stream.
RecvEof(t, k) ==
  /\ Receives(t, k) /\ k.op = "recv" /\ Open(k.s) /\ ~HasData(k.s) /\ AtEof(k.s)
  /\ eof' = eof \cup {ConnOf(k.s)}
  /\ Return(t)
  /\ UNCHANGED <<net, wsa, got>>

\* No entry; recv also refuses a socket that is not connected.
RecvFails(t, k) ==
  /\ Receives(t, k)
  /\ sock[k.s] = NoSock \/ (k.op = "recv" /\ ~Open(k.s))
  /\ ReturnError(t)
  /\ UNCHANGED <<net, wsa, got, eof>>

\* Nothing there.  WSARecv takes the end of the stream, and a socket without
\* channels, for that.
Nothing(k) ==
  /\ sock[k.s] # NoSock /\ ~HasData(k.s)
  /\ k.op = "recv" => Open(k.s) /\ ~AtEof(k.s)

\* FIONBIO holds for the main thread and recv alone.
WouldBlock(t, k) == t = 0 /\ k.op = "recv" /\ sock[k.s].nb

RecvWouldBlock(t, k) ==
  /\ Receives(t, k) /\ Nothing(k) /\ WouldBlock(t, k)
  /\ Return(t)
  /\ UNCHANGED <<net, wsa, got, eof>>

RecvBlocks(t, k) ==
  /\ Receives(t, k) /\ Nothing(k) /\ ~WouldBlock(t, k)
  /\ GoToSleep(t, k)
  /\ UNCHANGED <<net, wsa, got, eof>>

-----------------------------------------------------------------------------
(* select and WaitForSingleObject on a WSA event.                            *)

\* Both look at a socket by moving one chunk to an empty recv_buf.
Look(s) ==
  IF Open(s) /\ buf[s] = <<>> /\ ChanOf(s) # <<>>
  THEN /\ buf' = [buf EXCEPT ![s] = Head(ChanOf(s))]
       /\ chan' = [chan EXCEPT ![ConnOf(s)] = Tail(@)]
  ELSE UNCHANGED <<buf, chan>>
Readable(s) == HasData(s) \/ (Open(s) /\ AtEof(s))
unlooked    == <<sock, conns, home, inbox, server, out, feeder, toWake, sent, quit, got, eof>>

\* What is left in the fd_sets: all of it in the first call, nothing in a retry.
Asked(t, k) == IF call[t] = NoCall THEN k.fds ELSE {}

SelectReturns(t, k) ==
  /\ Executes(t, k) /\ k.op = "select"
  /\ \E s \in k.fds :
       /\ Look(s)
       /\ s \in Asked(t, k) /\ (Readable(s) \/ (k.writes /\ Open(s)))
  /\ Return(t)
  /\ UNCHANGED <<unlooked, wsa>>

SelectFindsNothing(t, k) ==
  /\ Executes(t, k) /\ k.op = "select"
  /\ \A s \in Asked(t, k) : ~Readable(s) /\ ~(k.writes /\ Open(s))
  /\ GoToSleep(t, k) \/ (k.finite /\ Return(t))
  /\ UNCHANGED <<net, wsa, got, eof>>

\* Mutant: a wait relies on the feeder's mark.
SignaledIfPending(e) == wsa[e] # NoEntry /\ wsa[e].pending # {}

Signaled(e) == wsa[e] # NoEntry /\ (wsa[e].pending # {} \/ Readable(wsa[e].sock))

WaitReturns(t, k) ==
  /\ Executes(t, k) /\ k.op = "wait" /\ Signaled(k.e)
  /\ IF wsa[k.e].pending # {}
     THEN UNCHANGED <<buf, chan, wsa>>
     ELSE Look(wsa[k.e].sock) /\ wsa' = Pending({k.e}, "read")
  /\ Return(t)
  /\ UNCHANGED unlooked

WaitFindsNothing(t, k) ==
  /\ Executes(t, k) /\ k.op = "wait" /\ ~Signaled(k.e)
  /\ GoToSleep(t, k) \/ (k.finite /\ Return(t))
  /\ UNCHANGED <<net, wsa, got, eof>>

Blocking(t, k) ==
  \/ RecvData(t, k) \/ RecvEof(t, k) \/ RecvFails(t, k) \/ RecvWouldBlock(t, k)
  \/ RecvBlocks(t, k)
  \/ SelectReturns(t, k) \/ SelectFindsNothing(t, k)
  \/ WaitReturns(t, k) \/ WaitFindsNothing(t, k)

-----------------------------------------------------------------------------
(* The handler's thread, seen from the channels.                             *)

unhandled == <<sock, buf, conns, home, chan, feeder, toWake, guest, wsa, mid, got, eof>>

\* It takes a chunk of input and sends its answers: chunks of the bytes up to each of
\* "ends".  It ends when one cannot be sent.
Serve(c, ends) ==
  LET from(i) == IF i = 1 THEN sent[c] ELSE ends[i - 1]
  IN  /\ server[c] /\ inbox[c] > 0
      /\ \A i \in 1 .. Len(ends) : ends[i] > from(i)
      /\ inbox' = [inbox EXCEPT ![c] = @ - 1]
      /\ IF ends # <<>> /\ feeder[c] = "gone"
         THEN server' = [server EXCEPT ![c] = FALSE] /\ UNCHANGED <<out, sent>>
         ELSE /\ out' = [out EXCEPT ![c] = @ \o [i \in 1 .. Len(ends) |->
                           [j \in 1 .. ends[i] - from(i) |-> Byte(c, from(i) + j)]]]
              /\ sent' = [sent EXCEPT ![c] = from(Len(ends) + 1)]
              /\ UNCHANGED server
      /\ UNCHANGED <<unhandled, quit>>

\* At most two answers to a chunk.
Answers == BoundedSeq(1 .. MaxBytes, 2)

\* A connection the handler closes itself.
Quit(c) ==
  /\ server[c] /\ inbox[c] > 0
  /\ server' = [server EXCEPT ![c] = FALSE]
  /\ inbox' = [inbox EXCEPT ![c] = 0]
  /\ quit' = quit \cup {c}
  /\ UNCHANGED <<unhandled, out, sent>>

\* The guest's end of the channel is dropped with its socket.
HandlerEnds(c) ==
  /\ server[c] /\ inbox[c] = 0 /\ ~Current(c)
  /\ server' = [server EXCEPT ![c] = FALSE]
  /\ UNCHANGED <<unhandled, inbox, out, sent, quit>>

-----------------------------------------------------------------------------
(* The feeder thread of a connection.                                        *)

unfed == <<sock, buf, conns, home, inbox, server, sent, quit, mid, got, eof>>
Goes(c, at) == feeder' = [feeder EXCEPT ![c] = at]

\* handler_output_rx.recv, guest_feed_tx.send.
Forward(c) ==
  /\ feeder[c] = "recv" /\ out[c] # <<>>
  /\ out' = [out EXCEPT ![c] = Tail(@)]
  /\ IF Current(c)
     THEN chan' = [chan EXCEPT ![c] = Append(@, Head(out[c]))] /\ Goes(c, "mark")
     ELSE UNCHANGED chan /\ Goes(c, "endWake")
  /\ UNCHANGED <<unfed, guest, wsa, toWake>>

MarkRead(c) ==
  /\ feeder[c] = "mark" /\ Goes(c, "wakeSock")
  /\ wsa' = Pending(Watching(home[c], "read"), "read")
  /\ toWake' = [toWake EXCEPT ![c] = Watching(home[c], "read")]
  /\ UNCHANGED <<unfed, out, chan, guest>>

FeederWakesSocket(c) ==
  /\ \/ feeder[c] = "wakeSock" /\ Goes(c, "wakeEvents")
     \/ feeder[c] = "endWake" /\ Goes(c, "endMark")
  /\ WakeSocket(home[c])
  /\ UNCHANGED <<unfed, out, chan, call, waitS, waitH, wsa, toWake>>

FeederListsEvents(c) ==
  /\ feeder[c] = "endMark" /\ Goes(c, "endEvents")
  /\ toWake' = [toWake EXCEPT ![c] =
                  {e \in WsaEvents : wsa[e] # NoEntry /\ wsa[e].sock = home[c]}]
  /\ UNCHANGED <<unfed, out, chan, guest, wsa>>

FeederWakesEvents(c) ==
  /\ \/ feeder[c] = "wakeEvents" /\ Goes(c, "recv")
     \/ feeder[c] = "endEvents" /\ Goes(c, "ended")
  /\ WakeEvents(toWake[c])
  /\ toWake' = [toWake EXCEPT ![c] = {}]
  /\ UNCHANGED <<unfed, out, chan, call, waitS, waitH, wsa>>

\* Mutant: the feeder ends without a word.
FeederEndsSilently(c) ==
  /\ feeder[c] = "recv" /\ out[c] = <<>> /\ ~server[c] /\ Goes(c, "ended")
  /\ UNCHANGED <<unfed, out, chan, guest, wsa, toWake>>

\* The handler is gone and so is what it sent.
FeederSeesEnd(c) ==
  /\ feeder[c] = "recv" /\ out[c] = <<>> /\ ~server[c] /\ Goes(c, "endWake")
  /\ UNCHANGED <<unfed, out, chan, guest, wsa, toWake>>

\* The closure returns and drops guest_feed_tx: only now can the guest see the end.
FeederDrops(c) ==
  /\ feeder[c] = "ended" /\ Goes(c, "gone")
  /\ out' = [out EXCEPT ![c] = <<>>]
  /\ UNCHANGED <<unfed, chan, guest, wsa, toWake>>

Feeder(c) ==
  \/ Forward(c) \/ MarkRead(c) \/ FeederWakesSocket(c) \/ FeederListsEvents(c)
  \/ FeederWakesEvents(c) \/ FeederSeesEnd(c) \/ FeederDrops(c)

Handler(c) ==
  \/ \E ends \in Answers : Serve(c, ends)
  \/ Quit(c) \/ HandlerEnds(c)

Next ==
  \/ \E t \in Threads : \E k \in CallsOf[t] : Blocking(t, k)
  \/ \E t \in Threads, s \in Socks :
       \/ Connect(t, s) \/ CloseSocket(t, s) \/ Send(t, s)
       \/ \E nb \in BOOLEAN : IoctlSocket(t, s, nb)
       \/ \E e \in WsaEvents, i \in Interests : WsaEventSelect(t, s, e, i)
  \/ \E t \in Threads, e \in WsaEvents : EnumNetworkEvents(t, e)
  \/ \E t \in Threads : WakeForMessage(t)
  \/ Park \/ EnumClears
  \/ \E c \in Conns : Handler(c) \/ Feeder(c)

Spec == Init /\ [][Next]_vars

\* The scheduler gives every ready thread its turn, a call it has begun is
\* finished, and host threads run.
Fairness ==
  /\ WF_vars(Park) /\ WF_vars(EnumClears)
  /\ \A t \in Threads : SF_vars(t \in ready /\ call[t] # NoCall /\ Blocking(t, call[t]))
  /\ \A c \in Conns :
       /\ WF_vars(Feeder(c))
       /\ WF_vars(\E ends \in Answers : Serve(c, ends))
       /\ WF_vars(HandlerEnds(c))

LiveSpec == Spec /\ Fairness

-----------------------------------------------------------------------------

Bytes == Seq(Conns \X (1 .. MaxBytes))

TypeOK ==
  /\ sock \in [Socks -> [conn : 0 .. MaxConns, nb : BOOLEAN] \cup {NoSock}]
  /\ buf \in [Socks -> Bytes]
  /\ conns \in 0 .. MaxConns /\ home \in [Conns -> Socks \cup {NoSock}]
  /\ inbox \in [Conns -> 0 .. MaxSends] /\ server \in [Conns -> BOOLEAN]
  /\ out \in [Conns -> Seq(Bytes)] /\ chan \in [Conns -> Seq(Bytes)]
  /\ feeder \in [Conns -> {"recv", "mark", "wakeSock", "wakeEvents", "endWake", "endMark",
                           "endEvents", "ended", "gone"}]
  /\ toWake \in [Conns -> SUBSET WsaEvents]
  /\ wsa \in [WsaEvents -> Entries \cup {NoEntry}]
  /\ call \in [Threads -> Calls \cup {NoCall}] /\ ready \subseteq Threads
  /\ waitS \in [Threads -> SUBSET Socks] /\ waitH \in [Threads -> SUBSET WsaEvents]
  /\ \/ mid = Idle
     \/ mid \in [t : Threads, at : {"park"}] /\ call[mid.t] # NoCall
     \/ /\ mid \in [t : Threads, at : {"clear"}, e : WsaEvents]
        /\ call[mid.t] = NoCall /\ wsa[mid.e] # NoEntry
  /\ sent \in [Conns -> 0 .. MaxBytes] /\ got \in [Conns -> Bytes]
  /\ eof \subseteq Conns /\ quit \subseteq Conns /\ unwoken \subseteq Threads

\* What the guest has received of a connection, what waits for it in recv_buf and in
\* the channels, in that order, is what the handler sent: recv, WSARecv, MSG_PEEK,
\* select, the waits and WSAEnumNetworkEvents all move chunks between the two and
\* none loses, doubles or reorders a byte, whichever of them come between.
StreamIntact ==
  /\ \A s \in Socks : Open(s) =>
       LET c == ConnOf(s)
       IN  got[c] \o buf[s] \o FlattenSeq(chan[c]) \o FlattenSeq(out[c]) = SentBy(c)
  /\ \A c \in Conns : IsPrefix(got[c], SentBy(c))
  /\ \A s \in Socks : ~Open(s) => buf[s] = <<>>

\* The end of a stream is reported only to a guest that has all of it.
EofMeansAll == \A c \in eof : got[c] = SentBy(c)

\* The guest receives what the handler sends, once and in order, from all of the
\* calls that take it, nothing of an earlier connection of the same handle, and the
\* end of the stream only when it has all of it.
StreamsIntact == TypeOK /\ StreamIntact /\ EofMeansAll

Asleep(t, op) == call[t] # NoCall /\ call[t].op = op /\ t \notin ready /\ mid.t # t
FeederAt(s, at) == \E c \in Conns : home[c] = s /\ feeder[c] \in at

\* A thread does not sleep in recv, WSARecv or a wait for FD_READ while there is data
\* for it, unless the feeder is about to wake it.  Left out are the threads the code
\* does let sleep on data ("unwoken"): one whose wake-up came between its look at the
\* socket (ws2_32.rs:559) and its parking (:588), which undoes it, and one that waits
\* for an event when WSAEventSelect puts another socket, with data, under it.
NoSleepOnData ==
  \A t \in Threads \ unwoken :
    /\ Asleep(t, "recv") \/ Asleep(t, "wsarecv") =>
         (HasData(call[t].s) => FeederAt(call[t].s, {"mark", "wakeSock"}))
    /\ Asleep(t, "wait") =>
         LET entry == wsa[call[t].e]
         IN  entry # NoEntry /\ "read" \in entry.interest /\ HasData(entry.sock)
               => FeederAt(entry.sock, {"mark", "wakeSock", "wakeEvents"})

\* A thread in recv learns that another one has closed the socket: closesocket wakes
\* nobody, but the handler loses its input and ends, the feeder loses its own and
\* wakes the thread, and the call fails.  A connection that the handler closed has no
\* feeder left to do it.
CloseEndsRecv ==
  \A t \in Threads, s \in Socks :
    LET Blocked == call[t] # NoCall /\ call[t].op = "recv" /\ call[t].s = s
    IN  (Blocked /\ sock[s] = NoSock) ~> (~Blocked \/ sock[s] # NoSock \/ quit # {})

-----------------------------------------------------------------------------
(* What the comment of select says, and it does not do.                       *)

\* select waits for its sockets to become ready; wake-ups lost while it parks are left
\* out here as well.
SelectNotices ==
  \A t \in Threads \ unwoken : Asleep(t, "select") =>
    \A s \in call[t].fds : HasData(s) => FeederAt(s, {"mark", "wakeSock"})

=============================================================================
