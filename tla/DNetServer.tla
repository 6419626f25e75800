----------------------------- MODULE DNetServer -----------------------------
(***************************************************************************)
(* run_dnet_handler: the server's thread reads chunks of the client's      *)
(* byte stream from a channel, cuts them into frames and handles these.    *)
(* The client may write its frames in any pieces, and the reader gets the  *)
(* pieces as they were written.                                            *)
(*                                                                         *)
(* A byte is <<f, i>>, the i-th byte of frame f on the wire.               *)
(***************************************************************************)
EXTENDS DNetSession, FiniteSets, SequencesExt

CONSTANTS
  HeaderLen,     \* 4, the bytes of a header
  ValidFrames,   \* frames that pass parse_header
  BadFrames,     \* frames that do not
  MaxFrames,     \* bound: frames the client sends
  MaxChunks,     \* bound: chunks waiting in server_rx
  MaxRest        \* bound: unwritten bytes when the client begins a frame

ASSUME FrameAssumption ==
  /\ HeaderLen \in Nat \ {0} /\ MaxFrames \in Nat
  /\ \A f \in ValidFrames \cup BadFrames : f.len \in Nat
  /\ \A f \in ValidFrames :
       \/ f.ch = AuthChannel /\ f.body.control \in {"login", "submit"}
       \/ f.ch \notin {0, AuthChannel} /\ f.body.main = "login"
       => f.body.user \in Users \cup {NoUser} /\ f.body.pass \in Passwords

VARIABLES
  sent,      \* how many frames the client has begun
  rest,      \* the bytes of the client's current frames it has yet to write
  wire,      \* the chunks in server_rx
  buf,       \* ServerRuntime::byte_buf
  phase,     \* "recv": in server_rx.recv, "frames": in process_recv_data, "ended"
  connected  \* the client still holds its ends of the channels

stream == <<sent, rest, wire, buf>>
vars   == <<session, stream, phase, connected>>

Bytes(f) == [i \in 1 .. HeaderLen + f.len |-> <<f, i>>]

Init ==
  /\ SessionInit
  /\ sent = 0 /\ rest = <<>> /\ wire = <<>> /\ buf = <<>>
  /\ phase = "recv" /\ connected = TRUE

-----------------------------------------------------------------------------
(* The client.                                                               *)

\* The client has a further frame to send; it may be written with the rest of
\* the one before.
ClientFrame ==
  /\ connected /\ sent < MaxFrames /\ Len(rest) <= MaxRest
  /\ \E f \in ValidFrames \cup BadFrames : rest' = rest \o Bytes(f)
  /\ sent' = sent + 1
  /\ UNCHANGED <<session, wire, buf, phase, connected>>

\* A send of the guest: one chunk of any size.
ClientWrite ==
  /\ connected /\ Len(wire) < MaxChunks
  /\ \E n \in 1 .. Len(rest) :
       /\ wire' = Append(wire, SubSeq(rest, 1, n))
       /\ rest' = SubSeq(rest, n + 1, Len(rest))
  /\ UNCHANGED <<session, sent, buf, phase, connected>>

\* closesocket.
ClientDisconnect ==
  /\ connected /\ connected' = FALSE
  /\ UNCHANGED <<session, stream, phase>>

-----------------------------------------------------------------------------
(* The server's thread.                                                      *)

\* recv returns a chunk.
Receive ==
  /\ phase = "recv" /\ wire # <<>>
  /\ buf' = buf \o Head(wire)
  /\ wire' = Tail(wire)
  /\ phase' = "frames"
  /\ UNCHANGED <<session, sent, rest, connected>>

\* recv fails once the client is gone and every chunk was read.
ReceiveFails ==
  /\ phase = "recv" /\ wire = <<>> /\ ~connected
  /\ phase' = "ended"
  /\ UNCHANGED <<session, stream, connected>>

\* The header at the front of the buffer.
HaveHeader == Len(buf) >= HeaderLen
Header     == buf[1][1]
HeaderOK   == Header \in ValidFrames

\* Mutant: the length in the header is taken for that of the frame.
NeededIsBodyLen == Header.len

\* needed in process_recv_data.
Needed == HeaderLen + Header.len

\* No complete frame is in the buffer.
WantsMore == HaveHeader => HeaderOK /\ Len(buf) < Needed

WaitForMore ==
  /\ phase = "frames" /\ WantsMore
  /\ phase' = "recv"
  /\ UNCHANGED <<session, stream, connected>>

InvalidHeader ==
  /\ phase = "frames" /\ HaveHeader /\ ~HeaderOK
  /\ phase' = "ended"
  /\ UNCHANGED <<session, stream, connected>>

\* Mutant: the loop is left after one frame.
OneFramePerChunk ==
  /\ phase = "frames" /\ HaveHeader /\ HeaderOK /\ ~WantsMore
  /\ buf' = SubSeq(buf, Needed + 1, Len(buf))
  /\ Handle(Header)
  /\ phase' = "recv"
  /\ UNCHANGED <<sent, rest, wire, connected>>

\* One turn of the loop.  The packets are sent one by one; that the client goes
\* away between two of them is covered by SendFails, for nobody reads them.
HandleFrame ==
  /\ phase = "frames" /\ HaveHeader /\ HeaderOK /\ ~WantsMore
  /\ buf' = SubSeq(buf, Needed + 1, Len(buf))
  /\ Handle(Header)
  /\ UNCHANGED <<sent, rest, wire, phase, connected>>

\* send_packets fails: the client is gone.
SendFails ==
  /\ phase = "frames" /\ ~connected /\ HaveHeader /\ HeaderOK /\ ~WantsMore
  /\ phase' = "ended"
  /\ UNCHANGED <<session, stream, connected>>

Client  == ClientFrame \/ ClientWrite \/ ClientDisconnect
Handler == Receive \/ ReceiveFails \/ WaitForMore \/ InvalidHeader
             \/ HandleFrame \/ SendFails

Next == Client \/ Handler

\* The handler is a thread of its own: it runs whenever recv has something.
Spec     == Init /\ [][Next]_vars
FairSpec == Spec /\ WF_vars(Handler)

-----------------------------------------------------------------------------
(* Properties.                                                               *)

\* The bytes between the client's writes and the handler, and the frames that are
\* complete among them: a bad one as soon as its header is.
InTransit == buf \o FlattenSeq(wire)
Ready(b)  == b[2] = HeaderLen + (IF b[1] \in ValidFrames THEN b[1].len ELSE 0)
FrameOf(b) == b[1]
Whole(s) ==
  LET upto[n \in 0 .. Len(s)] ==
        IF n = 0 THEN <<>>
        ELSE IF Ready(s[n]) THEN Append(upto[n - 1], FrameOf(s[n])) ELSE upto[n - 1]
  IN  upto[Len(s)]
Todo      == Whole(InTransit)

TypeOK ==
  /\ sent \in 0 .. MaxFrames
  /\ openChannels \subseteq Channels
  /\ DOMAIN profile \subseteq Users /\ \A u \in DOMAIN profile : profile[u] \in Passwords
  /\ info \in Users \cup {NoSession}
  /\ phase \in {"recv", "frames", "ended"} /\ connected \in BOOLEAN

\* However the stream is cut, the buffer starts with the first byte of a frame
\* and holds whole frames up to the last: no boundary is ever lost.
InStep ==
  /\ buf # <<>> => buf[1][2] = 1
  /\ \A i \in 1 .. Len(buf) - 1 :
       \/ buf[i + 1] = <<buf[i][1], buf[i][2] + 1>>
       \/ buf[i + 1][2] = 1 /\ buf[i][2] = HeaderLen + buf[i][1].len

\* The stream stays in step with its frames, and the channels with their users:
\* no data on a channel that is not open, no channel opened twice.
ChannelsKeepOrder == TypeOK /\ InStep /\ DataOnlyWhileOpen

\* Cutting and joining chunks is invisible: the conversation is one of FrameServer,
\* where frames arrive whole.
Server == INSTANCE FrameServer WITH todo <- Todo, ended <- phase = "ended"
ImplementsFrameServer == Server!Spec

\* A complete frame does not wait for the next chunk: the handler gets to the end
\* of what was written, unless the connection ends.
EveryFrameHandled == []<>(Todo = <<>> \/ phase = "ended")

=============================================================================
