----------------------------- MODULE DNetSession -----------------------------
(***************************************************************************)
(* What the in-process game server does with one DNet frame: control       *)
(* messages open and close channels, application frames on an open channel *)
(* reach the handlers of src/server/domain.  A frame is handled by the     *)
(* server's thread alone, so it is one step.                               *)
(*                                                                         *)
(* A frame is [ch, len, body].  The body of a control frame (ch = 0) is    *)
(* [type, ch]; of a frame for the auth channel, [control, user, pass]; of  *)
(* any other, [main, user, pass].  len counts the body's bytes.               *)
(***************************************************************************)
EXTENDS Naturals, Sequences

CONSTANTS
  Channels,       \* 1..14, the data channels the server supports
  AuthChannel,    \* 1
  WorldChannel,   \* 2
  MinBody,        \* the bytes a packet of a channel has: 8 for auth, 2 for others
  Users, Passwords,
  TestUser, TestPassword, \* the account Session::new creates
  NoUser,         \* an empty user name
  NoSession       \* Session::info is None

ASSUME SessionAssumption ==
  /\ AuthChannel \in Channels /\ WorldChannel \in Channels
  /\ AuthChannel # WorldChannel /\ 0 \notin Channels
  /\ MinBody \in [Channels -> Nat]
  /\ TestUser \in Users /\ TestPassword \in Passwords
  /\ NoUser \notin Users /\ NoSession \notin Users

VARIABLES
  openChannels,  \* ServerRuntime::open_channels
  profile,       \* Session::profile, user -> password
  info,          \* Session::info, its user
  log            \* the frames handled and the packets sent, in order

session == <<openChannels, profile, info, log>>

\* What the log records.
Got(f)        == [from |-> "client", ch |-> f.ch, body |-> f.body]
Ctrl(type, c) == [from |-> "server", ch |-> 0, body |-> [type |-> type, ch |-> c]]
App(c, what)  == [from |-> "server", ch |-> c, body |-> [what |-> what]]

SessionInit ==
  /\ openChannels = {}
  /\ profile = [u \in {TestUser} |-> TestPassword]
  /\ info = NoSession
  /\ log = <<>>

\* The frame is handled and answered by the packets of "answers".
Answer(f, answers) == log' = Append(log, Got(f)) \o answers

Quiet == UNCHANGED <<openChannels, profile, info>>

-----------------------------------------------------------------------------
(* handle_control_message.                                                   *)

\* Mutant: a channel that is open already is accepted again.
OpenRequestTwice(f) ==
  /\ f.ch = 0 /\ f.body.type = "open"
  /\ openChannels' = openChannels \cup {f.body.ch}
  /\ Answer(f, <<Ctrl("open_ok", f.body.ch)>>)
  /\ UNCHANGED <<profile, info>>

\* handle_open_request: an unsupported or already open channel is rejected; the
\* world channel gets its map at once.
OpenRequest(f) ==
  /\ f.ch = 0 /\ f.body.type = "open"
  /\ LET c == f.body.ch
     IN  IF c \in Channels \ openChannels
         THEN /\ openChannels' = openChannels \cup {c}
              /\ Answer(f, IF c = WorldChannel
                           THEN <<Ctrl("open_ok", c), App(c, "world_map")>>
                           ELSE <<Ctrl("open_ok", c)>>)
         ELSE /\ Answer(f, <<Ctrl("abort", c)>>)
              /\ UNCHANGED openChannels
  /\ UNCHANGED <<profile, info>>

\* An abort is taken silently, the close of an open channel is echoed.
CloseRequest(f) ==
  /\ f.ch = 0 /\ f.body.type \in {"abort", "close"}
  /\ openChannels' = openChannels \ {f.body.ch}
  /\ Answer(f, IF f.body.type = "close" /\ f.body.ch \in openChannels
               THEN <<Ctrl("close", f.body.ch)>> ELSE <<>>)
  /\ UNCHANGED <<profile, info>>

\* OPEN_OK and unknown control messages.
OtherControl(f) ==
  /\ f.ch = 0 /\ f.body.type \notin {"open", "abort", "close"}
  /\ Answer(f, <<>>) /\ Quiet

-----------------------------------------------------------------------------
(* handle_app_message.                                                       *)

\* A frame for a channel that is not open, or too short for its channel, is
\* answered by an abort; the channel stays as it is.
Refused(f) == f.ch # 0 /\ (f.ch \notin Channels \cap openChannels \/ f.len < MinBody[f.ch])

Refuse(f) == Refused(f) /\ Answer(f, <<Ctrl("abort", f.ch)>>) /\ Quiet

\* login_response of the auth channel: whoever asks is logged in.
AuthLogin(f) ==
  /\ f.body.control = "login"
  /\ info' = IF f.body.user = NoUser THEN TestUser ELSE f.body.user
  /\ Answer(f, <<App(f.ch, "avatars"), App(f.ch, "legacy_login")>>)
  /\ UNCHANGED <<openChannels, profile>>

\* registration_submit_response.
AuthSubmit(f) ==
  /\ f.body.control = "submit"
  /\ LET u == f.body.user
     IN  IF u = NoUser \/ u \in DOMAIN profile
         THEN Answer(f, <<App(f.ch, "refused")>>) /\ UNCHANGED <<profile, info>>
         ELSE /\ profile' = [v \in DOMAIN profile \cup {u} |->
                               IF v = u THEN f.body.pass ELSE profile[v]]
              /\ info' = u
              /\ Answer(f, <<App(f.ch, "avatars")>>)
  /\ UNCHANGED openChannels

\* avatar_selection_response: the details need a session.
AuthAvatar(f) ==
  /\ f.body.control = "avatar"
  /\ Answer(f, IF info = NoSession THEN <<App(f.ch, "visit")>>
               ELSE <<App(f.ch, "details"), App(f.ch, "visit")>>)
  /\ Quiet

\* logout_response: the answer closes the channel for the client.
AuthLogout(f) ==
  /\ f.body.control = "logout"
  /\ info' = NoSession
  /\ Answer(f, <<Ctrl("close", f.ch)>>)
  /\ UNCHANGED <<openChannels, profile>>

\* The version, the registration text and the check of an id; an unknown control
\* and a registration form that is too short get no answer.
AuthQuery(f) ==
  /\ f.body.control \notin {"login", "submit", "avatar", "logout"}
  /\ Answer(f, IF f.body.control = "other" THEN <<>> ELSE <<App(f.ch, f.body.control)>>)
  /\ Quiet

Auth(f) ==
  /\ f.ch = AuthChannel /\ ~Refused(f)
  /\ \/ AuthLogin(f) \/ AuthSubmit(f) \/ AuthAvatar(f)
     \/ AuthLogout(f) \/ AuthQuery(f)

\* authenticate_login compares the stored password with a constant.
LoginResult(u, p) ==
  CASE u \notin DOMAIN profile    -> "no_id"
    [] u \in DOMAIN profile /\ profile[u] = TestPassword -> "ok"
    [] OTHER                      -> "bad_password"

\* handle_system, sub type 2.
SystemLogin(f) ==
  /\ f.body.main = "login"
  /\ LET r == IF f.body.user = NoUser THEN "auth_failed"
              ELSE LoginResult(f.body.user, f.body.pass)
     IN  /\ info' = IF r = "ok" THEN f.body.user ELSE NoSession
         /\ Answer(f, <<App(f.ch, r)>>)
  /\ UNCHANGED <<openChannels, profile>>

\* dispatch_packet: the version is answered; ping, inventory and 0xD4 are echoed;
\* the map, the chats and the rest are only recorded.
OtherMain(f) ==
  /\ f.body.main # "login"
  /\ Answer(f, IF f.body.main = "other" THEN <<>> ELSE <<App(f.ch, f.body.main)>>)
  /\ Quiet

Dispatch(f) ==
  /\ f.ch # 0 /\ f.ch # AuthChannel /\ ~Refused(f)
  /\ SystemLogin(f) \/ OtherMain(f)

Handle(f) ==
  \/ OpenRequest(f) \/ CloseRequest(f) \/ OtherControl(f)
  \/ Refuse(f) \/ Auth(f) \/ Dispatch(f)

-----------------------------------------------------------------------------
(* Properties of the conversation.                                           *)

ClientEnds(e, c) ==
  e.from = "client" /\ e.ch = 0 /\ e.body.ch = c /\ e.body.type \in {"abort", "close"}

\* The server sends application data on a channel only while it is open, after an
\* OPEN_OK that no close or abort of the client followed, and accepts a channel a
\* second time only after the client ended the first use: two users of one
\* connection never share a channel.
DataOnlyWhileOpen ==
  /\ \A i \in DOMAIN log :
       log[i].from = "server" /\ log[i].ch # 0 =>
         \E j \in 1 .. i : /\ log[j] = Ctrl("open_ok", log[i].ch)
                           /\ \A k \in j .. i : ~ClientEnds(log[k], log[i].ch)
  /\ \A i, j \in DOMAIN log :
       (i < j /\ log[i] = log[j] /\ log[i].from = "server" /\ log[i].ch = 0
          /\ log[i].body.type = "open_ok") =>
         \E k \in i .. j : ClientEnds(log[k], log[i].body.ch)

=============================================================================
