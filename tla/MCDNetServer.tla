---------------------------- MODULE MCDNetServer ----------------------------
(***************************************************************************)
(* Small instance of DNetServer: two channels, a header of two bytes and   *)
(* bodies of up to one, so that chunks cut headers, bodies and frames.     *)
(***************************************************************************)
EXTENDS DNetServer

CtrlFrame(type, c)    == [ch |-> 0, len |-> 1, body |-> [type |-> type, ch |-> c]]
AuthFrame(ctl, u, p)  == [ch |-> 1, len |-> 1, body |-> [control |-> ctl, user |-> u, pass |-> p]]
MainFrame(main, u, p) == [ch |-> 2, len |-> 1, body |-> [main |-> main, user |-> u, pass |-> p]]

\* Messages of every kind the handlers tell apart.
Messages ==
  {CtrlFrame(t, 1) : t \in {"open", "close", "open_ok"}}
    \cup {CtrlFrame(t, 2) : t \in {"open", "abort"}}
    \cup {AuthFrame(c, "kim", "pw") : c \in {"login", "submit", "logout", "avatar", "id_check"}}
    \cup {MainFrame(m, "kim", "pw") : m \in {"login", "echo"}}
    \cup {[ch |-> 1, len |-> 0, body |-> [control |-> "none"]]}

MinBodyLen == [c \in Channels |-> 1]
Bad == {[ch |-> 16, len |-> 1, body |-> [main |-> "none"]]}

=============================================================================
