---------------------------- MODULE MCMessageLost ----------------------------
(***************************************************************************)
(* MessageQueue with the main thread alone, which owns a window.           *)
(***************************************************************************)
EXTENDS MessageQueue

CONSTANT frame

MainOwns == [w \in {frame} |-> 0]
=============================================================================
