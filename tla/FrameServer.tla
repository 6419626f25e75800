----------------------------- MODULE FrameServer -----------------------------
(***************************************************************************)
(* The server as its client sees it: frames arrive whole and in order, and *)
(* each is handled once; a frame with an invalid header ends the           *)
(* connection.                                                             *)
(***************************************************************************)
EXTENDS DNetSession, SequencesExt

CONSTANTS ValidFrames, BadFrames

VARIABLES todo, ended

Init == SessionInit /\ todo = <<>> /\ ended = FALSE

\* One or more frames arrive.
Arrive ==
  /\ todo' \in Seq(ValidFrames \cup BadFrames)
  /\ IsPrefix(todo, todo')
  /\ UNCHANGED <<session, ended>>

HandleFirst ==
  /\ ~ended /\ todo # <<>> /\ Head(todo) \in ValidFrames
  /\ Handle(Head(todo))
  /\ todo' = Tail(todo)
  /\ UNCHANGED ended

\* An invalid frame, or the client is gone.
End ==
  /\ ended' = TRUE
  /\ UNCHANGED <<session, todo>>

Next == Arrive \/ HandleFirst \/ End

Spec == Init /\ [][Next]_<<session, todo, ended>>

=============================================================================
