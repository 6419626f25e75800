----------------------------- MODULE MCSurface -----------------------------
(* One window, two draws, two moves.                                         *)
EXTENDS Surface
=============================================================================
