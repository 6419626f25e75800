----------------------------- MODULE MCDesktop -----------------------------
(***************************************************************************)
(* The window tree, the picture of a window and the GDI objects, one after *)
(* the other in one run: "part" says which of them moves, and the others   *)
(* stay as they begin.  They meet in the code at points their modules      *)
(* stand for on their own: a size, a handle, a command.                    *)
(***************************************************************************)
EXTENDS WindowTree

CONSTANTS Sizes, MaxDcs, MaxDraws, MaxMoves, MaxUpdates, MaxHandle, MaxMarks

VARIABLES
  part,
  size, bmp, sync, drawer, moves, chan, outer, events, dirty, redraw, renderer,
  tex, shown, missed, late, unasked, torn,
  objs, handle, window, active, pixels, bits, want, marks, stuck, dropped, leaked

\* Two of the parts, the picture and the objects, with the theorems about them.
Drawing == INSTANCE Gdi_proof WITH
  guest <- drawer, host <- outer, ui <- renderer, MaxCmds <- MaxUpdates, next <- handle

tree    == vars
picture == <<size, bmp, sync, drawer, moves, chan, outer, events, dirty, redraw,
             renderer, tex, shown, missed, late, unasked, torn>>
gdi     == <<objs, handle, window, active, pixels, bits, want, marks, stuck,
             dropped, leaked>>

MCInit ==
  /\ part \in {"tree", "picture", "gdi"}
  /\ Init /\ Drawing!Init /\ Drawing!GdiInit
  /\ part # "picture" => size = CHOOSE s \in Sizes : TRUE

MCNext ==
  /\ UNCHANGED part
  /\ \/ part = "tree" /\ Next /\ UNCHANGED <<picture, gdi>>
     \/ part = "picture" /\ Drawing!Next /\ UNCHANGED <<tree, gdi>>
     \/ part = "gdi" /\ Drawing!GdiNext /\ UNCHANGED <<tree, picture>>

MCSpec == MCInit /\ [][MCNext]_<<tree, picture, gdi, part>>

\* Every variable of the three modules has the values the code gives it.
DesktopTypeOK == TypeOK /\ Drawing!TypeOK /\ Drawing!GdiTypeOK

\* Once the guest pauses and the UI thread has caught up, the window shows what was
\* drawn (module Surface names the exceptions).
ShowsWhatWasDrawn == Drawing!ShowsWhatWasDrawn

\* What is selected into a DC or cut out of a window is an object that is there, or one
\* that ReleaseDC took for a DC.
SelectedExist == DesktopTypeOK /\ Drawing!SelectedExist

\* The surface knows how many DCs are open on it; those that DeleteObject took stay open
\* to it.
CountsOpenDcs == Drawing!CountsOpenDcs

\* What is drawn on the bitmap of a section reaches the bits the guest reads.
NothingUndrawn == Drawing!NothingUndrawn
=============================================================================
