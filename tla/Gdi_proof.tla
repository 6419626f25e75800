------------------------------ MODULE Gdi_proof ------------------------------
(***************************************************************************)
(* What the guest draws with, for every number of calls, handles, drawings *)
(* and sizes.  Surface: when both threads are done, the window shows what  *)
(* the CPU drew.  GdiObjects: what is selected exists, the surface counts  *)
(* its open DCs, and no drawing is lost between a section's two copies of  *)
(* its pixels.                                                             *)
(***************************************************************************)
EXTENDS Surface, GdiObjects, FiniteSetTheorems, SequenceTheorems, TLAPS

----------------------------------------------------------------------------
(* Types. *)

SyncState == [full : BOOLEAN, release : BOOLEAN, content : BOOLEAN, ops : Seq(Int), dcs : Nat]
Bmp       == [size : Sizes, drawn : Seq(Int)]
Texture   == [size : Sizes \cup {0}, drawn : Seq(Int), full : BOOLEAN]

LEMMA NoOps == <<>> \in Seq(Int)
OBVIOUS

\* The state with other values in some of its fields.
LEMMA Fields ==
  ASSUME NEW s \in SyncState
  PROVE  /\ [s EXCEPT !.content = TRUE] \in SyncState
         /\ [s EXCEPT !.content = TRUE, !.full = FALSE] \in SyncState
         /\ \A ops \in Seq(Int) :
              /\ [s EXCEPT !.ops = ops] \in SyncState
              /\ [s EXCEPT !.full = FALSE, !.ops = ops] \in SyncState
              /\ [s EXCEPT !.release = TRUE, !.ops = ops] \in SyncState
              /\ [s EXCEPT !.full = TRUE, !.release = FALSE, !.ops = ops] \in SyncState
BY DEF SyncState

\* What the operations on the state beside the bitmap return.
LEMMA SyncOperations ==
  ASSUME NEW s \in SyncState, NEW op \in Int
  PROVE  /\ Dirtied(s) \in SyncState /\ Drawn(s, op) \in SyncState
         /\ \A p \in BOOLEAN : Uploaded(s, op, p) \in SyncState
         /\ Noted(s) \in SyncState /\ Replaced(s) \in SyncState /\ AtRelease(s) \in SyncState
<1>1. ASSUME NEW t \in SyncState PROVE Dirtied(t) \in SyncState
  BY NoOps, Fields DEF Dirtied
<1>2. ASSUME NEW t \in SyncState, NEW o \in Int
      PROVE  [t EXCEPT !.release = TRUE, !.ops = Append(@, o)] \in SyncState
  <2>1. Append(t.ops, o) \in Seq(Int)
    BY DEF SyncState
  <2> QED BY <2>1, Fields DEF SyncState
<1>3. Drawn(s, op) \in SyncState
  <2>1. -op \in Int
    OBVIOUS
  <2>2. [s EXCEPT !.content = TRUE, !.full = FALSE] \in SyncState
    BY Fields
  <2> QED BY <1>2, <2>1, <2>2 DEF Drawn
<1>4. ASSUME NEW p \in BOOLEAN PROVE Uploaded(s, op, p) \in SyncState
  <2>1. [Dirtied(s) EXCEPT !.content = TRUE] \in SyncState
    BY <1>1, Fields
  <2>2. s.content \in BOOLEAN /\ s.full \in BOOLEAN
    BY DEF SyncState
  <2> QED BY <1>2, <2>1, <2>2 DEF Uploaded
<1>5. Noted(s) \in SyncState
  BY DEF Noted, SyncState
<1>6. Replaced(s) \in SyncState
  BY <1>1, Fields DEF Replaced
<1>7. AtRelease(s) \in SyncState
  BY <1>1 DEF AtRelease, Released
<1> QED BY <1>1, <1>3, <1>4, <1>5, <1>6, <1>7

\* A DC less, or none less: nothing else changes.
LEMMA ClosedIs ==
  ASSUME NEW s \in SyncState
  PROVE  /\ s.dcs > 0 => Closed(s) \in SyncState
         /\ Closed(s).full = s.full /\ Closed(s).release = s.release
         /\ Closed(s).content = s.content /\ Closed(s).ops = s.ops
BY DEF Closed, SyncState

LEMMA Painted ==
  ASSUME TypeOK
  PROVE  Paint(bmp) \in Bmp /\ NextDraw \in Int /\ NextDraw \in Nat
<1>1. bmp \in Bmp
  BY DEF TypeOK, Bmp
<1>2. NextDraw \in Nat
  BY <1>1 DEF NextDraw, Bmp
<1>3. Append(bmp.drawn, NextDraw) \in Seq(Int)
  BY <1>1, <1>2 DEF Bmp
<1> QED BY <1>1, <1>2, <1>3 DEF Paint, Bmp

LEMMA FittedTypes ==
  ASSUME TypeOK, NEW s \in Sizes, Fitted(s)
  PROVE  bmp' \in Bmp /\ sync' \in SyncState
<1>1. bmp \in Bmp /\ sync \in SyncState
  BY DEF TypeOK, Bmp, SyncState
<1>2. Paint(bmp) \in Bmp /\ Dirtied(sync) \in SyncState
  BY <1>1, Painted, SyncOperations
<1> QED BY <1>1, <1>2 DEF Fitted, Bmp

LEMMA TypesInit == Init => TypeOK
<1> SUFFICES ASSUME Init PROVE TypeOK
  OBVIOUS
<1>1. bmp \in Bmp /\ sync \in SyncState /\ tex \in Texture /\ shown \in Seq(Int)
  BY NoOps DEF Init, Bmp, SyncState, Texture
<1>2. chan \in Seq(Commands) /\ events \in Seq(Sizes)
  BY DEF Init
<1>3. guest \in Calls /\ ui \in Works
  BY DEF Init, Calls, Works
<1> QED BY <1>1, <1>2, <1>3 DEF Init, TypeOK, Bmp, SyncState, Texture

LEMMA TypesStep == TypeOK /\ [Next]_vars => TypeOK'
<1> SUFFICES ASSUME TypeOK, [Next]_vars PROVE TypeOK'
  OBVIOUS
<1> USE DEF uis, emu
<1>a. bmp \in Bmp /\ sync \in SyncState /\ tex \in Texture
  BY DEF TypeOK, Bmp, SyncState, Texture
<1>b. ASSUME NEW c \in Commands PROVE Append(chan, c) \in Seq(Commands)
  BY DEF TypeOK
<1>c. [op |-> "update"] \in Commands /\ \A s \in Sizes : [op |-> "move", size |-> s] \in Commands
  BY DEF Commands
<1>d. Idle \in Calls /\ Idle \in Works
  BY DEF Calls, Works
<1>1. CASE BeginSurfaceBitmapDc
  <2>1. sync' \in SyncState
    BY <1>1, <1>a DEF BeginSurfaceBitmapDc, SyncState
  <2> QED BY <1>1, <2>1 DEF BeginSurfaceBitmapDc, TypeOK, SyncState
<1>2. ASSUME NEW kind \in {"draw", "erase"}, DrawPixels(kind) PROVE TypeOK'
  <2>1. guest' \in Calls
    BY <1>2, Painted DEF DrawPixels, Calls
  <2> QED BY <1>2, <2>1, Painted DEF DrawPixels, TypeOK, Bmp
<1>3. CASE DrawQueued
  <2>1. guest.op \in Int
    BY <1>3 DEF DrawQueued, TypeOK, Calls, Idle
  <2>2. sync' \in SyncState
    BY <1>3, <1>a, <2>1, SyncOperations DEF DrawQueued
  <2> QED BY <1>3, <1>b, <1>c, <1>d, <2>2 DEF DrawQueued, TypeOK, SyncState
<1>4. ASSUME NEW kind \in {"blit", "black", "part", "whole"}, Blit(kind) PROVE TypeOK'
  <2>1. sync' \in SyncState
    BY <1>4, <1>a, Painted, SyncOperations DEF Blit
  <2> QED BY <1>4, <1>b, <1>c, <2>1, Painted DEF Blit, TypeOK, Bmp, SyncState
<1>5. CASE ReleaseGdiDc
  <2>1. guest' \in Calls
    BY <1>5 DEF ReleaseGdiDc, Calls
  <2>2. (sync.dcs > 0 /\ sync' = Closed(sync)) \/ sync' = sync
    BY <1>5 DEF ReleaseGdiDc
  <2>3. sync' \in SyncState
    BY <1>a, <2>2, ClosedIs
  <2> QED BY <1>5, <2>1, <2>3 DEF ReleaseGdiDc, TypeOK, SyncState
<1>27. CASE DeleteDC
  <2>1. sync' \in SyncState
    BY <1>27, <1>a, ClosedIs DEF DeleteDC
  <2> QED BY <1>27, <2>1 DEF DeleteDC, TypeOK, SyncState
<1>6. CASE EnsureSync
  <2>1. guest' \in Calls
    BY <1>6 DEF EnsureSync, Calls
  <2>2. sync' \in SyncState
    <3>1. AtRelease(sync) \in SyncState
      BY <1>a, SyncOperations
    <3> QED BY <1>6, <3>1 DEF EnsureSync
  <2> QED BY <1>6, <2>1, <2>2 DEF EnsureSync, TypeOK, SyncState
<1>7. CASE UpdateWindow
  BY <1>7, <1>b, <1>c, <1>d DEF UpdateWindow, TypeOK
<1>8. ASSUME NEW s \in Sizes, MoveWindow(s) PROVE TypeOK'
  <2>1. guest' \in Calls
    BY <1>8 DEF MoveWindow, Calls
  <2> QED BY <1>8, <1>b, <1>c, <2>1 DEF MoveWindow, TypeOK
<1>9. CASE ReadSize
  <2>1. guest' \in Calls
    BY <1>9 DEF ReadSize, Calls, TypeOK
  <2> QED BY <1>9, <2>1 DEF ReadSize, TypeOK
<1>10. CASE FitBitmap
  <2>1. guest.size \in Sizes
    BY <1>10 DEF FitBitmap, TypeOK, Calls, Idle
  <2> QED BY <1>10, <1>d, <2>1, FittedTypes DEF FitBitmap, TypeOK, Bmp, SyncState
<1>11. ASSUME NEW s \in Sizes, HostResizes(s) PROVE host' \in Sizes /\ events' \in Seq(Sizes)
  BY <1>11 DEF HostResizes, TypeOK
<1>12. CASE Command
  <2>1. Head(chan) \in Commands /\ Tail(chan) \in Seq(Commands)
    BY <1>12 DEF Command, TypeOK
  <2>2. Head(chan).op # "update" => Head(chan).size \in Sizes
    BY <2>1 DEF Commands
  <2>3. host' \in Sizes /\ events' \in Seq(Sizes) /\ dirty' \in BOOLEAN
    BY <1>11, <1>12, <2>2 DEF Command, TypeOK
  <2> QED BY <1>12, <2>1, <2>3 DEF Command, TypeOK
<1>13. ASSUME NEW s \in Sizes, UserResizes(s) PROVE TypeOK'
  BY <1>11, <1>13 DEF UserResizes, TypeOK
<1>14. CASE Resized
  <2>1. Head(events) \in Sizes /\ Tail(events) \in Seq(Sizes)
    BY <1>14 DEF Resized, TypeOK
  <2>2. ui' \in Works
    BY <1>14, <2>1 DEF Resized, Works
  <2> QED BY <1>14, <2>1, <2>2 DEF Resized, TypeOK
<1>15. CASE ResizedFits
  <2>1. ui.size \in Sizes
    BY <1>15 DEF ResizedFits, TypeOK, Works, Idle
  <2> QED BY <1>15, <1>d, <2>1, FittedTypes DEF ResizedFits, TypeOK, Bmp, SyncState
<1>16. ASSUME NEW try \in Tries, RenderFor(try) PROVE ui' \in Works /\ redraw' \in BOOLEAN
  <2>1. Idle \in Works /\ [at |-> "checked", try |-> try] \in Works
    BY DEF Works
  <2>2. redraw' \in BOOLEAN
    BY <1>16 DEF RenderFor
  <2> QED BY <1>16, <2>1, <2>2 DEF RenderFor
<1>17. CASE RenderDirty
  BY <1>16, <1>17 DEF RenderDirty, TypeOK, Tries
<1>18. CASE RedrawRequested
  BY <1>16, <1>18 DEF RedrawRequested, TypeOK, Tries
<1>19. CASE Refused
  BY <1>19, <1>d DEF Refused, GiveUp, TypeOK
<1>20. CASE Snapshot
  <2>1. ui' \in Works
    BY <1>20 DEF Snapshot, TypeOK, Works, Idle
  <2> QED BY <1>20, <2>1 DEF Snapshot, TypeOK
<1>21. CASE NothingYet
  BY <1>21, <1>d DEF NothingYet, GiveUp, TypeOK
<1>22. CASE ConsumeFull
  <2>1. ui.size \in Sizes
    BY <1>22 DEF ConsumeFull, TypeOK, Works, Idle
  <2>2. sync' \in SyncState
    BY <1>22, <1>a, NoOps, Fields DEF ConsumeFull
  <2>3. PICK whole \in BOOLEAN : ui' = [at |-> "taking", size |-> ui.size, whole |-> whole]
    BY <1>22 DEF ConsumeFull
  <2>4. ui' \in Works
    BY <2>1, <2>3 DEF Works
  <2> QED BY <1>22, <2>2, <2>4 DEF ConsumeFull, TypeOK, SyncState
<1>23. CASE Upload
  <2>1. ui.size \in Sizes /\ ui.whole \in BOOLEAN
    BY <1>23 DEF Upload, TypeOK, Works, Idle
  <2>2. tex' \in Texture
    <3>1. tex.drawn \o sync.ops \in Seq(Int) /\ bmp.drawn \in Seq(Int)
      BY <1>a DEF Texture, SyncState, Bmp
    <3> QED BY <1>23, <2>1, <3>1 DEF Upload, Texture
  <2>3. sync' \in SyncState
    BY <1>23, <1>a, NoOps, Fields DEF Upload
  <2>4. ui' \in Works /\ torn' \in BOOLEAN
    BY <1>23, <2>1 DEF Upload, Works
  <2> QED BY <1>23, <2>2, <2>3, <2>4 DEF Upload, TypeOK, SyncState, Texture
<1>24. CASE Present
  BY <1>24, <1>d DEF Present, TypeOK
<1>25. CASE SurfaceError
  BY <1>25, <1>d DEF SurfaceError, TypeOK
<1>26. CASE UNCHANGED vars
  BY <1>26 DEF vars, TypeOK
<1> QED
  BY <1>1, <1>2, <1>3, <1>4, <1>5, <1>6, <1>7, <1>8, <1>9, <1>10, <1>12, <1>13, <1>14, <1>15,
     <1>17, <1>18, <1>19, <1>20, <1>21, <1>22, <1>23, <1>24, <1>25, <1>26, <1>27 DEF Next

----------------------------------------------------------------------------
(* What the operations on the state beside the bitmap do. *)

LEMMA DirtiedIs ==
  ASSUME NEW s \in SyncState
  PROVE  /\ Dirtied(s).full /\ ~Dirtied(s).release /\ Dirtied(s).ops = <<>>
         /\ Dirtied(s).content = s.content /\ Dirtied(s).dcs = s.dcs
BY DEF Dirtied, SyncState

\* Operations wait only while the state remembers that there are some.
Remembers(s) == ~s.release => s.ops = <<>>

\* A drawing leaves its trace: the whole bitmap is asked for, or a release will.
Traced(s, t) ==
  /\ s.full \/ s.release
  /\ s.content /\ s.dcs = t.dcs
  /\ Remembers(s)
  /\ s.full => t.full

LEMMA DrawnIs ==
  ASSUME NEW s \in SyncState, NEW op \in Int, Remembers(s)
  PROVE  Traced(Drawn(s, op), s)
BY DEF Drawn, SyncState, Remembers, Traced

LEMMA NotedIs ==
  ASSUME NEW s \in SyncState, Remembers(s)
  PROVE  Traced(Noted(s), s)
BY DEF Noted, SyncState, Remembers, Traced

LEMMA ReplacedIs ==
  ASSUME NEW s \in SyncState
  PROVE  /\ Replaced(s).full /\ Replaced(s).content /\ Replaced(s).dcs = s.dcs
         /\ Remembers(Replaced(s))
<1>1. [s EXCEPT !.content = TRUE] \in SyncState
  BY Fields
<1> QED BY <1>1, DirtiedIs DEF Replaced, Remembers, SyncState

LEMMA UploadedIs ==
  ASSUME NEW s \in SyncState, NEW op \in Int, NEW p \in BOOLEAN, Remembers(s)
  PROVE  /\ Uploaded(s, op, p).full \/ Uploaded(s, op, p).release \/ Uploaded(s, op, p) = s
         /\ Uploaded(s, op, p) = s => ~s.content \/ s.full \/ s.release
         /\ Uploaded(s, op, p).dcs = s.dcs /\ Remembers(Uploaded(s, op, p))
         /\ s.content => Uploaded(s, op, p).content
<1>1. CASE ~s.content /\ ~p
  BY <1>1 DEF Uploaded
<1>2. CASE ~s.content /\ p
  <2>1. Dirtied(s) \in SyncState
    BY SyncOperations
  <2>2. Uploaded(s, op, p) = [Dirtied(s) EXCEPT !.content = TRUE]
    BY <1>2 DEF Uploaded
  <2> QED BY <1>2, <2>1, <2>2, DirtiedIs DEF SyncState, Remembers
<1>3. CASE s.content /\ s.full
  BY <1>3 DEF Uploaded
<1>4. CASE s.content /\ ~s.full
  <2>1. Uploaded(s, op, p) = [s EXCEPT !.release = TRUE, !.ops = Append(@, op)]
    BY <1>4 DEF Uploaded
  <2> QED BY <1>4, <2>1 DEF SyncState, Remembers
<1> QED BY <1>1, <1>2, <1>3, <1>4 DEF SyncState

----------------------------------------------------------------------------
(* The texture: it has what is on the bitmap, or something says that it has not. *)

TextureInv ==
  /\ Remembers(sync)
  /\ sync.release => sync.dcs > 0 \/ guest.at = "released" \/ unasked
  /\ guest.at = "drew" => sync.dcs > 0 \/ guest.kind = "erase"
  /\ ~sync.content => tex.full
  /\ ui.at = "taking" => sync.content /\ (ui.whole \/ ~tex.full)
  /\ torn => ui.at = "uploaded"
  /\ \/ tex.full \/ tex.drawn = bmp.drawn \/ sync.full \/ sync.release
     \/ guest.at = "drew" \/ (ui.at = "taking" /\ ui.whole)

LEMMA TextureInit == Init => TextureInv
BY DEF Init, TextureInv, Remembers, Idle

LEMMA TextureStep == TypeOK /\ TextureInv /\ [Next]_vars => TextureInv'
<1> SUFFICES ASSUME TypeOK, TextureInv, [Next]_vars PROVE TextureInv'
  OBVIOUS
<1> USE DEF uis, emu
<1>a. bmp \in Bmp /\ sync \in SyncState /\ tex \in Texture /\ torn \in BOOLEAN
  BY DEF TypeOK, Bmp, SyncState, Texture
<1>b. Idle.at = "idle"
  BY DEF Idle
\* Steps of the emulator thread between its calls, and those of the UI thread.
<1>c. ASSUME UNCHANGED <<sync, bmp, tex, unasked, torn>>, guest.at \notin {"drew", "released"},
             guest'.at # "drew", ui' = ui
      PROVE  TextureInv'
  BY <1>c DEF TextureInv
<1>d. ASSUME UNCHANGED <<sync, bmp, tex, unasked, torn, guest>>, ui.at # "taking", ui'.at # "taking", ~torn
      PROVE  TextureInv'
  BY <1>d DEF TextureInv
<1>1. CASE BeginSurfaceBitmapDc
  <2>1. /\ sync'.dcs = sync.dcs + 1 /\ sync'.full = sync.full /\ sync'.release = sync.release
        /\ sync'.content = sync.content /\ sync'.ops = sync.ops
    BY <1>1, <1>a DEF BeginSurfaceBitmapDc, SyncState
  <2>2. sync.dcs \in Nat
    BY <1>a DEF SyncState
  <2> QED BY <1>1, <2>1, <2>2 DEF BeginSurfaceBitmapDc, TextureInv, Remembers
<1>2. ASSUME NEW kind \in {"draw", "erase"}, DrawPixels(kind) PROVE TextureInv'
  <2>1. /\ guest'.at = "drew" /\ guest'.kind = kind /\ guest.at = "idle" /\ ui.at # "taking"
        /\ sync.dcs > 0 \/ kind = "erase"
    BY <1>2, <1>b DEF DrawPixels, MayDraw, MayPaint, Begins, PixelsFree
  <2>2. UNCHANGED <<sync, tex, ui, unasked, torn>>
    BY <1>2 DEF DrawPixels
  <2> QED BY <2>1, <2>2 DEF TextureInv
<1>3. CASE DrawQueued
  <2>1. guest.op \in Int
    BY <1>3 DEF DrawQueued, TypeOK, Calls, Idle
  <2>2. Traced(sync', sync)
    BY <1>3, <1>a, <2>1, DrawnIs, NotedIs DEF DrawQueued, TextureInv
  <2>3. /\ guest.at = "drew" /\ guest'.at = "idle" /\ UNCHANGED <<tex, ui, torn>>
        /\ unasked' = (unasked \/ guest.kind = "erase")
    BY <1>3, <1>b DEF DrawQueued
  <2> QED BY <2>2, <2>3 DEF TextureInv, Traced
<1>4. ASSUME NEW kind \in {"blit", "black", "part", "whole"}, Blit(kind) PROVE TextureInv'
  <2>1. /\ Begins /\ ui.at # "taking" /\ sync.dcs > 0 /\ guest.at = "idle"
        /\ UNCHANGED <<tex, ui, torn, guest>>
    BY <1>4, <1>b DEF Blit, MayDraw, MayPaint, PixelsFree, Begins
  <2>2. Remembers(sync) /\ NextDraw \in Int
    BY Painted DEF TextureInv
  <2>3. /\ Remembers(sync') /\ sync'.dcs = sync.dcs
        /\ sync'.full \/ sync'.release \/ (~sync.content /\ sync' = sync)
        /\ sync.content => sync'.content
    <3>1. CASE kind = "blit"
      <4>1. sync' = Drawn(sync, NextDraw)
        BY <1>4, <3>1 DEF Blit
      <4>2. Traced(sync', sync)
        BY <1>a, <2>2, <4>1, DrawnIs
      <4> QED BY <4>2 DEF Traced
    <3>2. CASE kind = "whole"
      <4>1. sync' = Replaced(sync)
        BY <1>4, <3>2 DEF Blit
      <4> QED BY <1>a, <4>1, ReplacedIs
    <3>3. CASE kind \in {"black", "part"}
      <4>1. PICK p \in BOOLEAN : sync' = Uploaded(sync, NextDraw, p)
        BY <1>4, <3>3 DEF Blit
      <4> QED BY <1>a, <2>2, <4>1, UploadedIs
    <3> QED BY <3>1, <3>2, <3>3
  <2> QED BY <2>1, <2>3 DEF TextureInv
<1>5. CASE ReleaseGdiDc
  <2>3. sync' = Closed(sync) \/ sync' = sync
    BY <1>5 DEF ReleaseGdiDc
  <2>1. /\ sync'.full = sync.full /\ sync'.release = sync.release
        /\ sync'.content = sync.content /\ sync'.ops = sync.ops
    BY <1>a, <2>3, ClosedIs
  <2>2. guest.at = "idle" /\ guest'.at = "released" /\ UNCHANGED <<bmp, tex, ui, torn>>
    BY <1>5, <1>b DEF ReleaseGdiDc, Begins
  <2> QED BY <2>1, <2>2 DEF TextureInv, Remembers
<1>6. CASE EnsureSync
  <2>1. /\ ~sync'.release /\ sync'.ops = <<>> /\ sync'.content = sync.content
        /\ sync'.full \/ sync' = sync
    BY <1>6, <1>a, DirtiedIs DEF EnsureSync, AtRelease, Released, TextureInv, Remembers
  <2>2. guest.at = "released" /\ guest'.at = "synced" /\ UNCHANGED <<bmp, tex, ui, torn>>
    BY <1>6 DEF EnsureSync
  <2> QED BY <2>1, <2>2 DEF TextureInv, Remembers
<1>7. CASE UpdateWindow
  BY <1>7, <1>b, <1>c DEF UpdateWindow
<1>27. CASE DeleteDC
  <2>1. /\ sync'.full = sync.full /\ sync'.release = sync.release
        /\ sync'.content = sync.content /\ sync'.ops = sync.ops
    BY <1>27, <1>a, ClosedIs DEF DeleteDC
  <2>2. guest.at = "idle" /\ unasked' /\ UNCHANGED <<guest, bmp, tex, ui, torn>>
    BY <1>27, <1>b DEF DeleteDC, Begins
  <2> QED BY <2>1, <2>2 DEF TextureInv, Remembers
<1>8. ASSUME NEW s \in Sizes, MoveWindow(s) PROVE TextureInv'
  BY <1>8, <1>b, <1>c DEF MoveWindow, Begins
<1>9. CASE ReadSize
  BY <1>9, <1>c DEF ReadSize
<1>10. ASSUME NEW s \in Sizes, Fitted(s), ui.at # "taking", ui'.at # "taking", ~torn \/ ui' = ui,
              guest.at \notin {"drew", "released"} \/ guest' = guest, guest'.at # "drew" \/ guest' = guest,
              UNCHANGED <<tex, unasked, torn>>
       PROVE  TextureInv'
  <2>1. CASE UNCHANGED <<bmp, sync>>
    BY <1>10, <2>1 DEF TextureInv
  <2>2. CASE sync' = Dirtied(sync)
    <3>1. /\ sync'.full /\ ~sync'.release /\ sync'.ops = <<>>
          /\ sync'.content = sync.content /\ sync'.dcs = sync.dcs
      BY <1>a, <2>2, DirtiedIs
    <3> QED BY <1>10, <3>1 DEF TextureInv, Remembers
  <2> QED BY <1>10, <2>1, <2>2 DEF Fitted
<1>11. CASE FitBitmap
  <2>1. guest.size \in Sizes
    BY <1>11 DEF FitBitmap, TypeOK, Calls, Idle
  <2>2. Fitted(guest.size) /\ ui.at # "taking" /\ guest.at = "fitting" /\ guest'.at = "idle"
    BY <1>11, <1>b DEF FitBitmap, PixelsFree
  <2>3. UNCHANGED <<tex, unasked, torn, ui>>
    BY <1>11 DEF FitBitmap
  <2> QED BY <1>10, <2>1, <2>2, <2>3
<1>12. CASE Command
  BY <1>12 DEF Command, TextureInv
<1>13. ASSUME NEW s \in Sizes, UserResizes(s) PROVE TextureInv'
  BY <1>13 DEF UserResizes, TextureInv
<1>14. CASE Resized
  BY <1>14, <1>b, <1>d DEF Resized, UIFree
<1>15. CASE ResizedFits
  <2>1. ui.size \in Sizes
    BY <1>15 DEF ResizedFits, TypeOK, Works, Idle
  <2>2. Fitted(ui.size) /\ ui.at # "taking" /\ ui'.at # "taking" /\ ~torn
    BY <1>15, <1>b DEF ResizedFits, TextureInv
  <2>3. UNCHANGED <<tex, unasked, torn, guest>>
    BY <1>15 DEF ResizedFits
  <2> QED BY <1>10, <2>1, <2>2, <2>3
<1>16. ASSUME NEW try, RenderFor(try), ui.at = "idle", ~torn,
              UNCHANGED <<sync, bmp, tex, unasked, torn, guest>>
       PROVE  TextureInv'
  BY <1>16, <1>b, <1>d DEF RenderFor
<1>17. CASE RenderDirty
  BY <1>16, <1>17, <1>b DEF RenderDirty, UIFree
<1>18. CASE RedrawRequested
  BY <1>16, <1>18, <1>b DEF RedrawRequested, UIFree
<1>19. CASE Refused
  BY <1>19, <1>b, <1>d DEF Refused, GiveUp, TextureInv
<1>20. CASE Snapshot
  BY <1>20, <1>d DEF Snapshot, TextureInv
<1>21. CASE NothingYet
  BY <1>21, <1>b, <1>d DEF NothingYet, GiveUp, TextureInv
<1>22. CASE ConsumeFull
  <2>1. /\ sync.content /\ ui.at = "snapped" /\ UNCHANGED <<bmp, tex, guest, unasked, torn>>
        /\ ui'.at = "taking" /\ ~torn
    BY <1>22 DEF ConsumeFull, TextureInv
  <2>2. \/ ui'.whole /\ sync' = sync
        \/ ui'.whole /\ sync' = [sync EXCEPT !.full = FALSE, !.ops = <<>>]
        \/ ~ui'.whole /\ sync' = sync /\ ~tex.full
    BY <1>22 DEF ConsumeFull
  <2>3. Remembers(sync') /\ sync'.content /\ sync'.release = sync.release /\ sync'.dcs = sync.dcs
    BY <1>a, <2>1, <2>2 DEF SyncState, TextureInv, Remembers
  <2> QED BY <2>1, <2>2, <2>3 DEF TextureInv
<1>23. CASE Upload
  <2>1. /\ sync'.full = sync.full /\ sync'.release = sync.release /\ sync'.dcs = sync.dcs
        /\ sync'.content = sync.content /\ sync'.ops = <<>>
    BY <1>23, <1>a DEF Upload, SyncState
  <2>2. /\ ui.at = "taking" /\ ui'.at = "uploaded" /\ UNCHANGED <<bmp, guest, unasked>>
        /\ tex'.drawn = IF ui.whole THEN bmp.drawn ELSE tex.drawn \o sync.ops
    BY <1>23 DEF Upload
  <2>3. sync.ops = <<>> => tex.drawn \o sync.ops = tex.drawn
    BY <1>a DEF Texture
  <2> QED BY <2>1, <2>2, <2>3 DEF TextureInv, Remembers
<1>24. CASE Present
  BY <1>24, <1>b, <1>d DEF Present
<1>25. CASE SurfaceError
  BY <1>25, <1>b, <1>d DEF SurfaceError
<1>26. CASE UNCHANGED vars
  BY <1>26 DEF vars, TextureInv
<1> QED
  BY <1>1, <1>2, <1>3, <1>4, <1>5, <1>6, <1>7, <1>8, <1>9, <1>11, <1>12, <1>13, <1>14, <1>15,
     <1>17, <1>18, <1>19, <1>20, <1>21, <1>22, <1>23, <1>24, <1>25, <1>26, <1>27 DEF Next

----------------------------------------------------------------------------
(* The sizes: the window's, the host's and the bitmap's come together. *)

IsMove(c) == c.op = "move"

\* An UpdateWindow is under way; a command will give the host window another size; the
\* last size the guest has asked for.
Told        == \E i \in DOMAIN chan : chan[i].op = "update"
Coming      == \E i \in DOMAIN chan : IsMove(chan[i]) /\ chan[i].size # host
LastMove(s) == \E i \in DOMAIN chan :
  /\ IsMove(chan[i]) /\ chan[i].size = s
  /\ \A j \in DOMAIN chan : i < j => ~IsMove(chan[j])

\* What a command put into the channel changes, and one taken out of it.
LEMMA Sent ==
  ASSUME TypeOK, NEW c \in Commands, chan' = Append(chan, c), UNCHANGED host
  PROVE  /\ Told => Told'
         /\ Coming => Coming'
         /\ c.op = "update" => Told' /\ \A s \in Sizes : LastMove(s) => LastMove(s)'
         /\ IsMove(c) => LastMove(c.size)'
<1>1. chan \in Seq(Commands)
  BY DEF TypeOK
<1>2. /\ DOMAIN chan' = DOMAIN chan \cup {Len(chan) + 1} /\ chan'[Len(chan) + 1] = c
      /\ \A i \in DOMAIN chan : chan'[i] = chan[i] /\ i < Len(chan) + 1
      /\ DOMAIN chan \subseteq Nat /\ Len(chan) + 1 \in Nat
  BY <1>1
<1>3. (Told => Told') /\ (Coming => Coming')
  BY <1>2 DEF Told, Coming
<1>4. c.op = "update" => Told' /\ \A s \in Sizes : LastMove(s) => LastMove(s)'
  BY <1>2 DEF Told, LastMove, IsMove
<1>5. IsMove(c) => LastMove(c.size)'
  BY <1>2 DEF LastMove
<1> QED BY <1>3, <1>4, <1>5

LEMMA Taken ==
  ASSUME TypeOK, chan # <<>>, chan' = Tail(chan)
  PROVE  /\ Head(chan) \in Commands
         /\ Told => Head(chan).op = "update" \/ Told'
         /\ host' = host /\ Coming =>
              (IsMove(Head(chan)) /\ Head(chan).size # host) \/ Coming'
         /\ \A s \in Sizes : LastMove(s) => (IsMove(Head(chan)) /\ Head(chan).size = s) \/ LastMove(s)'
<1>1. chan \in Seq(Commands)
  BY DEF TypeOK
<1>2. /\ Head(chan) = chan[1] /\ Head(chan) \in Commands
      /\ \A i \in DOMAIN chan : i # 1 => i - 1 \in DOMAIN chan' /\ chan'[i - 1] = chan[i]
      /\ \A i \in DOMAIN chan' : i + 1 \in DOMAIN chan /\ chan'[i] = chan[i + 1]
      /\ DOMAIN chan \subseteq Nat /\ DOMAIN chan' \subseteq Nat
  BY <1>1
<1>3. Told => Head(chan).op = "update" \/ Told'
  BY <1>2 DEF Told
<1>4. ASSUME host' = host, Coming
      PROVE  (IsMove(Head(chan)) /\ Head(chan).size # host) \/ Coming'
  <2>1. PICK i \in DOMAIN chan : IsMove(chan[i]) /\ chan[i].size # host
    BY <1>4 DEF Coming
  <2>2. CASE i = 1
    BY <1>2, <2>1, <2>2, Zenon
  <2>3. CASE i # 1
    <3>1. i - 1 \in DOMAIN chan' /\ chan'[i - 1] = chan[i]
      BY <1>2, <2>3
    <3> QED BY <1>4, <2>1, <3>1 DEF Coming
  <2> QED BY <2>2, <2>3
<1>5. ASSUME NEW s \in Sizes, LastMove(s)
      PROVE  (IsMove(Head(chan)) /\ Head(chan).size = s) \/ LastMove(s)'
  <2>1. PICK i \in DOMAIN chan : /\ IsMove(chan[i]) /\ chan[i].size = s
                                 /\ \A j \in DOMAIN chan : i < j => ~IsMove(chan[j])
    BY <1>5 DEF LastMove
  <2>2. CASE i = 1
    BY <1>2, <2>1, <2>2
  <2>3. CASE i # 1
    <3>1. i - 1 \in DOMAIN chan' /\ IsMove(chan'[i - 1]) /\ chan'[i - 1].size = s
      BY <1>2, <2>1, <2>3
    <3>2. \A j \in DOMAIN chan' : i - 1 < j => ~IsMove(chan'[j])
      BY <1>2, <2>1
    <3> QED BY <3>1, <3>2 DEF LastMove
  <2> QED BY <2>2, <2>3
<1> QED BY <1>2, <1>3, <1>4, <1>5

LEMMA LastIsComing ==
  ASSUME NEW s, LastMove(s), s # host
  PROVE  Coming
BY DEF LastMove, Coming

SizesInv ==
  /\ events # <<>> => events[Len(events)] = host
  /\ events = <<>> /\ ui.at = "fitting" => ui.size = host
  /\ events = <<>> => size = host \/ LastMove(size)
  /\ ~late /\ events = <<>> /\ ui.at # "fitting" => bmp.size = host \/ Coming

LEMMA SizesInit == Init => SizesInv
<1> SUFFICES ASSUME Init PROVE SizesInv
  OBVIOUS
<1>1. size = host /\ bmp.size = host /\ events = <<>>
  BY DEF Init
<1>2. ui.at = "idle"
  BY DEF Init, Idle
<1> QED BY <1>1, <1>2 DEF SizesInv

LEMMA NoLength ==
  ASSUME NEW S, NEW t \in Seq(S)
  PROVE  t = <<>> <=> Len(t) = 0
BY EmptySeq

LEMMA LastOfTail ==
  ASSUME NEW S, NEW s \in Seq(S), s # <<>>
  PROVE  IF Tail(s) = <<>> THEN Head(s) = s[Len(s)]
         ELSE Tail(s)[Len(Tail(s))] = s[Len(s)]
<1>1. Len(s) \in Nat \ {0} /\ Len(Tail(s)) = Len(s) - 1 /\ Tail(s) \in Seq(S) /\ Head(s) = s[1]
  OBVIOUS
<1>0. Tail(s) = <<>> <=> Len(Tail(s)) = 0
  BY <1>1, NoLength, Zenon
<1>2. CASE Len(s) = 1
  <2>1. Tail(s) = <<>>
    BY <1>0, <1>1, <1>2
  <2> QED BY <1>1, <1>2, <2>1
<1>3. CASE Len(s) # 1
  <2>1. Tail(s) # <<>>
    BY <1>0, <1>1, <1>3
  <2>2. Tail(s)[Len(s) - 1] = s[Len(s)]
    BY <1>1, <1>3
  <2> QED BY <1>1, <2>1, <2>2
<1> QED BY <1>2, <1>3

LEMMA HostAnswers ==
  ASSUME TypeOK, SizesInv, NEW s \in Sizes, HostResizes(s)
  PROVE  /\ host' = s
         /\ events' # <<>> => events'[Len(events')] = host'
         /\ events' = <<>> => events = <<>> /\ host' = host
<1>1. events \in Seq(Sizes)
  BY DEF TypeOK
<1>2. CASE host = s
  BY <1>2 DEF HostResizes, SizesInv
<1>3. CASE host # s
  BY <1>1, <1>3 DEF HostResizes
<1> QED BY <1>2, <1>3

LEMMA FittedIs ==
  ASSUME TypeOK, NEW s \in Sizes, Fitted(s)
  PROVE  bmp'.size = s /\ (bmp.size = s => bmp' = bmp)
BY DEF Fitted, TypeOK, Paint

LEMMA SizesStep == TypeOK /\ SizesInv /\ [Next]_vars => SizesInv'
<1> SUFFICES ASSUME TypeOK, SizesInv, [Next]_vars PROVE SizesInv'
  OBVIOUS
<1> USE DEF uis, emu
<1>a. Idle.at = "idle" /\ size \in Sizes
  BY DEF Idle, TypeOK
<1>c. [op |-> "update"] \in Commands /\ \A s \in Sizes : [op |-> "move", size |-> s] \in Commands
  BY DEF Commands
<1>b. ASSUME UNCHANGED <<size, host, events, late, chan, bmp>>,
             ui'.at # "fitting", ui.at # "fitting"
      PROVE  SizesInv'
  BY <1>b DEF SizesInv, LastMove, Coming
<1>f. ASSUME UNCHANGED <<size, host, events, late, chan, ui>>, bmp'.size = bmp.size
      PROVE  SizesInv'
  BY <1>f DEF SizesInv, LastMove, Coming
<1>d. ASSUME UNCHANGED <<size, host, events, late, ui>>, bmp'.size = bmp.size,
             chan' = Append(chan, [op |-> "update"])
      PROVE  SizesInv'
  <2>1. (Coming => Coming') /\ (LastMove(size) => LastMove(size)')
    BY <1>a, <1>c, <1>d, Sent
  <2>2. LastMove(size)' <=> \E i \in DOMAIN chan' :
          /\ IsMove(chan'[i]) /\ chan'[i].size = size
          /\ \A j \in DOMAIN chan' : i < j => ~IsMove(chan'[j])
    BY <1>d DEF LastMove
  <2> QED BY <1>d, <2>1, <2>2 DEF SizesInv, LastMove
<1>e. Paint(bmp).size = bmp.size
  BY DEF Paint, TypeOK
<1>1. CASE BeginSurfaceBitmapDc
  BY <1>1, <1>f DEF BeginSurfaceBitmapDc
<1>2. ASSUME NEW kind \in {"draw", "erase"}, DrawPixels(kind) PROVE SizesInv'
  BY <1>2, <1>f, <1>e DEF DrawPixels
<1>3. CASE DrawQueued
  <2>1. CASE guest.kind = "erase"
    BY <1>3, <1>f, <2>1 DEF DrawQueued
  <2>2. CASE guest.kind # "erase"
    BY <1>3, <1>d, <2>2 DEF DrawQueued
  <2> QED BY <2>1, <2>2
<1>4. ASSUME NEW kind \in {"blit", "black", "part", "whole"}, Blit(kind) PROVE SizesInv'
  BY <1>4, <1>d, <1>e DEF Blit
<1>5. CASE ReleaseGdiDc \/ DeleteDC
  BY <1>5, <1>f DEF ReleaseGdiDc, DeleteDC
<1>6. CASE EnsureSync
  BY <1>6, <1>f DEF EnsureSync
<1>7. CASE UpdateWindow
  BY <1>7, <1>d DEF UpdateWindow
<1>8. ASSUME NEW s \in Sizes, MoveWindow(s) PROVE SizesInv'
  <2>1. chan' = Append(chan, [op |-> "move", size |-> s]) /\ UNCHANGED host
    BY <1>8 DEF MoveWindow
  <2>2. Coming => Coming'
    BY <1>c, <2>1, Sent
  <2>3. \E i \in DOMAIN chan' : /\ IsMove(chan'[i]) /\ chan'[i].size = s
                                /\ \A j \in DOMAIN chan' : i < j => ~IsMove(chan'[j])
    BY <1>c, <2>1, Sent DEF LastMove, IsMove
  <2>4. size' = s
    BY <1>8 DEF MoveWindow
  <2>5. LastMove(size)'
    BY <2>3, <2>4 DEF LastMove
  <2> QED BY <1>8, <2>2, <2>5 DEF MoveWindow, SizesInv
<1>9. CASE ReadSize
  BY <1>9, <1>f DEF ReadSize
<1>10. CASE FitBitmap
  <2>1. /\ guest.size \in Sizes /\ UNCHANGED <<size, host, events, chan, ui>>
        /\ late' = (late \/ guest.size \notin {size, bmp.size})
    BY <1>10 DEF FitBitmap, TypeOK, Calls, Idle
  <2>2. bmp'.size = guest.size /\ (bmp.size = guest.size => bmp' = bmp)
    BY <1>10, <2>1, FittedIs DEF FitBitmap
  <2>3. (Coming' <=> Coming) /\ (LastMove(size)' <=> LastMove(size))
    BY <2>1 DEF Coming, LastMove
  <2> QED BY <2>1, <2>2, <2>3, LastIsComing DEF SizesInv
<1>12. CASE Command
  <2>1. chan # <<>> /\ chan' = Tail(chan) /\ UNCHANGED <<size, bmp, late, ui>>
    BY <1>12 DEF Command
  <2>2. Head(chan) \in Commands
    BY <2>1, Taken
  <2>3. LastMove(size)' <=> \E i \in DOMAIN chan' :
          /\ IsMove(chan'[i]) /\ chan'[i].size = size
          /\ \A j \in DOMAIN chan' : i < j => ~IsMove(chan'[j])
    BY <2>1 DEF LastMove
  <2>4. LastMove(size) => (IsMove(Head(chan)) /\ Head(chan).size = size) \/ LastMove(size)'
    BY <1>a, <2>1, <2>3, Taken DEF LastMove
  <2>5. host' = host /\ Coming => (IsMove(Head(chan)) /\ Head(chan).size # host) \/ Coming'
    BY <2>1, Taken
  <2>6. CASE Head(chan).op = "update"
    <3>1. UNCHANGED <<host, events>> /\ ~IsMove(Head(chan))
      BY <1>12, <2>6 DEF Command, IsMove
    <3> QED BY <2>1, <2>4, <2>5, <3>1 DEF SizesInv
  <2>7. CASE Head(chan).op # "update"
    <3>1. HostResizes(Head(chan).size) /\ Head(chan).size \in Sizes
      BY <1>12, <2>2, <2>7 DEF Command, Commands
    <3>2. /\ host' = Head(chan).size
          /\ events' # <<>> => events'[Len(events')] = host'
          /\ events' = <<>> => events = <<>> /\ host' = host
      BY <3>1, HostAnswers
    <3> QED BY <2>1, <2>4, <2>5, <3>2 DEF SizesInv
  <2> QED BY <2>6, <2>7
<1>13. ASSUME NEW s \in Sizes, UserResizes(s) PROVE SizesInv'
  <2>1. HostResizes(s) /\ s # host /\ UNCHANGED <<size, bmp, late, ui, chan>>
    BY <1>13 DEF UserResizes
  <2>2. /\ host' = s
        /\ events' # <<>> => events'[Len(events')] = host'
        /\ events' = <<>> => events = <<>> /\ host' = host
    BY <2>1, HostAnswers
  <2> QED BY <2>1, <2>2 DEF SizesInv
<1>14. CASE Resized
  <2>1. /\ events \in Seq(Sizes) /\ events # <<>> /\ size' = Head(events) /\ events' = Tail(events)
        /\ ui'.at = "fitting" /\ ui'.size = Head(events) /\ UNCHANGED host
    BY <1>14 DEF Resized, TypeOK
  <2>2. events[Len(events)] = host
    BY <2>1 DEF SizesInv
  <2>3. IF Tail(events) = <<>> THEN Head(events) = events[Len(events)]
        ELSE Tail(events)[Len(Tail(events))] = events[Len(events)]
    BY <2>1, LastOfTail
  <2> QED BY <2>1, <2>2, <2>3 DEF SizesInv
<1>15. CASE ResizedFits
  <2>1. ui.size \in Sizes /\ UNCHANGED <<size, host, events, chan>> /\ ui.at = "fitting" /\ ui'.at = "idle"
    BY <1>15, <1>a DEF ResizedFits, TypeOK, Works, Idle
  <2>2. bmp'.size = ui.size
    BY <1>15, <2>1, FittedIs DEF ResizedFits
  <2>3. (Coming' <=> Coming) /\ (LastMove(size)' <=> LastMove(size))
    BY <2>1 DEF Coming, LastMove
  <2> QED BY <2>1, <2>2, <2>3 DEF SizesInv
<1>16. ASSUME NEW try, RenderFor(try), ui.at = "idle",
              UNCHANGED <<size, host, events, late, chan, bmp>>
       PROVE  SizesInv'
  BY <1>16, <1>a, <1>b DEF RenderFor
<1>17. CASE RenderDirty
  BY <1>16, <1>17, <1>a DEF RenderDirty, UIFree
<1>18. CASE RedrawRequested
  BY <1>16, <1>18, <1>a DEF RedrawRequested, UIFree
<1>19. CASE Refused
  BY <1>19, <1>a, <1>b DEF Refused, GiveUp
<1>20. CASE Snapshot
  BY <1>20, <1>b DEF Snapshot
<1>21. CASE NothingYet
  BY <1>21, <1>a, <1>b DEF NothingYet, GiveUp
<1>22. CASE ConsumeFull
  BY <1>22, <1>b DEF ConsumeFull
<1>23. CASE Upload
  BY <1>23, <1>b DEF Upload
<1>24. CASE Present
  BY <1>24, <1>a, <1>b DEF Present
<1>25. CASE SurfaceError
  BY <1>25, <1>a, <1>b DEF SurfaceError
<1>26. CASE UNCHANGED vars
  BY <1>26, <1>f DEF vars
<1> QED
  BY <1>1, <1>2, <1>3, <1>4, <1>5, <1>6, <1>7, <1>8, <1>9, <1>10, <1>12, <1>13, <1>14, <1>15,
     <1>17, <1>18, <1>19, <1>20, <1>21, <1>22, <1>23, <1>24, <1>25, <1>26 DEF Next

----------------------------------------------------------------------------
(* A render is owed: something will have the UI thread take the bitmap again, or  *)
(* nobody has told it of an erase or of a DC that DeleteDC took.                  *)

Owed ==
  \/ sync.dcs > 0 \/ guest.at \in {"drew", "released", "synced"}
  \/ Told \/ Coming \/ dirty \/ redraw
  \/ events # <<>> \/ ui.at = "fitting" \/ unasked

\* The bitmap is about to be taken over, or was and is about to be shown.
Rendering == ui.at \in {"checked", "snapped", "taking", "uploaded"}

\* What is owed stays owed until a render has begun.
LEMMA OwedStays == TypeOK /\ TextureInv /\ [Next]_vars /\ Owed => Owed' \/ ui'.at = "checked"
<1> SUFFICES ASSUME TypeOK, TextureInv, [Next]_vars, Owed PROVE Owed' \/ ui'.at = "checked"
  OBVIOUS
<1> USE DEF uis, emu
<1>a. bmp \in Bmp /\ sync \in SyncState /\ dirty \in BOOLEAN /\ redraw \in BOOLEAN /\ Idle.at = "idle"
  BY DEF TypeOK, Bmp, SyncState, Idle
<1>b. [op |-> "update"] \in Commands /\ \A s \in Sizes : [op |-> "move", size |-> s] \in Commands
  BY DEF Commands
<1>c. ASSUME sync'.dcs = sync.dcs, guest.at \notin {"drew", "released", "synced"},
             UNCHANGED <<host, chan, dirty, redraw, events, unasked>>, ui' = ui \/ ui.at # "fitting"
      PROVE  Owed'
  BY <1>c DEF Owed, Told, Coming
<1>1. CASE BeginSurfaceBitmapDc
  <2>1. sync'.dcs > 0
    BY <1>1, <1>a DEF BeginSurfaceBitmapDc, SyncState
  <2> QED BY <2>1 DEF Owed
<1>2. ASSUME NEW kind \in {"draw", "erase"}, DrawPixels(kind) PROVE Owed'
  BY <1>2 DEF DrawPixels, Owed
<1>3. CASE DrawQueued
  <2>1. guest.op \in Int
    BY <1>3 DEF DrawQueued, TypeOK, Calls, Idle
  <2>2. sync'.dcs = sync.dcs /\ (sync.dcs > 0 \/ unasked')
    BY <1>3, <1>a, <2>1, DrawnIs, NotedIs DEF DrawQueued, TextureInv, Traced
  <2> QED BY <2>2 DEF Owed
<1>4. ASSUME NEW kind \in {"blit", "black", "part", "whole"}, Blit(kind) PROVE Owed'
  <2>1. Told'
    BY <1>4, <1>b, Sent DEF Blit
  <2> QED BY <2>1 DEF Owed
<1>5. CASE ReleaseGdiDc
  <2>1. guest'.at = "released"
    BY <1>5 DEF ReleaseGdiDc
  <2> QED BY <2>1 DEF Owed
<1>27. CASE DeleteDC
  BY <1>27 DEF DeleteDC, Owed
<1>6. CASE EnsureSync
  <2>1. guest'.at = "synced"
    BY <1>6 DEF EnsureSync
  <2> QED BY <2>1 DEF Owed
<1>7. CASE UpdateWindow
  <2>1. Told'
    BY <1>7, <1>b, Sent DEF UpdateWindow
  <2> QED BY <2>1 DEF Owed
<1>8. ASSUME NEW s \in Sizes, MoveWindow(s) PROVE Owed'
  <2>1. (Told => Told') /\ (Coming => Coming')
    BY <1>8, <1>b, Sent DEF MoveWindow
  <2>2. UNCHANGED <<sync, dirty, redraw, events, ui, unasked>> /\ guest.at = "idle"
    BY <1>8, <1>a DEF MoveWindow, Begins
  <2> QED BY <2>1, <2>2 DEF Owed
<1>9. CASE ReadSize
  BY <1>9, <1>c DEF ReadSize
<1>10. ASSUME NEW s, Fitted(s) PROVE sync'.dcs = sync.dcs
  BY <1>10, <1>a, DirtiedIs DEF Fitted
<1>11. CASE FitBitmap
  BY <1>10, <1>11, <1>c DEF FitBitmap
<1>12. CASE Command
  <2>1. chan # <<>> /\ chan' = Tail(chan) /\ UNCHANGED <<sync, guest, redraw, ui, unasked>>
    BY <1>12 DEF Command
  <2>2. /\ Head(chan) \in Commands
        /\ Told => Head(chan).op = "update" \/ Told'
        /\ host' = host /\ Coming => (IsMove(Head(chan)) /\ Head(chan).size # host) \/ Coming'
    BY <2>1, Taken
  <2>3. CASE Head(chan).op = "update"
    <3>1. dirty'
      BY <1>12, <2>3 DEF Command
    <3> QED BY <3>1 DEF Owed
  <2>4. CASE Head(chan).op # "update"
    <3>1. HostResizes(Head(chan).size) /\ UNCHANGED dirty
      BY <1>12, <2>4 DEF Command
    <3>2. \/ host' = host /\ host = Head(chan).size /\ UNCHANGED events
          \/ events' # <<>>
      <4>1. events \in Seq(Sizes) /\ Head(chan).size \in Sizes
        BY <2>2, <2>4 DEF TypeOK, Commands
      <4>2. Append(events, Head(chan).size) # <<>>
        BY <4>1
      <4> QED BY <3>1, <4>2 DEF HostResizes
    <3> QED BY <2>1, <2>2, <2>4, <3>1, <3>2 DEF Owed
  <2> QED BY <2>3, <2>4
<1>13. ASSUME NEW s \in Sizes, UserResizes(s) PROVE Owed'
  <2>1. events' = Append(events, s) /\ events \in Seq(Sizes)
    BY <1>13 DEF UserResizes, HostResizes, TypeOK
  <2>2. events' # <<>>
    BY <2>1
  <2> QED BY <2>2 DEF Owed
<1>14. CASE Resized
  <2>1. ui'.at = "fitting"
    BY <1>14 DEF Resized
  <2> QED BY <2>1 DEF Owed
<1>15. CASE ResizedFits
  BY <1>15 DEF ResizedFits, Owed
<1>16. ASSUME NEW try, RenderFor(try), UNCHANGED sync PROVE Owed' \/ ui'.at = "checked"
  BY <1>16 DEF RenderFor, Owed
<1>17. CASE RenderDirty
  BY <1>16, <1>17 DEF RenderDirty
<1>18. CASE RedrawRequested
  BY <1>16, <1>18 DEF RedrawRequested
<1>19. CASE Refused \/ NothingYet
  <2>1. /\ redraw => redraw'
        /\ UNCHANGED <<sync, guest, host, chan, dirty, events, unasked>> /\ ui.at # "fitting"
    BY <1>19 DEF Refused, NothingYet, GiveUp
  <2> QED BY <2>1 DEF Owed, Told, Coming
<1>20. CASE Snapshot
  <2>1. UNCHANGED <<sync, guest, host, chan, dirty, redraw, events, unasked>> /\ ui.at # "fitting"
    BY <1>20 DEF Snapshot
  <2> QED BY <2>1 DEF Owed, Told, Coming
<1>22. CASE ConsumeFull \/ Upload
  <2>1. UNCHANGED <<guest, host, chan, dirty, redraw, events, unasked>> /\ ui.at # "fitting"
    BY <1>22 DEF ConsumeFull, Upload
  <2>2. sync'.dcs = sync.dcs
    BY <1>22, <1>a DEF ConsumeFull, Upload, SyncState
  <2> QED BY <2>1, <2>2 DEF Owed, Told, Coming
<1>24. CASE Present
  <2>1. UNCHANGED <<sync, guest, host, chan, dirty, redraw, events, unasked>> /\ ui.at # "fitting"
    BY <1>24 DEF Present
  <2> QED BY <2>1 DEF Owed, Told, Coming
<1>25. CASE SurfaceError
  BY <1>25 DEF SurfaceError, Owed
<1>26. CASE UNCHANGED vars
  BY <1>26 DEF vars, Owed, Told, Coming
<1> QED
  BY <1>1, <1>2, <1>3, <1>4, <1>5, <1>6, <1>7, <1>8, <1>9, <1>11, <1>12, <1>13, <1>14, <1>15,
     <1>17, <1>18, <1>19, <1>20, <1>22, <1>24, <1>25, <1>26, <1>27 DEF Next

----------------------------------------------------------------------------
(* What is shown: the bitmap, or a render is owed or under way. *)

ShownInv ==
  /\ ui.at = "taking" /\ ~ui.whole /\ sync.full => Owed
  /\ ui.at = "uploaded" => tex.drawn = bmp.drawn \/ Owed \/ late
  /\ sync.content => \/ shown = bmp.drawn \/ Owed \/ Rendering
                     \/ missed \/ late \/ torn

LEMMA ShownInit == Init => ShownInv
BY DEF Init, ShownInv, Idle

\* A bitmap that was fitted to the window's size while no render was owed has that
\* size already: nobody asks for a render after FitBitmap, and nobody needs to.
LEMMA FitIsAwaited ==
  ASSUME TypeOK, SizesInv, FitBitmap, ~Owed
  PROVE  late' \/ UNCHANGED <<bmp, sync>>
<1>1. guest.size \in Sizes /\ Fitted(guest.size)
  BY DEF FitBitmap, TypeOK, Calls, Idle
<1>2. late' = (late \/ guest.size \notin {size, bmp.size})
  BY DEF FitBitmap
<1>3. guest.size = bmp.size => UNCHANGED <<bmp, sync>>
  BY <1>1 DEF Fitted
<1>4. ~late => bmp.size = host
  BY DEF SizesInv, Owed
<1>5. size = host
  BY LastIsComing DEF SizesInv, Owed
<1> QED BY <1>2, <1>3, <1>4, <1>5

LEMMA ShownStep ==
  TypeOK /\ TextureInv /\ SizesInv /\ ShownInv /\ [Next]_vars => ShownInv'
<1> SUFFICES ASSUME TypeOK, TextureInv, SizesInv, ShownInv, [Next]_vars PROVE ShownInv'
  OBVIOUS
<1> USE DEF uis, emu
<1>a. CASE Owed
  <2>1. Owed' \/ ui'.at = "checked"
    BY <1>a, OwedStays
  <2> QED BY <2>1 DEF ShownInv, Rendering
<1>b. ASSUME Owed' PROVE ShownInv'
  BY <1>b DEF ShownInv
<1> SUFFICES ASSUME ~Owed PROVE ShownInv'
  BY <1>a
<1>c. /\ sync \in SyncState /\ sync.dcs = 0 /\ ~dirty /\ ~redraw /\ events = <<>> /\ ~unasked
      /\ guest.at \notin {"released", "synced", "drew"} /\ ui.at # "fitting"
      /\ ~sync.release /\ sync.ops = <<>>
  BY DEF Owed, TypeOK, SyncState, TextureInv, Remembers
<1>d. ASSUME UNCHANGED <<bmp, sync, tex, shown, missed, late, torn, ui>> PROVE ShownInv'
  BY <1>d DEF ShownInv, Rendering
<1>1. CASE BeginSurfaceBitmapDc
  <2>1. sync'.dcs > 0
    BY <1>1, <1>c DEF BeginSurfaceBitmapDc, SyncState
  <2> QED BY <1>b, <2>1 DEF Owed
<1>2. CASE \E s \in Sizes : UserResizes(s)
  <2>1. PICK s \in Sizes : events' = Append(events, s) /\ events \in Seq(Sizes)
    BY <1>2 DEF UserResizes, HostResizes, TypeOK
  <2>2. events' # <<>>
    BY <2>1
  <2> QED BY <1>b, <2>2 DEF Owed
<1>3. CASE (\E s \in Sizes : MoveWindow(s)) \/ ReadSize \/ Command
  BY <1>3, <1>d DEF MoveWindow, ReadSize, Command
<1>4. CASE FitBitmap
  <2>1. UNCHANGED <<tex, shown, missed, torn, ui>> /\ ui.at # "taking"
    BY <1>4 DEF FitBitmap, PixelsFree
  <2>2. CASE late'
    BY <2>1, <2>2 DEF ShownInv, Rendering
  <2>3. CASE ~late'
    <3>1. UNCHANGED <<bmp, sync>> /\ ~late
      BY <1>4, <2>3, FitIsAwaited DEF FitBitmap
    <3> QED BY <1>d, <2>1, <2>3, <3>1 DEF TypeOK, ShownInv, Rendering
  <2> QED BY <2>2, <2>3
<1>5. CASE Refused
  <2>1. ui.try \in Tries /\ ui' = Idle /\ redraw' = (redraw \/ ui.try = "loop")
    BY <1>5 DEF Refused, GiveUp, TypeOK, Works, Idle
  <2>2. CASE ui.try = "loop"
    BY <1>b, <2>1, <2>2 DEF Owed
  <2>3. CASE ui.try = "redraw"
    <3>1. missed' /\ ui'.at = "idle"
      BY <1>5, <2>1, <2>3 DEF Refused, Idle
    <3> QED BY <3>1 DEF ShownInv
  <2> QED BY <2>1, <2>2, <2>3 DEF Tries
<1>6. CASE Snapshot
  <2>1. ui'.at = "snapped"
    BY <1>6 DEF Snapshot
  <2> QED BY <2>1 DEF ShownInv, Rendering
<1>7. CASE NothingYet
  <2>1. ~sync'.content /\ ui'.at = "idle"
    BY <1>7 DEF NothingYet, GiveUp, Idle
  <2> QED BY <2>1 DEF ShownInv
<1>8. CASE ConsumeFull
  <2>1. ui'.at = "taking" /\ (~ui'.whole => sync' = sync /\ ~sync.full)
    BY <1>8 DEF ConsumeFull
  <2> QED BY <2>1 DEF ShownInv, Rendering
<1>9. CASE Upload
  <2>1. /\ ui.at = "taking" /\ ui'.at = "uploaded" /\ UNCHANGED bmp
        /\ tex'.drawn = IF ui.whole THEN bmp.drawn ELSE tex.drawn \o sync.ops
    BY <1>9 DEF Upload
  <2>2. tex.drawn \o <<>> = tex.drawn
    BY DEF TypeOK
  <2>3. tex'.drawn = bmp.drawn
    BY <1>c, <2>1, <2>2 DEF TextureInv, ShownInv
  <2> QED BY <2>1, <2>3 DEF ShownInv, Rendering
<1>10. CASE Present
  <2>1. /\ ui.at = "uploaded" /\ shown' = tex.drawn /\ ui'.at = "idle"
        /\ UNCHANGED <<bmp, late>>
    BY <1>10 DEF Present, Idle
  <2> QED BY <2>1 DEF ShownInv
<1>11. CASE SurfaceError
  BY <1>11, <1>b DEF SurfaceError, Owed
<1>12. CASE UNCHANGED vars
  BY <1>12, <1>d DEF vars
<1>15. CASE (\E kind \in {"draw", "erase"} : DrawPixels(kind)) \/ ReleaseGdiDc
  <2>1. guest'.at \in {"drew", "released"}
    BY <1>15 DEF DrawPixels, ReleaseGdiDc
  <2> QED BY <1>b, <2>1 DEF Owed
\* The others need a DC, a command or an event that would have a render owed.
<1>13. /\ ~DeleteDC /\ ~EnsureSync /\ ~UpdateWindow /\ ~DrawQueued
       /\ \A kind : ~Blit(kind)
  BY <1>c DEF DeleteDC, EnsureSync, UpdateWindow, DrawQueued, Blit, MayDraw
<1>14. ~Resized /\ ~ResizedFits /\ ~RenderDirty /\ ~RedrawRequested
  BY <1>c DEF Resized, ResizedFits, RenderDirty, RedrawRequested
<1> QED
  BY <1>1, <1>2, <1>3, <1>4, <1>5, <1>6, <1>7, <1>8, <1>9, <1>10, <1>11, <1>12, <1>13, <1>14, <1>15
  DEF Next

----------------------------------------------------------------------------
(* The theorems. *)

IInv == TypeOK /\ TextureInv /\ SizesInv /\ ShownInv

\* The four parts of the invariant hold together: TextureInv needs nothing but the
\* types, the sizes nothing of the texture, and what is shown needs all of them.
THEOREM SurfaceHolds == Spec => []IInv
<1>1. Init => IInv
  BY TypesInit, TextureInit, SizesInit, ShownInit DEF IInv
<1>2. IInv /\ [Next]_vars => IInv'
  BY TypesStep, TextureStep, SizesStep, ShownStep DEF IInv
<1> QED BY <1>1, <1>2, PTL DEF Spec

LEMMA NothingOwed == Settled /\ ~late /\ ~unasked /\ SizesInv => ~Owed /\ ~Rendering
BY DEF Settled, Owed, Rendering, Told, Coming, Idle

\* When the emulator thread and the UI thread are done and no DC is open, the window
\* shows every drawing on its bitmap, once and in order, for every number of calls,
\* sizes and moves; the exceptions are the ones the property names.
THEOREM WindowShowsWhatWasDrawn == Spec => []ShowsWhatWasDrawn
<1>1. IInv => ShowsWhatWasDrawn
  BY NothingOwed DEF IInv, ShownInv, ShowsWhatWasDrawn
<1> QED BY <1>1, SurfaceHolds, PTL

\* The bitmap, the window and its host window have one size when both threads are done.
BitmapFits == Settled /\ ~late => bmp.size = size /\ size = host

\* Whoever resized the window last, and in whatever order the commands and the host's
\* events arrived, the bitmap has the window's size in the end, unless it is late.
THEOREM BitmapHasWindowsSize == Spec => []BitmapFits
<1>1. IInv => BitmapFits
  BY DEF IInv, SizesInv, BitmapFits, Settled, LastMove, Coming, Idle
<1> QED BY <1>1, SurfaceHolds, PTL

----------------------------------------------------------------------------
(* The table of GDI objects. *)

\* GdiTypeOK and SelectedExist speak of the table alone.
Table == GdiTypeOK /\ SelectedExist

LEMMA InRange == \A a, h, n \in Nat : 1 <= a /\ a <= h /\ h < n => h \in 1 .. n - 1
OBVIOUS

\* What a call that makes objects does to the table.
LEMMA AddsOne ==
  ASSUME Table, NEW object, Adds(One(next, object))
  PROVE  /\ DOMAIN objs' = DOMAIN objs \cup {next}
         /\ objs'[next] = object
         /\ \A h \in DOMAIN objs : objs'[h] = objs[h]
         /\ next' = next + 1
         /\ next \notin DOMAIN objs
<1>1. DOMAIN One(next, object) = {next}
  BY DEF One
<1>2. Cardinality({next}) = 1
  BY FS_Singleton
<1>3. next \notin DOMAIN objs
  BY DEF Table, GdiTypeOK
<1>4. objs' = With(objs, One(next, object)) /\ next' = next + 1
  BY <1>1, <1>2 DEF Adds
<1>5. \A h \in DOMAIN objs : h # next
  BY <1>3
<1> DEFINE grown == With(objs, One(next, object))
<1>6. /\ DOMAIN grown = DOMAIN objs \cup {next}
      /\ grown[next] = object
      /\ \A h \in DOMAIN objs \ {next} : grown[h] = objs[h]
  BY DEF With, One
<1> HIDE DEF grown
<1>7. objs' = grown
  BY <1>4 DEF grown
<1> QED BY <1>3, <1>4, <1>5, <1>6, <1>7

LEMMA AddsTwo ==
  ASSUME Table, NEW first, NEW second,
         Adds([h \in {next, next + 1} |-> IF h = next THEN first ELSE second])
  PROVE  /\ DOMAIN objs' = DOMAIN objs \cup {next, next + 1}
         /\ objs'[next] = first /\ objs'[next + 1] = second
         /\ \A h \in DOMAIN objs : objs'[h] = objs[h]
         /\ next' = next + 2
         /\ next \notin DOMAIN objs /\ next + 1 \notin DOMAIN objs
<1> DEFINE new == [h \in {next, next + 1} |-> IF h = next THEN first ELSE second]
<1>1. Cardinality({next, next + 1}) = 2
  <2>1. next \in Nat /\ next + 1 \notin {next}
    BY DEF Table, GdiTypeOK
  <2>2. {next} \cup {next + 1} = {next, next + 1}
    OBVIOUS
  <2>3. IsFiniteSet({next}) /\ Cardinality({next}) = 1
    BY FS_Singleton
  <2> QED BY <2>1, <2>2, <2>3, FS_AddElement
<1>2. next \notin DOMAIN objs /\ next + 1 \notin DOMAIN objs /\ next # next + 1
  BY DEF Table, GdiTypeOK
<1>3. DOMAIN new = {next, next + 1} /\ new[next] = first /\ new[next + 1] = second
  BY <1>2
<1> HIDE DEF new
<1>4. objs' = With(objs, new) /\ next' = next + 2
  BY <1>1, <1>3 DEF Adds, new
<1> QED BY <1>2, <1>3, <1>4 DEF With

LEMMA TableInit == GdiInit => Table
<1> SUFFICES ASSUME GdiInit PROVE Table
  OBVIOUS
<1>1. DOMAIN objs = {Surface} /\ objs[Surface] = Bitmap
  BY DEF GdiInit, One
<1>2. DOMAIN pixels = {Surface} /\ DOMAIN want = {Surface} /\ DOMAIN bits = {}
  BY DEF GdiInit, One
<1>3. Of("bitmap") = {Surface} /\ Of("section") = {} /\ Dcs = {} /\ Bitmaps = {Surface}
  BY <1>1 DEF Of, Dcs, Bitmaps, Bitmap
<1>4. GdiTypeOK
  <2>1. window \in [alive : BOOLEAN, rgn : Nat, valid : BOOLEAN]
    BY DEF GdiInit, None
  <2>6. dropped \cup leaked = {}
    BY DEF GdiInit
  <2>2. next = 2 /\ marks \in Nat /\ active \in Nat
    BY DEF GdiInit
  <2>5. stuck \in BOOLEAN
    BY DEF GdiInit
  <2>3. DOMAIN objs \subseteq 1 .. next - 1
    BY <1>1, <2>2 DEF Surface
  <2>4. \A h \in DOMAIN objs : objs[h].kind = "bitmap"
    BY <1>1 DEF Bitmap
  <2> QED BY <1>2, <1>3, <2>1, <2>2, <2>3, <2>4, <2>5, <2>6 DEF GdiTypeOK
<1> QED BY <1>3, <1>4 DEF GdiInit, Table, SelectedExist, None

\* A call adds the objects of some new handles: DCs among them have selected nothing
\* but what is there.
Grows(new) ==
  /\ DOMAIN objs' = DOMAIN objs \cup new /\ new \cap DOMAIN objs = {}
  /\ \A h \in DOMAIN objs : objs'[h] = objs[h]
  /\ next' \in Nat /\ next <= next' /\ \A h \in new : next <= h /\ h < next'
  /\ \A h \in new : objs'[h].kind \in {"dc", "bitmap", "section", "region", "tool"}
  /\ \A d \in new : objs'[d].kind = "dc" =>
       /\ objs'[d] \in DcState
       /\ objs'[d].bmp \in IF objs'[d].window THEN {Surface, None} ELSE Bitmaps' \ {Surface}
       /\ objs'[d].rgn \in Of("region")' \cup {None}
       /\ objs'[d].tool = None

\* The other variables keep their types.
PicturesFit ==
  /\ DOMAIN pixels' = Bitmaps' /\ DOMAIN want' = Bitmaps' /\ DOMAIN bits' = Of("section")'
  /\ marks' \in Nat /\ active' \in Nat /\ stuck' \in BOOLEAN
  /\ UNCHANGED <<dropped, leaked>>

LEMMA TableGrows ==
  ASSUME Table, NEW new \in SUBSET Nat, Grows(new), PicturesFit, UNCHANGED window
  PROVE  Table'
<1>1. \A k \in {"dc", "bitmap", "section", "region", "tool"} :
        Of(k)' = Of(k) \cup {h \in new : objs'[h].kind = k}
  BY DEF Of, Grows
<1>2. Dcs \subseteq Dcs' /\ Bitmaps \subseteq Bitmaps'
  BY <1>1 DEF Dcs, Bitmaps
<1>3. \A d \in Dcs' : d \in Dcs \/ (d \in new /\ objs'[d].kind = "dc")
  BY <1>1 DEF Dcs
<1>4. GdiTypeOK'
  <2>1. DOMAIN objs' \subseteq 1 .. next' - 1
    <3>1. ASSUME NEW h \in DOMAIN objs PROVE h \in 1 .. next' - 1
      BY DEF Table, GdiTypeOK, Grows
    <3>2. next \in Nat /\ 1 <= next
      BY DEF Table, GdiTypeOK
    <3>3. ASSUME NEW h \in new PROVE h \in 1 .. next' - 1
      <4>1. h \in Nat /\ next <= h /\ h < next' /\ next' \in Nat
        BY DEF Grows
      <4> QED BY <3>2, <4>1, InRange
    <3> QED BY <3>1, <3>3 DEF Grows
  <2>2. Surface \in Of("bitmap")'
    BY <1>1 DEF Table, GdiTypeOK
  <2>3. ASSUME NEW d \in Dcs'
        PROVE  /\ objs'[d] \in DcState
               /\ objs'[d].bmp \in IF objs'[d].window THEN {Surface, None} ELSE Nat \ {Surface}
    <3>1. Bitmaps' \subseteq Nat
      BY <2>1 DEF Bitmaps, Of, Table, GdiTypeOK
    <3>2. CASE d \in Dcs
      BY <3>2 DEF Table, GdiTypeOK, Dcs, Of, Grows
    <3>3. CASE d \in new /\ objs'[d].kind = "dc"
      BY <3>1, <3>3 DEF Grows
    <3> QED BY <1>3, <3>2, <3>3
  <2>4. (dropped \cup leaked)' \subseteq (1 .. next' - 1) \ DOMAIN objs'
    <3>1. ASSUME NEW h \in dropped \cup leaked
          PROVE  h \in 1 .. next' - 1 /\ h \notin DOMAIN objs'
      <4>1. h \in Nat /\ 1 <= h /\ h < next /\ h \notin DOMAIN objs /\ next \in Nat
        BY DEF Table, GdiTypeOK
      <4>2. h \notin new
        BY <4>1 DEF Grows
      <4>3. next <= next' /\ next' \in Nat
        BY DEF Grows
      <4>4. \A n \in Nat : next <= n => h \in 1 .. n - 1
        BY <4>1
      <4>5. h \in 1 .. next' - 1
        BY <4>3, <4>4
      <4>6. DOMAIN objs' = DOMAIN objs \cup new
        BY DEF Grows
      <4> QED BY <4>1, <4>2, <4>5, <4>6
    <3> QED BY <3>1 DEF PicturesFit
  <2> QED BY <2>1, <2>2, <2>3, <2>4 DEF Table, GdiTypeOK, Grows, PicturesFit
<1>5. SelectedExist'
  <2>1. ASSUME NEW d \in Dcs'
        PROVE  /\ objs'[d].bmp \in Bitmaps' \cup {None} \cup dropped'
               /\ objs'[d].rgn \in Of("region")' \cup {None} \cup dropped'
               /\ objs'[d].tool \in Of("tool")' \cup {None} \cup dropped'
    <3>1. CASE d \in Dcs
      BY <1>1, <1>2, <3>1 DEF Table, SelectedExist, Dcs, Of, Grows, PicturesFit
    <3>2. CASE d \in new /\ objs'[d].kind = "dc"
      BY <1>2, <3>2 DEF Table, GdiTypeOK, Bitmaps, Grows, None
    <3> QED BY <1>3, <3>1, <3>2
  <2>2. window'.valid => window'.rgn \in Of("region")' \cup {None} \cup dropped'
    BY <1>1 DEF Table, SelectedExist, PicturesFit
  <2> QED BY <2>1, <2>2 DEF SelectedExist
<1> QED BY <1>4, <1>5 DEF Table

\* An object other than the surface leaves the table: what had selected it is an
\* exception from now on.
LEMMA TableShrinks ==
  ASSUME Table, NEW h \in DOMAIN objs \ {Surface}, Removed(h), active' \in Nat,
         dropped \subseteq dropped', dropped' \subseteq dropped \cup {h},
         leaked' \subseteq leaked \cup {h},
         InUse(h) /\ h \notin Dcs => h \in dropped'
  PROVE  Table'
<1>1. /\ DOMAIN objs' = DOMAIN objs \ {h} /\ \A x \in DOMAIN objs \ {h} : objs'[x] = objs[x]
      /\ DOMAIN pixels' = DOMAIN pixels \ {h} /\ DOMAIN bits' = DOMAIN bits \ {h}
      /\ DOMAIN want' = DOMAIN want \ {h}
      /\ UNCHANGED <<next, window, marks, stuck>>
  BY DEF Removed, Without
<1>2. /\ \A k \in {"dc", "bitmap", "section", "region", "tool"} : Of(k)' = Of(k) \ {h}
      /\ Dcs' = Dcs \ {h} /\ Bitmaps' = Bitmaps \ {h}
  BY <1>1 DEF Of, Dcs, Bitmaps
<1>3. GdiTypeOK'
  <2>1. (dropped \cup leaked)' \subseteq (1 .. next' - 1) \ DOMAIN objs'
    BY <1>1 DEF Table, GdiTypeOK
  <2>2. ASSUME NEW d \in Dcs'
        PROVE  /\ objs'[d] \in DcState
               /\ objs'[d].bmp \in IF objs'[d].window THEN {Surface, None} ELSE Nat \ {Surface}
    BY <1>1, <1>2 DEF Table, GdiTypeOK, Dcs, Of
  <2>3. Surface \in Of("bitmap")'
    BY <1>2 DEF Table, GdiTypeOK
  <2>4. \A x \in DOMAIN objs' : objs'[x].kind \in {"dc", "bitmap", "section", "region", "tool"}
    BY <1>1 DEF Table, GdiTypeOK
  <2>5. DOMAIN pixels' = Bitmaps' /\ DOMAIN want' = Bitmaps' /\ DOMAIN bits' = Of("section")'
    BY <1>1, <1>2 DEF Table, GdiTypeOK
  <2> QED BY <1>1, <2>1, <2>2, <2>3, <2>4, <2>5 DEF Table, GdiTypeOK
<1>4. SelectedExist'
  <2>1. h # None /\ h \notin dropped
    BY DEF Table, GdiTypeOK, None
  <2>2. ASSUME NEW d \in Dcs'
        PROVE  /\ objs'[d].bmp \in Bitmaps' \cup {None} \cup dropped'
               /\ objs'[d].rgn \in Of("region")' \cup {None} \cup dropped'
               /\ objs'[d].tool \in Of("tool")' \cup {None} \cup dropped'
    <3>1. d \in Dcs /\ objs'[d] = objs[d]
      BY <1>1, <1>2 DEF Dcs, Of
    <3>2. /\ objs[d].bmp \in Bitmaps \cup {None} \cup dropped
          /\ objs[d].rgn \in Of("region") \cup {None} \cup dropped
          /\ objs[d].tool \in Of("tool") \cup {None} \cup dropped
      BY <3>1 DEF Table, SelectedExist
    <3>3. CASE h \in {objs[d].bmp, objs[d].rgn, objs[d].tool}
      <4>1. h \notin Dcs
        BY <2>1, <3>2, <3>3 DEF Dcs, Bitmaps, Of
      <4>2. InUse(h)
        BY <3>1, <3>3 DEF InUse
      <4> QED BY <1>2, <3>1, <3>2, <4>1, <4>2
    <3>4. CASE h \notin {objs[d].bmp, objs[d].rgn, objs[d].tool}
      BY <1>2, <3>1, <3>2, <3>4
    <3> QED BY <3>3, <3>4
  <2>3. ASSUME window'.valid PROVE window'.rgn \in Of("region")' \cup {None} \cup dropped'
    <3>1. window.rgn \in Of("region") \cup {None} \cup dropped
      BY <1>1, <2>3 DEF Table, SelectedExist
    <3>2. CASE window.rgn = h
      <4>1. h \notin Dcs
        BY <2>1, <3>1, <3>2 DEF Dcs, Of
      <4>2. InUse(h)
        BY <3>2 DEF InUse
      <4> QED BY <1>1, <3>2, <4>1, <4>2
    <3>3. CASE window.rgn # h
      BY <1>1, <1>2, <3>1, <3>3
    <3> QED BY <3>2, <3>3
  <2> QED BY <2>2, <2>3 DEF SelectedExist
<1> QED BY <1>3, <1>4 DEF Table

\* The open DCs of the window, those that are counted, and that these are finitely many.
Open == {d \in WindowDcs : objs[d].bmp = Surface}

Counted == Open \cup leaked

LEMMA CountedIsFinite ==
  ASSUME Table
  PROVE  IsFiniteSet(Counted) /\ Cardinality(Counted) \in Nat
<1>1. Counted \subseteq 1 .. next - 1
  BY DEF Counted, Open, WindowDcs, Dcs, Of, Table, GdiTypeOK
<1>2. IsFiniteSet(1 .. next - 1)
  BY FS_Interval DEF Table, GdiTypeOK
<1> QED BY <1>1, <1>2, FS_Subset, FS_CardinalityType

\* A DC that is open is counted, and no longer when it has been released.
LEMMA OpenIsCounted ==
  ASSUME Table, CountsOpenDcs, NEW d \in Open
  PROVE  active - 1 \in Nat /\ Cardinality(Counted \ {d}) = active - 1
<1>1. IsFiniteSet(Counted) /\ active = Cardinality(Counted) /\ d \in Counted
  BY CountedIsFinite DEF CountsOpenDcs, Counted, Open
<1>2. Cardinality(Counted \ {d}) = Cardinality(Counted) - 1
  BY <1>1, FS_RemoveElement
<1>3. IsFiniteSet(Counted \ {d})
  BY <1>1, FS_Subset
<1>4. Cardinality(Counted \ {d}) \in Nat
  BY <1>3, FS_CardinalityType
<1> QED BY <1>1, <1>2, <1>4

\* A DC on the surface is one of the window's.
LEMMA OnSurfaceIsOpen ==
  ASSUME Table, NEW h \in DOMAIN objs
  PROVE  OnSurface(h) <=> h \in Open
BY DEF OnSurface, Open, WindowDcs, Dcs, Of, Table, GdiTypeOK

LEMMA TableStep == Table /\ CountsOpenDcs /\ [GdiNext]_gdiVars => Table'
<1> SUFFICES ASSUME Table, CountsOpenDcs, [GdiNext]_gdiVars PROVE Table'
  OBVIOUS
<1>1. ASSUME NEW kind \in {"tool", "region"}, CreateTool(kind) PROVE Table'
  <2>1. Adds(One(next, [kind |-> kind])) /\ UNCHANGED <<window, active, History, pixels, bits, want, marks, stuck>>
    BY <1>1 DEF CreateTool, Pictures
  <2>2. /\ DOMAIN objs' = DOMAIN objs \cup {next}
        /\ objs'[next].kind = kind
        /\ \A h \in DOMAIN objs : objs'[h] = objs[h]
        /\ next' = next + 1
        /\ next \notin DOMAIN objs
    BY <2>1, AddsOne
  <2>3. Of("bitmap")' = Of("bitmap") /\ Of("section")' = Of("section")
    BY <1>1, <2>2 DEF Of
  <2>4. PicturesFit
    BY <2>1, <2>3 DEF PicturesFit, History, Table, GdiTypeOK, Bitmaps
  <2>5. next \in Nat
    BY DEF Table, GdiTypeOK
  <2>6. Grows({next})
    BY <1>1, <2>2, <2>5 DEF Grows
  <2> QED BY <2>1, <2>4, <2>5, <2>6, TableGrows
<1>2. ASSUME NEW kind \in {"bitmap", "section"}, CreateBitmap(kind) PROVE Table'
  <2>1. /\ Adds(One(next, [kind |-> kind])) /\ UNCHANGED <<window, active, History, marks, stuck>>
        /\ DOMAIN pixels' = DOMAIN pixels \cup {next} /\ DOMAIN want' = DOMAIN want \cup {next}
        /\ DOMAIN bits' = IF kind = "section" THEN DOMAIN bits \cup {next} ELSE DOMAIN bits
    BY <1>2 DEF CreateBitmap, With, One
  <2> DEFINE object == [kind |-> kind]
  <2>9. Adds(One(next, object)) /\ object.kind = kind
    BY <2>1
  <2> HIDE DEF object
  <2>2. /\ DOMAIN objs' = DOMAIN objs \cup {next}
        /\ objs'[next].kind = kind
        /\ \A h \in DOMAIN objs : objs'[h] = objs[h]
        /\ next' = next + 1
        /\ next \notin DOMAIN objs
    BY <2>9, AddsOne
  <2>3. /\ Of("bitmap")' = IF kind = "bitmap" THEN Of("bitmap") \cup {next} ELSE Of("bitmap")
        /\ Of("section")' = IF kind = "section" THEN Of("section") \cup {next} ELSE Of("section")
    BY <1>2, <2>2 DEF Of
  <2>4. /\ DOMAIN pixels' = Bitmaps' /\ DOMAIN want' = Bitmaps' /\ DOMAIN bits' = Of("section")'
    BY <1>2, <2>1, <2>3 DEF Table, GdiTypeOK, Bitmaps
  <2>5. PicturesFit
    BY <2>1, <2>4 DEF PicturesFit, History, Table, GdiTypeOK
  <2>6. next \in Nat
    BY DEF Table, GdiTypeOK
  <2>7. Grows({next})
    BY <1>2, <2>2, <2>6 DEF Grows
  <2> QED BY <2>1, <2>5, <2>6, <2>7, TableGrows
<1>3. ASSUME CreateCompatibleDC PROVE Table'
  <2>1. /\ Adds([h \in {next, next + 1} |-> IF h = next THEN Dc(FALSE, next + 1, None) ELSE Bitmap])
        /\ DOMAIN pixels' = DOMAIN pixels \cup {next + 1} /\ DOMAIN want' = DOMAIN want \cup {next + 1}
        /\ UNCHANGED <<window, active, History, bits, marks, stuck>>
    BY <1>3 DEF CreateCompatibleDC, With, One
  <2>2. /\ DOMAIN objs' = DOMAIN objs \cup {next, next + 1}
        /\ objs'[next] = Dc(FALSE, next + 1, None) /\ objs'[next + 1] = Bitmap
        /\ \A h \in DOMAIN objs : objs'[h] = objs[h]
        /\ next' = next + 2
        /\ next \notin DOMAIN objs /\ next + 1 \notin DOMAIN objs
    BY <2>1, AddsTwo
  <2>3. /\ objs'[next] \in DcState /\ objs'[next].bmp = next + 1
        /\ objs'[next].rgn = None /\ objs'[next].tool = None /\ ~objs'[next].window
        /\ objs'[next].kind = "dc" /\ objs'[next + 1].kind = "bitmap"
    BY <2>2 DEF Dc, Bitmap, DcState, None, Table, GdiTypeOK
  <2>4. Of("bitmap")' = Of("bitmap") \cup {next + 1} /\ Of("section")' = Of("section")
    BY <2>2, <2>3 DEF Of
  <2>5. PicturesFit
    BY <2>1, <2>4 DEF PicturesFit, History, Table, GdiTypeOK, Bitmaps
  <2>6. next \in Nat /\ next # 0 /\ {next, next + 1} \in SUBSET Nat
    BY DEF Table, GdiTypeOK
  <2>7. next' \in Nat /\ next <= next' /\ \A h \in {next, next + 1} : next <= h /\ h < next'
    BY <2>2, <2>6
  <2>8. next + 1 \in Bitmaps' \ {Surface}
    BY <2>4, <2>6 DEF Bitmaps, Surface
  <2>9. Grows({next, next + 1})
    BY <2>2, <2>3, <2>7, <2>8 DEF Grows
  <2> QED BY <2>1, <2>5, <2>6, <2>9, TableGrows
<1>4. ASSUME GetDC PROVE Table'
  <2>1. /\ Adds([h \in {next, next + 1} |->
                  IF h = next THEN Dc(TRUE, Surface, next + 1) ELSE [kind |-> "region"]])
        /\ active' = active + 1
        /\ UNCHANGED <<window, History, pixels, bits, want, marks, stuck>>
    BY <1>4 DEF GetDC, Pictures
  <2>2. /\ DOMAIN objs' = DOMAIN objs \cup {next, next + 1}
        /\ objs'[next] = Dc(TRUE, Surface, next + 1) /\ objs'[next + 1] = [kind |-> "region"]
        /\ \A h \in DOMAIN objs : objs'[h] = objs[h]
        /\ next' = next + 2
        /\ next \notin DOMAIN objs /\ next + 1 \notin DOMAIN objs
    BY <2>1, AddsTwo
  <2>3. /\ objs'[next] \in DcState /\ objs'[next].bmp = Surface
        /\ objs'[next].rgn = next + 1 /\ objs'[next].tool = None /\ objs'[next].window
        /\ objs'[next].kind = "dc" /\ objs'[next + 1].kind = "region"
    BY <2>2 DEF Dc, DcState, None, Surface, Table, GdiTypeOK
  <2>4. /\ Of("bitmap")' = Of("bitmap") /\ Of("section")' = Of("section")
        /\ next + 1 \in Of("region")'
    BY <2>2, <2>3 DEF Of
  <2>5. PicturesFit
    BY <2>1, <2>4 DEF PicturesFit, History, Table, GdiTypeOK, Bitmaps
  <2>6. next \in Nat /\ {next, next + 1} \in SUBSET Nat
    BY DEF Table, GdiTypeOK
  <2>7. next' \in Nat /\ next <= next' /\ \A h \in {next, next + 1} : next <= h /\ h < next'
    BY <2>2, <2>6
  <2>8. Grows({next, next + 1})
    BY <2>2, <2>3, <2>4, <2>7 DEF Grows
  <2> QED BY <2>1, <2>5, <2>6, <2>8, TableGrows
<1>5. ASSUME NEW b \in {Surface, None}, Adds(One(next, Dc(TRUE, b, None))),
             UNCHANGED <<window, History, pixels, bits, want, marks, stuck>>, active' \in Nat
      PROVE  Table'
  <2>1. /\ DOMAIN objs' = DOMAIN objs \cup {next}
        /\ objs'[next] = Dc(TRUE, b, None)
        /\ \A h \in DOMAIN objs : objs'[h] = objs[h]
        /\ next' = next + 1
        /\ next \notin DOMAIN objs
    BY <1>5, AddsOne
  <2>2. /\ objs'[next] \in DcState /\ objs'[next].bmp \in {Surface, None}
        /\ objs'[next].rgn = None /\ objs'[next].tool = None /\ objs'[next].window
        /\ objs'[next].kind = "dc"
    BY <2>1 DEF Dc, DcState, None, Surface
  <2>3. Of("bitmap")' = Of("bitmap") /\ Of("section")' = Of("section")
    BY <2>1, <2>2 DEF Of
  <2>4. PicturesFit
    BY <1>5, <2>3 DEF PicturesFit, History, Table, GdiTypeOK, Bitmaps
  <2>5. next \in Nat /\ {next} \in SUBSET Nat
    BY DEF Table, GdiTypeOK
  <2>6. next' \in Nat /\ next <= next' /\ \A h \in {next} : next <= h /\ h < next'
    BY <2>1, <2>5
  <2>7. Grows({next})
    BY <2>1, <2>2, <2>6 DEF Grows
  <2> QED BY <1>5, <2>4, <2>5, <2>7, TableGrows
<1>6. ASSUME GetWindowDC \/ GetDeadDC PROVE Table'
  <2>1. CASE GetWindowDC
    <3>1. active' \in Nat
      BY <2>1 DEF GetWindowDC, Table, GdiTypeOK
    <3> QED BY <1>5, <2>1, <3>1 DEF GetWindowDC, Pictures
  <2>2. CASE GetDeadDC
    <3>1. active' \in Nat
      BY <2>2 DEF GetDeadDC, Table, GdiTypeOK
    <3> QED BY <1>5, <2>2, <3>1 DEF GetDeadDC, Pictures
  <2> QED BY <1>6, <2>1, <2>2
<1>7. ASSUME DestroyWindow PROVE Table'
  <2>1. window' \in [alive : BOOLEAN, rgn : Nat, valid : BOOLEAN] /\ window'.rgn = None
    BY <1>7 DEF DestroyWindow, Gone, None
  <2> QED BY <1>7, <2>1 DEF Table, DestroyWindow, GdiTypeOK, SelectedExist, Of, Dcs, Bitmaps, Pictures,
                            History
<1>8. ASSUME NEW h \in 0 .. next - 1, SetWindowRgn(h) PROVE Table'
  <2>1. /\ window' \in [alive : BOOLEAN, rgn : Nat, valid : BOOLEAN]
        /\ window'.valid => window'.rgn \in Of("region") \cup {None}
    <3>1. h \in Nat
      BY DEF Table, GdiTypeOK
    <3>2. window' = [alive |-> TRUE, rgn |-> h, valid |-> h \in Of("region") \cup {None}]
      BY <1>8 DEF SetWindowRgn
    <3> DEFINE ok == h \in Of("region") \cup {None}
    <3>3. ok \in BOOLEAN /\ (ok => h \in Of("region") \cup {None})
      OBVIOUS
    <3> HIDE DEF ok
    <3>4. window' = [alive |-> TRUE, rgn |-> h, valid |-> ok]
      BY <3>2 DEF ok
    <3> QED BY <3>1, <3>3, <3>4
  <2> QED BY <1>8, <2>1 DEF Table, SetWindowRgn, GdiTypeOK, SelectedExist, Of, Dcs, Bitmaps, Pictures,
                            History
<1>9. ASSUME NEW h \in DOMAIN objs, EndDC(h) PROVE Table'
  <2>1. active' \in Nat
    <3>1. CASE OnSurface(h)
      <4>1. h \in Open
        BY <3>1, OnSurfaceIsOpen
      <4> QED BY <1>9, <3>1, <4>1, OpenIsCounted DEF EndDC, ReleaseDC
    <3>2. CASE ~OnSurface(h)
      BY <1>9, <3>2 DEF EndDC, ReleaseDC, Table, GdiTypeOK
    <3> QED BY <3>1, <3>2
  <2>2. /\ h \in DOMAIN objs \ {Surface} /\ Removed(h) /\ leaked' = leaked
        /\ dropped' = IF h \notin Dcs /\ InUse(h) THEN dropped \cup {h} ELSE dropped
    BY <1>9 DEF EndDC, ReleaseDC
  <2> QED BY <2>1, <2>2, TableShrinks
<1>10. ASSUME NEW h \in DOMAIN objs, SelectNoClip(h) PROVE Table'
  BY <1>10 DEF Table, SelectNoClip, GdiTypeOK, SelectedExist, Of, Dcs, Bitmaps, Pictures, None, DcState, Surface,
              History
<1>11. ASSUME NEW h \in DOMAIN objs, DeleteObject(h) PROVE Table'
  <2>1. /\ h \in DOMAIN objs \ {Surface} /\ ~InUse(h) /\ Removed(h)
        /\ leaked' \subseteq leaked \cup {h} /\ UNCHANGED <<active, dropped>>
    BY <1>11 DEF DeleteObject, Selected
  <2>2. active' \in Nat
    BY <2>1 DEF Table, GdiTypeOK
  <2> QED BY <2>1, <2>2, TableShrinks
<1>12. ASSUME NEW h \in DOMAIN objs, NEW g \in DOMAIN objs, SelectObject(h, g) PROVE Table'
  <2> DEFINE Now(o) == /\ objs' = o /\ UNCHANGED <<next, window, active, History, Pictures>> /\ h \in Dcs
                       /\ g \in Bitmaps => ~objs[h].window /\ g # Surface
  <2>1. CASE g \in Bitmaps
    <3>1. Now([objs EXCEPT ![h].bmp = g])
      BY <1>12, <2>1 DEF SelectObject, Bitmaps, Of
    <3> QED BY <2>1, <3>1 DEF Table, GdiTypeOK, SelectedExist, Of, Dcs, Bitmaps, Surface, None,
                              Pictures, DcState, History
  <2>2. CASE g \notin Bitmaps /\ g \in Of("region")
    <3>1. Now([objs EXCEPT ![h].rgn = g])
      BY <1>12, <2>2 DEF SelectObject, Bitmaps, Of
    <3> QED BY <2>2, <3>1 DEF Table, GdiTypeOK, SelectedExist, Of, Dcs, Bitmaps, Surface, None,
                              Pictures, DcState, History
  <2>3. CASE g \notin Bitmaps /\ g \notin Of("region") /\ g \in Of("tool")
    <3>1. Now([objs EXCEPT ![h].tool = g])
      BY <1>12, <2>3 DEF SelectObject, Bitmaps, Of
    <3> QED BY <2>3, <3>1 DEF Table, GdiTypeOK, SelectedExist, Of, Dcs, Bitmaps, Surface, None,
                              Pictures, DcState, History
  <2>4. CASE g \notin Bitmaps /\ g \notin Of("region") /\ g \notin Of("tool")
    <3>1. Now(objs)
      BY <1>12, <2>4 DEF SelectObject
    <3> QED BY <3>1 DEF Table, GdiTypeOK, SelectedExist, Of, Dcs, Bitmaps, Surface, None, Pictures,
                              History
  <2> QED BY <2>1, <2>2, <2>3, <2>4
<1>13. ASSUME NEW h \in DOMAIN objs, NEW g \in DOMAIN objs, SelectClipRgn(h, g) PROVE Table'
  <2>1. /\ g \in Of("region") /\ h \in Dcs
        /\ objs' = With([objs EXCEPT ![h].rgn = next], One(next, [kind |-> "region"]))
        /\ next' = next + 1
        /\ UNCHANGED <<window, active, History, pixels, bits, want, marks, stuck>>
    BY <1>13 DEF SelectClipRgn, Pictures
  <2>9. UNCHANGED <<dropped, leaked>>
    BY <2>1 DEF History
  <2>2. next \notin DOMAIN objs /\ next \in Nat /\ h # next
    BY DEF Table, GdiTypeOK
  <2>3. /\ DOMAIN objs' = DOMAIN objs \cup {next}
        /\ objs'[next] = [kind |-> "region"]
        /\ \A x \in DOMAIN objs \ {h} : objs'[x] = objs[x]
        /\ objs'[h] = [objs[h] EXCEPT !.rgn = next]
    BY <2>1, <2>2 DEF With, One
  <2>10. (dropped \cup leaked)' \subseteq (1 .. next' - 1) \ DOMAIN objs'
    BY <2>1, <2>2, <2>3, <2>9 DEF Table, GdiTypeOK
  <2>4. /\ objs'[h] \in DcState /\ objs'[h].rgn = next
        /\ objs'[h].kind = "dc" /\ objs[h].kind = "dc" /\ objs'[h].window = objs[h].window
        /\ objs'[h].bmp = objs[h].bmp /\ objs'[h].tool = objs[h].tool
    BY <2>1, <2>2, <2>3 DEF Table, GdiTypeOK, DcState
  <2>5. /\ Dcs' = Dcs /\ Bitmaps' = Bitmaps /\ Of("tool")' = Of("tool")
        /\ Of("section")' = Of("section") /\ Of("bitmap")' = Of("bitmap")
        /\ Of("region")' = Of("region") \cup {next}
    <3>1. \A x \in DOMAIN objs : objs'[x].kind = objs[x].kind
      BY <2>3, <2>4
    <3>2. objs'[next].kind = "region"
      BY <2>3
    <3> QED BY <2>2, <2>3, <3>1, <3>2 DEF Dcs, Bitmaps, Of
  <2>6. GdiTypeOK'
    <3>1. \A x \in DOMAIN objs' : objs'[x].kind \in {"dc", "bitmap", "section", "region", "tool"}
      <4>1. ASSUME NEW x \in DOMAIN objs'
            PROVE  objs'[x].kind \in {"dc", "bitmap", "section", "region", "tool"}
        <5>1. CASE x = next
          BY <2>3, <5>1
        <5>2. CASE x = h
          BY <2>4, <5>2
        <5>3. CASE x \in DOMAIN objs \ {h}
          BY <2>3, <5>3 DEF Table, GdiTypeOK
        <5> QED BY <2>3, <4>1, <5>1, <5>2, <5>3
      <4> QED BY <4>1
    <3>2. DOMAIN objs' \subseteq 1 .. next' - 1 /\ next' \in Nat \ {0, 1}
      BY <2>1, <2>2, <2>3 DEF Table, GdiTypeOK
    <3>3. ASSUME NEW d \in Dcs'
          PROVE  /\ objs'[d] \in DcState
                 /\ objs'[d].bmp \in IF objs'[d].window THEN {Surface, None} ELSE Nat \ {Surface}
      <4>1. d \in DOMAIN objs /\ d \in Dcs
        BY <2>5 DEF Dcs, Of
      <4> QED BY <2>3, <2>4, <4>1 DEF Table, GdiTypeOK
    <3> QED BY <2>1, <2>5, <2>10, <3>1, <3>2, <3>3 DEF Table, GdiTypeOK
  <2>7. ASSUME NEW d \in Dcs'
        PROVE  /\ objs'[d].bmp \in Bitmaps' \cup {None} \cup dropped'
               /\ objs'[d].rgn \in Of("region")' \cup {None} \cup dropped'
               /\ objs'[d].tool \in Of("tool")' \cup {None} \cup dropped'
    <3>1. d \in DOMAIN objs /\ d \in Dcs
      BY <2>5 DEF Dcs, Of
    <3> QED BY <2>3, <2>4, <2>5, <2>9, <3>1 DEF Table, SelectedExist
  <2>8. window'.valid => window'.rgn \in Of("region")' \cup {None} \cup dropped'
    BY <2>1, <2>5, <2>9 DEF Table, SelectedExist
  <2> QED BY <2>6, <2>7, <2>8 DEF Table, SelectedExist
<1>14. ASSUME UNCHANGED table, DOMAIN pixels' = DOMAIN pixels, DOMAIN bits' = DOMAIN bits,
              DOMAIN want' = DOMAIN want, marks' \in Nat, stuck' \in BOOLEAN
       PROVE  Table'
  BY <1>14 DEF Table, table, GdiTypeOK, SelectedExist, Of, Dcs, Bitmaps
<1>15. ASSUME NEW hdc, NEW more, NEW moreWant, Paints(hdc, more, moreWant) PROVE Table'
  <2>1. /\ UNCHANGED table /\ UNCHANGED stuck /\ marks' = marks + 1
        /\ DOMAIN pixels' = DOMAIN pixels /\ DOMAIN bits' = DOMAIN bits
        /\ DOMAIN want' = DOMAIN want
    BY <1>15 DEF Paints, Synced, WriteBack, Flushed, Marked
  <2> QED BY <1>14, <2>1 DEF Table, GdiTypeOK
<1>16. ASSUME NEW h \in DOMAIN objs, GuestWrites(h) PROVE Table'
  <2>1. /\ UNCHANGED table /\ UNCHANGED stuck /\ marks' = marks + 1
        /\ DOMAIN pixels' = DOMAIN pixels /\ DOMAIN bits' = DOMAIN bits
        /\ DOMAIN want' = DOMAIN want
    BY <1>16 DEF GuestWrites, Marked
  <2> QED BY <1>14, <2>1 DEF Table, GdiTypeOK
<1>17. ASSUME Erases PROVE Table'
  <2>1. /\ UNCHANGED table /\ UNCHANGED stuck /\ marks' = marks + 1
        /\ DOMAIN pixels' = DOMAIN pixels /\ DOMAIN bits' = DOMAIN bits
        /\ DOMAIN want' = DOMAIN want
    BY <1>17 DEF Erases, Marked, Synced
  <2> QED BY <1>14, <2>1 DEF Table, GdiTypeOK
<1>18. ASSUME NEW h \in DOMAIN objs, NEW b \in BOOLEAN, PatBlt(h, b) PROVE Table'
  <2>1. CASE ~b
    <3>1. UNCHANGED <<table, bits, want, marks, stuck>> /\ DOMAIN pixels' = DOMAIN pixels
      BY <1>18, <2>1 DEF PatBlt, Synced
    <3> QED BY <1>14, <3>1 DEF Table, GdiTypeOK
  <2> QED BY <1>15, <1>18, <2>1 DEF PatBlt
<1>19. ASSUME NEW h \in DOMAIN objs, NEW g \in DOMAIN objs, BitBlt(h, g) PROVE Table'
  <2>1. CASE objs[g].bmp = objs[h].bmp
    <3>1. UNCHANGED <<table, pixels, bits, want, marks>> /\ stuck' \in BOOLEAN
      BY <1>19, <2>1 DEF BitBlt
    <3> QED BY <1>14, <3>1 DEF Table, GdiTypeOK
  <2>2. CASE objs[g].bmp # objs[h].bmp
    <3>1. /\ UNCHANGED table /\ UNCHANGED stuck /\ marks' = marks + 1
          /\ DOMAIN pixels' = DOMAIN pixels /\ DOMAIN bits' = DOMAIN bits
          /\ DOMAIN want' = DOMAIN want
      BY <1>19, <2>2 DEF BitBlt, Synced, WriteBack, Flushed, Marked
    <3> QED BY <1>14, <3>1 DEF Table, GdiTypeOK
  <2> QED BY <2>1, <2>2
<1>20. CASE UNCHANGED gdiVars
  BY <1>14, <1>20 DEF gdiVars, Table, GdiTypeOK
<1>21. ASSUME NEW h \in DOMAIN objs, NEW g \in DOMAIN objs, SetDIBits(h, g) PROVE Table'
  BY <1>15, <1>21 DEF SetDIBits
<1>22. ASSUME NEW h \in DOMAIN objs, NEW b \in BOOLEAN, DrawText(h, b) PROVE Table'
  BY <1>15, <1>22 DEF DrawText
<1>23. ASSUME NEW h \in DOMAIN objs, Rectangle(h) \/ TextOut(h) \/ BitBltFills(h) PROVE Table'
  BY <1>15, <1>23 DEF Rectangle, TextOut, BitBltFills
<1> QED
  BY <1>1, <1>2, <1>3, <1>4, <1>6, <1>7, <1>8, <1>9, <1>10, <1>11, <1>12, <1>13, <1>16, <1>17,
     <1>18, <1>19, <1>20, <1>21, <1>22, <1>23 DEF GdiNext

----------------------------------------------------------------------------
(* The open DCs and their count. *)

LEMMA CountsInit == GdiInit => CountsOpenDcs
<1> SUFFICES ASSUME GdiInit PROVE CountsOpenDcs
  OBVIOUS
<1>1. {d \in WindowDcs : objs[d].bmp = Surface} \cup leaked = {}
  BY DEF GdiInit, One, WindowDcs, Dcs, Of, Bitmap
<1>2. Cardinality({}) = 0
  BY FS_EmptySet
<1> QED BY <1>1, <1>2 DEF GdiInit, CountsOpenDcs

\* A call makes the objects of some new handles and leaves the others as to what the
\* count counts.
Makes(new) ==
  /\ DOMAIN objs' = DOMAIN objs \cup new /\ new \cap DOMAIN objs = {}
  /\ \A h \in DOMAIN objs : /\ objs'[h].kind = objs[h].kind
                            /\ h \in Dcs => /\ objs'[h].window = objs[h].window
                                            /\ objs[h].window => objs'[h].bmp = objs[h].bmp

OpensNone(new) ==
  /\ Makes(new) /\ UNCHANGED <<active, leaked>>
  /\ \A h \in new : objs'[h].kind = "dc" => ~objs'[h].window \/ objs'[h].bmp # Surface

OpensOne(new, d) ==
  /\ Makes(new) /\ active' = active + 1 /\ leaked' = leaked
  /\ d \in new /\ d \notin leaked /\ objs'[d].kind = "dc" /\ objs'[d].window /\ objs'[d].bmp = Surface
  /\ \A h \in new \ {d} : objs'[h].kind # "dc"

LEMMA NoneOpened ==
  ASSUME CountsOpenDcs, NEW new, OpensNone(new)
  PROVE  CountsOpenDcs'
<1>1. Open' = Open
  BY DEF Open, WindowDcs, Dcs, Of, OpensNone, Makes
<1> QED BY <1>1 DEF CountsOpenDcs, Open, OpensNone

LEMMA OneOpened ==
  ASSUME Table, CountsOpenDcs, NEW new, NEW d, OpensOne(new, d)
  PROVE  CountsOpenDcs'
<1>1. Counted' = Counted \cup {d} /\ d \notin Counted
  BY DEF Counted, Open, WindowDcs, Dcs, Of, OpensOne, Makes
<1>2. Cardinality(Counted \cup {d}) = Cardinality(Counted) + 1
  BY <1>1, CountedIsFinite, FS_AddElement
<1> QED BY <1>1, <1>2 DEF CountsOpenDcs, Counted, Open, OpensOne

LEMMA CountsStep == Table /\ CountsOpenDcs /\ [GdiNext]_gdiVars => CountsOpenDcs'
<1> SUFFICES ASSUME Table, CountsOpenDcs, [GdiNext]_gdiVars PROVE CountsOpenDcs'
  OBVIOUS
<1>0. next \notin leaked
  BY DEF Table, GdiTypeOK
<1>1. ASSUME NEW kind \in {"tool", "region", "bitmap", "section"},
             CreateTool(kind) \/ CreateBitmap(kind)
      PROVE  CountsOpenDcs'
  <2>1. Adds(One(next, [kind |-> kind])) /\ UNCHANGED <<active, leaked>>
    BY <1>1 DEF CreateTool, CreateBitmap, History
  <2>2. /\ DOMAIN objs' = DOMAIN objs \cup {next}
        /\ objs'[next].kind = kind
        /\ \A h \in DOMAIN objs : objs'[h] = objs[h]
        /\ next \notin DOMAIN objs
    BY <2>1, AddsOne
  <2>3. OpensNone({next})
    BY <1>1, <2>1, <2>2 DEF OpensNone, Makes
  <2> QED BY <2>3, NoneOpened
<1>2. ASSUME CreateCompatibleDC PROVE CountsOpenDcs'
  <2>1. /\ Adds([h \in {next, next + 1} |-> IF h = next THEN Dc(FALSE, next + 1, None) ELSE Bitmap])
        /\ UNCHANGED <<active, leaked>>
    BY <1>2 DEF CreateCompatibleDC, History
  <2>2. /\ DOMAIN objs' = DOMAIN objs \cup {next, next + 1}
        /\ objs'[next] = Dc(FALSE, next + 1, None) /\ objs'[next + 1] = Bitmap
        /\ \A h \in DOMAIN objs : objs'[h] = objs[h]
        /\ next \notin DOMAIN objs /\ next + 1 \notin DOMAIN objs
    BY <2>1, AddsTwo
  <2>3. ~objs'[next].window /\ objs'[next + 1].kind = "bitmap"
    BY <2>2 DEF Dc, Bitmap
  <2>4. \A h \in {next, next + 1} : objs'[h].kind = "dc" => ~objs'[h].window
    BY <2>3
  <2>5. OpensNone({next, next + 1})
    BY <2>1, <2>2, <2>4 DEF OpensNone, Makes
  <2> QED BY <2>5, NoneOpened
<1>3. ASSUME GetDC PROVE CountsOpenDcs'
  <2>1. /\ Adds([h \in {next, next + 1} |->
                  IF h = next THEN Dc(TRUE, Surface, next + 1) ELSE [kind |-> "region"]])
        /\ active' = active + 1 /\ leaked' = leaked
    BY <1>3 DEF GetDC, History
  <2>2. /\ DOMAIN objs' = DOMAIN objs \cup {next, next + 1}
        /\ objs'[next] = Dc(TRUE, Surface, next + 1) /\ objs'[next + 1] = [kind |-> "region"]
        /\ \A h \in DOMAIN objs : objs'[h] = objs[h]
        /\ next \notin DOMAIN objs /\ next + 1 \notin DOMAIN objs
    BY <2>1, AddsTwo
  <2>3. /\ objs'[next].kind = "dc" /\ objs'[next].window /\ objs'[next].bmp = Surface
        /\ objs'[next + 1].kind = "region"
    BY <2>2 DEF Dc
  <2>4. \A h \in {next, next + 1} \ {next} : objs'[h].kind # "dc"
    BY <2>3
  <2>5. OpensOne({next, next + 1}, next)
    BY <1>0, <2>1, <2>2, <2>3, <2>4 DEF OpensOne, Makes
  <2> QED BY <2>5, OneOpened
<1>4. ASSUME GetWindowDC PROVE CountsOpenDcs'
  <2>1. Adds(One(next, Dc(TRUE, Surface, None))) /\ active' = active + 1 /\ leaked' = leaked
    BY <1>4 DEF GetWindowDC, History
  <2>2. /\ DOMAIN objs' = DOMAIN objs \cup {next}
        /\ objs'[next] = Dc(TRUE, Surface, None)
        /\ \A h \in DOMAIN objs : objs'[h] = objs[h]
        /\ next \notin DOMAIN objs
    BY <2>1, AddsOne
  <2>3. objs'[next].kind = "dc" /\ objs'[next].window /\ objs'[next].bmp = Surface
    BY <2>2 DEF Dc
  <2>4. OpensOne({next}, next)
    BY <1>0, <2>1, <2>2, <2>3 DEF OpensOne, Makes
  <2> QED BY <2>4, OneOpened
<1>5. ASSUME GetDeadDC PROVE CountsOpenDcs'
  <2>1. Adds(One(next, Dc(TRUE, None, None))) /\ UNCHANGED <<active, leaked>>
    BY <1>5 DEF GetDeadDC, History
  <2>2. /\ DOMAIN objs' = DOMAIN objs \cup {next}
        /\ objs'[next] = Dc(TRUE, None, None)
        /\ \A h \in DOMAIN objs : objs'[h] = objs[h]
        /\ next \notin DOMAIN objs
    BY <2>1, AddsOne
  <2>3. objs'[next].bmp # Surface
    BY <2>2 DEF Dc, None, Surface
  <2>4. OpensNone({next})
    BY <2>1, <2>2, <2>3 DEF OpensNone, Makes
  <2> QED BY <2>4, NoneOpened
<1>6. ASSUME NEW h \in DOMAIN objs, EndDC(h) PROVE CountsOpenDcs'
  <2>1. Open' = Open \ {h} /\ leaked' = leaked /\ h \notin leaked
    BY <1>6 DEF EndDC, ReleaseDC, Removed, Without, Open, WindowDcs, Dcs, Of, Table, GdiTypeOK
  <2>2. Counted' = Counted \ {h}
    BY <2>1 DEF Counted
  <2>3. CASE OnSurface(h)
    <3>1. h \in Open
      BY <2>3, OnSurfaceIsOpen
    <3>2. active' = active - 1
      BY <1>6, <2>3 DEF EndDC, ReleaseDC
    <3> QED BY <2>2, <3>1, <3>2, OpenIsCounted DEF CountsOpenDcs, Counted, Open
  <2>4. CASE ~OnSurface(h)
    <3>1. h \notin Counted
      BY <2>1, <2>4, OnSurfaceIsOpen DEF Counted
    <3>2. active' = active
      BY <1>6, <2>4 DEF EndDC, ReleaseDC
    <3>3. Counted' = Counted
      BY <2>2, <3>1
    <3> QED BY <3>2, <3>3 DEF CountsOpenDcs, Counted, Open
  <2> QED BY <2>3, <2>4
<1>7. ASSUME NEW h \in DOMAIN objs, DeleteObject(h) PROVE CountsOpenDcs'
  <2>1. /\ Open' = Open \ {h} /\ active' = active
        /\ leaked' = IF OnSurface(h) THEN leaked \cup {h} ELSE leaked
    BY <1>7 DEF DeleteObject, Removed, Without, Open, WindowDcs, Dcs, Of
  <2>2. Counted' = Counted
    BY <2>1, OnSurfaceIsOpen DEF Counted
  <2> QED BY <2>1, <2>2 DEF CountsOpenDcs, Counted, Open
<1>8. ASSUME NEW h \in DOMAIN objs, NEW g \in DOMAIN objs, SelectObject(h, g) PROVE CountsOpenDcs'
  <2>1. /\ UNCHANGED <<active, leaked>> /\ DOMAIN objs' = DOMAIN objs \cup {}
        /\ \A x \in DOMAIN objs \ {h} : objs'[x] = objs[x]
    BY <1>8 DEF SelectObject, History
  <2>2. /\ objs'[h].kind = objs[h].kind /\ objs'[h].window = objs[h].window
        /\ objs[h].window => objs'[h].bmp = objs[h].bmp
    BY <1>8 DEF SelectObject, Table, GdiTypeOK, DcState, Bitmaps, Of
  <2>3. OpensNone({})
    BY <2>1, <2>2 DEF OpensNone, Makes
  <2> QED BY <2>3, NoneOpened
<1>9. ASSUME NEW h \in DOMAIN objs, SelectNoClip(h) PROVE CountsOpenDcs'
  <2>1. /\ UNCHANGED <<active, leaked>> /\ DOMAIN objs' = DOMAIN objs \cup {}
        /\ \A x \in DOMAIN objs \ {h} : objs'[x] = objs[x]
    BY <1>9 DEF SelectNoClip, History
  <2>2. /\ objs'[h].kind = objs[h].kind /\ objs'[h].window = objs[h].window
        /\ objs'[h].bmp = objs[h].bmp
    BY <1>9 DEF SelectNoClip, Table, GdiTypeOK, DcState
  <2>3. OpensNone({})
    BY <2>1, <2>2 DEF OpensNone, Makes
  <2> QED BY <2>3, NoneOpened
<1>10. ASSUME NEW h \in DOMAIN objs, NEW g \in DOMAIN objs, SelectClipRgn(h, g) PROVE CountsOpenDcs'
  <2>1. /\ h \in Dcs /\ UNCHANGED <<active, leaked>>
        /\ objs' = With([objs EXCEPT ![h].rgn = next], One(next, [kind |-> "region"]))
    BY <1>10 DEF SelectClipRgn, History
  <2>2. next \notin DOMAIN objs /\ h # next
    BY DEF Table, GdiTypeOK
  <2>3. /\ DOMAIN objs' = DOMAIN objs \cup {next}
        /\ objs'[next] = [kind |-> "region"]
        /\ \A x \in DOMAIN objs \ {h} : objs'[x] = objs[x]
        /\ objs'[h] = [objs[h] EXCEPT !.rgn = next]
    BY <2>1, <2>2 DEF With, One
  <2>4. objs[h] \in DcState
    BY <2>1 DEF Table, GdiTypeOK
  <2>5. /\ objs'[h].kind = objs[h].kind /\ objs'[h].window = objs[h].window
        /\ objs'[h].bmp = objs[h].bmp
    BY <2>3, <2>4 DEF DcState
  <2>6. objs'[next].kind # "dc"
    BY <2>3
  <2>7. OpensNone({next})
    BY <2>1, <2>2, <2>3, <2>5, <2>6 DEF OpensNone, Makes
  <2> QED BY <2>7, NoneOpened
<1>11. ASSUME UNCHANGED <<objs, active, leaked>> PROVE CountsOpenDcs'
  BY <1>11 DEF CountsOpenDcs, WindowDcs, Dcs, Of
<1>12. ASSUME DestroyWindow \/ (\E h \in 0 .. next - 1 : SetWindowRgn(h))
       PROVE  CountsOpenDcs'
  BY <1>11, <1>12 DEF DestroyWindow, SetWindowRgn, History
<1>13. ASSUME NEW h \in DOMAIN objs, NEW more, NEW moreWant, Paints(h, more, moreWant)
       PROVE  CountsOpenDcs'
  BY <1>11, <1>13 DEF Paints, table
<1>14. ASSUME NEW h \in DOMAIN objs, NEW g \in DOMAIN objs,
              SetDIBits(h, g) \/ Rectangle(h) \/ TextOut(h) \/ BitBltFills(h) \/ (\E b \in BOOLEAN : DrawText(h, b))
       PROVE  CountsOpenDcs'
  BY <1>13, <1>14 DEF SetDIBits, Rectangle, TextOut, BitBltFills, DrawText
<1>15. ASSUME NEW h \in DOMAIN objs, NEW g \in DOMAIN objs,
              GuestWrites(h) \/ Erases \/ BitBlt(h, g)
       PROVE  CountsOpenDcs'
  BY <1>11, <1>15 DEF GuestWrites, Erases, BitBlt, table
<1>16. ASSUME NEW h \in DOMAIN objs, NEW b \in BOOLEAN, PatBlt(h, b) PROVE CountsOpenDcs'
  BY <1>11, <1>13, <1>16 DEF PatBlt, table
<1>17. CASE UNCHANGED gdiVars
  BY <1>11, <1>17 DEF gdiVars, table
<1>18. ASSUME Erases PROVE CountsOpenDcs'
  BY <1>11, <1>18 DEF Erases, table
<1> QED
  BY <1>1, <1>2, <1>3, <1>4, <1>5, <1>6, <1>7, <1>8, <1>9, <1>10, <1>12, <1>14, <1>15, <1>16,
     <1>17, <1>18 DEF GdiNext

----------------------------------------------------------------------------
(* The pictures. *)

\* What a bitmap shows: the memory of a section has it, whatever the table says.
Shown(b) == IF b \in DOMAIN bits THEN bits[b] ELSE pixels[b]

LEMMA PicturesInit == GdiInit => NothingUndrawn
BY DEF GdiInit, NothingUndrawn, One, Bitmaps, Of, Bitmap

\* Objects come, one of them perhaps a bitmap with nothing on it, and none goes.
Blank(new) ==
  /\ Bitmaps' \subseteq Bitmaps \cup new /\ new \cap Bitmaps = {}
  /\ \A b \in Bitmaps : /\ pixels'[b] = pixels[b] /\ want'[b] = want[b]
                        /\ b \in DOMAIN bits <=> b \in DOMAIN bits'
                        /\ b \in DOMAIN bits => bits'[b] = bits[b]
  /\ \A b \in new : /\ pixels'[b] = {} /\ want'[b] = {}
                    /\ b \in DOMAIN bits' => bits'[b] = {}

LEMMA BlankShows ==
  ASSUME NothingUndrawn, NEW new, Blank(new)
  PROVE  NothingUndrawn'
BY DEF NothingUndrawn, Blank

\* A drawing on b that takes over the memory first and writes it back afterwards.
Draws(b, more) ==
  /\ b \in Bitmaps /\ Bitmaps' = Bitmaps /\ DOMAIN bits' = DOMAIN bits
  /\ pixels'[b] = Shown(b) \cup more \cup {marks + 1}
  /\ \A c \in Bitmaps \ DOMAIN bits : c # b => pixels'[c] = pixels[c]
  /\ b \in DOMAIN bits => bits'[b] = pixels'[b]
  /\ \A c \in DOMAIN bits : c # b => bits'[c] = bits[c]
  /\ Marked(b, more)

LEMMA DrawnShows ==
  ASSUME Table, NothingUndrawn, NEW b, NEW more, Draws(b, more)
  PROVE  NothingUndrawn'
<1>1. want' = [want EXCEPT ![b] = @ \cup more \cup {marks + 1}]
  BY DEF Draws, Marked
<1>2. b \in Bitmaps /\ DOMAIN want = Bitmaps /\ Bitmaps' = Bitmaps
  BY DEF Draws, Table, GdiTypeOK
<1>3. Shown(b) = want[b]
  BY <1>2 DEF NothingUndrawn, Shown
<1>4. Shown(b)' = want'[b]
  BY <1>1, <1>2, <1>3 DEF Draws, Shown
<1>5. ASSUME NEW c \in Bitmaps, c # b PROVE Shown(c)' = want'[c]
  <2>1. want'[c] = want[c] /\ Shown(c) = want[c]
    BY <1>1, <1>2, <1>5 DEF NothingUndrawn, Shown
  <2>2. Shown(c)' = Shown(c)
    BY <1>5 DEF Shown, Draws
  <2> QED BY <2>1, <2>2
<1> QED BY <1>2, <1>4, <1>5 DEF NothingUndrawn, Shown

LEMMA PaintsDraws ==
  ASSUME Table, NEW hdc, NEW more, Paints(hdc, more, more)
  PROVE  Draws(objs[hdc].bmp, more)
<1> DEFINE b == objs[hdc].bmp
           p == [Synced(pixels, b) EXCEPT ![b] = @ \cup more \cup {marks + 1}]
<1>1. b \in Bitmaps /\ Bitmaps' = Bitmaps /\ Marked(b, more)
  BY DEF Paints, CanDraw, Table, GdiTypeOK, table, Bitmaps, Of
<1>2. pixels' = p /\ bits' = Flushed(p, b)
  BY DEF Paints, WriteBack
<1>3. /\ p[b] = Shown(b) \cup more \cup {marks + 1}
      /\ \A c \in Bitmaps : c # b => p[c] = pixels[c]
  BY <1>1 DEF Synced, Shown, Table, GdiTypeOK
<1> HIDE DEF p
<1>4. /\ DOMAIN bits' = DOMAIN bits
      /\ b \in DOMAIN bits => bits'[b] = p[b]
      /\ \A c \in DOMAIN bits : c # b => bits'[c] = bits[c]
  BY <1>2 DEF Flushed
<1> QED BY <1>1, <1>2, <1>3, <1>4 DEF Draws

LEMMA PicturesStep == Table /\ NothingUndrawn /\ [GdiNext]_gdiVars => NothingUndrawn'
<1> SUFFICES ASSUME Table, NothingUndrawn, [GdiNext]_gdiVars PROVE NothingUndrawn'
  OBVIOUS
<1>1. ASSUME UNCHANGED <<pixels, bits, want>>, Bitmaps' \subseteq Bitmaps PROVE NothingUndrawn'
  BY <1>1 DEF NothingUndrawn
<1>2. ASSUME NEW kind \in {"tool", "region"}, CreateTool(kind) PROVE NothingUndrawn'
  <2>1. Adds(One(next, [kind |-> kind])) /\ UNCHANGED <<pixels, bits, want>>
    BY <1>2 DEF CreateTool, Pictures
  <2>2. /\ DOMAIN objs' = DOMAIN objs \cup {next}
        /\ objs'[next].kind = kind
        /\ \A h \in DOMAIN objs : objs'[h] = objs[h]
    BY <2>1, AddsOne
  <2>3. Bitmaps' = Bitmaps
    BY <1>2, <2>2 DEF Bitmaps, Of
  <2> QED BY <1>1, <2>1, <2>3
<1>3. ASSUME NEW kind \in {"bitmap", "section"}, CreateBitmap(kind) PROVE NothingUndrawn'
  <2>0. Adds(One(next, [kind |-> kind]))
    BY <1>3 DEF CreateBitmap
  <2>1. /\ pixels' = With(pixels, One(next, {})) /\ want' = With(want, One(next, {}))
        /\ bits' = IF kind = "section" THEN With(bits, One(next, {})) ELSE bits
    BY <1>3 DEF CreateBitmap
  <2>2. /\ DOMAIN objs' = DOMAIN objs \cup {next}
        /\ objs'[next] = [kind |-> kind]
        /\ \A h \in DOMAIN objs : objs'[h] = objs[h]
        /\ next \notin DOMAIN objs
    BY <2>0, AddsOne
  <2>3. Bitmaps' = Bitmaps \cup {next} /\ next \notin Bitmaps
    BY <1>3, <2>2 DEF Bitmaps, Of
  <2>4. DOMAIN pixels = Bitmaps /\ DOMAIN want = Bitmaps /\ DOMAIN bits \subseteq Bitmaps
    BY DEF Table, GdiTypeOK, Bitmaps
  <2>5. pixels'[next] = {} /\ want'[next] = {} /\ (next \in DOMAIN bits' => bits'[next] = {})
    BY <1>3, <2>1, <2>3, <2>4 DEF With, One
  <2>6. \A b \in Bitmaps : /\ pixels'[b] = pixels[b] /\ want'[b] = want[b]
                           /\ b \in DOMAIN bits <=> b \in DOMAIN bits'
                           /\ b \in DOMAIN bits => bits'[b] = bits[b]
    BY <1>3, <2>1, <2>3, <2>4 DEF With, One
  <2>7. Blank({next})
    BY <2>3, <2>5, <2>6 DEF Blank
  <2> QED BY <2>7, BlankShows
<1>4. ASSUME CreateCompatibleDC PROVE NothingUndrawn'
  <2>1. /\ Adds([h \in {next, next + 1} |-> IF h = next THEN Dc(FALSE, next + 1, None) ELSE Bitmap])
        /\ pixels' = With(pixels, One(next + 1, {})) /\ want' = With(want, One(next + 1, {}))
        /\ UNCHANGED bits
    BY <1>4 DEF CreateCompatibleDC
  <2>2. /\ DOMAIN objs' = DOMAIN objs \cup {next, next + 1}
        /\ objs'[next] = Dc(FALSE, next + 1, None) /\ objs'[next + 1] = Bitmap
        /\ \A h \in DOMAIN objs : objs'[h] = objs[h]
        /\ next \notin DOMAIN objs /\ next + 1 \notin DOMAIN objs
    BY <2>1, AddsTwo
  <2>3. Bitmaps' = Bitmaps \cup {next + 1} /\ next + 1 \notin Bitmaps
    <3>1. objs'[next].kind = "dc" /\ objs'[next + 1].kind = "bitmap"
      BY <2>2 DEF Dc, Bitmap
    <3> QED BY <2>2, <3>1 DEF Bitmaps, Of
  <2>4. DOMAIN pixels = Bitmaps /\ DOMAIN want = Bitmaps /\ DOMAIN bits \subseteq Bitmaps
    BY DEF Table, GdiTypeOK, Bitmaps
  <2>5. pixels'[next + 1] = {} /\ want'[next + 1] = {} /\ next + 1 \notin DOMAIN bits'
    BY <2>1, <2>3, <2>4 DEF With, One
  <2>6. \A b \in Bitmaps : /\ pixels'[b] = pixels[b] /\ want'[b] = want[b]
                           /\ b \in DOMAIN bits <=> b \in DOMAIN bits'
                           /\ b \in DOMAIN bits => bits'[b] = bits[b]
    BY <2>1, <2>3, <2>4 DEF With, One
  <2>7. Blank({next + 1})
    BY <2>3, <2>5, <2>6 DEF Blank
  <2> QED BY <2>7, BlankShows
<1>5. ASSUME GetDC PROVE NothingUndrawn'
  <2>1. /\ Adds([h \in {next, next + 1} |->
                  IF h = next THEN Dc(TRUE, Surface, next + 1) ELSE [kind |-> "region"]])
        /\ UNCHANGED <<pixels, bits, want>>
    BY <1>5 DEF GetDC, Pictures
  <2>2. /\ DOMAIN objs' = DOMAIN objs \cup {next, next + 1}
        /\ objs'[next] = Dc(TRUE, Surface, next + 1) /\ objs'[next + 1] = [kind |-> "region"]
        /\ \A h \in DOMAIN objs : objs'[h] = objs[h]
    BY <2>1, AddsTwo
  <2>3. objs'[next].kind = "dc" /\ objs'[next + 1].kind = "region"
    BY <2>2 DEF Dc
  <2>4. Bitmaps' = Bitmaps
    BY <2>2, <2>3 DEF Bitmaps, Of
  <2> QED BY <1>1, <2>1, <2>4
<1>6. ASSUME NEW b \in {Surface, None}, Adds(One(next, Dc(TRUE, b, None))),
             UNCHANGED <<pixels, bits, want>>
      PROVE  NothingUndrawn'
  <2>1. /\ DOMAIN objs' = DOMAIN objs \cup {next}
        /\ objs'[next] = Dc(TRUE, b, None)
        /\ \A h \in DOMAIN objs : objs'[h] = objs[h]
    BY <1>6, AddsOne
  <2>2. objs'[next].kind = "dc"
    BY <2>1 DEF Dc
  <2>3. Bitmaps' = Bitmaps
    BY <2>1, <2>2 DEF Bitmaps, Of
  <2> QED BY <1>1, <1>6, <2>3
<1>7. ASSUME GetWindowDC \/ GetDeadDC PROVE NothingUndrawn'
  BY <1>6, <1>7 DEF GetWindowDC, GetDeadDC, Pictures
<1>8. ASSUME DestroyWindow \/ (\E h \in 0 .. next - 1 : SetWindowRgn(h))
      PROVE  NothingUndrawn'
  BY <1>1, <1>8 DEF DestroyWindow, SetWindowRgn, Pictures, Bitmaps, Of
<1>9. ASSUME NEW h \in DOMAIN objs, Removed(h) PROVE NothingUndrawn'
  <2>1. Bitmaps' = Bitmaps \ {h}
    BY <1>9 DEF Removed, Without, Bitmaps, Of
  <2>2. /\ pixels' = Without(pixels, h) /\ bits' = Without(bits, h) /\ want' = Without(want, h)
        /\ DOMAIN pixels = Bitmaps /\ DOMAIN want = Bitmaps
    BY <1>9 DEF Removed, Table, GdiTypeOK
  <2> QED BY <2>1, <2>2 DEF Without, NothingUndrawn
<1>10. ASSUME NEW h \in DOMAIN objs, NEW g \in DOMAIN objs, SelectNoClip(h) \/ SelectObject(h, g)
       PROVE  NothingUndrawn'
  <2>1. \A x \in DOMAIN objs' : x \in DOMAIN objs /\ objs'[x].kind = objs[x].kind
    <3>1. DOMAIN objs' = DOMAIN objs /\ \A x \in DOMAIN objs \ {h} : objs'[x] = objs[x]
      BY <1>10 DEF SelectNoClip, SelectObject
    <3>2. objs'[h].kind = objs[h].kind
      BY <1>10 DEF SelectNoClip, SelectObject, Table, GdiTypeOK, DcState
    <3> QED BY <3>1, <3>2
  <2>2. Bitmaps' \subseteq Bitmaps
    BY <2>1 DEF Bitmaps, Of
  <2> QED BY <1>1, <1>10, <2>2 DEF SelectNoClip, SelectObject, Pictures
<1>11. ASSUME NEW h \in DOMAIN objs, NEW g \in DOMAIN objs, SelectClipRgn(h, g) PROVE NothingUndrawn'
  <2>1. /\ h \in Dcs /\ UNCHANGED <<pixels, bits, want>>
        /\ objs' = With([objs EXCEPT ![h].rgn = next], One(next, [kind |-> "region"]))
    BY <1>11 DEF SelectClipRgn, Pictures
  <2>2. next \notin DOMAIN objs /\ h # next /\ objs[h] \in DcState
    BY <2>1 DEF Table, GdiTypeOK
  <2>3. /\ DOMAIN objs' = DOMAIN objs \cup {next}
        /\ objs'[next] = [kind |-> "region"]
        /\ \A x \in DOMAIN objs \ {h} : objs'[x] = objs[x]
        /\ objs'[h] = [objs[h] EXCEPT !.rgn = next]
    BY <2>1, <2>2 DEF With, One
  <2>4. objs'[next].kind = "region" /\ objs'[h].kind = objs[h].kind
    BY <2>2, <2>3 DEF DcState
  <2>5. Bitmaps' \subseteq Bitmaps
    BY <2>3, <2>4 DEF Bitmaps, Of
  <2> QED BY <1>1, <2>1, <2>5
<1>12. ASSUME NEW h \in DOMAIN objs, EndDC(h) \/ DeleteObject(h) PROVE NothingUndrawn'
  BY <1>9, <1>12 DEF EndDC, ReleaseDC, DeleteObject
<1>13. ASSUME NEW h \in DOMAIN objs, GuestWrites(h) PROVE NothingUndrawn'
  <2>1. h \in DOMAIN bits /\ h \in Bitmaps /\ Bitmaps' = Bitmaps /\ DOMAIN want = Bitmaps
    BY <1>13 DEF GuestWrites, table, Table, GdiTypeOK, Bitmaps, Of
  <2>2. /\ bits' = [bits EXCEPT ![h] = @ \cup {marks + 1}]
        /\ want' = [want EXCEPT ![h] = @ \cup {} \cup {marks + 1}] /\ UNCHANGED pixels
    BY <1>13 DEF GuestWrites, Marked
  <2> QED BY <2>1, <2>2 DEF NothingUndrawn
<1>14. ASSUME NEW h \in DOMAIN objs, NEW more, Paints(h, more, more) PROVE NothingUndrawn'
  BY <1>14, PaintsDraws, DrawnShows
<1>15. ASSUME NEW h \in DOMAIN objs, NEW g \in DOMAIN objs,
              SetDIBits(h, g) \/ Rectangle(h) \/ TextOut(h) \/ BitBltFills(h) \/ (\E b \in BOOLEAN : DrawText(h, b))
       PROVE  NothingUndrawn'
  <2>1. CASE SetDIBits(h, g)
    <3>1. g \in DOMAIN bits /\ Paints(h, bits[g], want[g])
      BY <2>1 DEF SetDIBits
    <3>2. bits[g] = want[g]
      BY <3>1 DEF NothingUndrawn, Table, GdiTypeOK, Bitmaps
    <3> QED BY <1>14, <3>1, <3>2
  <2> QED BY <1>14, <1>15, <2>1 DEF Rectangle, TextOut, BitBltFills, DrawText
<1>16. ASSUME NEW h \in DOMAIN objs, NEW b \in BOOLEAN, PatBlt(h, b) PROVE NothingUndrawn'
  <2>1. CASE ~b
    <3>1. pixels' = Synced(pixels, objs[h].bmp) /\ UNCHANGED <<table, bits, want>>
      BY <1>16, <2>1 DEF PatBlt
    <3>2. \A c \in Bitmaps : c \notin DOMAIN bits => pixels'[c] = pixels[c]
      BY <3>1 DEF Synced, Table, GdiTypeOK
    <3>3. Bitmaps' = Bitmaps
      BY <3>1 DEF table, Bitmaps, Of
    <3> QED BY <3>1, <3>2, <3>3 DEF NothingUndrawn
  <2> QED BY <1>14, <1>16, <2>1 DEF PatBlt
<1>17. ASSUME Erases PROVE NothingUndrawn'
  <2>1. Surface \in Bitmaps /\ Surface \notin DOMAIN bits /\ DOMAIN pixels = Bitmaps
    BY DEF Table, GdiTypeOK, Bitmaps, Of
  <2>2. pixels' = [pixels EXCEPT ![Surface] = @ \cup {marks + 1}]
    BY <1>17, <2>1 DEF Erases, Synced
  <2>3. UNCHANGED bits /\ Bitmaps' = Bitmaps /\ Marked(Surface, {})
    BY <1>17 DEF Erases, table, Bitmaps, Of
  <2>4. Draws(Surface, {})
    BY <2>1, <2>2, <2>3 DEF Draws, Shown
  <2> QED BY <2>4, DrawnShows
<1>18. ASSUME NEW h \in DOMAIN objs, NEW g \in DOMAIN objs, BitBlt(h, g) PROVE NothingUndrawn'
  <2> DEFINE b == objs[h].bmp
             a == objs[g].bmp
             s == Synced(Synced(pixels, b), a)
             p == [s EXCEPT ![b] = @ \cup s[a] \cup {marks + 1}]
  <2>1. CASE a = b
    <3>1. UNCHANGED <<table, pixels, bits, want>>
      BY <1>18, <2>1 DEF BitBlt
    <3> QED BY <1>1, <3>1 DEF table, Bitmaps, Of
  <2>2. CASE a # b
    <3>1. /\ pixels' = p /\ bits' = Flushed(p, b) /\ Marked(b, want[a]) /\ UNCHANGED table
          /\ b \in DOMAIN pixels /\ a \in DOMAIN pixels
      BY <1>18, <2>2 DEF BitBlt, WriteBack, CanDraw
    <3>2. b \in Bitmaps /\ a \in Bitmaps /\ Bitmaps' = Bitmaps /\ DOMAIN pixels = Bitmaps
      BY <3>1 DEF table, Bitmaps, Of, Table, GdiTypeOK
    <3>3. /\ DOMAIN s = Bitmaps /\ s[b] = Shown(b) /\ s[a] = Shown(a)
          /\ \A c \in Bitmaps : c \notin DOMAIN bits => s[c] = pixels[c]
      BY <2>2, <3>2 DEF Synced, Shown
    <3>4. Shown(a) = want[a]
      BY <3>2 DEF NothingUndrawn, Shown
    <3> HIDE DEF s
    <3>5. /\ p[b] = Shown(b) \cup want[a] \cup {marks + 1}
          /\ \A c \in Bitmaps : c # b => p[c] = s[c]
      BY <3>2, <3>3, <3>4
    <3> HIDE DEF p
    <3>6. /\ DOMAIN bits' = DOMAIN bits
          /\ b \in DOMAIN bits => bits'[b] = p[b]
          /\ \A c \in DOMAIN bits : c # b => bits'[c] = bits[c]
      BY <3>1 DEF Flushed
    <3>7. Draws(b, want[a])
      BY <3>1, <3>2, <3>3, <3>5, <3>6 DEF Draws
    <3> QED BY <3>7, DrawnShows
  <2> QED BY <2>1, <2>2
<1>19. CASE UNCHANGED gdiVars
  BY <1>1, <1>19 DEF gdiVars, table, Bitmaps, Of
<1> QED
  BY <1>2, <1>3, <1>4, <1>5, <1>7, <1>8, <1>10, <1>11, <1>12, <1>13, <1>15, <1>16, <1>17,
     <1>18, <1>19 DEF GdiNext

----------------------------------------------------------------------------
(* The theorems. *)

\* The table keeps its types and everything selected in it exists or was taken by
\* ReleaseDC, with the count of the open DCs: release_gdi_dc never counts below zero,
\* for a DC of the surface that is released had been counted.
THEOREM TableHolds == GdiSpec => [](Table /\ CountsOpenDcs)
<1>1. GdiInit => Table /\ CountsOpenDcs
  BY TableInit, CountsInit
<1>2. (Table /\ CountsOpenDcs) /\ [GdiNext]_gdiVars => (Table /\ CountsOpenDcs)'
  BY TableStep, CountsStep
<1> QED BY <1>1, <1>2, PTL DEF GdiSpec

\* Whatever a DC has selected and the window has for its region exists and is of its
\* kind, or ReleaseDC took it for a DC: delete_object asks for every place a handle is
\* kept in before it deletes.
THEOREM SelectedAlwaysExist == GdiSpec => []SelectedExist
<1>1. Table => SelectedExist
  BY DEF Table
<1> QED BY <1>1, TableHolds, PTL

\* active_dc_count is the number of open DCs of the surface and of those the guest gave
\* to DeleteObject, whatever is selected, deleted and destroyed between GetDC and
\* ReleaseDC: begin_surface_bitmap_dc and end_surface_bitmap_dc pair up but for these.
THEOREM OpenDcsAreCounted == GdiSpec => []CountsOpenDcs
<1> QED BY TableHolds, PTL

\* What was drawn on a bitmap, copied to it or written to the memory of its section is
\* in its picture, in whatever order writes and calls come: every drawing takes the
\* memory over first and writes it back afterwards.
THEOREM NothingStaysUndrawn == GdiSpec => []NothingUndrawn
<1>1. GdiInit => NothingUndrawn
  BY PicturesInit
<1>2. Table /\ NothingUndrawn /\ [GdiNext]_gdiVars => NothingUndrawn'
  BY PicturesStep
<1> QED BY <1>1, <1>2, TableHolds, PTL DEF GdiSpec
=============================================================================
