------------------------------ MODULE Surface ------------------------------
(***************************************************************************)
(* The picture of one window.  The emulator thread draws into a bitmap of  *)
(* the CPU through device contexts and leaves, for each drawing, either a  *)
(* small operation for the texture of the GPU or a flag that asks for the  *)
(* whole bitmap.  The UI thread takes these when it renders, and renders   *)
(* only when nothing is in its way: no open DC of the window and no lock   *)
(* that it would have to wait for.  Both threads fit the bitmap to the     *)
(* window after a change of its size.                                      *)
(*                                                                         *)
(* A picture is the sequence of drawings that made it: an operation the    *)
(* GPU misses, gets twice or gets out of order shows as another sequence.  *)
(* A drawing the GPU repeats is negative: it comes out near the CPU's, not *)
(* the same (lines are not clipped there, blits are scaled its own way).   *)
(***************************************************************************)
EXTENDS Integers, Sequences

CONSTANTS
  Sizes,     \* sizes of the window
  MaxDcs,    \* bound: device contexts open at a time
  MaxDraws,  \* bound: drawings and changes of the bitmap
  MaxMoves,  \* bound: changes of size by the guest or the user
  MaxCmds    \* bound: commands waiting when the guest begins a call

VARIABLES
  size,   \* WindowState's width and height
  bmp,    \* the bitmap: its size and the drawings in it
  sync,   \* SurfaceBitmapSyncState
  guest,  \* the call the emulator thread is in
  moves,  \* changes of size so far
  chan,   \* UpdateWindow and MoveWindow commands for the UI thread
  host,   \* size of the host window
  events, \* WindowEvent::Resized, not handled yet
  dirty,  \* the window is in pending_dirty_windows
  redraw, \* the host owes a RedrawRequested
  ui,     \* what the UI thread is doing
  tex,    \* frame_texture, its size and needs_full_frame_upload
  shown,  \* the picture presented last
  missed, \* a RedrawRequested met a lock, and nothing was presented since
  \* History: what the exceptions of the properties name.
  late,   \* the emulator thread has fitted the bitmap to a size the window had before
  unasked, \* the background was erased or DeleteDC took a DC, and no release came since
  torn    \* pixels were uploaded with another size than theirs

emu  == <<guest, moves>>
uis  == <<ui, tex, shown, missed, torn>>
vars == <<size, bmp, sync, late, unasked, emu, chan, host, events, dirty, redraw, uis>>

Idle == [at |-> "idle"]

Init ==
  /\ size \in Sizes /\ host = size
  /\ bmp = [size |-> size, drawn |-> <<>>]
  /\ sync = [full |-> TRUE, release |-> FALSE, content |-> FALSE, ops |-> <<>>, dcs |-> 0]
  /\ guest = Idle /\ moves = 0 /\ chan = <<>> /\ events = <<>>
  /\ dirty = TRUE /\ redraw = FALSE /\ ui = Idle
  /\ tex = [size |-> 0, drawn |-> <<>>, full |-> TRUE]
  /\ shown = <<>> /\ missed = FALSE /\ late = FALSE /\ unasked = FALSE /\ torn = FALSE

----------------------------------------------------------------------------
(* The state kept beside a surface bitmap, changed under a lock of its own. *)

\* mark_surface_bitmap_dirty
Dirtied(s) == [s EXCEPT !.full = TRUE, !.release = FALSE, !.ops = <<>>]

\* queue_surface_bitmap_draw_command
Drawn(s, op) ==
  LET t == IF s.content THEN s ELSE [s EXCEPT !.content = TRUE, !.full = FALSE]
  IN IF t.full THEN t ELSE [t EXCEPT !.release = TRUE, !.ops = Append(@, -op)]

\* queue_surface_bitmap_upload: the first picture must look like one.
Uploaded(s, op, presentable) ==
  CASE ~s.content /\ ~presentable -> s
    [] ~s.content /\ presentable -> [Dirtied(s) EXCEPT !.content = TRUE]
    [] s.content /\ s.full -> s
    [] OTHER -> [s EXCEPT !.release = TRUE, !.ops = Append(@, op)]

\* note_surface_bitmap_release_sync
Noted(s) == [s EXCEPT !.content = TRUE, !.release = @ \/ ~s.full]

\* The whole bitmap was overwritten: mark_surface_bitmap_has_content and _dirty.
Replaced(s) == Dirtied([s EXCEPT !.content = TRUE])

\* ensure_window_surface_bitmap_sync
Released(s) == IF s.release THEN Dirtied(s) ELSE s

\* Mutant: the drawings of the DC stay the GPU's.
KeptOps(s) == s

AtRelease(s) == Released(s)

----------------------------------------------------------------------------
(* The emulator thread. *)

Begins == guest = Idle /\ Len(chan) < MaxCmds /\ ~torn
\* render holds the lock of the pixels while it takes them.
PixelsFree == ui.at # "taking"
NextDraw == Len(bmp.drawn) + 1
Paint(b) == [b EXCEPT !.drawn = Append(@, NextDraw)]

\* GetDC, GetWindowDC, BeginPaint: begin_surface_bitmap_dc.
BeginSurfaceBitmapDc ==
  /\ Begins /\ sync.dcs < MaxDcs
  /\ sync' = [sync EXCEPT !.dcs = @ + 1]
  /\ UNCHANGED <<size, bmp, late, unasked, emu, chan, host, events, dirty, redraw, uis>>

MayPaint == Begins /\ PixelsFree /\ Len(bmp.drawn) < MaxDraws
MayDraw  == MayPaint /\ sync.dcs > 0

\* FillRect, TextOut, LineTo: the pixels first, and what the GPU has to know when
\* their lock is free again.  DefWindowProc's WM_ERASEBKGND likewise, but it needs
\* no DC and tells the UI thread nothing: a release later on does that.
DrawPixels(kind) ==
  /\ IF kind = "erase" THEN MayPaint ELSE MayDraw
  /\ bmp' = Paint(bmp)
  /\ guest' = [at |-> "drew", kind |-> kind, op |-> NextDraw]
  /\ UNCHANGED <<size, sync, late, unasked, moves, chan, host, events, dirty, redraw, uis>>

DrawQueued ==
  /\ guest.at = "drew"
  /\ sync' = IF guest.kind = "erase" THEN Noted(sync) ELSE Drawn(sync, guest.op)
  /\ chan' = IF guest.kind = "erase" THEN chan ELSE Append(chan, [op |-> "update"])
  /\ unasked' = (unasked \/ guest.kind = "erase")
  /\ guest' = Idle
  /\ UNCHANGED <<size, bmp, late, moves, host, events, dirty, redraw, uis>>

\* BitBlt, StretchBlt, StretchDIBits: the lock of the pixels is held for both.
Blit(kind) ==
  /\ MayDraw
  /\ bmp' = Paint(bmp)
  /\ sync' = CASE kind = "blit"  -> Drawn(sync, NextDraw)
               [] kind = "black" -> Uploaded(sync, NextDraw, FALSE)
               [] kind = "part"  -> Uploaded(sync, NextDraw, TRUE)
               [] kind = "whole" -> Replaced(sync)
  /\ chan' = Append(chan, [op |-> "update"])
  /\ UNCHANGED <<size, late, unasked, emu, host, events, dirty, redraw, uis>>

Closed(s) == [s EXCEPT !.dcs = @ - 1]

\* ReleaseDC, EndPaint: the DC, the bitmap's state and the UI thread, in three steps;
\* the first finds no DC when the handle is not that of one of this window.
ReleaseGdiDc ==
  /\ Begins
  /\ \/ sync.dcs > 0 /\ sync' = Closed(sync)
     \/ sync' = sync
  /\ guest' = [at |-> "released"]
  /\ UNCHANGED <<size, bmp, late, unasked, moves, chan, host, events, dirty, redraw, uis>>

EnsureSync ==
  /\ guest.at = "released"
  /\ sync' = AtRelease(sync)
  /\ unasked' = FALSE
  /\ guest' = [at |-> "synced"]
  /\ UNCHANGED <<size, bmp, late, moves, chan, host, events, dirty, redraw, uis>>

UpdateWindow ==
  /\ guest.at = "synced"
  /\ chan' = Append(chan, [op |-> "update"])
  /\ guest' = Idle
  /\ UNCHANGED <<size, bmp, sync, late, unasked, moves, host, events, dirty, redraw, uis>>

\* DeleteDC takes a window's DC, too, and that is all it does.
DeleteDC ==
  /\ Begins /\ sync.dcs > 0
  /\ sync' = Closed(sync)
  /\ unasked' = TRUE
  /\ UNCHANGED <<size, bmp, late, emu, chan, host, events, dirty, redraw, uis>>

\* MoveWindow, SetWindowPos.
MoveWindow(s) ==
  /\ Begins /\ moves < MaxMoves
  /\ size' = s
  /\ moves' = moves + 1
  /\ chan' = Append(chan, [op |-> "move", size |-> s])
  /\ guest' = [at |-> "moved"]
  /\ UNCHANGED <<bmp, sync, late, unasked, host, events, dirty, redraw, uis>>

\* sync_window_surface_bitmap: the size is read under one lock and used under another.
Fitted(target) ==
  IF bmp.size = target THEN UNCHANGED <<bmp, sync>>
  ELSE /\ bmp' = [Paint(bmp) EXCEPT !.size = target]
       /\ sync' = Dirtied(sync)

ReadSize ==
  /\ guest.at = "moved"
  /\ guest' = [at |-> "fitting", size |-> size]
  /\ UNCHANGED <<size, bmp, sync, late, unasked, moves, chan, host, events, dirty, redraw, uis>>

FitBitmap ==
  /\ guest.at = "fitting" /\ PixelsFree
  /\ Fitted(guest.size)
  /\ late' = (late \/ guest.size \notin {size, bmp.size})
  /\ guest' = Idle
  /\ UNCHANGED <<size, unasked, moves, chan, host, events, dirty, redraw, uis>>

----------------------------------------------------------------------------
(* The UI thread. *)

UIFree == ui = Idle /\ ~torn

\* The host's answer to request_inner_size, or to the user.
HostResizes(s) ==
  /\ host' = s
  /\ events' = IF host = s THEN events ELSE Append(events, s)

Command ==
  /\ UIFree /\ chan # <<>>
  /\ chan' = Tail(chan)
  /\ IF Head(chan).op = "update"
     THEN dirty' = TRUE /\ UNCHANGED <<host, events>>
     ELSE HostResizes(Head(chan).size) /\ UNCHANGED dirty
  /\ UNCHANGED <<size, bmp, sync, late, unasked, emu, redraw, uis>>

UserResizes(s) ==
  /\ ~torn /\ moves < MaxMoves /\ s # host
  /\ moves' = moves + 1
  /\ HostResizes(s)
  /\ UNCHANGED <<size, bmp, sync, late, unasked, guest, chan, dirty, redraw, uis>>

\* WindowEvent::Resized: resize_window, then sync_window_surface_bitmap.
Resized ==
  /\ UIFree /\ events # <<>>
  /\ size' = Head(events)
  /\ events' = Tail(events)
  /\ ui' = [at |-> "fitting", size |-> Head(events)]
  /\ UNCHANGED <<bmp, sync, late, unasked, emu, chan, host, dirty, redraw, tex, shown, missed, torn>>

ResizedFits ==
  /\ ui.at = "fitting"
  /\ Fitted(ui.size)
  /\ late' = FALSE
  /\ redraw' = TRUE
  /\ ui' = Idle
  /\ UNCHANGED <<size, unasked, emu, chan, host, events, dirty, tex, shown, missed, torn>>

\* A render that gave up is asked for once more, and the second is the last.
GiveUp(try) ==
  /\ ui' = Idle
  /\ redraw' = (redraw \/ try = "loop")

\* WindowRenderTarget::render begins with the DCs.
RenderFor(try) ==
  IF sync.dcs > 0 THEN
    /\ ui' = Idle
    /\ redraw' = (try = "loop" \/ (redraw /\ try # "redraw"))
  ELSE
    /\ ui' = [at |-> "checked", try |-> try]
    /\ redraw' = (redraw /\ try # "redraw")

RenderDirty ==
  /\ UIFree /\ dirty
  /\ dirty' = FALSE
  /\ RenderFor("loop")
  /\ UNCHANGED <<size, bmp, sync, late, unasked, emu, chan, host, events, tex, shown, missed, torn>>

RedrawRequested ==
  /\ UIFree /\ redraw
  /\ RenderFor("redraw")
  /\ UNCHANGED <<size, bmp, sync, late, unasked, emu, chan, host, events, dirty, tex, shown, missed, torn>>

\* Any GDI call of the guest can hold the lock that try_lock wants.
Refused ==
  /\ ui.at \in {"checked", "snapped"}
  /\ GiveUp(ui.try)
  /\ missed' = (missed \/ ui.try = "redraw")
  /\ UNCHANGED <<size, bmp, sync, late, unasked, emu, chan, host, events, dirty, tex, shown, torn>>

\* snapshot_guest_bitmap
Snapshot ==
  /\ ui.at = "checked"
  /\ ui' = [at |-> "snapped", try |-> ui.try, size |-> bmp.size]
  /\ UNCHANGED <<size, bmp, sync, late, unasked, emu, chan, host, events, dirty, redraw, tex, shown, missed, torn>>

NothingYet ==
  /\ ui.at = "snapped" /\ ~sync.content
  /\ GiveUp(ui.try)
  /\ UNCHANGED <<size, bmp, sync, late, unasked, emu, chan, host, events, dirty, tex, shown, missed, torn>>

\* consume_surface_bitmap_full_upload; a new texture takes the whole bitmap
\* without asking.  The lock of the pixels is held from here to the upload.
ConsumeFull ==
  /\ ui.at = "snapped" /\ sync.content
  /\ LET fresh == tex.full \/ tex.size # ui.size
         asked == ~fresh /\ sync.full
     IN /\ sync' = IF asked THEN [sync EXCEPT !.full = FALSE, !.ops = <<>>] ELSE sync
        /\ ui' = [at |-> "taking", size |-> ui.size, whole |-> fresh \/ asked]
  /\ UNCHANGED <<size, bmp, late, unasked, emu, chan, host, events, dirty, redraw, tex, shown, missed, torn>>

\* What was queued since the flag was consumed is in the pixels, too.
Upload ==
  /\ ui.at = "taking"
  /\ tex' = [size |-> ui.size, full |-> FALSE,
             drawn |-> IF ui.whole THEN bmp.drawn ELSE tex.drawn \o sync.ops]
  /\ sync' = [sync EXCEPT !.ops = <<>>]
  /\ torn' = (ui.whole /\ bmp.size < ui.size)
  /\ ui' = [at |-> "uploaded"]
  /\ UNCHANGED <<size, bmp, late, unasked, emu, chan, host, events, dirty, redraw, shown, missed>>

Present ==
  /\ ui.at = "uploaded" /\ ~torn
  /\ shown' = tex.drawn
  /\ missed' = FALSE
  /\ ui' = Idle
  /\ UNCHANGED <<size, bmp, sync, late, unasked, emu, chan, host, events, dirty, redraw, tex, torn>>

\* get_current_texture fails: schedule_dirty_window.
SurfaceError ==
  /\ ui.at = "uploaded" /\ ~torn
  /\ dirty' = TRUE
  /\ ui' = Idle
  /\ UNCHANGED <<size, bmp, sync, late, unasked, emu, chan, host, events, redraw, tex, shown, missed, torn>>

----------------------------------------------------------------------------
Next ==
  \/ BeginSurfaceBitmapDc \/ ReleaseGdiDc \/ EnsureSync \/ UpdateWindow \/ DeleteDC
  \/ \E kind \in {"draw", "erase"} : DrawPixels(kind)
  \/ DrawQueued
  \/ \E kind \in {"blit", "black", "part", "whole"} : Blit(kind)
  \/ \E s \in Sizes : MoveWindow(s) \/ UserResizes(s)
  \/ ReadSize \/ FitBitmap
  \/ Command \/ Resized \/ ResizedFits
  \/ RenderDirty \/ RedrawRequested \/ Refused \/ Snapshot \/ NothingYet
  \/ ConsumeFull \/ Upload \/ Present \/ SurfaceError

Spec == Init /\ [][Next]_vars

----------------------------------------------------------------------------
(* Properties. *)

Calls ==
  {Idle} \cup [at : {"released", "synced", "moved"}] \cup [at : {"fitting"}, size : Sizes]
    \cup [at : {"drew"}, kind : {"draw", "erase"}, op : Int]
Commands == [op : {"update"}] \cup [op : {"move"}, size : Sizes]
Tries    == {"loop", "redraw"}
Works ==
  {Idle} \cup [at : {"fitting"}, size : Sizes] \cup [at : {"checked"}, try : Tries]
    \cup [at : {"snapped"}, try : Tries, size : Sizes]
    \cup [at : {"taking"}, size : Sizes, whole : BOOLEAN] \cup [at : {"uploaded"}]

\* Every variable has the values the code gives it.
TypeOK ==
  /\ size \in Sizes /\ host \in Sizes /\ bmp \in [size : Sizes, drawn : Seq(Int)]
  /\ sync \in [full : BOOLEAN, release : BOOLEAN, content : BOOLEAN, ops : Seq(Int), dcs : Nat]
  /\ tex \in [size : Sizes \cup {0}, drawn : Seq(Int), full : BOOLEAN] /\ shown \in Seq(Int)
  /\ guest \in Calls /\ chan \in Seq(Commands) /\ ui \in Works /\ events \in Seq(Sizes)
  /\ dirty \in BOOLEAN /\ redraw \in BOOLEAN
  /\ missed \in BOOLEAN /\ late \in BOOLEAN /\ unasked \in BOOLEAN /\ torn \in BOOLEAN

Settled ==
  /\ guest = Idle /\ ui = Idle /\ sync.dcs = 0
  /\ chan = <<>> /\ events = <<>> /\ ~dirty /\ ~redraw

\* When both threads are done and no DC is open, the window shows the bitmap as
\* the CPU drew it, every drawing once and in its order, however the calls of the
\* two threads fell and whatever the GPU drew meanwhile; unless the last two attempts
\* to render both met a lock, or the emulator thread fitted the bitmap to a size that
\* was not the window's any more and no Resized has set that right, or the background
\* was erased or DeleteDC took a DC (neither asks for a render) and the window has had
\* no ReleaseDC and no EndPaint since.
ShowsWhatWasDrawn ==
  Settled /\ sync.content /\ ~missed /\ ~torn /\ ~late /\ ~unasked => shown = bmp.drawn

\* sync_window_surface_bitmap keeps what the old and the new bitmap have in common "so
\* that the picture does not break right after a resize" (mod.rs:954): a render never
\* takes fewer pixels from the bitmap than the size it goes by asks for.
UploadFits == ~torn
============================================================================
