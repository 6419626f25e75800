----------------------------- MODULE GdiObjects -----------------------------
(***************************************************************************)
(* The table of GDI objects and what refers to what in it: a device        *)
(* context to the bitmap, the clip region and the tools selected into it,  *)
(* a window to its surface bitmap and its region.  A DIB section has its   *)
(* pixels twice, in the table and in guest memory, where the guest writes  *)
(* without a call; every drawing takes over the memory first and writes it *)
(* back afterwards.                                                        *)
(*                                                                         *)
(* A picture is the set of the drawings and writes that went into it.      *)
(* Calls run on the emulator thread one at a time, with any handle the     *)
(* guest was given, of whatever kind and age, but two: it never holds that *)
(* of a surface bitmap, and selects bitmaps into memory DCs only.          *)
(***************************************************************************)
EXTENDS Integers, FiniteSets

CONSTANTS
  MaxHandle,  \* bound: handles given out
  MaxMarks    \* bound: drawings and writes to guest memory

VARIABLES
  objs,    \* Win32Context::gdi_objects
  next,    \* the handle alloc_handle gives next
  window,  \* the window and its region, which was "valid" when it was given, or Gone
  active,  \* active_dc_count of the surface bitmap
  pixels,  \* the pictures of the bitmaps
  bits,    \* guest memory of the DIB sections
  want,    \* what was drawn on or written to a bitmap
  marks,   \* drawings and writes so far
  stuck,   \* the emulator thread waits for a lock it holds
  \* History: what the exceptions of the properties name.
  dropped, \* objects in use that were given to ReleaseDC as if they were DCs
  leaked   \* DCs of the window that were given to DeleteObject

table   == <<objs, next, window, active, dropped, leaked>>
gdiVars == <<table, pixels, bits, want, marks, stuck>>

None    == 0
Surface == 1   \* create_surface_bitmap, with the window
Gone    == [alive |-> FALSE, rgn |-> None, valid |-> TRUE]

Of(kind)  == {h \in DOMAIN objs : objs[h].kind = kind}
Dcs       == Of("dc")
Bitmaps   == Of("bitmap") \cup Of("section")
WindowDcs == {h \in Dcs : objs[h].window}

Bitmap == [kind |-> "bitmap"]
Dc(onWindow, bmp, rgn) ==
  [kind |-> "dc", window |-> onWindow, bmp |-> bmp, rgn |-> rgn, tool |-> None]

\* f with more or other values.
With(f, g) == [x \in DOMAIN f \cup DOMAIN g |-> IF x \in DOMAIN g THEN g[x] ELSE f[x]]
Without(f, x) == [y \in DOMAIN f \ {x} |-> f[y]]
One(x, v) == [y \in {x} |-> v]

GdiInit ==
  /\ objs = One(Surface, Bitmap) /\ next = 2
  /\ window = [alive |-> TRUE, rgn |-> None, valid |-> TRUE]
  /\ active = 0 /\ dropped = {} /\ leaked = {}
  /\ pixels = One(Surface, {}) /\ bits = <<>> /\ want = One(Surface, {})
  /\ marks = 0 /\ stuck = FALSE

Room(n) == ~stuck /\ next + n - 1 <= MaxHandle

Adds(new) ==
  /\ objs' = With(objs, new)
  /\ next' = next + Cardinality(DOMAIN new)

Pictures == <<pixels, bits, want, marks, stuck>>
History  == <<dropped, leaked>>

----------------------------------------------------------------------------
(* Objects come and go. *)

\* CreatePen, CreateSolidBrush, CreateFont, GetStockObject; CreateRectRgn.
CreateTool(kind) ==
  /\ Room(1)
  /\ Adds(One(next, [kind |-> kind]))
  /\ UNCHANGED <<window, active, History, Pictures>>

\* CreateCompatibleBitmap, CreateBitmap; CreateDIBSection adds guest memory.
CreateBitmap(kind) ==
  /\ Room(1)
  /\ Adds(One(next, [kind |-> kind]))
  /\ pixels' = With(pixels, One(next, {}))
  /\ want' = With(want, One(next, {}))
  /\ bits' = IF kind = "section" THEN With(bits, One(next, {})) ELSE bits
  /\ UNCHANGED <<window, active, History, marks, stuck>>

\* A memory DC starts with a bitmap of one pixel.
CreateCompatibleDC ==
  /\ Room(2)
  /\ Adds([h \in {next, next + 1} |->
             IF h = next THEN Dc(FALSE, next + 1, None) ELSE Bitmap])
  /\ pixels' = With(pixels, One(next + 1, {}))
  /\ want' = With(want, One(next + 1, {}))
  /\ UNCHANGED <<window, active, History, bits, marks, stuck>>

\* GetDC, BeginPaint: with a region that clips to the client area.
GetDC ==
  /\ Room(2) /\ window.alive
  /\ Adds([h \in {next, next + 1} |->
             IF h = next THEN Dc(TRUE, Surface, next + 1) ELSE [kind |-> "region"]])
  /\ active' = active + 1
  /\ UNCHANGED <<window, History, Pictures>>

GetWindowDC ==
  /\ Room(1) /\ window.alive
  /\ Adds(One(next, Dc(TRUE, Surface, None)))
  /\ active' = active + 1
  /\ UNCHANGED <<window, History, Pictures>>

\* A DC for a window that is gone has no bitmap.
GetDeadDC ==
  /\ Room(1) /\ ~window.alive
  /\ Adds(One(next, Dc(TRUE, None, None)))
  /\ UNCHANGED <<window, active, History, Pictures>>

\* A DC has it selected, or the window has it for its region.
InUse(h) ==
  \/ \E d \in Dcs : h \in {objs[d].bmp, objs[d].rgn, objs[d].tool}
  \/ window.rgn = h

\* The object and, of a bitmap, the picture leave the table.
Removed(h) ==
  /\ objs' = Without(objs, h)
  /\ pixels' = Without(pixels, h) /\ bits' = Without(bits, h) /\ want' = Without(want, h)
  /\ UNCHANGED <<next, window, marks, stuck>>

OnSurface(h) == h \in Dcs /\ objs[h].bmp = Surface

\* ReleaseDC, EndPaint, DeleteDC: release_gdi_dc.  What the handle names is removed
\* before anything asks whether it was a DC.  Only surface bitmaps have a count.
ReleaseDC(h) ==
  /\ ~stuck /\ h \in DOMAIN objs \ {Surface}
  /\ Removed(h)
  /\ active' = IF OnSurface(h) THEN active - 1 ELSE active
  /\ dropped' = IF h \notin Dcs /\ InUse(h) THEN dropped \cup {h} ELSE dropped
  /\ UNCHANGED leaked

\* Mutant: release_gdi_dc forgets end_surface_bitmap_dc.
ReleaseUncounted(h) ==
  /\ ~stuck /\ h \in Dcs
  /\ Removed(h)
  /\ UNCHANGED <<active, History>>

EndDC(h) == ReleaseDC(h)

SelectObject(hdc, h) ==
  /\ ~stuck /\ hdc \in Dcs /\ h \in DOMAIN objs
  /\ objs[h].kind \in {"bitmap", "section"} => ~objs[hdc].window /\ h # Surface
  /\ objs' =
       CASE h \in Bitmaps       -> [objs EXCEPT ![hdc].bmp = h]
         [] h \in Of("region")  -> [objs EXCEPT ![hdc].rgn = h]
         [] h \in Of("tool")    -> [objs EXCEPT ![hdc].tool = h]
         [] OTHER               -> objs
  /\ UNCHANGED <<next, window, active, History, Pictures>>

\* SelectClipRgn selects a copy of the region, or takes the clip away.
SelectClipRgn(hdc, rgn) ==
  /\ Room(1) /\ hdc \in Dcs /\ rgn \in Of("region")
  /\ objs' = With([objs EXCEPT ![hdc].rgn = next], One(next, [kind |-> "region"]))
  /\ next' = next + 1
  /\ UNCHANGED <<window, active, History, Pictures>>

SelectNoClip(hdc) ==
  /\ ~stuck /\ hdc \in Dcs
  /\ objs' = [objs EXCEPT ![hdc].rgn = None]
  /\ UNCHANGED <<next, window, active, History, Pictures>>

\* Nobody looks whether it is a region.
SetWindowRgn(h) ==
  /\ ~stuck /\ window.alive /\ h \in {None} \cup (2 .. next - 1)
  /\ window' = [alive |-> TRUE, rgn |-> h, valid |-> h \in Of("region") \cup {None}]
  /\ UNCHANGED <<objs, next, active, History, Pictures>>

\* Mutant: selected_somewhere leaves the regions out.
RegionsFree(h) ==
  \/ \E d \in Dcs : h \in {objs[d].bmp, objs[d].tool}
  \/ window.rgn = h

Selected(h) == InUse(h)

\* DeleteObject refuses what is in use.  The memory of a section goes back to the
\* heap; a DC is no better than the rest, and its surface is not told.
DeleteObject(h) ==
  /\ ~stuck /\ h \in DOMAIN objs \ {Surface}
  /\ ~Selected(h)
  /\ Removed(h)
  /\ leaked' = IF OnSurface(h) THEN leaked \cup {h} ELSE leaked
  /\ UNCHANGED <<active, dropped>>

\* destroy_window takes the window's state and leaves its surface bitmap.
DestroyWindow ==
  /\ ~stuck /\ window.alive
  /\ window' = Gone
  /\ UNCHANGED <<objs, next, active, History, Pictures>>

----------------------------------------------------------------------------
(* Drawing. *)

\* sync_dib_pixels
Synced(p, b) == IF b \in DOMAIN bits THEN [p EXCEPT ![b] = bits[b]] ELSE p
\* flush_dib_pixels_to_memory
Flushed(p, b) == IF b \in DOMAIN bits THEN [bits EXCEPT ![b] = p[b]] ELSE bits

\* Mutant: the drawing stays in the table.
Unflushed(p, b) == bits

WriteBack(p, b) == Flushed(p, b)

CanDraw(b) == ~stuck /\ b \in DOMAIN pixels /\ marks < MaxMarks
Marked(b, more) ==
  /\ marks' = marks + 1
  /\ want' = [want EXCEPT ![b] = @ \cup more \cup {marks + 1}]

\* The guest writes to the memory CreateDIBSection gave it.
GuestWrites(b) ==
  /\ CanDraw(b) /\ b \in DOMAIN bits
  /\ bits' = [bits EXCEPT ![b] = @ \cup {marks + 1}]
  /\ Marked(b, {})
  /\ UNCHANGED <<table, pixels, stuck>>

\* The picture of the DC's bitmap gets the drawing and, if it copies one, another.
Paints(hdc, copied, copiedWant) ==
  LET b == objs[hdc].bmp
      p == [Synced(pixels, b) EXCEPT ![b] = @ \cup copied \cup {marks + 1}]
  IN
    /\ hdc \in Dcs /\ CanDraw(b)
    /\ pixels' = p
    /\ bits' = WriteBack(p, b)
    /\ Marked(b, copiedWant)
    /\ UNCHANGED <<table, stuck>>

\* With the pen and the brush of the DC (LineTo, SetPixel and FillRect alike).
Rectangle(hdc) == Paints(hdc, {}, {})

\* A raster operation that is not known only takes over the memory.
PatBlt(hdc, known) ==
  \/ known /\ Paints(hdc, {}, {})
  \/ /\ ~known /\ hdc \in Dcs /\ CanDraw(objs[hdc].bmp)
     /\ pixels' = Synced(pixels, objs[hdc].bmp)
     /\ UNCHANGED <<table, bits, want, marks, stuck>>

\* TextOut; DrawText that only measures stops before the bitmap (DT_CALCRECT).
TextOut(hdc) == Paints(hdc, {}, {})
DrawText(hdc, measure) == ~measure /\ Paints(hdc, {}, {})

\* SetDIBitsToDevice, StretchDIBits: from guest memory, here that of a section,
\* which is read before the target's is taken over.
SetDIBits(hdc, src) == src \in DOMAIN bits /\ Paints(hdc, bits[src], want[src])

\* WM_ERASEBKGND: straight on the surface, which has no memory to write back.
Erases ==
  /\ window.alive /\ CanDraw(Surface)
  /\ pixels' = [Synced(pixels, Surface) EXCEPT ![Surface] = @ \cup {marks + 1}]
  /\ Marked(Surface, {})
  /\ UNCHANGED <<table, bits, stuck>>

\* BitBlt and StretchBlt take the locks of both pictures, one after the other.
BitBlt(dst, src) ==
  LET b == objs[dst].bmp
      a == objs[src].bmp
      s == Synced(Synced(pixels, b), a)
      p == [s EXCEPT ![b] = @ \cup s[a] \cup {marks + 1}]
  IN
    /\ {dst, src} \subseteq Dcs /\ CanDraw(b) /\ a \in DOMAIN pixels
    /\ IF a = b
       THEN stuck' = TRUE /\ UNCHANGED <<pixels, bits, want, marks>>
       ELSE /\ pixels' = p
            /\ bits' = WriteBack(p, b)
            /\ Marked(b, want[a])
            /\ UNCHANGED stuck
    /\ UNCHANGED table

\* PATCOPY, BLACKNESS and WHITENESS need no source.
BitBltFills(hdc) == Paints(hdc, {}, {})

GdiNext ==
  \/ \E kind \in {"tool", "region"} : CreateTool(kind)
  \/ \E kind \in {"bitmap", "section"} : CreateBitmap(kind)
  \/ CreateCompatibleDC \/ GetDC \/ GetWindowDC \/ GetDeadDC
  \/ DestroyWindow \/ Erases
  \/ \E h \in 0 .. next - 1 : SetWindowRgn(h)
  \/ \E h \in DOMAIN objs :
       \/ EndDC(h) \/ SelectNoClip(h) \/ DeleteObject(h) \/ GuestWrites(h)
       \/ Rectangle(h) \/ TextOut(h) \/ BitBltFills(h)
       \/ \E b \in BOOLEAN : PatBlt(h, b) \/ DrawText(h, b)
  \/ \E h, g \in DOMAIN objs :
       SelectObject(h, g) \/ SelectClipRgn(h, g) \/ SetDIBits(h, g) \/ BitBlt(h, g)

GdiSpec == GdiInit /\ [][GdiNext]_gdiVars

----------------------------------------------------------------------------
(* Properties. *)

DcState == [kind : {"dc"}, window : BOOLEAN, bmp : Nat, rgn : Nat, tool : Nat]

\* Every variable has the values the code gives it: handles below the next one, a
\* surface bitmap that stays, DCs of the window with no other bitmap than that one,
\* pictures for the bitmaps and no other object, and no handle used again.
GdiTypeOK ==
  /\ next \in Nat \ {0, 1} /\ DOMAIN objs \subseteq 1 .. next - 1
  /\ \A h \in DOMAIN objs : objs[h].kind \in {"dc", "bitmap", "section", "region", "tool"}
  /\ Surface \in Of("bitmap")
  /\ \A d \in Dcs : /\ objs[d] \in DcState
                    /\ objs[d].bmp \in IF objs[d].window THEN {Surface, None} ELSE Nat \ {Surface}
  /\ DOMAIN pixels = Bitmaps /\ DOMAIN want = Bitmaps /\ DOMAIN bits = Of("section")
  /\ window \in [alive : BOOLEAN, rgn : Nat, valid : BOOLEAN]
  /\ dropped \cup leaked \subseteq (1 .. next - 1) \ DOMAIN objs
  /\ marks \in Nat /\ active \in Nat /\ stuck \in BOOLEAN

\* Whatever a DC has selected exists and is of the kind it was selected as, and so does
\* the region of the window if it was one when the window got it: DeleteObject takes
\* nothing that is in use, however it came to be.  ReleaseDC, EndPaint and DeleteDC do:
\* what they took is the exception.
SelectedExist ==
  /\ \A d \in Dcs :
       /\ objs[d].bmp \in Bitmaps \cup {None} \cup dropped
       /\ objs[d].rgn \in Of("region") \cup {None} \cup dropped
       /\ objs[d].tool \in Of("tool") \cup {None} \cup dropped
  /\ window.valid => window.rgn \in Of("region") \cup {None} \cup dropped

\* The renderer leaves a window alone while its surface counts an open DC, which is to
\* say "whether a window DC on it still lives" (mod.rs:522).  The count is that of the
\* DCs there are and of those the guest gave to DeleteObject, which are counted for
\* ever: but for these the window is drawn again once its DCs are closed.
CountsOpenDcs ==
  active = Cardinality({d \in WindowDcs : objs[d].bmp = Surface} \cup leaked)

\* Nothing that was drawn on a bitmap, copied to it or written to its memory is lost,
\* in whatever order the guest's writes and the calls come.
NothingUndrawn ==
  \A b \in Bitmaps : (IF b \in DOMAIN bits THEN bits[b] ELSE pixels[b]) = want[b]

\* StretchBlt "copies the bitmap of the source DC to the destination" (bitmap.rs:563),
\* and BitBlt likewise, also inside one bitmap: the call comes back.
BlitsEnd == ~stuck
=============================================================================
