----------------------------- MODULE MCRuntime -----------------------------
(***************************************************************************)
(* The parts of the runtime that answer the guest's calls one after the    *)
(* other and share no state: the heap, regions, the pixels of DIB sections,*)
(* encoded bitmaps, drawing, sounds, files and strings.  "part" says which *)
(* of them the guest uses; the others are idle.                            *)
(***************************************************************************)
EXTENDS Heap, BasicString, Sound, Streams, Raster, RleBitmap, Regions

VARIABLES
  part,
  bmi, raw, want, dibCalls          \* Dib

heap    == vars
regions == regionVars
dib     == <<bmi, raw, want, dibCalls>>
rle     == rleVars
raster  == rasterVars
sound   == soundVars
streams == streamVars
strings == stringVars

----------------------------------------------------------------------------
(* Bounds. *)

\* The whole window, what may be cut out of it, and a rectangle without points.
MCDrawnRects ==
  {<<0, 0, 4, 4>>, <<1, 1, 3, 3>>, <<1, 1, 2, 3>>, <<2, 1, 3, 2>>, <<1, 2, 3, 3>>,
   <<-1, 1, 4, 2>>, <<3, 3, 3, 3>>}

Window(kind, above, visible, rect) ==
  [kind |-> kind, above |-> above, visible |-> visible, rect |-> rect]
MCCoverings ==
  LET child   == Window("child", FALSE, TRUE, <<1, 1, 2, 2>>)
      other   == Window("child", FALSE, TRUE, <<1, 2, 3, 3>>)
      hidden  == Window("child", FALSE, FALSE, <<0, 0, 1, 1>>)
      sibling == Window("sibling", TRUE, TRUE, <<2, 1, 4, 4>>)
      below   == Window("sibling", FALSE, TRUE, <<0, 0, 1, 4>>)
  IN {<<child, other, hidden>>, <<child, sibling, below>>, <<other, below, sibling>>}

\* Every depth, with and without masks, and images whose size is too small or has padding.
Header(bits, palette, masks, down, sizeImage) ==
  [bits |-> bits, palette |-> palette, masks |-> masks, topDown |-> down, sizeImage |-> sizeImage]
Gray(n) == [i \in 1 .. n |-> LET v == ((i - 1) * 255) \div (n - 1) IN <<v, v, v, 255>>]
Masks(fields) == [i \in 1 .. 4 |-> [low |-> fields[i][1], bits |-> fields[i][2]]]
Formats ==
  {Header(1, <<<<255, 0, 0, 255>>, <<0, 0, 255, 255>>>>, <<>>, FALSE, 0),
   Header(4, Gray(16), <<>>, TRUE, 4),
   Header(8, Gray(256), <<>>, FALSE, 3),
   Header(16, <<>>, <<>>, TRUE, 0),
   Header(16, <<>>, Masks(<<<<11, 5>>, <<5, 6>>, <<0, 5>>, <<0, 0>>>>), FALSE, 12),
   Header(16, <<>>, Masks(<<<<8, 4>>, <<4, 4>>, <<0, 4>>, <<12, 4>>>>), FALSE, 0),
   Header(24, <<>>, <<>>, FALSE, 18),
   Header(32, <<>>, <<>>, TRUE, 0)}
DibColours == {<<255, 255, 255, 255>>, <<100, 37, 8, 128>>}

\* The whole surface, its client area with a window on it, and a clip with two parts.
MCDcs ==
  {[clip |-> <<<<0, 0, 4, 3>>>>, ox |-> 0, oy |-> 0],
   [clip |-> <<<<1, 1, 3, 2>>, <<1, 2, 2, 3>>>>, ox |-> 1, oy |-> 1],
   [clip |-> <<<<0, 0, 1, 3>>, <<2, 0, 4, 1>>>>, ox |-> 0, oy |-> 0]}
\* Also an empty one, and one given from its lower right corner.
MCRects  == {<<-1, -1, 2, 2>>, <<0, 0, 2, 1>>, <<1, 0, 4, 3>>, <<0, 1, 1, 2>>,
             <<2, 1, 2, 3>>, <<3, 3, 1, 1>>}
MCEnds   == {<<-1, 0>>, <<3, 1>>, <<1, 2>>}
MCSource == <<<<3, 4>>, <<5, 6>>>>

\* Literal runs whose bytes are odd and even in number, in both formats.
MCLiteralRuns == {[i \in 1 .. n |-> 5 + i] : n \in 3 .. 5}
MCJumps == {<<1, 0>>, <<0, 1>>}

\* A file without samples, one with less than a frame, and one of two frames.
MCWaves ==
  {[frames |-> 0, empty |-> TRUE, step |-> 4], [frames |-> 0, empty |-> FALSE, step |-> 4],
   [frames |-> 2, empty |-> FALSE, step |-> 3]}

\* "r"; in, out and ate; "w"; "a+"
Mode(r, w, a, c, t, e) ==
  [read |-> r, write |-> w, append |-> a, create |-> c, truncate |-> t, ate |-> e]
MCModes ==
  {Mode(TRUE, FALSE, FALSE, FALSE, FALSE, FALSE), Mode(TRUE, TRUE, FALSE, FALSE, FALSE, TRUE),
   Mode(FALSE, TRUE, FALSE, TRUE, TRUE, FALSE), Mode(TRUE, FALSE, TRUE, TRUE, FALSE, FALSE)}

\* A blank, the number 45, a line's end, the number 6.
MCContents == {<<8, 4, 5, 9, 6>>}

\* C strings of the guest: an empty one, and one as long as a string may be.
MCLiterals == {<<>>, <<1, 1, 1>>}

----------------------------------------------------------------------------
Db == INSTANCE Dib WITH Width <- 3, Height <- 2, Bytes <- {0, 29, 200}, MaxCalls <- 2,
                        Colours <- DibColours, calls <- dibCalls
Idle == "idle"

InitRegions ==
  IF part = "regions" THEN RegionsInit
  ELSE /\ region = [h \in RegionHandles |-> <<>>] /\ pts = [h \in RegionHandles |-> {}]
       /\ frame = NoFrame /\ border = {} /\ rgnOps = Idle
InitDib ==
  IF part = "dib" THEN Db!Init ELSE bmi = Idle /\ raw = Idle /\ want = Idle /\ dibCalls = Idle
InitRle ==
  /\ RleInit
  /\ part = "rle" \/ format = CHOOSE f \in RleFormats : TRUE
InitRaster ==
  IF part = "raster" THEN RasterInit
  ELSE /\ dc = Idle /\ current = Idle /\ pixels = Idle /\ tex = Idle
       /\ approx = TRUE /\ unclipped = TRUE /\ draws = Idle

MCInit ==
  /\ part \in {"heap", "regions", "dib", "rle", "raster", "sound", "streams", "strings"}
  /\ Init /\ StringsInit /\ SoundInit /\ StreamsInit
  /\ InitRegions /\ InitDib /\ InitRle /\ InitRaster

MCNext ==
  /\ UNCHANGED part
  /\ \/ part = "heap" /\ Next /\ UNCHANGED <<regions, dib, rle, raster, sound, streams, strings>>
     \/ part = "regions" /\ RegionsNext /\ UNCHANGED <<heap, dib, rle, raster, sound, streams, strings>>
     \/ part = "dib" /\ Db!Next /\ UNCHANGED <<heap, regions, rle, raster, sound, streams, strings>>
     \/ part = "rle" /\ RleNext /\ UNCHANGED <<heap, regions, dib, raster, sound, streams, strings>>
     \/ part = "raster" /\ RasterNext /\ UNCHANGED <<heap, regions, dib, rle, sound, streams, strings>>
     \/ part = "sound" /\ SoundNext /\ UNCHANGED <<heap, regions, dib, rle, raster, streams, strings>>
     \/ part = "streams" /\ StreamsNext /\ UNCHANGED <<heap, regions, dib, rle, raster, sound, strings>>
     \/ part = "strings" /\ StringsNext /\ UNCHANGED <<heap, regions, dib, rle, raster, sound, streams>>

MCSpec ==
  MCInit /\ [][MCNext]_<<part, heap, regions, dib, rle, raster, sound, streams, strings>>

----------------------------------------------------------------------------
(* The property of the part that is an instance. *)

\* The guest sees in the bits of its section what was drawn, as near as they can show it.
PictureStays == part = "dib" => Db!PictureStays
=============================================================================
