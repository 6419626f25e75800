-------------------------------- MODULE Dib --------------------------------
(***************************************************************************)
(* The memory of a device independent bitmap and the colours in it.  Before*)
(* a drawing on a DIB section every pixel is read from guest memory, after *)
(* it every pixel is written back, the ones the drawing did not touch as   *)
(* well: reading and writing have to fit together in each format, or a     *)
(* picture fades with every call.                                          *)
(*                                                                         *)
(* A colour is <<red, green, blue, alpha>>.  Guests write indices that are *)
(* in the palette; its entries are different colours.                      *)
(***************************************************************************)
EXTENDS Integers, Sequences, SequencesExt, FiniteSetsExt

CONSTANTS
  Width, Height,
  Formats,  \* the headers of the sections: bits per pixel, palette, topDown, sizeImage, and
            \* masks: of red, green, blue and alpha the lowest bit and how many (none: no mask)
  Colours,  \* colours the guest draws with
  Bytes,    \* bytes the guest writes to the memory
  MaxCalls  \* bound: drawings and writes

VARIABLES
  bmi,   \* the DibHeaderInfo of the section: its format and stride
  raw,   \* guest memory
  want,  \* for every pixel, the colours it may have
  calls  \* drawings and writes so far

vars == <<bmi, raw, want, calls>>

Cells == (0 .. Height - 1) \X (0 .. Width - 1)
UpTo(n, m) == (n + m - 1) \div m

AlignedStride(bits) == UpTo(Width * bits, 32) * 4

\* dib_effective_stride: what biSizeImage says, unless a row does not fit.
Stride(f) ==
  IF f.sizeImage # 0 /\ f.sizeImage \div Height >= UpTo(Width * f.bits, 8)
  THEN f.sizeImage \div Height
  ELSE AlignedStride(f.bits)

RowOffset(row) == (IF bmi.topDown THEN row ELSE Height - 1 - row) * bmi.stride

----------------------------------------------------------------------------
(* One pixel. *)

\* decode_masked_component, encode_masked_component
Decoded(v, bits) == LET max == 2^bits - 1 IN (v * 255 + max \div 2) \div max
Encoded(c, bits) == LET max == 2^bits - 1 IN (c * max + 127) \div 255

\* Mutant: the value is cut off instead of rounded.
CutOff(c, bits) == LET max == 2^bits - 1 IN (c * max) \div 255

ToField(c, bits) == Encoded(c, bits)

Bits555 == <<[low |-> 10, bits |-> 5], [low |-> 5, bits |-> 5], [low |-> 0, bits |-> 5],
             [low |-> 0, bits |-> 0]>>
MasksOf(f) == IF f.masks = <<>> THEN Bits555 ELSE f.masks

\* The colour in 16 bits; without a mask for alpha it is opaque.
FromFields(v) ==
  [k \in 1 .. 4 |->
     LET m == MasksOf(bmi)[k]
     IN IF m.bits = 0 THEN 255 ELSE Decoded((v \div 2^m.low) % (2^m.bits), m.bits)]
FieldOf(k, v) ==
  LET m == MasksOf(bmi)[k] IN IF m.bits = 0 THEN 0 ELSE ToField(v, m.bits) * 2^m.low
ToFields(c) == FieldOf(1, c[1]) + FieldOf(2, c[2]) + FieldOf(3, c[3]) + FieldOf(4, c[4])

\* nearest_palette_index: the first of the nearest.
Distance(c, d) ==
  (c[1] - d[1]) * (c[1] - d[1]) + (c[2] - d[2]) * (c[2] - d[2]) + (c[3] - d[3]) * (c[3] - d[3])
Nearest(c) ==
  LET best == Min({Distance(c, bmi.palette[i]) : i \in DOMAIN bmi.palette})
  IN Min({i \in DOMAIN bmi.palette : Distance(c, bmi.palette[i]) = best}) - 1

\* The bytes of a pixel; where several share one, its place in the byte.
PerByte == 8 \div bmi.bits
ByteOf(cell) ==
  RowOffset(cell[1])
    + (IF bmi.bits < 8 THEN cell[2] \div PerByte ELSE cell[2] * (bmi.bits \div 8))
Shift(cell) == 2^(bmi.bits * (PerByte - 1 - (cell[2] % PerByte)))
Index(byte, cell) == (byte \div Shift(cell)) % (2^bmi.bits)

\* read_dib_pixel
ReadPixel(mem, cell) ==
  LET at == ByteOf(cell)
      rgb == <<mem[at + 2], mem[at + 1], mem[at]>>
  IN
    CASE bmi.bits < 8  -> bmi.palette[Index(mem[at], cell) + 1]
      [] bmi.bits = 8  -> bmi.palette[mem[at] + 1]
      [] bmi.bits = 16 -> FromFields(mem[at] + 256 * mem[at + 1])
      [] bmi.bits = 24 -> Append(rgb, 255)
      [] bmi.bits = 32 -> Append(rgb, mem[at + 3])

\* write_dib_pixel
WritePixel(mem, cell, c) ==
  LET at == ByteOf(cell)
      v  == ToFields(c)
  IN
    CASE bmi.bits < 8  -> [mem EXCEPT ![at] = @ + (Nearest(c) - Index(mem[at], cell)) * Shift(cell)]
      [] bmi.bits = 8  -> [mem EXCEPT ![at] = Nearest(c)]
      [] bmi.bits = 16 -> [mem EXCEPT ![at] = v % 256, ![at + 1] = v \div 256]
      [] bmi.bits = 24 -> [mem EXCEPT ![at] = c[3], ![at + 1] = c[2], ![at + 2] = c[1]]
      [] bmi.bits = 32 -> [mem EXCEPT ![at] = c[3], ![at + 1] = c[2], ![at + 2] = c[1],
                                      ![at + 3] = c[4]]

----------------------------------------------------------------------------
(* The whole bitmap. *)

\* raw_dib_to_pixels, for sync_dib_pixels
Sync == [cell \in Cells |-> ReadPixel(raw, cell)]

\* flush_dib_pixels_to_memory starts with zeros.
Flush(pixels) ==
  FoldSet(LAMBDA cell, mem : WritePixel(mem, cell, pixels[cell]),
          [at \in DOMAIN raw |-> 0], Cells)

Init ==
  /\ \E f \in Formats :
       /\ bmi = [bits |-> f.bits, palette |-> f.palette, masks |-> f.masks,
                 topDown |-> f.topDown, stride |-> Stride(f)]
       /\ raw = [at \in 0 .. Stride(f) * Height - 1 |-> 0]
  /\ want = [cell \in Cells |-> {ReadPixel(raw, cell)}]
  /\ calls = 0

BytesOf(cell) == ByteOf(cell) .. ByteOf(cell) + UpTo(bmi.bits, 8) - 1

\* The guest writes; the pixels that have the byte change with it.
GuestWrites(at, byte) ==
  /\ calls < MaxCalls
  /\ calls' = calls + 1
  /\ raw' = [raw EXCEPT ![at] = byte]
  /\ want' = [cell \in Cells |->
                IF at \in BytesOf(cell) THEN {ReadPixel(raw', cell)} ELSE want[cell]]
  /\ UNCHANGED bmi

\* The colours nearest to one that a format has.
Levels(k) == LET m == MasksOf(bmi)[k]
             IN IF m.bits = 0 THEN {255} ELSE {Decoded(v, m.bits) : v \in 0 .. 2^m.bits - 1}
NearestLevel(k, c) ==
  {l \in Levels(k) : \A m \in Levels(k) : (l - c) * (l - c) <= (m - c) * (m - c)}
Representable(c) ==
  CASE bmi.bits <= 8  -> {p \in ToSet(bmi.palette) :
                            \A q \in ToSet(bmi.palette) : Distance(c, p) <= Distance(c, q)}
    [] bmi.bits = 16 -> {<<r, g, b, a>> : r \in NearestLevel(1, c[1]), g \in NearestLevel(2, c[2]),
                                          b \in NearestLevel(3, c[3]), a \in NearestLevel(4, c[4])}
    [] bmi.bits = 24 -> {<<c[1], c[2], c[3], 255>>}
    [] bmi.bits = 32 -> {c}

\* SetPixel, or any drawing: all of the memory is read, and written.
Draw(cell, c) ==
  /\ calls < MaxCalls
  /\ calls' = calls + 1
  /\ raw' = Flush([Sync EXCEPT ![cell] = c])
  /\ want' = [want EXCEPT ![cell] = Representable(c)]
  /\ UNCHANGED bmi

Next ==
  \/ \E at \in DOMAIN raw, byte \in Bytes : GuestWrites(at, byte)
  \/ \E cell \in Cells, c \in Colours : Draw(cell, c)

Spec == Init /\ [][Next]_vars

----------------------------------------------------------------------------
(* Properties. *)

\* A pixel has the colour it was drawn with, as near as its format comes, or the one
\* the guest wrote, after any number of drawings elsewhere that read and wrote it too.
PictureStays == \A cell \in Cells : ReadPixel(raw, cell) \in want[cell]
============================================================================
