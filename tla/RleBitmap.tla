----------------------------- MODULE RleBitmap -----------------------------
(***************************************************************************)
(* Run length encoded bitmaps.  Someone encodes a picture, piece by piece: *)
(* runs, literal runs, ends of line, jumps, the end.  The emulator decodes *)
(* what there is of it with a cursor of its own, which has to be where the *)
(* encoder's is after every piece, also where a piece leaves the picture.  *)
(* A picture has the palette indices of the pixels, and Unset before.      *)
(***************************************************************************)
EXTENDS Integers, Sequences

CONSTANTS
  Columns, Lines,  \* width and height
  RunLengths,      \* bound: pixels of a run
  RunPixels,       \* bound: palette indices in runs
  LiteralRuns,        \* bound: the pixels of literal runs
  Jumps,           \* bound: columns and lines left out
  MaxPieces        \* bound: pieces of the encoding

\* What the format can say: all of it fits a byte, and a literal run of fewer pixels
\* than three is something else.
Octet == 0 .. 255

ASSUME RleAssumption ==
  /\ Columns \in Nat /\ Lines \in Nat
  /\ RunLengths \subseteq Octet \ {0} /\ RunPixels \subseteq Octet
  /\ LiteralRuns \subseteq Seq(Octet) /\ \A values \in LiteralRuns : Len(values) \in 3 .. 255
  /\ Jumps \subseteq Octet \X Octet

VARIABLES
  format,   \* nibbles: RLE4, two pixels in a byte, or RLE8; topDown
  code,     \* the bytes so far
  pic,      \* the picture they stand for
  column, line,  \* where the encoder is
  finished,    \* it wrote the end of the bitmap
  pieces    \* pieces so far

rleVars == <<format, code, pic, column, line, finished, pieces>>

RleFormats == [nibbles : BOOLEAN, topDown : BOOLEAN]

Unset == -1
Places == (0 .. Lines - 1) \X (0 .. Columns - 1)
Blank == [place \in Places |-> Unset]

----------------------------------------------------------------------------
(* The decoder, for a format f and bytes c. *)

RowOf(f, y) == IF f.topDown THEN y ELSE Lines - 1 - y

\* write_rle_palette_pixel, for the values of a run at column x of line y.
Wrote(f, p, y, x, values) ==
  [place \in Places |->
     IF place[1] = RowOf(f, y) /\ place[2] - x + 1 \in DOMAIN values
     THEN values[place[2] - x + 1] ELSE p[place]]

High(byte) == byte \div 16
Low(byte)  == byte % 16
Half(i, byte) == IF i % 2 = 1 THEN High(byte) ELSE Low(byte)

RunValues(f, count, byte) ==
  [i \in 1 .. count |-> IF f.nibbles THEN Half(i, byte) ELSE byte]

\* Which byte of a literal run holds its i-th value; a byte that is missing ends it.
Holder(f, i) == IF f.nibbles THEN (i + 1) \div 2 ELSE i

LiteralValues(f, c, at, n) ==
  [i \in {j \in 1 .. n : at + Holder(f, j) <= Len(c)} |->
     LET byte == c[at + Holder(f, i)] IN IF f.nibbles THEN Half(i, byte) ELSE byte]

\* The bytes of a literal run are filled up to an even number.
Padded(f, n) == Holder(f, n) + (Holder(f, n) % 2)

\* Mutant: the pixels are filled up, which is the same for RLE8 only.
PaddedPixels(f, n) == IF n % 2 = 1 THEN Holder(f, n) + 1 ELSE Holder(f, n)

Skips(f, n) == Padded(f, n)

\* The decoder: the offset of the next byte, its place, the picture, and an end it found.
Decoder(at, x, y, p, stop) == [at |-> at, x |-> x, y |-> y, pic |-> p, stop |-> stop]

\* One turn of the loop of decode_rle8_pixels and decode_rle4_pixels.
Turn(f, c, d) ==
  LET count == c[d.at]
      value == c[d.at + 1]
      drawn(values) == Wrote(f, d.pic, d.y, d.x, values)
  IN
    CASE count > 0 ->
           Decoder(d.at + 2, d.x + count, d.y, drawn(RunValues(f, count, value)), d.stop)
      [] count = 0 /\ value = 0 -> Decoder(d.at + 2, 0, d.y + 1, d.pic, d.stop)
      [] count = 0 /\ value = 1 -> Decoder(d.at + 2, d.x, d.y, d.pic, TRUE)
      [] count = 0 /\ value = 2 /\ d.at + 3 > Len(c) -> Decoder(d.at + 2, d.x, d.y, d.pic, TRUE)
      [] count = 0 /\ value = 2 /\ d.at + 3 <= Len(c) ->
           Decoder(d.at + 4, d.x + c[d.at + 2], d.y + c[d.at + 3], d.pic, d.stop)
      [] OTHER ->
           Decoder(d.at + 2 + Skips(f, value), d.x + value, d.y,
                   drawn(LiteralValues(f, c, d.at + 1, value)), d.stop)

Goes(c, d) == ~d.stop /\ d.at + 1 <= Len(c) /\ d.y < Lines

Beginning == Decoder(1, 0, 0, Blank, FALSE)

\* The loop; a turn takes two bytes at least.
Turns(c) == Len(c) \div 2
Decoding(f, c) ==
  LET after[i \in 0 .. Turns(c)] ==
        IF i = 0 THEN Beginning
        ELSE IF Goes(c, after[i - 1]) THEN Turn(f, c, after[i - 1]) ELSE after[i - 1]
  IN after
Decode(f, c) == Decoding(f, c)[Turns(c)]

----------------------------------------------------------------------------
(* The encoder: what the format says a piece stands for. *)

RleInit ==
  /\ format \in RleFormats
  /\ code = <<>> /\ pic = Blank
  /\ column = 0 /\ line = 0 /\ finished = FALSE /\ pieces = 0

Piece(bytes) ==
  /\ pieces < MaxPieces
  /\ pieces' = pieces + 1
  /\ code' = code \o bytes

\* Nothing counts behind the end or below the last line.
Puts(values) ==
  /\ pic' = IF finished \/ line >= Lines THEN pic ELSE Wrote(format, pic, line, column, values)
  /\ column' = column + Len(values)
  /\ UNCHANGED <<format, line, finished>>

Representable(pixel) == format.nibbles => pixel < 16

\* Two pixels in turn, which RLE8 has not.
Run(n, a, b) ==
  /\ format.nibbles \/ a = b
  /\ Representable(a) /\ Representable(b)
  /\ Piece(<<n, IF format.nibbles THEN 16 * a + b ELSE a>>)
  /\ Puts([i \in 1 .. n |-> IF i % 2 = 1 THEN a ELSE b])

LiteralBytes(f, values) ==
  [i \in 1 .. Holder(f, Len(values)) |->
     IF ~f.nibbles THEN values[i]
     ELSE 16 * values[2 * i - 1] + (IF 2 * i <= Len(values) THEN values[2 * i] ELSE 0)]

Literal(values) ==
  LET bytes == LiteralBytes(format, values)
      pad   == IF Len(bytes) % 2 = 1 THEN <<0>> ELSE <<>>
  IN /\ \A i \in DOMAIN values : Representable(values[i])
     /\ Piece(<<0, Len(values)>> \o bytes \o pad)
     /\ Puts(values)

EndOfLine ==
  /\ Piece(<<0, 0>>)
  /\ column' = 0 /\ line' = line + 1
  /\ UNCHANGED <<format, pic, finished>>

Jump(dx, dy) ==
  /\ Piece(<<0, 2, dx, dy>>)
  /\ column' = column + dx /\ line' = line + dy
  /\ UNCHANGED <<format, pic, finished>>

EndOfBitmap ==
  /\ Piece(<<0, 1>>)
  /\ finished' = TRUE
  /\ UNCHANGED <<format, pic, column, line>>

RleNext ==
  \/ \E n \in RunLengths, a, b \in RunPixels : Run(n, a, b)
  \/ \E values \in LiteralRuns : Literal(values)
  \/ \E jump \in Jumps : Jump(jump[1], jump[2])
  \/ EndOfLine \/ EndOfBitmap

RleSpec == RleInit /\ [][RleNext]_rleVars

----------------------------------------------------------------------------
(* Properties. *)

\* After every piece the decoder has the picture that was encoded: its cursor and its
\* offset never part from the encoder's, however the pieces follow each other.
DecodesWhatWasEncoded == Decode(format, code).pic = pic
=============================================================================
