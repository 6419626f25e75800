------------------------------ MODULE Streams -------------------------------
(***************************************************************************)
(* The files of the guest: FILE streams and descriptors of msvcrt, and the *)
(* filebufs of msvcp60, which read ahead into an area of the guest's       *)
(* memory from a file they share with whoever else has its handle.         *)
(*                                                                         *)
(* Names are resolved by the host; a file is its bytes.  Copying one       *)
(* streambuf over another, which makes two of them share an area, the mode *)
(* that a filebuf keeps after its destructor, and locales are left out.    *)
(***************************************************************************)
EXTENDS Integers, Sequences, FiniteSetsExt, SequencesExt, Functions

CONSTANTS
  Paths, VersionDat,  \* names of files; the one a filebuf falls back to
  Contents,           \* bound: what is in the files at the start
  Digits, Blanks,     \* bytes with a meaning for operator>>
  NewLine,            \* the delimiter of getline
  Zero,               \* the byte NUL; it stands for what the guest writes
  OpenModes,          \* bound: modes of the calls that open
  MaxDigits,          \* longest number that fits an unsigned short
  MaxHandle,          \* bound: handles the guest is given
  Bufs,               \* streambufs in the guest's memory
  AreaSize,           \* STREAMBUF_HOST_BUFFER_SIZE
  Counts,             \* bound: bytes a call reads or writes
  MaxCalls            \* bound: calls

ASSUME StreamAssumption ==
  /\ VersionDat \in Paths /\ Contents \subseteq Seq(Nat) /\ Digits \cup Blanks \subseteq Nat
  /\ {NewLine, Zero, MaxDigits, MaxHandle, MaxCalls} \subseteq Nat
  /\ AreaSize \in Nat \ {0} /\ Counts \subseteq Nat \ {0}
  /\ OpenModes \subseteq [read : BOOLEAN, write : BOOLEAN, append : BOOLEAN,
                      create : BOOLEAN, truncate : BOOLEAN, ate : BOOLEAN]

VARIABLES
  disk,     \* the files of the host
  files,    \* Win32Context.files
  bufs,     \* the fields of the streambufs
  ios,      \* state bits of the stream on a streambuf
  handles,  \* handles given out so far
  calls     \* calls so far

streamVars == <<disk, files, bufs, ios, handles, calls>>

Null == 0
None == -1

Bigger(a, b)  == IF a < b THEN b ELSE a
Smaller(a, b) == IF a < b THEN a ELSE b
Put(f, k, v)  == [x \in DOMAIN f \cup {k} |-> IF x = k THEN v ELSE f[x]]
Fill(n)       == [i \in 1 .. n |-> Zero]

----------------------------------------------------------------------------
(* The host's files. *)

Opens(mode) == /\ mode.read \/ mode.write \/ mode.append
               /\ mode.truncate => mode.write /\ ~mode.append
               /\ mode.create => mode.write \/ mode.append

Opened(path, mode) ==
  [path |-> path, read |-> mode.read, write |-> mode.write \/ mode.append,
   append |-> mode.append, eof |-> FALSE, error |-> FALSE,
   pos  |-> IF mode.ate THEN Len(disk[path]) ELSE 0,
   seen |-> 0]   \* the file's length at the last read, for EofMeansEnd

Before(path, mode) == IF mode.truncate THEN [disk EXCEPT ![path] = <<>>] ELSE disk

\* state.file.read into n bytes; what was read, and the flags after it.
Left(f)    == Bigger(0, Len(disk[f.path]) - f.pos)
Got(f, n)  == IF f.read THEN Smaller(n, Left(f)) ELSE 0
ReadBytes(f, n) == SubSeq(disk[f.path], f.pos + 1, f.pos + Got(f, n))
AfterRead(f, n) ==
  IF ~f.read THEN [f EXCEPT !.error = TRUE]
  ELSE [f EXCEPT !.pos = @ + Got(f, n), !.eof = Got(f, n) < n, !.seen = Len(disk[f.path]),
                 !.error = IF Got(f, n) > 0 THEN FALSE ELSE @]

\* state.file.write of n bytes.
WriteAt(f) == IF f.append THEN Len(disk[f.path]) ELSE f.pos
Written(f, n) ==
  LET c == disk[f.path]
      a == WriteAt(f)
  IN [i \in 1 .. Bigger(Len(c), a + n) |->
        IF i > a /\ i <= a + n THEN Zero ELSE IF i <= Len(c) THEN c[i] ELSE Zero]
AfterWrite(f, n) ==
  IF ~f.write THEN [f EXCEPT !.error = TRUE]
  ELSE [f EXCEPT !.pos = WriteAt(f) + n, !.eof = FALSE, !.error = FALSE]

AfterSeek(f, p) == [f EXCEPT !.pos = p, !.eof = FALSE, !.error = FALSE]

----------------------------------------------------------------------------
(* streambuf: r and w are its read and write positions in the area.  at is *)
(* where the guest stands by its own count of what it was given, and as    *)
(* one that nothing else moved or wrote in the meantime (alone).           *)

NoFile == [path |-> CHOOSE p \in Paths : TRUE, read |-> FALSE, write |-> FALSE, append |-> FALSE,
           eof |-> FALSE, error |-> FALSE, pos |-> 0, seen |-> 0]
IsOpen(h) == h \in DOMAIN files
FileOf(b) == IF IsOpen(bufs[b].handle) THEN files[bufs[b].handle] ELSE NoFile

Fresh(h, pos, alone) ==
  [handle |-> h, area |-> Fill(AreaSize), r |-> 0, w |-> 0, at |-> pos, alone |-> alone]
UnusedBuf == [handle |-> Null, area |-> <<>>, r |-> 0, w |-> 0, at |-> 0, alone |-> FALSE]

\* Reading through a streambuf: itself, its file and what it gave so far.
Reader(b) == [buf |-> bufs[b], file |-> FileOf(b), open |-> IsOpen(bufs[b].handle), out |-> <<>>]

Available(x) == Bigger(0, x.buf.w - x.buf.r)

\* refill_streambuf_from_file
Refill(x) ==
  LET area == IF Len(x.buf.area) = 0 THEN Fill(AreaSize) ELSE x.buf.area
      n    == IF x.open THEN Got(x.file, Len(area)) ELSE 0
  IN IF x.buf.handle = Null THEN x
     ELSE [x EXCEPT
       !.buf = [@ EXCEPT
         !.area = [i \in DOMAIN area |->
                     IF i <= n THEN ReadBytes(x.file, Len(area))[i] ELSE area[i]],
         !.r = 0, !.w = n],
       !.file = IF x.open THEN AfterRead(@, Len(area)) ELSE @]
Prepare(x) == IF Available(x) = 0 THEN Refill(x) ELSE x

Peek(x) == LET y == Prepare(x)
           IN IF Available(y) = 0 \/ y.buf.r >= Len(y.buf.area) THEN None ELSE y.buf.area[y.buf.r + 1]
Take(x) == LET y == Prepare(x)
           IN IF Peek(x) = None THEN y
              ELSE [y EXCEPT !.buf = [y.buf EXCEPT !.r = @ + 1, !.at = @ + 1],
                             !.out = Append(y.out, Peek(x))]

\* Takes while the next byte is in S, at most n of them; to look at one fills the area.
TakeIf(x, S) == IF Peek(x) \in S THEN Take(x) ELSE Prepare(x)
TakeWhile(x, S, n) ==
  LET taken[i \in 0 .. n] == IF i = 0 THEN x ELSE TakeIf(taken[i - 1], S)
  IN taken[n]

\* Others with this handle no longer stand where they think; neither does a
\* filebuf whose file another one writes to.
Shares(h)  == {c \in Bufs : h # Null /\ bufs[c].handle = h}
OnPath(p)  == {c \in Bufs : IsOpen(bufs[c].handle) /\ files[bufs[c].handle].path = p}
Moved(S)   == [c \in Bufs |-> IF c \in S THEN [bufs[c] EXCEPT !.alone = FALSE] ELSE bufs[c]]

\* What a call that reads through b leaves behind.
Reads(b, y) ==
  /\ bufs' = [Moved(IF y.file = FileOf(b) THEN {} ELSE Shares(bufs[b].handle) \ {b})
                EXCEPT ![b] = y.buf]
  /\ files' = IF y.open THEN [files EXCEPT ![bufs[b].handle] = y.file] ELSE files
  /\ UNCHANGED disk

Call == calls < MaxCalls /\ calls' = calls + 1

----------------------------------------------------------------------------
(* FILE streams and descriptors. *)

StreamsInit ==
  /\ disk \in [Paths -> Contents]
  /\ files = <<>>
  /\ bufs = [b \in Bufs |-> UnusedBuf]
  /\ ios = [b \in Bufs |-> {}]
  /\ handles = 0
  /\ calls = 0

\* alloc_handle never gives a handle again.
NewHandle == handles + 1
Allocates == handles < MaxHandle /\ handles' = NewHandle

\* fopen, _open and __Fiopen
Open == \E p \in Paths, mode \in OpenModes :
  /\ Call /\ Opens(mode) /\ Allocates
  /\ files' = Put(files, NewHandle, Opened(p, mode))
  /\ disk' = Before(p, mode)
  /\ bufs' = Moved(IF mode.truncate THEN OnPath(p) ELSE {})
  /\ UNCHANGED ios

\* fclose, _close; a filebuf on the handle is not told.
Close == \E h \in DOMAIN files :
  /\ Call
  /\ files' = Restrict(files, DOMAIN files \ {h})
  /\ bufs' = Moved(Shares(h))
  /\ UNCHANGED <<disk, ios, handles>>

\* fread, _read; only _read goes to the file for no bytes at all.
Read == \E h \in DOMAIN files, n \in Counts \cup {0} :
  /\ Call
  /\ files' = [files EXCEPT ![h] = AfterRead(@, n)]
  /\ bufs' = Moved(Shares(h))
  /\ UNCHANGED <<disk, ios, handles>>

\* fwrite, _write
Write == \E h \in DOMAIN files, n \in Counts :
  /\ Call
  /\ files' = [files EXCEPT ![h] = AfterWrite(@, n)]
  /\ disk' = IF files[h].write THEN [disk EXCEPT ![files[h].path] = Written(files[h], n)] ELSE disk
  /\ bufs' = Moved(Shares(h) \cup OnPath(files[h].path))
  /\ UNCHANGED <<ios, handles>>

\* fseek, _lseek; from the start, the position or the end, it comes to a place
\* in or after the file, or to one before it, which is an error.
Seek == \E h \in DOMAIN files : \E p \in -1 .. Len(disk[files[h].path]) + 1 :
  /\ Call
  /\ files' = [files EXCEPT ![h] = IF p < 0 THEN [@ EXCEPT !.error = TRUE] ELSE AfterSeek(@, p)]
  /\ bufs' = Moved(Shares(h))
  /\ UNCHANGED <<disk, ios, handles>>

Rewind == \E h \in DOMAIN files :
  /\ Call
  /\ files' = [files EXCEPT ![h] = AfterSeek(@, 0)]
  /\ bufs' = Moved(Shares(h))
  /\ UNCHANGED <<disk, ios, handles>>

ClearErr == \E h \in DOMAIN files :
  /\ Call
  /\ files' = [files EXCEPT ![h].eof = FALSE, ![h].error = FALSE]
  /\ UNCHANGED <<disk, bufs, ios, handles>>

Flush == \E h \in DOMAIN files :
  /\ Call
  /\ files' = [files EXCEPT ![h].error = FALSE]
  /\ UNCHANGED <<disk, bufs, ios, handles>>

----------------------------------------------------------------------------
(* streambuf and filebuf. *)

\* basic_filebuf's constructor and _Init: a filebuf on a FILE the guest has, or on none.
Construct == \E b \in Bufs, h \in DOMAIN files \cup {Null} :
  /\ Call
  /\ bufs' = [Moved(Shares(h)) EXCEPT
       ![b] = Fresh(h, IF IsOpen(h) THEN files[h].pos ELSE 0, Shares(h) \subseteq {b})]
  /\ UNCHANGED <<disk, files, ios, handles>>

\* basic_filebuf::open: the file the filebuf had is closed once the new one is open.
OpenBuf == \E b \in Bufs, p \in Paths, mode \in OpenModes :
  /\ Call /\ Opens(mode) /\ Allocates
  /\ LET h == NewHandle
     IN /\ files' = Put(Restrict(files, DOMAIN files \ {bufs[b].handle}), h, Opened(p, mode))
        /\ bufs' = [Moved(Shares(bufs[b].handle) \cup (IF mode.truncate THEN OnPath(p) ELSE {}))
                      EXCEPT ![b] = Fresh(h, Opened(p, mode).pos, TRUE)]
  /\ disk' = Before(p, mode)
  /\ UNCHANGED ios

\* basic_filebuf's destructor.
Destroy == \E b \in Bufs :
  /\ Call
  /\ files' = Restrict(files, DOMAIN files \ {bufs[b].handle})
  /\ bufs' = [Moved(Shares(bufs[b].handle)) EXCEPT ![b].handle = Null]
  /\ UNCHANGED <<disk, ios, handles>>

Sync == \E b \in Bufs :
  /\ Call /\ IsOpen(bufs[b].handle)
  /\ files' = [files EXCEPT ![bufs[b].handle].error = FALSE]
  /\ UNCHANGED <<disk, bufs, ios, handles>>

\* setg, and what setbuf, setp and strstreambuf::_Init do when nothing is in
\* the area yet: an area of the guest's, of which k of w bytes are read.
SetArea == \E b \in Bufs, n \in Counts \cup {0} : \E w \in {0, n} : \E k \in 0 .. w :
  /\ Call
  /\ bufs' = [bufs EXCEPT ![b] = [@ EXCEPT !.area = Fill(n), !.r = k, !.w = w, !.alone = FALSE]]
  /\ UNCHANGED <<disk, files, ios, handles>>

\* underflow and showmanyc fill the area; uflow and xsgetn also take.
Underflow == \E b \in Bufs : Call /\ Reads(b, Prepare(Reader(b))) /\ UNCHANGED <<ios, handles>>
Uflow     == \E b \in Bufs : Call /\ Reads(b, Take(Reader(b))) /\ UNCHANGED <<ios, handles>>
Xsgetn    == \E b \in Bufs, n \in Counts :
  Call /\ Reads(b, TakeWhile(Reader(b), Nat, n)) /\ UNCHANGED <<ios, handles>>

\* A byte is put back: the one that was there, or another in its place.
PutBack(y, keep) ==
  LET back == [y.buf EXCEPT !.r = @ - 1, !.at = @ - 1]
  IN [y EXCEPT !.buf = IF keep THEN back
                       ELSE [back EXCEPT !.alone = FALSE, !.area = [@ EXCEPT ![y.buf.r] = Zero]]]
Pbackfail == \E b \in Bufs, keep \in BOOLEAN :
  LET y == Prepare(Reader(b))
  IN /\ Call
     /\ Reads(b, IF y.buf.r = 0 \/ y.buf.r > Len(y.buf.area) THEN y ELSE PutBack(y, keep))
     /\ UNCHANGED <<ios, handles>>

\* seek_streambuf_file: what was read ahead is dropped.
Dropped(buf) == [buf EXCEPT !.r = 0, !.w = 0]
\* Mutant: it is kept.
Undropped(buf) == buf
AfterSeekBuf(buf) == Dropped(buf)

\* seekoff, seekpos and seekg.  An offset from the current position counts from
\* where the file was read to, not from where the guest is; the guest learns
\* the position it gets to.
SeekBuf == \E b \in Bufs : \E p \in 0 .. Len(disk[FileOf(b).path]) + 1 :
  /\ Call
  /\ IF IsOpen(bufs[b].handle)
     THEN /\ files' = [files EXCEPT ![bufs[b].handle] = AfterSeek(@, p)]
          /\ bufs' = [Moved(Shares(bufs[b].handle)) EXCEPT
               ![b] = [AfterSeekBuf(bufs[b]) EXCEPT
                         !.at = p, !.alone = Shares(bufs[b].handle) = {b}]]
     ELSE /\ bufs' = [bufs EXCEPT ![b].r = p]
          /\ UNCHANGED files
  /\ UNCHANGED <<disk, ios, handles>>

\* seekoff to a place before the file's beginning: the file refuses and stays where it
\* is, and the read position alone is moved, as if there were no file.
Back(b, n, end) ==
  LET off  == -n - (IF end THEN Len(disk[FileOf(b).path]) ELSE FileOf(b).pos)
      from == IF end THEN bufs[b].w ELSE bufs[b].r
  IN Bigger(0, Smaller(from + off, bufs[b].w))
SeekBefore == \E b \in Bufs, n \in Counts, end \in BOOLEAN :
  /\ Call /\ IsOpen(bufs[b].handle)
  /\ bufs' = [bufs EXCEPT ![b] = [@ EXCEPT !.r = Back(b, n, end), !.alone = FALSE]]
  /\ UNCHANGED <<disk, files, ios, handles>>

\* write_bytes_to_streambuf: xsputn, write, the operators << and endl.  In an
\* area of memory only what goes beyond the write position is written.
Xsputn == \E b \in Bufs, n \in Counts :
  LET f == FileOf(b)
      h == bufs[b].handle
      a == bufs[b].area
      w == bufs[b].w
      m == Bigger(0, Smaller(n, Len(a)) - w)
  IN /\ Call
     /\ IF h # Null
        THEN /\ IsOpen(h)
             /\ files' = [files EXCEPT ![h] = AfterWrite(f, n)]
             /\ disk' = IF f.write THEN [disk EXCEPT ![f.path] = Written(f, n)] ELSE disk
             /\ bufs' = Moved(Shares(h) \cup OnPath(f.path))
        ELSE /\ bufs' = [bufs EXCEPT ![b].w = w + m,
                          ![b].area = [i \in DOMAIN a |-> IF i > w /\ i <= w + m THEN Zero ELSE a[i]]]
             /\ UNCHANGED <<disk, files>>
     /\ UNCHANGED <<ios, handles>>

----------------------------------------------------------------------------
(* istream. *)

Bits(eof, fail) == (IF eof THEN {"eof"} ELSE {}) \cup (IF fail THEN {"fail"} ELSE {})

\* At most n - 1 bytes are stored, and a 0 after them.
Getline == \E b \in Bufs, n \in Counts :
  LET y == TakeWhile(Reader(b), Nat \ {NewLine}, n - 1)
      stored == Len(y.out)
      room == stored < n - 1
      end == IF room THEN Take(y) ELSE y
      hit == room /\ Peek(y) = NewLine
  IN /\ Call
     /\ Reads(b, end)
     /\ ios' = [ios EXCEPT ![b] =
          Bits(room /\ ~hit, (~hit /\ stored + 1 >= n) \/ (stored = 0 /\ ~hit))]
     /\ UNCHANGED handles

\* attach_version_dat_fallback
Falls(b) == bufs[b].handle = Null /\ Available(Reader(b)) = 0
FallbackMode == [read |-> TRUE, write |-> FALSE, append |-> FALSE, create |-> FALSE,
                 truncate |-> FALSE, ate |-> FALSE]

\* operator>>(unsigned short&): blanks, then digits; what follows is looked at.
Extract == \E b \in Bufs :
  LET most == Len(disk[IF Falls(b) THEN VersionDat ELSE FileOf(b).path]) + Len(bufs[b].area) + 1
      h == IF Falls(b) THEN NewHandle ELSE bufs[b].handle
      start == IF Falls(b)
               THEN Refill([buf |-> [bufs[b] EXCEPT !.handle = h, !.at = 0, !.alone = TRUE],
                            file |-> Opened(VersionDat, FallbackMode), open |-> TRUE, out |-> <<>>])
               ELSE Reader(b)
      blank == TakeWhile(start, Blanks, most)
      digit == TakeWhile([blank EXCEPT !.out = <<>>], Digits, most)
      none  == digit.out = <<>>
      large == Len(digit.out) > MaxDigits
  IN /\ Call
     /\ ios' = [ios EXCEPT ![b] = Bits(~large /\ Peek(digit) = None, none \/ large)]
     /\ IF Falls(b)
        THEN /\ Allocates
             /\ files' = Put(files, h, digit.file)
             /\ bufs' = [bufs EXCEPT ![b] = digit.buf]
             /\ UNCHANGED disk
        ELSE Reads(b, digit) /\ UNCHANGED handles

StreamsNext ==
  \/ Open \/ Close \/ Read \/ Write \/ Seek \/ Rewind \/ ClearErr \/ Flush
  \/ Construct \/ OpenBuf \/ Destroy \/ Sync \/ SetArea
  \/ Underflow \/ Uflow \/ Xsgetn \/ Pbackfail \/ SeekBuf \/ SeekBefore \/ Xsputn
  \/ Getline \/ Extract

StreamsSpec == StreamsInit /\ [][StreamsNext]_streamVars

----------------------------------------------------------------------------
(* Properties. *)

StreamTypeOK ==
  /\ DOMAIN files \subseteq 1 .. handles
  /\ \A h \in DOMAIN files : files[h].path \in Paths /\ files[h].pos \in Nat
  /\ \A b \in Bufs : bufs[b].w \in 0 .. Len(bufs[b].area) /\ bufs[b].r \in Nat

\* A filebuf that has its file for itself gives the guest every byte of it
\* once and in order from where it last opened or sought, through any mix of
\* peeks, takes, blocks, lines, numbers and put-backs: what is unread in the
\* area is the file just before its position, and begins where the guest is
\* by its own count.  A seek to before the beginning, which fails and yet moves the
\* guest within the area, ends this until the next one that succeeds.
UnreadIsNext == \A b \in Bufs :
  LET x == bufs[b]
      f == FileOf(b)
      n == Available(Reader(b))
  IN x.alone /\ IsOpen(x.handle) =>
       /\ x.at = f.pos - n
       /\ SubSeq(x.area, x.r + 1, x.w) = SubSeq(disk[f.path], x.at + 1, f.pos)

\* feof: the flag is set only where the file ended for the last read, so a
\* loop until feof reads the whole file, also after seeks and writes.
EofMeansEnd == \A h \in DOMAIN files : files[h].eof => files[h].pos >= files[h].seen

\* What the guest has not read is what it reads next, and the end is told at the end only.
ReadsGoOn == StreamTypeOK /\ UnreadIsNext /\ EofMeansEnd
=============================================================================
