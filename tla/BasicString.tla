----------------------------- MODULE BasicString ----------------------------
(***************************************************************************)
(* std::string of msvcp60: three fields in the guest's memory, one of      *)
(* which points to bytes that the guest also reads and writes itself,      *)
(* through c_str and end.  Every operation that sets a string gives it     *)
(* bytes of its own.                                                       *)
(*                                                                         *)
(* Buffers are never freed; one that no string points to is forgotten      *)
(* here.  A heap without room, strings longer than 4096, and what the      *)
(* guest writes beyond the end of a string are left out.                   *)
(***************************************************************************)
EXTENDS Integers, Sequences, FiniteSets, FiniteSetsExt, SequencesExt, Functions

CONSTANTS
  Strings,    \* objects in the guest's memory
  Chars,      \* bytes other than NUL
  Literals,   \* C strings of the guest
  MaxLen      \* bound: length of a string

ASSUME StringAssumption ==
  /\ IsFiniteSet(Strings) /\ MaxLen \in Nat
  /\ Chars \subseteq 1 .. 255 /\ Literals \subseteq Seq(Chars)

VARIABLES
  mem,     \* the buffers strings point to
  objs,    \* the fields of the strings
  value    \* what the calls of the guest say is in the strings

stringVars == <<mem, objs, value>>

Nul   == 0
Empty == 0   \* address of the empty string, which all empty strings share
Npos  == -1  \* u32::MAX

Capped(a, b) == IF a < b THEN a ELSE b
Zeros(n) == [i \in 1 .. n |-> Nul]

\* basic_string_bytes
StringBytes(s) == SubSeq(mem[objs[s].ptr], 1, objs[s].len)

\* source_bytes_from_ptr without a length: what is before the first NUL.
CString(bytes) == SubSeq(bytes, 1, SelectInSeq(bytes \o <<Nul>>, LAMBDA c : c = Nul) - 1)

\* basic_string_subrange; sums saturate.
RangeStart(bytes, at)    == Capped(at, Len(bytes))
RangeEnd(bytes, at, n)   == IF n = Npos THEN Len(bytes) ELSE Capped(RangeStart(bytes, at) + n, Len(bytes))
SubRange(bytes, at, n) == SubSeq(bytes, RangeStart(bytes, at) + 1, RangeEnd(bytes, at, n))

\* basic_string_replace_range
Replaced(bytes, at, remove, new) ==
  SubSeq(bytes, 1, RangeStart(bytes, at)) \o new
    \o SubSeq(bytes, RangeEnd(bytes, at, remove) + 1, Len(bytes))

\* Vec::resize
Resized(bytes, n) == SubSeq(bytes, 1, Capped(n, Len(bytes))) \o Zeros(n - Capped(n, Len(bytes)))

----------------------------------------------------------------------------
StringsInit ==
  /\ mem = [p \in {Empty} |-> <<Nul>>]
  /\ objs = [s \in Strings |-> [ptr |-> Empty, len |-> 0, res |-> 0]]
  /\ value = [s \in Strings |-> <<>>]

\* The memory and the fields when the string s is given a buffer of its own.
NewBuffer == Min(1 .. Cardinality(Strings) + 1 \ {objs[s].ptr : s \in Strings})
Used(f)   == {Empty} \cup {f[s].ptr : s \in Strings}
Points(s, buffer, len, res) ==
  LET ptr == IF buffer = <<Nul>> /\ res = 0 THEN Empty ELSE NewBuffer
      f   == [objs EXCEPT ![s] = [ptr |-> ptr, len |-> len, res |-> res]]
  IN /\ objs' = f
     /\ mem' = [p \in Used(f) |-> IF p = ptr THEN buffer ELSE mem[p]]

\* Mutant: strings of the same bytes share a buffer, as if _Freeze were called.
SetShared(s, data) ==
  IF \E t \in Strings : t # s /\ StringBytes(t) = data
  THEN LET t == CHOOSE t \in Strings : t # s /\ StringBytes(t) = data
           f == [objs EXCEPT ![s] = objs[t]]
       IN objs' = f /\ mem' = Restrict(mem, Used(f))
  ELSE Points(s, data \o <<Nul>>, Len(data), Len(data))

\* set_basic_string_bytes, and init_basic_string_empty for no bytes.
SetBytes(s, data) == Points(s, data \o <<Nul>>, Len(data), Len(data))

\* What the string holds after the call, as C++ defines it.
Holds(s, v) == Len(v) <= MaxLen /\ value' = [value EXCEPT ![s] = v]

\* The constructors with and without a C string, the destructor, _Tidy, and
\* assign of a literal.
AssignLiteral(s, lit) == SetBytes(s, CString(lit)) /\ Holds(s, lit)

\* assign(const char*) and assign(const char*, n) of what is in a string, perhaps
\* the string itself; a length may go over a NUL in it.
AssignPtr(s, t, o) ==
  LET v == SubSeq(value[t], o + 1, Len(value[t]))
  IN /\ SetBytes(s, CString(SubSeq(mem[objs[t].ptr], o + 1, Len(mem[objs[t].ptr]))))
     /\ Holds(s, CString(v))
AssignPtrLen(s, t, o, n) ==
  /\ SetBytes(s, SubSeq(mem[objs[t].ptr], o + 1, o + n))
  /\ Holds(s, SubSeq(value[t], o + 1, o + n))

\* assign(const string&, offset, count), and substr with its result in s.
AssignSubstr(s, t, o, n) ==
  /\ SetBytes(s, SubRange(StringBytes(t), o, n))
  /\ Holds(s, SubRange(value[t], o, n))
AppendSubstr(s, t, o, n) ==
  /\ SetBytes(s, StringBytes(s) \o SubRange(StringBytes(t), o, n))
  /\ Holds(s, value[s] \o SubRange(value[t], o, n))

Erase(s, o, n) ==
  /\ SetBytes(s, Replaced(StringBytes(s), o, n, <<>>))
  /\ Holds(s, SubRange(value[s], 0, o) \o
              (IF n = Npos THEN <<>> ELSE SubRange(value[s], o + n, Npos)))

\* replace(pos, n, repeat, c)
ReplaceRepeat(s, o, n, k, c) ==
  LET new == [i \in 1 .. k |-> c]
  IN /\ SetBytes(s, Replaced(StringBytes(s), o, n, new))
     /\ Holds(s, SubRange(value[s], 0, o) \o new \o SubRange(value[s], o + n, Npos))

\* replace(first, last, from, to) by pointers into s and into t.
ReplaceRange(s, first, last, t, from, to) ==
  LET base  == objs[s].len
      start == Capped(first, base)
      end   == Capped(last, base)
  IN /\ SetBytes(s, Replaced(StringBytes(s), start, end - start,
                         SubSeq(mem[objs[t].ptr], from + 1, to)))
     /\ Holds(s, SubRange(value[s], 0, first) \o SubSeq(value[t], from + 1, to)
                   \o SubRange(value[s], last, Npos))

\* resize and _Eos
Resize(s, n) == SetBytes(s, Resized(StringBytes(s), n)) /\ Holds(s, Resized(value[s], n))

\* ensure_basic_string_capacity: _Grow, and _Copy, which always keeps the bytes.
Grow(s, n, keep) ==
  LET data == IF keep THEN SubRange(StringBytes(s), 0, n) ELSE <<>>
  IN /\ Points(s, data \o Zeros(n + 1 - Len(data)), Len(data), n)
     /\ Holds(s, IF keep THEN SubRange(value[s], 0, n) ELSE <<>>)

Swap(s, t) ==
  /\ objs' = [objs EXCEPT ![s] = objs[t], ![t] = objs[s]]
  /\ value' = [value EXCEPT ![s] = value[t], ![t] = value[s]]
  /\ UNCHANGED mem

\* The guest writes through the pointer that c_str or end gave it.
Poke(s, i, c) ==
  /\ mem' = [mem EXCEPT ![objs[s].ptr][i] = c]
  /\ value' = [value EXCEPT ![s][i] = c]
  /\ UNCHANGED objs

StringsNext ==
  \/ \E s \in Strings :
       \/ \E lit \in Literals : AssignLiteral(s, lit)
       \/ \E o \in 0 .. MaxLen, n \in {1, 2, Npos} : Erase(s, o, n)
       \/ \E o \in 0 .. MaxLen, n, k \in 0 .. 2, c \in Chars : ReplaceRepeat(s, o, n, k, c)
       \/ \E n \in 0 .. MaxLen : Resize(s, n)
       \/ \E n \in 0 .. MaxLen, keep \in BOOLEAN : Grow(s, n, keep)
       \/ \E i \in 1 .. objs[s].len, c \in Chars \cup {Nul} : Poke(s, i, c)
  \/ \E s, t \in Strings :
       \/ \E o \in 0 .. objs[t].len :
            \/ AssignPtr(s, t, o)
            \/ \E n \in 0 .. objs[t].len - o : AssignPtrLen(s, t, o, n)
       \/ \E o \in 0 .. MaxLen, n \in {1, 2, Npos} : AssignSubstr(s, t, o, n)
       \/ \E o \in 0 .. MaxLen, n \in {1, 2, Npos} : AppendSubstr(s, t, o, n)
       \/ \E last \in 0 .. objs[s].len, to \in 0 .. objs[t].len :
            \E first \in 0 .. last, from \in 0 .. to :
              ReplaceRange(s, first, last, t, from, to)
       \/ s # t /\ Swap(s, t)

StringsSpec == StringsInit /\ [][StringsNext]_stringVars

----------------------------------------------------------------------------
\* A string holds what its own calls put there, whatever happens to the others and
\* to the bytes it was copied from, and its buffer has room for its capacity and a NUL
\* after its bytes, which c_str relies on (basic_string.rs, msvcp60/mod.rs:509).
StringsAreValues ==
  \A s \in Strings :
    /\ StringBytes(s) = value[s]
    /\ objs[s].len <= objs[s].res /\ objs[s].res < Len(mem[objs[s].ptr])
    /\ mem[objs[s].ptr][objs[s].len + 1] = Nul
=============================================================================
