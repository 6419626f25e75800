---------------------------- MODULE Runtime_proof ----------------------------
(***************************************************************************)
(* The parts of the runtime, for every number and size of what they keep   *)
(* and every sequence of calls: blocks of the heap never overlap, freed    *)
(* memory is never lost, and free neighbours are always joined; a string   *)
(* holds what its own calls put there; sounds are heard through, at their  *)
(* speed; a stream never answers an end that is not there; what is drawn   *)
(* stays in the clip and the GPU's picture with the emulator's; encoded    *)
(* pictures are decoded.                                                   *)
(***************************************************************************)
EXTENDS Heap, BasicString, Sound, Streams, Raster, RleBitmap,
        FiniteSetTheorems, SequenceTheorems, WellFoundedInduction, TLAPS

HeapInv == TypeOK /\ Disjoint /\ NothingLost /\ Coalesced

LEMMA AlignPositive == \A n \in Nat : Align(n) \in Nat \ {0}
BY DEF Align

\* What PushFree builds: the blocks that do not touch the new one, and one block
\* from lo to hi.
LEMMA PushFreeShape ==
  ASSUME NEW F, F \subseteq Block, NEW b \in Block
  PROVE  \E lo, hi :
           /\ \/ lo = b.addr /\ \A c \in F : End(c) # b.addr
              \/ \E c \in F : End(c) = b.addr /\ lo = c.addr
           /\ \/ hi = End(b) /\ \A c \in F : c.addr # End(b)
              \/ \E c \in F : c.addr = End(b) /\ hi = End(c)
           /\ PushFree(F, b) =
                {c \in F : End(c) # b.addr /\ c.addr # End(b)}
                  \cup {[addr |-> lo, size |-> hi - lo]}
<1> DEFINE before == {c \in F : End(c) = b.addr}
           after  == {c \in F : c.addr = End(b)}
           lo == IF before = {} THEN b.addr ELSE (CHOOSE c \in before : TRUE).addr
           hi == IF after = {} THEN End(b) ELSE End(CHOOSE c \in after : TRUE)
<1>1. \/ lo = b.addr /\ \A c \in F : End(c) # b.addr
      \/ \E c \in F : End(c) = b.addr /\ lo = c.addr
  <2>1. CASE before = {}  BY <2>1
  <2>2. CASE before # {}
    <3>1. (CHOOSE c \in before : TRUE) \in before  BY <2>2
    <3> QED BY <2>2, <3>1
  <2> QED BY <2>1, <2>2
<1>2. \/ hi = End(b) /\ \A c \in F : c.addr # End(b)
      \/ \E c \in F : c.addr = End(b) /\ hi = End(c)
  <2>1. CASE after = {}  BY <2>1
  <2>2. CASE after # {}
    <3>1. (CHOOSE c \in after : TRUE) \in after  BY <2>2
    <3> QED BY <2>2, <3>1
  <2> QED BY <2>1, <2>2
<1>3. PushFree(F, b) = {c \in F : End(c) # b.addr /\ c.addr # End(b)}
                         \cup {[addr |-> lo, size |-> hi - lo]}
  BY DEF PushFree
<1> HIDE DEF lo, hi
<1> QED BY <1>1, <1>2, <1>3

\* Freeing a block that overlaps nothing keeps all blocks apart, joins the free
\* neighbours, loses no byte and reaches beyond no old bound.
LEMMA PushFreeKeeps ==
  ASSUME NEW L, NEW F, L \subseteq Block, F \subseteq Block, NEW b \in Block,
         \A c, d \in L \cup F \cup {b} : c # d => Apart(c, d),
         b \notin L \cup F, L \cap F = {},
         \A c, d \in F : End(c) # d.addr
  PROVE  /\ PushFree(F, b) \subseteq Block
         /\ \A c, d \in L \cup PushFree(F, b) : c # d => Apart(c, d)
         /\ L \cap PushFree(F, b) = {}
         /\ \A c, d \in PushFree(F, b) : End(c) # d.addr
         /\ \A x \in Nat : \A c \in L \cup F \cup {b} : Within(c, x) =>
              \E d \in L \cup PushFree(F, b) : Within(d, x)
         /\ \A c \in PushFree(F, b) : \E d, e \in F \cup {b} :
              c.addr = d.addr /\ End(c) = End(e)
<1>1. PICK lo, hi :
        /\ \/ lo = b.addr /\ \A c \in F : End(c) # b.addr
           \/ \E c \in F : End(c) = b.addr /\ lo = c.addr
        /\ \/ hi = End(b) /\ \A c \in F : c.addr # End(b)
           \/ \E c \in F : c.addr = End(b) /\ hi = End(c)
        /\ PushFree(F, b) =
             {c \in F : End(c) # b.addr /\ c.addr # End(b)}
               \cup {[addr |-> lo, size |-> hi - lo]}
  BY PushFreeShape
<1> DEFINE kept == {c \in F : End(c) # b.addr /\ c.addr # End(b)}
           m == [addr |-> lo, size |-> hi - lo]
<1>2. lo \in Nat /\ hi \in Nat /\ lo <= b.addr /\ End(b) <= hi /\ b.addr < End(b)
  BY <1>1 DEF Block, End
<1>3. m \in Block /\ m.addr = lo /\ End(m) = hi
  BY <1>2 DEF Block, End
<1>4. ASSUME NEW d \in L \cup kept PROVE End(d) <= lo \/ hi <= d.addr
  <2>1. d \in Block /\ d # b /\ Apart(d, b) /\ d.addr < End(d)
    BY DEF Block, End
  <2>2. End(d) <= lo \/ b.addr <= d.addr
    <3>1. CASE lo = b.addr
      BY <2>1, <3>1, <1>2 DEF Apart, Block, End
    <3>2. ASSUME NEW c \in F, End(c) = b.addr, lo = c.addr
          PROVE  End(d) <= lo \/ b.addr <= d.addr
      <4>1. c # d  BY <3>2
      <4> QED BY <3>2, <4>1 DEF Apart
    <3> QED BY <1>1, <3>1, <3>2
  <2>3. hi <= d.addr \/ End(d) <= End(b)
    <3>1. CASE hi = End(b)
      BY <2>1, <3>1, <1>2 DEF Apart, Block, End
    <3>2. ASSUME NEW c \in F, c.addr = End(b), hi = End(c)
          PROVE  hi <= d.addr \/ End(d) <= End(b)
      <4>1. c # d  BY <3>2
      <4> QED BY <3>2, <4>1 DEF Apart
    <3> QED BY <1>1, <3>1, <3>2
  <2> QED BY <2>1, <2>2, <2>3, <1>2 DEF Apart, Block, End
<1>5. m \notin L \cup kept
  BY <1>2, <1>3, <1>4 DEF Block, End
<1>6. PushFree(F, b) \subseteq Block
  BY <1>1, <1>3
<1>7. ASSUME NEW c \in L \cup PushFree(F, b), NEW d \in L \cup PushFree(F, b), c # d
      PROVE  Apart(c, d)
  <2> HIDE DEF m
  <2>1. CASE c \in L \cup kept /\ d \in L \cup kept
    BY <1>7, <2>1
  <2>2. CASE c = m /\ d \in L \cup kept
    BY <2>2, <1>3, <1>4 DEF Apart
  <2>3. CASE c \in L \cup kept /\ d = m
    BY <2>3, <1>3, <1>4 DEF Apart
  <2> QED BY <1>1, <1>7, <2>1, <2>2, <2>3 DEF m
<1>8. L \cap PushFree(F, b) = {}
  BY <1>1, <1>5
<1>9. ASSUME NEW c \in PushFree(F, b), NEW d \in PushFree(F, b)
      PROVE  End(c) # d.addr
  <2> HIDE DEF m
  <2>1. CASE c \in kept /\ d \in kept
    BY <2>1
  <2>2. CASE c = m /\ d \in kept
    <3>1. CASE hi = End(b)
      BY <2>2, <3>1, <1>3
    <3>2. ASSUME NEW e \in F, e.addr = End(b), hi = End(e) PROVE hi # d.addr
      BY <2>2, <3>2
    <3> QED BY <1>1, <1>3, <2>2, <3>1, <3>2
  <2>3. CASE c \in kept /\ d = m
    <3>1. CASE lo = b.addr
      BY <2>3, <3>1, <1>3
    <3>2. ASSUME NEW e \in F, End(e) = b.addr, lo = e.addr PROVE End(c) # lo
      BY <2>3, <3>2
    <3> QED BY <1>1, <1>3, <2>3, <3>1, <3>2
  <2>4. CASE c = m /\ d = m
    BY <2>4, <1>2, <1>3 DEF Block, End
  <2> QED BY <1>1, <2>1, <2>2, <2>3, <2>4 DEF m
<1>10. ASSUME NEW x \in Nat, NEW c \in L \cup F \cup {b}, Within(c, x)
       PROVE  \E d \in L \cup PushFree(F, b) : Within(d, x)
  <2> HIDE DEF m
  <2>1. CASE c \in L \cup kept
    BY <1>1, <1>10, <2>1
  <2>2. CASE c \notin L \cup kept
    <3>1. Within(m, x)
      <4>1. lo <= c.addr /\ End(c) <= hi
        <5>1. CASE c = b  BY <1>2, <5>1
        <5>2. CASE c \in F /\ End(c) = b.addr
          <6>1. lo = c.addr
            <7>1. ASSUME NEW e \in F, End(e) = b.addr PROVE e = c
              BY <5>2, <7>1 DEF Apart, Block, End
            <7> QED BY <1>1, <5>2, <7>1
          <6> QED BY <1>2, <5>2, <6>1 DEF Block, End
        <5>3. CASE c \in F /\ c.addr = End(b)
          <6>1. hi = End(c)
            <7>1. ASSUME NEW e \in F, e.addr = End(b) PROVE e = c
              BY <5>3, <7>1 DEF Apart, Block, End
            <7> QED BY <1>1, <5>3, <7>1
          <6> QED BY <1>2, <5>3, <6>1 DEF Block, End
        <5> QED BY <2>2, <5>1, <5>2, <5>3
      <4> QED BY <1>2, <1>3, <1>10, <4>1 DEF Within, Block, End
    <3> QED BY <1>1, <3>1 DEF m
  <2> QED BY <2>1, <2>2
<1>11. ASSUME NEW c \in PushFree(F, b)
       PROVE  \E d, e \in F \cup {b} : c.addr = d.addr /\ End(c) = End(e)
  <2> HIDE DEF m
  <2>1. CASE c \in kept
    BY <2>1
  <2>2. CASE c = m
    <3>1. \E d \in F \cup {b} : lo = d.addr
      BY <1>1
    <3>2. \E e \in F \cup {b} : hi = End(e)
      BY <1>1
    <3> QED BY <1>3, <2>2, <3>1, <3>2
  <2> QED BY <1>1, <1>11, <2>1, <2>2 DEF m
<1> QED BY <1>6, <1>7, <1>8, <1>9, <1>10, <1>11

-----------------------------------------------------------------------------
(* One operation, on any sets of blocks.                                     *)

HeapOK(L, F, c) ==
  /\ L \subseteq Block /\ F \subseteq Block /\ c \in Base .. Limit
  /\ \A b, d \in L \cup F : b # d => Apart(b, d)
  /\ L \cap F = {}
  /\ \A b \in L \cup F : Base <= b.addr /\ End(b) <= c
  /\ \A x \in Base .. (c - 1) : \E b \in L \cup F : Within(b, x)
  /\ \A b, d \in F : End(b) # d.addr

LEMMA FreeOK ==
  ASSUME NEW L, NEW F, NEW c, HeapOK(L, F, c), NEW b \in L
  PROVE  HeapOK(L \ {b}, PushFree(F, b), c)
<1> DEFINE K == L \ {b}
<1>1. K \cup F \cup {b} = L \cup F /\ b \in Block /\ b \notin K \cup F
        /\ K \subseteq Block /\ F \subseteq Block /\ K \cap F = {}
  BY DEF HeapOK
<1>2. /\ PushFree(F, b) \subseteq Block
      /\ \A d, e \in K \cup PushFree(F, b) : d # e => Apart(d, e)
      /\ K \cap PushFree(F, b) = {}
      /\ \A d, e \in PushFree(F, b) : End(d) # e.addr
      /\ \A x \in Nat : \A d \in K \cup F \cup {b} : Within(d, x) =>
           \E e \in K \cup PushFree(F, b) : Within(e, x)
      /\ \A d \in PushFree(F, b) : \E e, f \in F \cup {b} :
           d.addr = e.addr /\ End(d) = End(f)
  <2> HIDE DEF K
  <2>1. \A d, e \in K \cup F \cup {b} : d # e => Apart(d, e)
    BY <1>1 DEF HeapOK
  <2>2. \A d, e \in F : End(d) # e.addr
    BY DEF HeapOK
  <2> QED BY <1>1, <2>1, <2>2, PushFreeKeeps
<1>3. \A d \in K \cup PushFree(F, b) : Base <= d.addr /\ End(d) <= c
  BY <1>1, <1>2 DEF HeapOK
<1>4. \A x \in Base .. (c - 1) : \E d \in K \cup PushFree(F, b) : Within(d, x)
  <2>1. ASSUME NEW x \in Base .. (c - 1)
        PROVE  \E d \in K \cup PushFree(F, b) : Within(d, x)
    <3>1. x \in Nat
      BY HeapAssumption DEF HeapOK
    <3>2. PICK d \in L \cup F : Within(d, x)
      BY DEF HeapOK
    <3> QED BY <1>1, <1>2, <3>1, <3>2
  <2> QED BY <2>1
<1> QED BY <1>1, <1>2, <1>3, <1>4 DEF HeapOK

\* Cutting a block in two: the front is handed out, the rest goes back.
LEMMA SplitOK ==
  ASSUME NEW L, NEW F, NEW c, HeapOK(L, F, c), NEW b \in F,
         NEW need \in Nat \ {0}, need < b.size
  PROVE  LET new == [addr |-> b.addr, size |-> need]
             rest == [addr |-> b.addr + need, size |-> b.size - need]
         IN  HeapOK(L \cup {new}, PushFree(F \ {b}, rest), c)
<1> DEFINE new == [addr |-> b.addr, size |-> need]
           rest == [addr |-> b.addr + need, size |-> b.size - need]
           G == F \ {b}
           M == L \cup {new}
<1>1. b \in Block
  BY DEF HeapOK
<1>2. new \in Block /\ rest \in Block /\ new.addr = b.addr /\ End(new) = rest.addr
        /\ End(rest) = End(b) /\ new.addr < End(new) /\ rest.addr < End(rest)
        /\ b.addr \in Nat /\ End(b) \in Nat
  BY <1>1 DEF Block, End
<1>3. new # rest /\ Apart(new, rest) /\ Apart(rest, new)
  BY <1>2 DEF Apart
<1>4. ASSUME NEW d \in L \cup G
      PROVE  /\ d \in Block /\ Apart(d, new) /\ Apart(new, d)
             /\ Apart(d, rest) /\ Apart(rest, d) /\ d # new /\ d # rest
  <2>1. d \in Block /\ Apart(d, b)
    BY DEF HeapOK
  <2> HIDE DEF new, rest
  <2> QED BY <1>2, <2>1 DEF Apart, Block, End
<1> HIDE DEF new, rest
<1>5. \A d, e \in M \cup G \cup {rest} : d # e => Apart(d, e)
  BY <1>3, <1>4 DEF HeapOK
<1>6. HeapOK(M \cup {rest}, G, c)
  <2>1. M \cup {rest} \subseteq Block /\ G \subseteq Block /\ c \in Base .. Limit
    BY <1>2 DEF HeapOK
  <2>2. (M \cup {rest}) \cap G = {}
    BY <1>4 DEF HeapOK
  <2>3. \A d \in M \cup {rest} \cup G : Base <= d.addr /\ End(d) <= c
    <3>1. Base <= b.addr /\ End(b) <= c
      BY DEF HeapOK
    <3>2. c \in Nat
      BY HeapAssumption DEF HeapOK
    <3>3. Base <= new.addr /\ End(new) <= c /\ Base <= rest.addr /\ End(rest) <= c
      BY <1>2, <3>1, <3>2, HeapAssumption DEF Block, End
    <3> QED BY <3>3 DEF HeapOK
  <2>4. \A x \in Base .. (c - 1) : \E d \in M \cup {rest} \cup G : Within(d, x)
    <3>1. ASSUME NEW x \in Base .. (c - 1)
          PROVE  \E d \in M \cup {rest} \cup G : Within(d, x)
      <4>1. PICK d \in L \cup F : Within(d, x)
        BY DEF HeapOK
      <4>2. CASE d = b
        <5>1. Within(new, x) \/ Within(rest, x)
          <6>1. x \in Int /\ rest.addr \in Int
            BY <1>2, HeapAssumption DEF HeapOK, Block
          <6> QED BY <1>2, <4>1, <4>2, <6>1 DEF Within
        <5> QED BY <5>1
      <4>3. CASE d # b  BY <4>1, <4>3
      <4> QED BY <4>2, <4>3
    <3> QED BY <3>1
  <2>5. \A d, e \in G : End(d) # e.addr
    BY DEF HeapOK
  <2>6. \A d, e \in (M \cup {rest}) \cup G : d # e => Apart(d, e)
    BY <1>5
  <2> QED BY <2>1, <2>2, <2>3, <2>4, <2>5, <2>6 DEF HeapOK
<1>7. HeapOK((M \cup {rest}) \ {rest}, PushFree(G, rest), c)
  BY <1>6, FreeOK
<1>8. (M \cup {rest}) \ {rest} = M
  BY <1>3, <1>4
<1> QED BY <1>7, <1>8 DEF new, rest

\* Taking a block of the right size.
LEMMA TakeOK ==
  ASSUME NEW L, NEW F, NEW c, HeapOK(L, F, c), NEW b \in F
  PROVE  HeapOK(L \cup {b}, F \ {b}, c)
<1>1. (L \cup {b}) \cup (F \ {b}) = L \cup F
  OBVIOUS
<1>2. (L \cup {b}) \cap (F \ {b}) = {}
  BY DEF HeapOK
<1> QED BY <1>1, <1>2 DEF HeapOK

\* Moving the cursor.
LEMMA BumpOK ==
  ASSUME NEW L, NEW F, NEW c, HeapOK(L, F, c), NEW need \in Nat \ {0},
         c + need <= Limit
  PROVE  HeapOK(L \cup {[addr |-> c, size |-> need]}, F, c + need)
<1> DEFINE new == [addr |-> c, size |-> need]
<1>1. c \in Nat /\ new \in Block /\ new.addr = c /\ End(new) = c + need
        /\ c + need \in Base .. Limit
  BY HeapAssumption DEF HeapOK, Block, End
<1> HIDE DEF new
<1>2. ASSUME NEW d \in L \cup F
      PROVE  d \in Block /\ d # new /\ Apart(d, new) /\ Apart(new, d)
               /\ Base <= d.addr /\ End(d) <= c + need
  <2>1. d \in Block /\ End(d) <= c /\ Base <= d.addr
    BY DEF HeapOK
  <2> QED BY <1>1, <2>1 DEF Apart, Block, End
<1>3. \A x \in Base .. (c + need - 1) : \E d \in L \cup {new} \cup F : Within(d, x)
  <2>1. ASSUME NEW x \in Base .. (c + need - 1)
        PROVE  \E d \in L \cup {new} \cup F : Within(d, x)
    <3>1. CASE x < c
      <4>1. x \in Base .. (c - 1)
        BY <1>1, <3>1, HeapAssumption
      <4> QED BY <4>1 DEF HeapOK
    <3>2. CASE x >= c
      BY <1>1, <3>2, HeapAssumption DEF Within
    <3> QED BY <1>1, <3>1, <3>2, HeapAssumption
  <2> QED BY <2>1
<1>4. \A d, e \in L \cup {new} \cup F : d # e => Apart(d, e)
  BY <1>2 DEF HeapOK
<1>5. (L \cup {new}) \cap F = {}
  BY <1>2 DEF HeapOK
<1>6. \A d \in L \cup {new} \cup F : Base <= d.addr /\ End(d) <= c + need
  BY <1>1, <1>2 DEF HeapOK
<1>7. HeapOK(L \cup {new}, F, c + need)
  BY <1>1, <1>2, <1>3, <1>4, <1>5, <1>6 DEF HeapOK
<1> QED BY <1>7 DEF new

-----------------------------------------------------------------------------
(* The specification.                                                        *)

LEMMA HeapInvIs == HeapInv <=> /\ HeapOK(LiveBlocks, freeList, cursor)
                               /\ Live \subseteq Nat
                               /\ allocations \in [Live -> Nat \ {0}]
<1>1. TypeOK => LiveBlocks \subseteq Block
  BY DEF TypeOK, LiveBlocks, Block
<1> QED BY <1>1 DEF HeapInv, TypeOK, Disjoint, NothingLost, Coalesced, HeapOK, Blocks

LEMMA HeapInvNextIs ==
  HeapInv' <=> /\ HeapOK(LiveBlocks, freeList, cursor)'
               /\ (Live \subseteq Nat)'
               /\ (allocations \in [Live -> Nat \ {0}])'
BY HeapInvIs, PTL

LEMMA LiveHasBlock ==
  ASSUME NEW a \in Live
  PROVE  \E d \in LiveBlocks : d.addr = a
<1>1. [addr |-> a, size |-> allocations[a]] \in LiveBlocks
  BY DEF LiveBlocks
<1> QED BY <1>1

\* The block an outcome hands out, and the heap it leaves.
LEMMA OutcomeOK ==
  ASSUME HeapInv, NEW n \in Sizes, NEW o \in Outcomes(n)
  PROVE  /\ HeapOK(LiveBlocks \cup {[addr |-> o.addr, size |-> o.size]},
                    o.free, o.cursor)
         /\ o.addr \in Nat \ Live /\ o.size \in Nat \ {0}
<1> DEFINE need == Align(n)
<1>1. need \in Nat \ {0}
  BY AlignPositive, HeapAssumption
<1>2. HeapOK(LiveBlocks, freeList, cursor)
  BY HeapInvIs
<1> HIDE DEF need
<1>3. CASE \E b \in BestFit(need) :
             o = [addr |-> b.addr, size |-> need, free |-> Rest(b, need),
                  cursor |-> cursor]
  <2>1. PICK b \in freeList :
          /\ b.size >= need
          /\ o = [addr |-> b.addr, size |-> need, free |-> Rest(b, need),
                  cursor |-> cursor]
    BY <1>3 DEF BestFit, Fits
  <2>2. b \in Block
    BY <1>2 DEF HeapOK
  <2>3. HeapOK(LiveBlocks \cup {[addr |-> o.addr, size |-> o.size]},
               o.free, o.cursor)
    <3>1. CASE b.size > need
      BY <1>1, <1>2, <2>1, <2>2, <3>1, SplitOK DEF Rest, Block
    <3>2. CASE b.size = need
      <4>1. [addr |-> o.addr, size |-> o.size] = b
        BY <2>1, <2>2, <3>2 DEF Block
      <4> QED BY <1>1, <1>2, <2>1, <3>2, <4>1, TakeOK DEF Rest
    <3> QED BY <1>1, <2>1, <2>2, <3>1, <3>2 DEF Block
  <2>4. o.addr \notin Live
    <3>1. SUFFICES ASSUME o.addr \in Live PROVE FALSE
      OBVIOUS
    <3>2. PICK d \in LiveBlocks : d.addr = b.addr
      BY <2>1, <3>1, LiveHasBlock
    <3>3. d \in Block /\ d # b /\ Apart(d, b)
      BY <1>2, <3>2 DEF HeapOK
    <3> QED BY <2>2, <3>2, <3>3 DEF Apart, Block, End
  <2> QED BY <1>1, <2>1, <2>2, <2>3, <2>4 DEF Block
<1>4. CASE /\ o = [addr |-> cursor, size |-> need, free |-> freeList,
                   cursor |-> cursor + need]
           /\ cursor + need <= Limit
  <2>1. HeapOK(LiveBlocks \cup {[addr |-> o.addr, size |-> o.size]},
               o.free, o.cursor)
    BY <1>1, <1>2, <1>4, BumpOK
  <2>2. o.addr \in Nat
    BY <1>2, <1>4, HeapAssumption DEF HeapOK
  <2>3. o.addr \notin Live
    <3>1. SUFFICES ASSUME o.addr \in Live PROVE FALSE
      OBVIOUS
    <3>2. PICK d \in LiveBlocks : d.addr = cursor
      BY <1>4, <3>1, LiveHasBlock
    <3>3. d \in Block /\ End(d) <= cursor
      BY <1>2 DEF HeapOK
    <3> QED BY <3>2, <3>3 DEF Block, End
  <2> QED BY <1>1, <1>4, <2>1, <2>2, <2>3
<1> QED BY <1>3, <1>4 DEF Outcomes, need

LEMMA HeapInitOK == Init => HeapInv
BY HeapAssumption
DEF Init, HeapInv, TypeOK, Disjoint, NothingLost, Coalesced, Blocks, LiveBlocks,
    Live, Block

LEMMA HeapNextOK ==
  ASSUME HeapInv, [Next]_vars
  PROVE  HeapInv'
<1>1. /\ HeapOK(LiveBlocks, freeList, cursor) /\ Live \subseteq Nat
      /\ allocations \in [Live -> Nat \ {0}]
  BY HeapInvIs
<1>2. CASE Malloc
  <2>1. PICK n \in Sizes : \E o \in Outcomes(n) : Allocate(o)
    BY <1>2 DEF Malloc
  <2>2. PICK o \in Outcomes(n) : Allocate(o)
    BY <2>1
  <2>3. /\ HeapOK(LiveBlocks \cup {[addr |-> o.addr, size |-> o.size]},
                  o.free, o.cursor)
        /\ o.addr \in Nat \ Live /\ o.size \in Nat \ {0}
    BY OutcomeOK
  <2>4. /\ Live' = Live \cup {o.addr}
        /\ \A a \in Live' : allocations'[a] = IF a = o.addr THEN o.size
                                                          ELSE allocations[a]
        /\ allocations' \in [Live' -> Nat \ {0}]
    BY <1>1, <2>2, <2>3 DEF Allocate, Live
  <2>5. LiveBlocks' = LiveBlocks \cup {[addr |-> o.addr, size |-> o.size]}
    BY <2>3, <2>4 DEF LiveBlocks
  <2>6. HeapOK(LiveBlocks, freeList, cursor)'
    BY <2>2, <2>3, <2>5 DEF Allocate, HeapOK
  <2> QED BY <1>1, <2>3, <2>4, <2>6, HeapInvNextIs
<1>3. CASE Free
  <2>1. PICK p \in Live : Release(p)
    BY <1>3 DEF Free
  <2> DEFINE b == [addr |-> p, size |-> allocations[p]]
  <2>2. b \in LiveBlocks
    BY DEF LiveBlocks
  <2>3. HeapOK(LiveBlocks \ {b}, PushFree(freeList, b), cursor)
    BY <1>1, <2>2, FreeOK
  <2>4. /\ Live' = Live \ {p} /\ \A a \in Live' : allocations'[a] = allocations[a]
        /\ allocations' \in [Live' -> Nat \ {0}]
    BY <1>1, <2>1 DEF Release, Live
  <2>5. LiveBlocks' = LiveBlocks \ {b}
    BY <2>4 DEF LiveBlocks
  <2>6. HeapOK(LiveBlocks, freeList, cursor)'
    BY <2>1, <2>3, <2>5 DEF Release, HeapOK
  <2> QED BY <1>1, <2>4, <2>6, HeapInvNextIs
<1>4. CASE Realloc
  <2> DEFINE Shifted(p, o) ==
               /\ allocations' = [a \in (Live \ {p}) \cup {o.addr} |->
                                    IF a = o.addr THEN o.size ELSE allocations[a]]
               /\ freeList' = PushFree(o.free, [addr |-> p, size |-> allocations[p]])
               /\ cursor' = o.cursor
  <2>1. PICK p \in Live, n \in Sizes :
          \E o \in Outcomes(n) : Shifted(p, o)
    BY <1>4 DEF Realloc
  <2>2. PICK o \in Outcomes(n) : Shifted(p, o)
    BY <2>1
  <2> DEFINE b == [addr |-> p, size |-> allocations[p]]
             new == [addr |-> o.addr, size |-> o.size]
  <2>3. /\ HeapOK(LiveBlocks \cup {new}, o.free, o.cursor)
        /\ o.addr \in Nat \ Live /\ o.size \in Nat \ {0}
    BY OutcomeOK
  <2>4. b \in LiveBlocks \cup {new} /\ b # new
    BY <2>3 DEF LiveBlocks
  <2>5. HeapOK((LiveBlocks \cup {new}) \ {b}, PushFree(o.free, b), o.cursor)
    BY <2>3, <2>4, FreeOK
  <2>6. /\ Live' = (Live \ {p}) \cup {o.addr}
        /\ \A a \in Live' : allocations'[a] = IF a = o.addr THEN o.size
                                                          ELSE allocations[a]
        /\ allocations' \in [Live' -> Nat \ {0}]
    BY <1>1, <2>2, <2>3 DEF Live
  <2>7. LiveBlocks' = (LiveBlocks \cup {new}) \ {b}
    BY <2>3, <2>4, <2>6 DEF LiveBlocks
  <2>8. HeapOK(LiveBlocks, freeList, cursor)'
    BY <2>2, <2>5, <2>7 DEF HeapOK
  <2> QED BY <1>1, <2>3, <2>6, <2>8, HeapInvNextIs
<1>5. CASE UNCHANGED vars
  <2>1. LiveBlocks' = LiveBlocks /\ Live' = Live
    BY <1>5 DEF vars, LiveBlocks, Live
  <2> QED BY <1>1, <1>5, <2>1, HeapInvNextIs DEF vars, HeapOK
<1> QED BY <1>2, <1>3, <1>4, <1>5 DEF Next

THEOREM HeapInductive == Spec => []HeapInv
BY HeapInitOK, HeapNextOK, PTL DEF Spec

\* No allocation ever overlaps a block that is live or free.
THEOREM BlocksDisjoint == Spec => []Disjoint
<1>1. HeapInv => Disjoint  BY DEF HeapInv
<1> QED BY <1>1, HeapInductive, PTL

\* Every byte below the cursor is live or free: freeing and splitting lose none.
THEOREM MemoryConserved == Spec => []NothingLost
<1>1. HeapInv => NothingLost  BY DEF HeapInv
<1> QED BY <1>1, HeapInductive, PTL

\* Free neighbours are always joined.
THEOREM FreeBlocksCoalesced == Spec => []Coalesced
<1>1. HeapInv => Coalesced  BY DEF HeapInv
<1> QED BY <1>1, HeapInductive, PTL

\* However blocks are allocated, freed, split and joined, the memory below the
\* cursor stays divided without overlap, loss or needless cuts.
THEOREM HeapStaysIntact == Spec => []HeapIntact
BY BlocksDisjoint, MemoryConserved, FreeBlocksCoalesced, PTL DEF HeapIntact

\* A live block keeps its address and size until its owner frees or reallocates
\* it: the allocator never moves, resizes or takes back another owner's block.
THEOREM LiveBlocksAreStable == Spec => LiveBlocksStay
<1> DEFINE Stay == /\ \A p \in Live \cap DOMAIN allocations' : allocations'[p] = allocations[p]
                   /\ \A p, q \in Live \ DOMAIN allocations' : p = q
<1>1. ASSUME HeapInv, Next PROVE Stay
  <2>1. CASE Malloc
    <3>1. PICK n \in Sizes : \E o \in Outcomes(n) : Allocate(o)
      BY <2>1 DEF Malloc
    <3>2. PICK o \in Outcomes(n) : Allocate(o)
      BY <3>1
    <3>3. o.addr \notin Live
      BY <1>1, OutcomeOK
    <3>4. DOMAIN allocations' = Live \cup {o.addr}
      BY <3>2 DEF Allocate
    <3> QED BY <3>2, <3>3, <3>4 DEF Allocate
  <2>2. CASE Free
    <3>1. PICK p \in Live : Release(p)
      BY <2>2 DEF Free
    <3>2. DOMAIN allocations' = Live \ {p}
      BY <3>1 DEF Release
    <3> QED BY <3>1, <3>2 DEF Release
  <2>3. CASE Realloc
    <3> DEFINE Shifted(p, o) ==
          allocations' = [a \in (Live \ {p}) \cup {o.addr} |->
                            IF a = o.addr THEN o.size ELSE allocations[a]]
    <3>1. PICK p \in Live, n \in Sizes : \E o \in Outcomes(n) : Shifted(p, o)
      BY <2>3 DEF Realloc
    <3>2. PICK o \in Outcomes(n) : Shifted(p, o)
      BY <3>1
    <3>3. o.addr \notin Live
      BY <1>1, OutcomeOK
    <3>4. DOMAIN allocations' = (Live \ {p}) \cup {o.addr}
      BY <3>2
    <3> QED BY <3>2, <3>3, <3>4
  <2> QED BY <1>1, <2>1, <2>2, <2>3 DEF Next
<1>2. HeapInv /\ [Next]_vars => [Stay]_vars
  BY <1>1
<1> QED BY <1>2, HeapInductive, PTL DEF Spec, LiveBlocksStay

----------------------------------------------------------------------------
(* The loop of push_free_block. *)

\* A set of numbers has a least element: induction over the passes of the loop.
LEMMA Least ==
  ASSUME NEW T \in SUBSET Nat, T # {}
  PROVE  \E m \in T : \A k \in T : m <= k
<1> DEFINE R == OpToRel(<, Nat)
<1>1. IsWellFoundedOn(R, Nat)
  BY NatLessThanWellFounded
<1>2. \A x, y \in Nat : x < y => <<x, y>> \in R
  BY DEF OpToRel
<1> HIDE DEF R
<1>3. PICK m \in T : \A y \in T : ~(<<y, m>> \in R)
  BY <1>1, WFMin
<1>4. \A y \in T : ~(y < m)
  BY <1>2, <1>3, Zenon
<1>5. T \subseteq Nat
  OBVIOUS
<1> QED BY <1>3, <1>4, <1>5

\* Blocks that do not overlap.
AllApart(S) == S \subseteq Block /\ \A c, d \in S : c # d => Apart(c, d)

\* A block is what its two ends say.
LEMMA BlocksAre ==
  /\ \A b \in Block : /\ b.addr \in Nat /\ b.size \in Nat /\ b.addr < End(b) /\ End(b) \in Nat
                      /\ b = [addr |-> b.addr, size |-> End(b) - b.addr]
  /\ \A lo, hi \in Nat : lo < hi =>
       LET b == [addr |-> lo, size |-> hi - lo]
       IN  b \in Block /\ b.addr = lo /\ End(b) = hi
BY DEF Block, End

\* Sorted by address, every block has its place.
LEMMA ByAddressIs ==
  ASSUME NEW S, AllApart(S), IsFiniteSet(S)
  PROVE  LET n == Cardinality(S)
             s == ByAddress(S)
         IN  /\ n \in Nat /\ s \in [1 .. n -> S] /\ Len(s) = n
             /\ \A b \in S : \E i \in 1 .. n : s[i] = b
             /\ \A i, j \in 1 .. n : i < j => End(s[i]) <= s[j].addr
<1> DEFINE n         == Cardinality(S)
           s         == ByAddress(S)
           before(b) == {c \in S : c.addr < b.addr}
           rank      == [b \in S |-> Cardinality(before(b))]
<1>1. n \in Nat /\ \A b \in S : b.addr \in Nat /\ b.addr < End(b) /\ End(b) \in Nat
  BY FS_CardinalityType, BlocksAre DEF AllApart
<1>2. ASSUME NEW b \in S
      PROVE  IsFiniteSet(before(b)) /\ rank[b] \in Nat /\ before(b) \subseteq S
  BY FS_Subset, FS_CardinalityType
<1>3. ASSUME NEW a \in S, NEW b \in S, a.addr < b.addr PROVE rank[a] < rank[b]
  <2>1. before(a) \subseteq before(b) /\ a \in before(b) /\ a \notin before(a)
    BY <1>1, <1>3
  <2>2. Cardinality(before(a)) <= Cardinality(before(b))
        /\ Cardinality(before(b)) # Cardinality(before(a))
    BY <1>2, <2>1, FS_Subset
  <2> QED BY <1>2, <2>2
<1>4. \A a, b \in S : a # b => a.addr < b.addr \/ b.addr < a.addr
  <2> SUFFICES ASSUME NEW a \in S, NEW b \in S, a # b PROVE a.addr < b.addr \/ b.addr < a.addr
    OBVIOUS
  <2>1. Apart(a, b)
    BY DEF AllApart
  <2> QED BY <1>1, <2>1 DEF Apart
<1>5. /\ \A b \in S : rank[b] \in Nat
      /\ \A a, b \in S : a.addr < b.addr <=> rank[a] < rank[b]
  <2>1. \A b \in S : rank[b] \in Nat
    BY <1>2
  <2>2. \A a, b \in S : a.addr < b.addr => rank[a] < rank[b]
    BY <1>3
  <2> HIDE DEF rank
  <2> QED BY <1>4, <2>1, <2>2
<1>6. ASSUME NEW b \in S PROVE rank[b] \in 0 .. n - 1
  <2>1. b \notin before(b)
    BY <1>1
  <2>2. rank[b] <= n /\ rank[b] # n
    BY <1>1, <1>2, <2>1, FS_Subset
  <2> QED BY <1>1, <1>2, <2>2
<1>7. \A i \in 0 .. n - 1 : \E b \in S : rank[b] = i
  <2>1. rank \in Injection(S, 0 .. n - 1)
    <3>1. \A a, b \in S : rank[a] = rank[b] => a = b
      <4> HIDE DEF rank
      <4> QED BY <1>4, <1>5
    <3>2. rank \in [S -> 0 .. n - 1]
      BY <1>6
    <3> HIDE DEF rank
    <3> QED BY <3>1, <3>2 DEF Injection, IsInjective
  <2>2. IsFiniteSet(0 .. n - 1) /\ Cardinality(0 .. n - 1) = n
    BY <1>1, FS_Interval
  <2>3. rank \in Surjection(S, 0 .. n - 1)
    <3> HIDE DEF rank
    <3> QED BY <1>1, <2>1, <2>2, FS_Injection
  <2> QED BY <2>3 DEF Surjection
<1>8. ASSUME NEW i \in 1 .. n PROVE s[i] \in S /\ rank[s[i]] = i - 1
  <2>1. s[i] = CHOOSE b \in S : Cardinality(before(b)) = i - 1
    BY DEF ByAddress
  <2>2. \E b \in S : Cardinality(before(b)) = i - 1
    BY <1>1, <1>7
  <2> QED BY <2>1, <2>2
<1>9. s \in [1 .. n -> S] /\ Len(s) = n
  <2> DEFINE v(i) == CHOOSE b \in S : Cardinality(before(b)) = i - 1
  <2>1. s = [i \in 1 .. n |-> v(i)]
    BY DEF ByAddress
  <2> HIDE DEF s, n, v
  <2>2. s \in [1 .. n -> S]
    BY <1>8, <2>1
  <2> QED BY <1>1, <2>2
<1> HIDE DEF rank, s
<1>10. ASSUME NEW b \in S PROVE \E i \in 1 .. n : s[i] = b
  <2>1. rank[b] + 1 \in 1 .. n /\ rank[b] \in Nat
    BY <1>1, <1>5, <1>6
  <2>2. s[rank[b] + 1] \in S /\ rank[s[rank[b] + 1]] = rank[b]
    BY <1>8, <2>1
  <2>3. s[rank[b] + 1] = b
    BY <1>4, <1>5, <2>2
  <2> QED BY <2>1, <2>3
<1>11. ASSUME NEW i \in 1 .. n, NEW j \in 1 .. n, i < j PROVE End(s[i]) <= s[j].addr
  <2> DEFINE a == s[i]
             b == s[j]
  <2>1. a \in S /\ b \in S /\ rank[a] = i - 1 /\ rank[b] = j - 1
    BY <1>8
  <2> HIDE DEF a, b
  <2>2. a.addr < b.addr /\ a # b
    BY <1>1, <1>5, <1>11, <2>1
  <2>3. Apart(a, b)
    BY <2>1, <2>2 DEF AllApart
  <2>4. End(a) <= b.addr
    BY <1>1, <2>1, <2>2, <2>3 DEF Apart
  <2> QED BY <2>4 DEF a, b
<1> QED BY <1>1, <1>9, <1>10, <1>11 DEF s

\* The merged blocks after n blocks of s.
Pass(s, n, f) == f = [i \in 0 .. n |-> IF i = 0 THEN <<>> ELSE MergeStep(f[i - 1], s[i])]

\* There is such a function, and the model's loop is one.
LEMMA PassExists ==
  ASSUME NEW s, NEW n \in Nat
  PROVE  \E f : Pass(s, n, f)
<1> DEFINE T == {m \in Nat : ~\E f : Pass(s, m, f)}
<1> SUFFICES ASSUME T # {} PROVE FALSE
  OBVIOUS
<1>1. T \in SUBSET Nat
  OBVIOUS
<1>2. PICK m \in T : \A k \in T : m <= k
  <2> HIDE DEF T
  <2> QED BY <1>1, Least
<1>3. Pass(s, 0, [i \in 0 .. 0 |-> <<>>])
  BY DEF Pass
<1>4. m \in Nat /\ m # 0 /\ m - 1 \in Nat /\ m - 1 \notin T /\ ~\E f : Pass(s, m, f)
  <2>1. m \in Nat /\ ~\E f : Pass(s, m, f)
    OBVIOUS
  <2>2. m # 0
    BY <1>3, <2>1
  <2> HIDE DEF T
  <2> QED BY <1>2, <2>1, <2>2
<1>5. PICK f : Pass(s, m - 1, f)
  BY <1>4
<1> DEFINE g == [i \in 0 .. m |-> IF i = m THEN MergeStep(f[m - 1], s[m]) ELSE f[i]]
<1>6. ASSUME NEW i \in 0 .. m
      PROVE  g[i] = IF i = 0 THEN <<>> ELSE MergeStep(g[i - 1], s[i])
  <2>1. CASE i = m
    <3>1. i # 0 /\ i - 1 = m - 1 /\ i - 1 # m /\ i - 1 \in 0 .. m
      BY <1>4, <2>1
    <3> QED BY <2>1, <3>1
  <2>2. CASE i # m
    <3>1. i \in 0 .. m - 1 /\ (i # 0 => i - 1 \in 0 .. m /\ i - 1 # m)
      BY <1>4, <2>2
    <3>2. f[i] = IF i = 0 THEN <<>> ELSE MergeStep(f[i - 1], s[i])
      BY <1>5, <3>1 DEF Pass
    <3> QED BY <2>2, <3>1, <3>2
  <2> QED BY <2>1, <2>2
<1>7. g = [i \in 0 .. m |-> g[i]]
  OBVIOUS
<1> HIDE DEF g, T
<1>8. Pass(s, m, g)
  BY <1>6, <1>7 DEF Pass
<1> QED BY <1>4, <1>8

LEMMA MergeLoopIs ==
  ASSUME NEW F, NEW b, NEW s, s = ByAddress(F \cup {b}), Len(s) \in Nat
  PROVE  \E f : Pass(s, Len(s), f) /\ MergeLoop(F, b) = ToSet(f[Len(s)])
<1> DEFINE f == CHOOSE f : Pass(s, Len(s), f)
<1>1. Pass(s, Len(s), f)
  BY PassExists
<1>2. MergeLoop(F, b) = ToSet(f[Len(s)])
  BY DEF MergeLoop, Pass
<1> QED BY <1>1, <1>2

\* The one block of PushFree(F, b) that is not in F: from lo to hi.
Joins(F, b, lo, hi) ==
  /\ lo \in Nat /\ hi \in Nat /\ lo <= b.addr /\ End(b) <= hi
  /\ \/ lo = b.addr /\ \A d \in F : End(d) # b.addr
     \/ \E d \in F : End(d) = b.addr /\ lo = d.addr
  /\ \/ hi = End(b) /\ \A d \in F : d.addr # End(b)
     \/ \E d \in F : d.addr = End(b) /\ hi = End(d)

\* For blocks that do not overlap, lo and hi exist and are the only ones.
LEMMA PushFreeIs ==
  ASSUME NEW F, NEW b, AllApart(F \cup {b}), b \notin F
  PROVE  /\ \E lo, hi : Joins(F, b, lo, hi)
         /\ \A lo, hi : Joins(F, b, lo, hi) =>
              PushFree(F, b) = {d \in F : End(d) # b.addr /\ d.addr # End(b)}
                                 \cup {[addr |-> lo, size |-> hi - lo]}
<1>1. F \subseteq Block /\ b \in Block
  BY DEF AllApart
<1>2. PICK lo, hi :
        /\ \/ lo = b.addr /\ \A c \in F : End(c) # b.addr
           \/ \E c \in F : End(c) = b.addr /\ lo = c.addr
        /\ \/ hi = End(b) /\ \A c \in F : c.addr # End(b)
           \/ \E c \in F : c.addr = End(b) /\ hi = End(c)
        /\ PushFree(F, b) =
             {c \in F : End(c) # b.addr /\ c.addr # End(b)}
               \cup {[addr |-> lo, size |-> hi - lo]}
  BY <1>1, PushFreeShape
<1>3. lo \in Nat /\ hi \in Nat /\ lo <= b.addr /\ End(b) <= hi
  <2>1. lo \in Nat /\ lo <= b.addr
    BY <1>1, <1>2, BlocksAre
  <2>2. hi \in Nat /\ End(b) <= hi
    BY <1>1, <1>2, BlocksAre
  <2> QED BY <2>1, <2>2
<1>4. Joins(F, b, lo, hi)
  BY <1>2, <1>3 DEF Joins
<1>5. \A d, e \in F : End(d) = b.addr /\ End(e) = b.addr => d.addr = e.addr
  <2> SUFFICES ASSUME NEW d \in F, NEW e \in F, End(d) = End(e) PROVE d = e
    OBVIOUS
  <2>1. d # e => End(d) <= e.addr \/ End(e) <= d.addr
    BY DEF AllApart, Apart
  <2> QED BY <1>1, <2>1, BlocksAre
<1>6. \A d, e \in F : d.addr = End(b) /\ e.addr = End(b) => End(d) = End(e)
  <2> SUFFICES ASSUME NEW d \in F, NEW e \in F, d.addr = e.addr PROVE d = e
    OBVIOUS
  <2>1. d # e => End(d) <= e.addr \/ End(e) <= d.addr
    BY DEF AllApart, Apart
  <2> QED BY <1>1, <2>1, BlocksAre
<1>7. ASSUME NEW l, NEW h, Joins(F, b, l, h) PROVE l = lo /\ h = hi
  <2>1. l = lo
    BY <1>2, <1>5, <1>7, Zenon DEF Joins
  <2>2. h = hi
    BY <1>2, <1>6, <1>7, Zenon DEF Joins
  <2> QED BY <2>1, <2>2
<1> QED BY <1>2, <1>4, <1>7

LEMMA PushFreeJoined ==
  ASSUME NEW F, NEW b, NEW lo, NEW hi, AllApart(F \cup {b}), b \notin F,
         Joins(F, b, lo, hi)
  PROVE  PushFree(F, b) = {d \in F : End(d) # b.addr /\ d.addr # End(b)}
                            \cup {[addr |-> lo, size |-> hi - lo]}
BY PushFreeIs

\* The cases the loop meets.  The new block touches nothing:
LEMMA PushAlone ==
  ASSUME NEW F, NEW b, AllApart(F \cup {b}), b \notin F,
         \A d \in F : End(d) # b.addr /\ d.addr # End(b)
  PROVE  PushFree(F, b) = F \cup {b}
<1>1. b \in Block
  BY DEF AllApart
<1>2. Joins(F, b, b.addr, End(b))
  BY <1>1, BlocksAre DEF Joins
<1>3. b = [addr |-> b.addr, size |-> End(b) - b.addr]
  BY <1>1, BlocksAre
<1>4. {d \in F : End(d) # b.addr /\ d.addr # End(b)} = F
  OBVIOUS
<1> QED BY <1>2, <1>3, <1>4, PushFreeIs

\* The new block touches the last block before it.
LEMMA PushAfter ==
  ASSUME NEW F, NEW b, AllApart(F \cup {b}), b \notin F,
         \A d \in F : d.addr # End(b),
         NEW p \in F, End(p) = b.addr
  PROVE  PushFree(F, b) = (F \ {p}) \cup {[addr |-> p.addr, size |-> End(b) - p.addr]}
<1>1. b \in Block /\ F \subseteq Block
  BY DEF AllApart
<1>2. Joins(F, b, p.addr, End(b))
  BY <1>1, BlocksAre DEF Joins
<1>3. \A d \in F : End(d) = End(p) => d = p
  <2> SUFFICES ASSUME NEW d \in F, End(d) = End(p), d # p PROVE FALSE
    OBVIOUS
  <2>1. End(d) <= p.addr \/ End(p) <= d.addr
    BY DEF AllApart, Apart
  <2> QED BY <1>1, <2>1, BlocksAre
<1>4. {d \in F : End(d) # b.addr /\ d.addr # End(b)} = F \ {p}
  BY <1>3
<1> QED BY <1>2, <1>4, PushFreeIs

\* A block beyond all others that does not touch the new one changes nothing.
LEMMA PushBelow ==
  ASSUME NEW F, NEW b, NEW c, AllApart(F \cup {b, c}), b \notin F, c \notin F, c # b,
         End(b) < c.addr
  PROVE  PushFree(F \cup {c}, b) = PushFree(F, b) \cup {c}
<1>1. AllApart(F \cup {b}) /\ AllApart((F \cup {c}) \cup {b}) /\ b \notin F \cup {c}
        /\ b \in Block /\ c \in Block
  BY DEF AllApart
<1>2. PICK lo, hi : Joins(F, b, lo, hi)
  BY <1>1, PushFreeIs
<1>3. c.addr # End(b) /\ End(c) # b.addr
  BY <1>1, BlocksAre
<1>4. Joins(F \cup {c}, b, lo, hi)
  BY <1>2, <1>3 DEF Joins
<1>5. PushFree(F, b) = {d \in F : End(d) # b.addr /\ d.addr # End(b)}
                         \cup {[addr |-> lo, size |-> hi - lo]}
  BY <1>1, <1>2, PushFreeIs
<1>6. PushFree(F \cup {c}, b) = {d \in F \cup {c} : End(d) # b.addr /\ d.addr # End(b)}
                                  \cup {[addr |-> lo, size |-> hi - lo]}
  BY <1>1, <1>4, PushFreeJoined
<1>7. {d \in F \cup {c} : End(d) # b.addr /\ d.addr # End(b)}
        = {d \in F : End(d) # b.addr /\ d.addr # End(b)} \cup {c}
  BY <1>3
<1> QED BY <1>5, <1>6, <1>7

\* A block beyond all others that touches the new one extends the joined block.
LEMMA PushTouched ==
  ASSUME NEW F, NEW b, NEW c, AllApart(F \cup {b, c}), b \notin F, c \notin F, c # b,
         End(b) = c.addr, \A d \in F : d.addr # End(b),
         NEW p \in PushFree(F, b), End(p) = End(b)
  PROVE  PushFree(F \cup {c}, b) = (PushFree(F, b) \ {p})
                                     \cup {[addr |-> p.addr, size |-> End(c) - p.addr]}
<1>1. AllApart(F \cup {b}) /\ AllApart((F \cup {c}) \cup {b}) /\ b \notin F \cup {c}
        /\ b \in Block /\ c \in Block /\ F \subseteq Block
  BY DEF AllApart
<1>2. PICK lo, hi : Joins(F, b, lo, hi)
  BY <1>1, PushFreeIs
<1>3. hi = End(b) /\ End(c) # b.addr /\ End(b) <= End(c) /\ End(c) \in Nat
        /\ b.addr < End(b) /\ b.addr \in Nat /\ End(b) \in Nat
  <2>1. hi = End(b)
    BY <1>2 DEF Joins
  <2> QED BY <1>1, <2>1, BlocksAre
<1>4. Joins(F \cup {c}, b, lo, End(c))
  <2>1. lo \in Nat /\ lo <= b.addr
    BY <1>2 DEF Joins
  <2>2. \/ lo = b.addr /\ \A d \in F \cup {c} : End(d) # b.addr
        \/ \E d \in F \cup {c} : End(d) = b.addr /\ lo = d.addr
    BY <1>2, <1>3 DEF Joins
  <2>3. \E d \in F \cup {c} : d.addr = End(b) /\ End(c) = End(d)
    OBVIOUS
  <2> QED BY <1>3, <2>1, <2>2, <2>3 DEF Joins
<1> DEFINE kept == {d \in F : End(d) # b.addr /\ d.addr # End(b)}
           l    == [addr |-> lo, size |-> End(b) - lo]
<1>5. PushFree(F, b) = kept \cup {l}
  BY <1>1, <1>2, <1>3, PushFreeIs
<1>6. PushFree(F \cup {c}, b) = kept \cup {[addr |-> lo, size |-> End(c) - lo]}
  <2>1. {d \in F \cup {c} : End(d) # b.addr /\ d.addr # End(b)} = kept
    OBVIOUS
  <2> DEFINE G  == F \cup {c}
             up == End(c)
  <2>2. AllApart(G \cup {b}) /\ b \notin G /\ Joins(G, b, lo, up)
    BY <1>1, <1>4
  <2> HIDE DEF G, up, kept
  <2>3. PushFree(G, b) = {d \in G : End(d) # b.addr /\ d.addr # End(b)}
                           \cup {[addr |-> lo, size |-> up - lo]}
    BY <2>2, PushFreeJoined
  <2> QED BY <2>1, <2>3 DEF G, up
<1>7. \A d \in F : End(d) # End(b)
  <2> SUFFICES ASSUME NEW d \in F, End(d) = End(b) PROVE FALSE
    OBVIOUS
  <2>1. End(d) <= b.addr \/ End(b) <= d.addr
    BY DEF AllApart, Apart
  <2> QED BY <1>1, <2>1, BlocksAre
<1>8. p = l /\ l \notin kept /\ l.addr = lo
  <2>1. lo \in Nat /\ lo < End(b)
    BY <1>2, <1>3 DEF Joins
  <2>2. End(l) = End(b) /\ l.addr = lo
    BY <1>3, <2>1, BlocksAre
  <2> HIDE DEF l
  <2> QED BY <1>5, <1>7, <2>2
<1> HIDE DEF l, kept
<1> QED BY <1>5, <1>6, <1>8

\* The merged blocks, by address.
Rising(m) ==
  /\ m \in Seq(Block)
  /\ \A i, j \in 1 .. Len(m) : i < j => m[i].addr < m[j].addr

\* One step of the loop on blocks that do not overlap.
LEMMA MergeStepFirst ==
  ASSUME NEW c \in Block
  PROVE  /\ Rising(MergeStep(<<>>, c)) /\ MergeStep(<<>>, c) # <<>>
         /\ Last(MergeStep(<<>>, c)) = c /\ ToSet(MergeStep(<<>>, c)) = {c}
<1>1. MergeStep(<<>>, c) = <<c>>
  BY DEF MergeStep
<1> QED BY <1>1 DEF Rising, Last, ToSet

LEMMA MergeStepJoins ==
  ASSUME NEW m, Rising(m), m # <<>>, NEW c \in Block, End(Last(m)) = c.addr
  PROVE  LET p == Last(m)
             j == [addr |-> p.addr, size |-> End(c) - p.addr]
         IN  /\ Rising(MergeStep(m, c)) /\ MergeStep(m, c) # <<>>
             /\ Last(MergeStep(m, c)) = j /\ End(j) = End(c) /\ p \in ToSet(m)
             /\ ToSet(MergeStep(m, c)) = (ToSet(m) \ {p}) \cup {j}
<1> DEFINE n == Len(m)
           p == Last(m)
           j == [addr |-> p.addr, size |-> End(c) - p.addr]
           r == MergeStep(m, c)
<1>1. m \in Seq(Block) /\ n \in Nat \ {0} /\ p = m[n] /\ p \in Block
        /\ \A i \in 1 .. n : m[i] \in Block
  BY DEF Rising, Last
<1>2. p.addr \in Nat /\ End(p) \in Nat /\ p.addr < End(p) /\ End(p) = c.addr
        /\ c.addr < End(c) /\ End(c) \in Nat
  BY <1>1, BlocksAre
<1>3. j \in Block /\ j.addr = p.addr /\ End(j) = End(c)
  <2> DEFINE lo == p.addr
             hi == End(c)
  <2>1. lo \in Nat /\ hi \in Nat /\ lo < hi
    BY <1>2
  <2> HIDE DEF lo, hi
  <2>2. LET q == [addr |-> lo, size |-> hi - lo]
        IN  q \in Block /\ q.addr = lo /\ End(q) = hi
    BY <2>1, BlocksAre
  <2> QED BY <2>2 DEF lo, hi
<1>4. r = Append(Front(m), [p EXCEPT !.size = End(c) - p.addr])
  BY <1>2 DEF MergeStep
<1>5. [p EXCEPT !.size = End(c) - p.addr] = j
  BY <1>1 DEF Block
<1> HIDE DEF j, p, n
<1>6. r \in Seq(Block) /\ Len(r) = n /\ r[n] = j /\ \A i \in 1 .. n : i # n => r[i] = m[i]
  <2>1. Front(m) \in Seq(Block) /\ Len(Front(m)) = n - 1
          /\ \A i \in 1 .. n - 1 : Front(m)[i] = m[i]
    <3>1. Front(m) = SubSeq(m, 1, n - 1)
      BY DEF Front, n
    <3>2. n = Len(m)
      BY DEF n
    <3>3. \A i \in 1 .. n - 1 : m[i] \in Block
      BY <1>1
    <3> QED BY <1>1, <3>1, <3>2, <3>3
  <2>2. r = Append(Front(m), j)
    BY <1>4, <1>5
  <2> HIDE DEF r
  <2> QED BY <1>1, <1>3, <2>1, <2>2
<1> HIDE DEF r
<1>7. \A i, k \in 1 .. n : i < k => m[i].addr < m[k].addr
  BY DEF Rising, n
<1>8. Rising(r)
  BY <1>1, <1>3, <1>6, <1>7 DEF Rising
<1>9. r # <<>> /\ Last(r) = j
  BY <1>1, <1>6 DEF Last
<1>10. p \in ToSet(m)
  BY <1>1 DEF ToSet, n
<1>11. ToSet(r) = (ToSet(m) \ {p}) \cup {j}
  <2>1. ToSet(r) = {r[i] : i \in 1 .. n} /\ ToSet(m) = {m[i] : i \in 1 .. n}
    BY <1>1, <1>6 DEF ToSet, n
  <2>2. \A i \in 1 .. n : i # n => m[i] # p
    <3>1. \A i \in 1 .. n : i # n => m[i].addr < p.addr
      BY <1>1, <1>7
    <3> QED BY <1>2, <3>1
  <2> QED BY <1>1, <1>6, <2>1, <2>2
<1> QED BY <1>3, <1>8, <1>9, <1>10, <1>11 DEF r, j, p

LEMMA MergeStepAppends ==
  ASSUME NEW m, Rising(m), m # <<>>, NEW c \in Block, End(Last(m)) < c.addr
  PROVE  /\ Rising(MergeStep(m, c)) /\ MergeStep(m, c) # <<>>
         /\ Last(MergeStep(m, c)) = c /\ ToSet(MergeStep(m, c)) = ToSet(m) \cup {c}
<1> DEFINE n == Len(m)
           r == MergeStep(m, c)
<1>1. m \in Seq(Block) /\ n \in Nat \ {0} /\ Last(m) = m[n]
        /\ \A i \in 1 .. n : m[i] \in Block
  BY DEF Rising, Last
<1>2. m[n].addr < End(m[n]) /\ End(m[n]) < c.addr /\ c.addr \in Nat /\ m[n].addr \in Nat
        /\ End(m[n]) \in Nat
  BY <1>1, BlocksAre
<1>3. r = Append(m, c)
  BY <1>1, <1>2 DEF MergeStep
<1>4. r \in Seq(Block) /\ Len(r) = n + 1 /\ r[n + 1] = c /\ \A i \in 1 .. n : r[i] = m[i]
  BY <1>1, <1>3
<1> HIDE DEF r
<1>5. \A i, k \in 1 .. n : i < k => m[i].addr < m[k].addr
  BY DEF Rising
<1> HIDE DEF n
<1>6. \A i \in 1 .. n : m[i].addr < c.addr
  <2> SUFFICES ASSUME NEW i \in 1 .. n PROVE m[i].addr < c.addr
    OBVIOUS
  <2>1. i < n => m[i].addr < m[n].addr
    BY <1>1, <1>5
  <2>2. m[i].addr \in Nat
    <3>1. m[i] \in Block
      BY <1>1
    <3> QED BY <3>1, BlocksAre
  <2>3. i < n \/ i = n
    BY <1>1
  <2> QED BY <1>2, <2>1, <2>2, <2>3
<1>7. Rising(r)
  <2>1. \A i, k \in 1 .. n + 1 : i < k => r[i].addr < r[k].addr
    <3> SUFFICES ASSUME NEW i \in 1 .. n + 1, NEW k \in 1 .. n + 1, i < k
                 PROVE  r[i].addr < r[k].addr
      OBVIOUS
    <3>1. i \in 1 .. n /\ (k = n + 1 \/ k \in 1 .. n)
      BY <1>1
    <3> QED BY <1>4, <1>5, <1>6, <3>1
  <2> QED BY <1>4, <2>1 DEF Rising
<1>8. r # <<>> /\ Last(r) = c
  BY <1>1, <1>4 DEF Last
<1>9. ToSet(r) = ToSet(m) \cup {c}
  <2>1. ToSet(r) = {r[i] : i \in 1 .. n + 1} /\ ToSet(m) = {m[i] : i \in 1 .. n}
    BY <1>1, <1>4 DEF ToSet, n
  <2>2. 1 .. n + 1 = (1 .. n) \cup {n + 1}
    BY <1>1
  <2> QED BY <1>4, <2>1, <2>2
<1> QED BY <1>7, <1>8, <1>9 DEF r

\* What the loop has made of the blocks G it has passed.
Passed(G, b) == IF b \in G THEN PushFree(G \ {b}, b) ELSE G

\* The loop has made m of G, where z is the last block passed and c the next one.
Midway(F, b, G, z, c, m) ==
  /\ AllApart(F \cup {b}) /\ b \notin F /\ \A d, e \in F : End(d) # e.addr
  /\ G \subseteq F \cup {b} /\ z \in G /\ \A d \in G : d # z => End(d) <= z.addr
  /\ c \in F \cup {b} /\ End(z) <= c.addr
  /\ Rising(m) /\ m # <<>> /\ End(Last(m)) = End(z) /\ ToSet(m) = Passed(G, b)

LEMMA PassStep ==
  ASSUME NEW F, NEW b, NEW G, NEW z, NEW c, NEW m, Midway(F, b, G, z, c, m)
  PROVE  /\ Rising(MergeStep(m, c)) /\ MergeStep(m, c) # <<>>
         /\ End(Last(MergeStep(m, c))) = End(c)
         /\ ToSet(MergeStep(m, c)) = Passed(G \cup {c}, b)
<1> USE DEF Midway
<1>1. /\ \A d \in F \cup {b} : /\ d \in Block /\ d.addr \in Nat /\ End(d) \in Nat
                               /\ d.addr < End(d)
      /\ z \in F \cup {b}
  BY BlocksAre DEF AllApart
<1>2. \A d \in G : d # z => End(d) < End(z)
  <2> SUFFICES ASSUME NEW d \in G, d # z PROVE End(d) < End(z)
    OBVIOUS
  <2>1. d \in F \cup {b} /\ End(d) <= z.addr
    OBVIOUS
  <2> QED BY <1>1, <2>1
<1>3. \A d \in G : End(d) <= c.addr /\ d.addr < c.addr
  <2> SUFFICES ASSUME NEW d \in G PROVE End(d) <= c.addr /\ d.addr < c.addr
    OBVIOUS
  <2>1. d \in F \cup {b} /\ (d = z \/ End(d) < End(z))
    BY <1>2
  <2> QED BY <1>1, <2>1
<1>4. c \notin G
  BY <1>1, <1>3
<1>5. CASE End(z) = c.addr
  <2> DEFINE p == Last(m)
             j == [addr |-> p.addr, size |-> End(c) - p.addr]
  <2>1. /\ Rising(MergeStep(m, c)) /\ MergeStep(m, c) # <<>>
        /\ Last(MergeStep(m, c)) = j /\ End(j) = End(c) /\ p \in ToSet(m)
        /\ ToSet(MergeStep(m, c)) = (ToSet(m) \ {p}) \cup {j}
    BY <1>1, <1>5, MergeStepJoins
  <2> HIDE DEF p
  <2>2. End(p) = End(z) /\ p \in Passed(G, b)
    BY <2>1 DEF p
  <2>3. Passed(G \cup {c}, b) = (Passed(G, b) \ {p}) \cup {j}
    <3>1. CASE c = b
      <4>1. Passed(G, b) = G /\ Passed(G \cup {c}, b) = PushFree(G, b)
        <5>1. (G \cup {c}) \ {b} = G
          BY <1>4, <3>1
        <5> QED BY <1>4, <3>1, <5>1 DEF Passed
      <4>2. p = z
        BY <1>1, <1>2, <2>2, <4>1
      <4>3. AllApart(G \cup {b}) /\ b \notin G
        BY <1>4, <3>1 DEF AllApart
      <4>4. \A d \in G : d.addr # End(b)
        BY <1>1, <1>3, <3>1
      <4>5. PushFree(G, b) = (G \ {z}) \cup {[addr |-> z.addr, size |-> End(b) - z.addr]}
        BY <1>5, <3>1, <4>3, <4>4, PushAfter
      <4> QED BY <3>1, <4>1, <4>2, <4>5
    <3>2. CASE c # b /\ z = b
      <4> DEFINE H == G \ {b}
      <4>1. Passed(G, b) = PushFree(H, b) /\ Passed(G \cup {c}, b) = PushFree(H \cup {c}, b)
        <5>1. (G \cup {c}) \ {b} = H \cup {c}
          BY <3>2
        <5> QED BY <3>2, <5>1 DEF Passed
      <4>2. AllApart(H \cup {b, c}) /\ b \notin H /\ c \notin H
        BY <1>4, <3>2 DEF AllApart
      <4>3. \A d \in H : d.addr # End(b)
        BY <1>3, <1>1, <1>5, <3>2
      <4> HIDE DEF H
      <4>4. PushFree(H \cup {c}, b) = (PushFree(H, b) \ {p})
                                        \cup {[addr |-> p.addr, size |-> End(c) - p.addr]}
        BY <1>5, <2>2, <3>2, <4>1, <4>2, <4>3, PushTouched
      <4> QED BY <4>1, <4>4
    <3>3. CASE c # b /\ z # b
      <4>1. c \in F /\ z \in F
        BY <1>1, <3>3
      <4> QED BY <1>5, <4>1
    <3> QED BY <3>1, <3>2, <3>3
  <2> QED BY <2>1, <2>3
<1>6. CASE End(z) # c.addr
  <2>1. End(z) < c.addr
    BY <1>1, <1>6
  <2>2. /\ Rising(MergeStep(m, c)) /\ MergeStep(m, c) # <<>>
        /\ Last(MergeStep(m, c)) = c
        /\ ToSet(MergeStep(m, c)) = Passed(G, b) \cup {c}
    BY <1>1, <2>1, MergeStepAppends
  <2>3. \A d \in G : End(d) < c.addr
    BY <1>1, <1>2, <2>1
  <2>4. Passed(G \cup {c}, b) = Passed(G, b) \cup {c}
    <3>1. CASE c = b
      <4>1. Passed(G, b) = G /\ Passed(G \cup {c}, b) = PushFree(G, b)
        <5>1. (G \cup {c}) \ {b} = G
          BY <1>4, <3>1
        <5> QED BY <1>4, <3>1, <5>1 DEF Passed
      <4>2. AllApart(G \cup {b}) /\ b \notin G
        BY <1>4, <3>1 DEF AllApart
      <4>3. \A d \in G : End(d) # b.addr /\ d.addr # End(b)
        BY <1>1, <1>3, <2>3, <3>1
      <4>4. PushFree(G, b) = G \cup {b}
        BY <4>2, <4>3, PushAlone
      <4> QED BY <3>1, <4>1, <4>4
    <3>2. CASE c # b /\ b \in G
      <4> DEFINE H == G \ {b}
      <4>1. Passed(G, b) = PushFree(H, b) /\ Passed(G \cup {c}, b) = PushFree(H \cup {c}, b)
        <5>1. (G \cup {c}) \ {b} = H \cup {c}
          BY <3>2
        <5> QED BY <3>2, <5>1 DEF Passed
      <4>2. AllApart(H \cup {b, c}) /\ b \notin H /\ c \notin H
        BY <1>4, <3>2 DEF AllApart
      <4>3. End(b) < c.addr
        BY <2>3, <3>2
      <4> HIDE DEF H
      <4>4. PushFree(H \cup {c}, b) = PushFree(H, b) \cup {c}
        BY <3>2, <4>2, <4>3, PushBelow
      <4> QED BY <4>1, <4>4
    <3>3. CASE c # b /\ b \notin G
      BY <3>3 DEF Passed
    <3> QED BY <3>1, <3>2, <3>3
  <2> QED BY <2>2, <2>4
<1> QED BY <1>5, <1>6

\* The loop computes what PushFree says.
LEMMA MergeLoopOK ==
  ASSUME NEW F, NEW b, AllApart(F \cup {b}), b \notin F, IsFiniteSet(F),
         \A d, e \in F : End(d) # e.addr
  PROVE  MergeLoop(F, b) = PushFree(F, b)
<1> DEFINE S    == F \cup {b}
           s    == ByAddress(S)
           n    == Cardinality(S)
           G(k) == {s[i] : i \in 1 .. k}
<1>1. /\ n \in Nat /\ s \in [1 .. n -> S] /\ Len(s) = n
      /\ \A d \in S : \E i \in 1 .. n : s[i] = d
      /\ \A i, j \in 1 .. n : i < j => End(s[i]) <= s[j].addr
  <2>1. IsFiniteSet(S)
    BY FS_AddElement
  <2> HIDE DEF S
  <2>2. AllApart(S)
    BY DEF S
  <2> QED BY <2>1, <2>2, ByAddressIs
<1>2. PICK f : Pass(s, n, f) /\ MergeLoop(F, b) = ToSet(f[n])
  BY <1>1, MergeLoopIs
<1> HIDE DEF n, s
<1>3. f[0] = <<>> /\ \A i \in 1 .. n : f[i] = MergeStep(f[i - 1], s[i])
  <2>1. \A i \in 0 .. n : f[i] = IF i = 0 THEN <<>> ELSE MergeStep(f[i - 1], s[i])
    BY <1>2 DEF Pass
  <2>2. 0 \in 0 .. n /\ \A i \in 1 .. n : i \in 0 .. n /\ i # 0
    BY <1>1
  <2> QED BY <2>1, <2>2
<1> DEFINE J(k) == /\ Rising(f[k]) /\ f[k] # <<>> /\ End(Last(f[k])) = End(s[k])
                   /\ ToSet(f[k]) = Passed(G(k), b)
<1>4. 1 \in 1 .. n => J(1)
  <2> SUFFICES ASSUME 1 \in 1 .. n PROVE J(1)
    OBVIOUS
  <2>1. f[1] = MergeStep(<<>>, s[1])
    BY <1>3
  <2>2. s[1] \in Block /\ (s[1] = b \/ s[1] \in F)
    BY <1>1 DEF AllApart
  <2>3. Rising(f[1]) /\ f[1] # <<>> /\ Last(f[1]) = s[1] /\ ToSet(f[1]) = {s[1]}
    BY <2>1, <2>2, MergeStepFirst
  <2>4. G(1) = {s[1]}
    OBVIOUS
  <2>5. Passed({s[1]}, b) = {s[1]}
    <3>1. CASE s[1] = b
      <4>1. AllApart({} \cup {b})
        BY DEF AllApart
      <4>2. PushFree({}, b) = {} \cup {b}
        BY <4>1, PushAlone
      <4>3. {b} \ {b} = {}
        OBVIOUS
      <4> QED BY <3>1, <4>2, <4>3 DEF Passed
    <3>2. CASE s[1] # b
      BY <3>2 DEF Passed
    <3> QED BY <3>1, <3>2
  <2> QED BY <2>3, <2>4, <2>5
<1>5. ASSUME NEW k \in 1 .. n, k + 1 \in 1 .. n, J(k) PROVE J(k + 1)
  <2> DEFINE z == s[k]
             c == s[k + 1]
  <2>1. G(k) \subseteq S /\ z \in G(k) /\ c \in S
    BY <1>1, <1>5
  <2>2. \A d \in G(k) : d # z => End(d) <= z.addr
    <3> SUFFICES ASSUME NEW i \in 1 .. k, s[i] # s[k] PROVE End(s[i]) <= s[k].addr
      OBVIOUS
    <3>1. i \in 1 .. n /\ i < k
      BY <1>1
    <3> QED BY <1>1, <3>1
  <2>3. End(z) <= c.addr
    BY <1>1, <1>5
  <2>4. G(k + 1) = G(k) \cup {c}
    <3>1. 1 .. k + 1 = (1 .. k) \cup {k + 1}
      BY <1>1
    <3> QED BY <3>1
  <2>5. f[k + 1] = MergeStep(f[k], c)
    BY <1>3, <1>5
  <2> HIDE DEF z, c, G
  <2>6. Rising(f[k]) /\ f[k] # <<>> /\ End(Last(f[k])) = End(z)
          /\ ToSet(f[k]) = Passed(G(k), b)
    BY <1>5 DEF z
  <2>7. /\ Rising(MergeStep(f[k], c)) /\ MergeStep(f[k], c) # <<>>
        /\ End(Last(MergeStep(f[k], c))) = End(c)
        /\ ToSet(MergeStep(f[k], c)) = Passed(G(k) \cup {c}, b)
    <3> DEFINE g == G(k)
               m == f[k]
    <3>1. Midway(F, b, g, z, c, m)
      BY <2>1, <2>2, <2>3, <2>6 DEF Midway
    <3> HIDE DEF g, m
    <3>2. /\ Rising(MergeStep(m, c)) /\ MergeStep(m, c) # <<>>
          /\ End(Last(MergeStep(m, c))) = End(c)
          /\ ToSet(MergeStep(m, c)) = Passed(g \cup {c}, b)
      BY <3>1, PassStep
    <3> QED BY <3>2 DEF g, m
  <2> QED BY <2>4, <2>5, <2>7 DEF c
<1> HIDE DEF J
<1>6. \A k \in 1 .. n : J(k)
  <2> DEFINE T == {k \in 1 .. n : ~J(k)}
  <2> SUFFICES ASSUME T # {} PROVE FALSE
    OBVIOUS
  <2>1. T \in SUBSET Nat
    BY <1>1
  <2>2. PICK k \in T : \A i \in T : k <= i
    <3> HIDE DEF T
    <3> QED BY <2>1, Least
  <2>3. k \in 1 .. n /\ ~J(k) /\ k # 1
    BY <1>4
  <2>4. k - 1 \in 1 .. n /\ (k - 1) + 1 = k /\ k - 1 \notin T
    <3> HIDE DEF T
    <3> QED BY <1>1, <2>2, <2>3
  <2>5. J(k - 1)
    BY <2>4
  <2>6. J((k - 1) + 1)
    <3> HIDE DEF T
    <3> QED BY <1>5, <2>3, <2>4, <2>5
  <2> QED BY <2>3, <2>4, <2>6
<1>7. n \in 1 .. n /\ G(n) = S
  <2>1. PICK i \in 1 .. n : s[i] = b
    BY <1>1
  <2> QED BY <1>1, <2>1
<1>8. ToSet(f[n]) = Passed(S, b)
  BY <1>6, <1>7 DEF J
<1>9. S \ {b} = F
  OBVIOUS
<1> QED BY <1>2, <1>8, <1>9 DEF Passed

\* The free list is finite, so it can be sorted.
LEMMA PushFreeFinite ==
  ASSUME NEW F, NEW b, IsFiniteSet(F)
  PROVE  IsFiniteSet(PushFree(F, b))
<1>1. ASSUME NEW X, NEW x, X \subseteq F PROVE IsFiniteSet(X \cup {x})
  BY <1>1, FS_Subset, FS_AddElement
<1>2. ASSUME NEW X PROVE F \ X \subseteq F
  OBVIOUS
<1> QED BY <1>1, <1>2 DEF PushFree

FreeFinite == IsFiniteSet(freeList)

\* Every operation adds at most one block to the free list.
LEMMA FreeListFinite == Spec => []FreeFinite
<1>1. Init => FreeFinite
  BY FS_EmptySet DEF Init, FreeFinite
<1>2. ASSUME FreeFinite, [Next]_vars PROVE FreeFinite'
  <2> USE DEF FreeFinite
  <2>1. ASSUME NEW n, NEW o \in Outcomes(n) PROVE IsFiniteSet(o.free)
    <3>1. \A b, need : IsFiniteSet(Rest(b, need))
      <4> SUFFICES ASSUME NEW d, NEW need PROVE IsFiniteSet(Rest(d, need))
        OBVIOUS
      <4>1. IsFiniteSet(freeList \ {d})
        BY <1>2, FS_Subset
      <4> HIDE DEF FreeFinite
      <4> QED BY <4>1, PushFreeFinite DEF Rest
    <3>2. o.free = freeList \/ \E b, need : o.free = Rest(b, need)
      BY DEF Outcomes
    <3> QED BY <1>2, <3>1, <3>2
  <2>2. CASE Malloc
    BY <2>1, <2>2 DEF Malloc, Allocate
  <2>3. CASE Free
    BY <1>2, <2>3, PushFreeFinite DEF Free, Release
  <2>4. CASE Realloc
    BY <2>1, <2>4, PushFreeFinite DEF Realloc
  <2>5. CASE UNCHANGED vars
    BY <1>2, <2>5 DEF vars
  <2> QED BY <1>2, <2>2, <2>3, <2>4, <2>5 DEF Next
<1> QED BY <1>1, <1>2, PTL DEF Spec

\* Whatever block is freed, the pass over the sorted list joins exactly the blocks
\* that touch it.
THEOREM MergeLoopIsRight == Spec => []MergeLoopMatches
<1>1. HeapInv /\ FreeFinite => MergeLoopMatches
  <2> SUFFICES ASSUME HeapInv, FreeFinite, NEW p \in Live
               PROVE  LET b == [addr |-> p, size |-> allocations[p]]
                      IN  MergeLoop(freeList, b) = PushFree(freeList, b)
    BY DEF MergeLoopMatches
  <2> DEFINE b == [addr |-> p, size |-> allocations[p]]
  <2>1. b \in LiveBlocks
    BY DEF LiveBlocks
  <2> HIDE DEF b
  <2>2. AllApart(freeList \cup {b}) /\ b \notin freeList
          /\ \A d, e \in freeList : End(d) # e.addr
    BY <2>1, HeapInvIs DEF HeapOK, AllApart
  <2>3. MergeLoop(freeList, b) = PushFree(freeList, b)
    BY <2>2, MergeLoopOK DEF FreeFinite
  <2> QED BY <2>3 DEF b
<1> QED BY <1>1, HeapInductive, FreeListFinite, PTL

----------------------------------------------------------------------------
(* The strings. *)

Byte == 0 .. 255

StringTypeOK ==
  /\ objs \in [Strings -> [ptr : Nat, len : Nat, res : Nat]]
  /\ value \in [Strings -> Seq(Byte)]
  /\ DOMAIN mem = Used(objs)
  /\ \A p \in Used(objs) : mem[p] \in Seq(Byte)
  /\ mem[Empty] = <<Nul>>

\* Only the empty string is shared.
OwnBuffers ==
  /\ \A s, t \in Strings : s # t /\ objs[s].ptr = objs[t].ptr => objs[s].ptr = Empty
  /\ \A s \in Strings : objs[s].ptr = Empty => objs[s].len = 0

StringInv == StringTypeOK /\ OwnBuffers /\ StringsAreValues

LEMMA NewBufferIsNew ==
  ASSUME StringTypeOK
  PROVE  NewBuffer \in Nat \ {0} /\ \A s \in Strings : objs[s].ptr # NewBuffer
<1> DEFINE N == Cardinality(Strings)
           Ptrs == {objs[s].ptr : s \in Strings}
           Spare == 1 .. N + 1 \ Ptrs
<1>1. IsFiniteSet(Strings) /\ N \in Nat
  BY StringAssumption, FS_CardinalityType
<1>2. Spare # {}
  <2> SUFFICES ASSUME Spare = {} PROVE FALSE
    OBVIOUS
  <2> DEFINE f == [i \in 1 .. N + 1 |-> CHOOSE s \in Strings : objs[s].ptr = i]
  <2>1. \A i \in 1 .. N + 1 : \E s \in Strings : objs[s].ptr = i
    OBVIOUS
  <2>2. \A i \in 1 .. N + 1 : f[i] \in Strings /\ objs[f[i]].ptr = i
    BY <2>1
  <2>3. f \in [1 .. N + 1 -> Strings]
    BY <2>2
  <2>4. IsFiniteSet(1 .. N + 1) /\ Cardinality(1 .. N + 1) = N + 1
    BY <1>1, FS_Interval
  <2> HIDE DEF f
  <2>5. N < Cardinality(1 .. N + 1)
    BY <1>1, <2>4
  <2>6. \E x, y \in 1 .. N + 1 : x # y /\ f[x] = f[y]
    BY <1>1, <2>3, <2>4, <2>5, FS_PigeonHole
  <2> QED BY <2>2, <2>6
<1>3. \E x \in Spare : \A y \in Spare : x <= y
  <2>1. Spare \in SUBSET Nat
    BY <1>1
  <2> QED BY <1>2, <2>1, Least
<1>4. NewBuffer \in Spare
  BY <1>3 DEF NewBuffer, Min
<1> QED BY <1>1, <1>4

\* What a call leaves that gives a string a buffer.
LEMMA PointsIs ==
  ASSUME StringTypeOK, OwnBuffers, NEW s \in Strings, NEW buffer \in Seq(Byte),
         NEW len \in Nat, NEW res \in Nat, Points(s, buffer, len, res),
         buffer = <<Nul>> => len = 0
  PROVE  /\ objs' \in [Strings -> [ptr : Nat, len : Nat, res : Nat]]
         /\ DOMAIN mem' = Used(objs')
         /\ \A p \in Used(objs') : mem'[p] \in Seq(Byte)
         /\ mem'[Empty] = <<Nul>>
         /\ OwnBuffers'
         /\ mem'[objs'[s].ptr] = buffer /\ objs'[s].len = len /\ objs'[s].res = res
         /\ \A t \in Strings \ {s} :
              objs'[t] = objs[t] /\ mem'[objs'[t].ptr] = mem[objs[t].ptr]
<1> DEFINE ptr == IF buffer = <<Nul>> /\ res = 0 THEN Empty ELSE NewBuffer
           f == [objs EXCEPT ![s] = [ptr |-> ptr, len |-> len, res |-> res]]
           g == [p \in Used(f) |-> IF p = ptr THEN buffer ELSE mem[p]]
<1>1. objs' = f /\ mem' = g
  BY DEF Points
<1>2. objs \in [Strings -> [ptr : Nat, len : Nat, res : Nat]]
  BY DEF StringTypeOK
<1>3. ptr \in Nat
  BY NewBufferIsNew DEF Empty
<1>4. /\ f \in [Strings -> [ptr : Nat, len : Nat, res : Nat]]
      /\ f[s] = [ptr |-> ptr, len |-> len, res |-> res]
      /\ \A t \in Strings \ {s} : f[t] = objs[t]
  BY <1>2, <1>3
<1>5. ptr # Empty => \A t \in Strings : objs[t].ptr # ptr
  BY NewBufferIsNew DEF Empty
<1>6. ptr = Empty => buffer = <<Nul>> /\ len = 0
  BY NewBufferIsNew DEF Empty
<1>7. DOMAIN mem = {Empty} \cup {objs[t].ptr : t \in Strings}
  BY DEF StringTypeOK, Used
<1>8. \A p \in Used(f) : g[p] = IF p = ptr THEN buffer ELSE mem[p]
  OBVIOUS
<1>9. mem[Empty] = <<Nul>>
  BY DEF StringTypeOK
<1> HIDE DEF ptr
<1>11. Used(f) = {Empty} \cup {f[t].ptr : t \in Strings} /\ DOMAIN g = Used(f)
  BY DEF Used
<1>13. \A t \in Strings : f[t].ptr \in Used(f)
  BY <1>11
<1> HIDE DEF g
<1>14. f[s].ptr = ptr /\ f[s].len = len /\ f[s].res = res
  BY <1>4
<1>15. \A p \in Used(objs) : mem[p] \in Seq(Byte)
  BY DEF StringTypeOK
<1>10. g[f[s].ptr] = buffer /\ \A t \in Strings \ {s} : g[f[t].ptr] = mem[objs[t].ptr]
  BY <1>4, <1>5, <1>6, <1>8, <1>9, <1>13, <1>14
<1>16. \A p \in Used(f) : g[p] \in Seq(Byte)
  <2> SUFFICES ASSUME NEW p \in Used(f) PROVE g[p] \in Seq(Byte)
    OBVIOUS
  <2>1. CASE p = Empty
    BY <2>1, <1>6, <1>8, <1>9, <1>15 DEF Used
  <2>2. ASSUME NEW t \in Strings, p = f[t].ptr PROVE g[p] \in Seq(Byte)
    <3>1. CASE t = s
      BY <3>1, <2>2, <1>10, <1>14
    <3>2. CASE t # s
      BY <3>2, <2>2, <1>4, <1>10, <1>15 DEF Used
    <3> QED BY <3>1, <3>2
  <2> QED BY <2>1, <2>2, <1>11
<1>17. \A t \in Strings \ {s} : f[t] = objs[t] /\ g[f[t].ptr] = mem[objs[t].ptr]
  BY <1>4, <1>10
<1>18. /\ \A t, u \in Strings : t # u /\ f[t].ptr = f[u].ptr => f[t].ptr = Empty
       /\ \A t \in Strings : f[t].ptr = Empty => f[t].len = 0
  <2>1. /\ \A t, u \in Strings : t # u /\ objs[t].ptr = objs[u].ptr => objs[t].ptr = Empty
        /\ \A t \in Strings : objs[t].ptr = Empty => objs[t].len = 0
    BY DEF OwnBuffers
  <2> HIDE DEF f
  <2> QED BY <2>1, <1>4, <1>5, <1>6, <1>14
<1>19. OwnBuffers'
  BY <1>1, <1>18 DEF OwnBuffers
<1>20. g[Empty] = <<Nul>> /\ Empty \in Used(f)
  BY <1>6, <1>8, <1>9, <1>11
<1> HIDE DEF f
<1> QED BY <1>1, <1>4, <1>10, <1>11, <1>13, <1>14, <1>16, <1>17, <1>19, <1>20

LEMMA Cut ==
  ASSUME NEW q \in Seq(Byte), NEW m \in Nat, NEW n \in Nat, 1 <= m, n <= Len(q)
  PROVE  /\ SubSeq(q, m, n) \in Seq(Byte)
         /\ Len(SubSeq(q, m, n)) = IF m <= n THEN n - m + 1 ELSE 0
         /\ \A i \in 1 .. n - m + 1 : SubSeq(q, m, n)[i] = q[m + i - 1]
<1>1. \A i \in m .. n : q[i] \in Byte
  <2>1. Len(q) \in Nat
    BY LenProperties
  <2>2. \A i \in 1 .. Len(q) : q[i] \in Byte
    BY ElementOfSeq
  <2> QED BY <2>1, <2>2
<1>2. m \in Int /\ n \in Int
  OBVIOUS
<1> QED BY <1>1, <1>2, SubSeqProperties

\* A string given the bytes its calls say, and room after them.
LEMMA BufferKeeps ==
  ASSUME StringInv, NEW s \in Strings, NEW v \in Seq(Byte), NEW rest \in Seq(Byte),
         NEW res \in Nat, Points(s, v \o rest, Len(v), res), Holds(s, v),
         Len(v) <= res, Len(v \o rest) = res + 1, rest[1] = Nul
  PROVE  StringInv'
<1> DEFINE b == v \o rest
<1>1. StringTypeOK /\ OwnBuffers /\ StringsAreValues
  BY DEF StringInv
<1>2. Len(v) \in Nat /\ Len(rest) \in Nat
  BY LenProperties
<1>3. /\ b \in Seq(Byte) /\ Len(b) = Len(v) + Len(rest)
      /\ \A i \in 1 .. Len(v) + Len(rest) : b[i] = IF i <= Len(v) THEN v[i] ELSE rest[i - Len(v)]
  BY ConcatProperties
<1>4. Len(rest) >= 1 /\ Len(b) = res + 1
  BY <1>2, <1>3
<1>5. b[Len(v) + 1] = Nul
  BY <1>2, <1>3, <1>4
<1>6. SubSeq(b, 1, Len(v)) = v
  <2>1. \A i \in 1 .. Len(v) : b[i] = v[i] /\ v[i] \in Byte
    BY <1>2, <1>3, ElementOfSeq
  <2>2. /\ SubSeq(b, 1, Len(v)) \in Seq(Byte)
        /\ Len(SubSeq(b, 1, Len(v))) = IF 1 <= Len(v) THEN Len(v) - 1 + 1 ELSE 0
        /\ \A i \in 1 .. Len(v) - 1 + 1 : SubSeq(b, 1, Len(v))[i] = b[1 + i - 1]
    BY <1>2, <1>3, Cut
  <2>3. Len(SubSeq(b, 1, Len(v))) = Len(v)
    BY <1>2, <2>2
  <2>4. \A i \in 1 .. Len(v) : SubSeq(b, 1, Len(v))[i] = v[i]
    BY <1>2, <2>1, <2>2
  <2> QED BY <2>2, <2>3, <2>4, SeqEqual
<1>7. b = <<Nul>> => Len(v) = 0
  <2>1. b = <<Nul>> => Len(b) = 1
    OBVIOUS
  <2> QED BY <2>1, <1>2, <1>3, <1>4
<1> HIDE DEF b
<1>8. Points(s, b, Len(v), res)
  BY DEF b
<1>9. /\ objs' \in [Strings -> [ptr : Nat, len : Nat, res : Nat]]
      /\ DOMAIN mem' = Used(objs')
      /\ \A p \in Used(objs') : mem'[p] \in Seq(Byte)
      /\ mem'[Empty] = <<Nul>>
      /\ OwnBuffers'
      /\ mem'[objs'[s].ptr] = b /\ objs'[s].len = Len(v) /\ objs'[s].res = res
      /\ \A t \in Strings \ {s} :
           objs'[t] = objs[t] /\ mem'[objs'[t].ptr] = mem[objs[t].ptr]
  BY <1>1, <1>2, <1>3, <1>7, <1>8, PointsIs
<1>10. /\ value' \in [Strings -> Seq(Byte)] /\ value'[s] = v
       /\ \A t \in Strings \ {s} : value'[t] = value[t]
  BY <1>1 DEF Holds, StringTypeOK
<1>11. StringTypeOK'
  BY <1>9, <1>10 DEF StringTypeOK, Used
<1>12. StringsAreValues'
  <2> SUFFICES ASSUME NEW t \in Strings
      PROVE /\ SubSeq(mem'[objs'[t].ptr], 1, objs'[t].len) = value'[t]
            /\ objs'[t].len <= objs'[t].res /\ objs'[t].res < Len(mem'[objs'[t].ptr])
            /\ mem'[objs'[t].ptr][objs'[t].len + 1] = Nul
    BY DEF StringsAreValues, StringBytes
  <2>1. CASE t = s
    BY <2>1, <1>2, <1>4, <1>5, <1>6, <1>9, <1>10
  <2>2. CASE t # s
    BY <2>2, <1>1, <1>9, <1>10 DEF StringsAreValues, StringBytes
  <2> QED BY <2>1, <2>2
<1> QED BY <1>9, <1>11, <1>12 DEF StringInv

LEMMA SetBytesKeeps ==
  ASSUME StringInv, NEW s \in Strings, NEW v \in Seq(Byte), SetBytes(s, v), Holds(s, v)
  PROVE  StringInv'
<1>1. Len(v) \in Nat
  BY LenProperties
<1>2. <<Nul>> \in Seq(Byte) /\ <<Nul>>[1] = Nul /\ Len(<<Nul>>) = 1
  BY DEF Nul, Byte
<1>3. Len(v \o <<Nul>>) = Len(v) + 1
  BY <1>2, ConcatProperties
<1> DEFINE rest == <<Nul>>
<1>4. /\ rest \in Seq(Byte) /\ rest[1] = Nul /\ Len(v \o rest) = Len(v) + 1
      /\ Points(s, v \o rest, Len(v), Len(v))
  BY <1>2, <1>3 DEF SetBytes
<1> HIDE DEF rest
<1> QED BY <1>1, <1>4, BufferKeeps

LEMMA StringIs ==
  ASSUME StringInv, NEW t \in Strings
  PROVE  /\ value[t] \in Seq(Byte) /\ StringBytes(t) = value[t]
         /\ Len(value[t]) \in Nat /\ objs[t].len = Len(value[t])
         /\ mem[objs[t].ptr] \in Seq(Byte) /\ Len(mem[objs[t].ptr]) \in Nat
         /\ objs[t].len < Len(mem[objs[t].ptr])
         /\ \A i \in 1 .. objs[t].len : mem[objs[t].ptr][i] = value[t][i]
         /\ mem[objs[t].ptr][objs[t].len + 1] = Nul
<1> DEFINE m == mem[objs[t].ptr]
           len == objs[t].len
<1>1. len \in Nat /\ objs[t].res \in Nat /\ m \in Seq(Byte) /\ value[t] \in Seq(Byte)
  BY DEF StringInv, StringTypeOK, Used
<1>2. SubSeq(m, 1, len) = value[t] /\ len <= objs[t].res /\ objs[t].res < Len(m) /\ m[len + 1] = Nul
  BY DEF StringInv, StringsAreValues, StringBytes
<1>3. Len(m) \in Nat /\ Len(value[t]) \in Nat
  BY <1>1, LenProperties
<1>4. len < Len(m)
  BY <1>1, <1>2, <1>3
<1>5. Len(value[t]) = len /\ \A i \in 1 .. len : value[t][i] = m[i]
  <2> HIDE DEF m, len
  <2>1. /\ Len(SubSeq(m, 1, len)) = IF 1 <= len THEN len - 1 + 1 ELSE 0
        /\ \A i \in 1 .. len - 1 + 1 : SubSeq(m, 1, len)[i] = m[1 + i - 1]
    BY <1>1, <1>3, <1>4, Cut
  <2> QED BY <2>1, <1>1, <1>2, <1>3
<1> QED BY <1>1, <1>2, <1>3, <1>4, <1>5 DEF StringBytes

LEMMA RangeIs ==
  ASSUME NEW v \in Seq(Byte), NEW at \in Nat, NEW n \in Nat \cup {Npos}
  PROVE  /\ RangeStart(v, at) \in 0 .. Len(v) /\ RangeEnd(v, at, n) \in 0 .. Len(v)
         /\ SubRange(v, at, n) \in Seq(Byte)
<1>1. Len(v) \in Nat
  BY LenProperties
<1>2. RangeStart(v, at) \in 0 .. Len(v) /\ RangeEnd(v, at, n) \in 0 .. Len(v)
  BY <1>1 DEF RangeStart, RangeEnd, Capped, Npos
<1>3. SubSeq(v, RangeStart(v, at) + 1, RangeEnd(v, at, n)) \in Seq(Byte)
  <2> DEFINE x == RangeStart(v, at) + 1
             y == RangeEnd(v, at, n)
  <2>1. x \in Nat /\ y \in Nat /\ 1 <= x /\ y <= Len(v)
    BY <1>1, <1>2
  <2> HIDE DEF x, y
  <2>2. SubSeq(v, x, y) \in Seq(Byte)
    BY <2>1, Cut
  <2> QED BY <2>2 DEF x, y
<1> QED BY <1>2, <1>3 DEF SubRange

\* What is before the first NUL.
LEMMA CStringIs ==
  ASSUME NEW b \in Seq(Byte)
  PROVE  \E n \in 0 .. Len(b) : /\ CString(b) = SubSeq(b, 1, n)
                                /\ \A i \in 1 .. n : b[i] # Nul
                                /\ n < Len(b) => b[n + 1] = Nul
<1> DEFINE q == b \o <<Nul>>
           I == {i \in 1 .. Len(q) : q[i] = Nul}
<1>1. Len(b) \in Nat
  BY LenProperties
<1>2. Len(q) = Len(b) + 1 /\ \A i \in 1 .. Len(b) + 1 : q[i] = IF i <= Len(b) THEN b[i] ELSE Nul
  <2>1. <<Nul>> \in Seq(Byte) /\ Len(<<Nul>>) = 1 /\ <<Nul>>[1] = Nul
    BY DEF Nul, Byte
  <2>2. /\ Len(q) = Len(b) + Len(<<Nul>>)
        /\ \A i \in 1 .. Len(b) + Len(<<Nul>>) :
             q[i] = IF i <= Len(b) THEN b[i] ELSE <<Nul>>[i - Len(b)]
    BY <2>1, ConcatProperties
  <2>3. \A i \in 1 .. Len(b) + 1 : ~(i <= Len(b)) => i - Len(b) = 1
    BY <1>1
  <2> QED BY <2>1, <2>2, <2>3
<1> HIDE DEF q
<1>3. I \in SUBSET Nat /\ I # {}
  BY <1>1, <1>2
<1>4. \E x \in I : \A y \in I : x =< y
  BY <1>3, Least
<1>5. Min(I) \in I /\ \A y \in I : Min(I) <= y
  BY <1>4 DEF Min
<1>6. SelectInSeq(q, LAMBDA c : c = Nul) = Min(I)
  BY <1>3 DEF SelectInSeq
<1>11. PICK k \in 1 .. Len(q) : k = Min(I) /\ q[k] = Nul /\ \A y \in I : k <= y
  BY <1>5
<1>12. \A i \in 1 .. Len(q) : q[i] = Nul => k <= i
  BY <1>11
<1> HIDE DEF I
<1> DEFINE n == k - 1
<1>7. n \in 0 .. Len(b) /\ k = n + 1
  BY <1>1, <1>2, <1>11
<1>8. \A i \in 1 .. n : b[i] # Nul
  <2> SUFFICES ASSUME NEW i \in 1 .. n, b[i] = Nul PROVE FALSE
    OBVIOUS
  <2>1. i \in 1 .. Len(q) /\ i <= Len(b) /\ i < k
    BY <1>1, <1>2, <1>7
  <2>2. q[i] = Nul
    BY <2>1, <1>1, <1>2
  <2> QED BY <2>1, <2>2, <1>11, <1>12
<1>9. n < Len(b) => b[n + 1] = Nul
  BY <1>1, <1>2, <1>7, <1>11
<1>10. CString(b) = SubSeq(b, 1, n)
  BY <1>6, <1>11 DEF CString, q
<1> QED BY <1>7, <1>8, <1>9, <1>10

LEMMA AssignLiteralKeeps ==
  ASSUME StringInv, NEW s \in Strings, NEW lit \in Literals, AssignLiteral(s, lit)
  PROVE  StringInv'
<1>1. lit \in Seq(Chars) /\ \A c \in Chars : c \in Byte /\ c # Nul
  BY StringAssumption DEF Byte, Nul
<1>2. Chars \subseteq Byte
  BY <1>1
<1>3. lit \in Seq(Byte)
  BY <1>1, <1>2, SeqMonotonic
<1>4. PICK n \in 0 .. Len(lit) : CString(lit) = SubSeq(lit, 1, n) /\ (n < Len(lit) => lit[n + 1] = Nul)
  BY <1>3, CStringIs
<1>5. Len(lit) \in Nat /\ \A i \in 1 .. Len(lit) : lit[i] # Nul
  BY <1>1, LenProperties, ElementOfSeq
<1>6. n = Len(lit)
  BY <1>4, <1>5
<1>7. CString(lit) = lit
  BY <1>3, <1>4, <1>6, SubSeqFull
<1> QED BY <1>3, <1>7, SetBytesKeeps DEF AssignLiteral

\* What a call reads through a pointer into a string is what C++ says is there, up to
\* the first NUL and over it.
LEMMA AssignPtrKeeps ==
  ASSUME StringInv, NEW s \in Strings, NEW t \in Strings, NEW o \in 0 .. objs[t].len,
         AssignPtr(s, t, o)
  PROVE  StringInv'
<1> DEFINE m == mem[objs[t].ptr]
           v == value[t]
           x == SubSeq(m, o + 1, Len(m))
           y == SubSeq(v, o + 1, Len(v))
<1>1. /\ v \in Seq(Byte) /\ Len(v) \in Nat /\ m \in Seq(Byte) /\ Len(m) \in Nat
      /\ Len(v) < Len(m) /\ m[Len(v) + 1] = Nul /\ o \in 0 .. Len(v)
      /\ \A i \in 1 .. Len(v) : m[i] = v[i]
  BY StringIs
<1> HIDE DEF m, v
<1>2. o \in Nat /\ o + 1 \in Nat /\ 1 <= o + 1
  BY <1>1
<1>3. /\ x \in Seq(Byte) /\ Len(x) = Len(m) - o
      /\ \A i \in 1 .. Len(m) - o : x[i] = m[o + i]
  <2>1. /\ x \in Seq(Byte)
        /\ Len(x) = IF o + 1 <= Len(m) THEN Len(m) - (o + 1) + 1 ELSE 0
        /\ \A i \in 1 .. Len(m) - (o + 1) + 1 : x[i] = m[o + 1 + i - 1]
    BY <1>1, <1>2, Cut
  <2>2. Len(m) - (o + 1) + 1 = Len(m) - o /\ o + 1 <= Len(m)
    BY <1>1
  <2>3. \A i \in 1 .. Len(m) - o : o + 1 + i - 1 = o + i
    BY <1>1
  <2> HIDE DEF x
  <2> QED BY <2>1, <2>2, <2>3
<1>4. /\ y \in Seq(Byte) /\ Len(y) = Len(v) - o
      /\ \A i \in 1 .. Len(v) - o : y[i] = v[o + i]
  <2>1. /\ y \in Seq(Byte)
        /\ Len(y) = IF o + 1 <= Len(v) THEN Len(v) - (o + 1) + 1 ELSE 0
        /\ \A i \in 1 .. Len(v) - (o + 1) + 1 : y[i] = v[o + 1 + i - 1]
    BY <1>1, <1>2, Cut
  <2>2. Len(v) - (o + 1) + 1 = Len(v) - o /\ (o + 1 <= Len(v) \/ o = Len(v))
    BY <1>1
  <2>3. \A i \in 1 .. Len(v) - o : o + 1 + i - 1 = o + i
    BY <1>1
  <2> HIDE DEF y
  <2>4. Len(y) = Len(v) - o
    <3>1. CASE o + 1 <= Len(v)
      BY <3>1, <2>1, <2>2
    <3>2. CASE o = Len(v)
      <4>1. ~(o + 1 <= Len(v)) /\ Len(v) - o = 0
        BY <3>2, <1>1
      <4> QED BY <4>1, <2>1
    <3> QED BY <3>1, <3>2, <2>2
  <2>5. \A i \in 1 .. Len(v) - o : y[i] = v[o + i]
    BY <2>1, <2>2, <2>3
  <2> QED BY <2>1, <2>4, <2>5
<1> HIDE DEF x, y
<1>5. \A i \in 1 .. Len(y) : x[i] = y[i]
  <2> SUFFICES ASSUME NEW i \in 1 .. Len(y) PROVE x[i] = y[i]
    OBVIOUS
  <2>1. i \in 1 .. Len(v) - o /\ i \in 1 .. Len(m) - o /\ o + i \in 1 .. Len(v)
    BY <1>1, <1>4
  <2> QED BY <2>1, <1>1, <1>3, <1>4
<1>6. Len(y) < Len(x) /\ x[Len(y) + 1] = Nul /\ Len(y) \in Nat /\ Len(x) \in Nat
  <2>1. Len(v) - o + 1 \in 1 .. Len(m) - o /\ o + (Len(v) - o + 1) = Len(v) + 1
    BY <1>1
  <2> QED BY <2>1, <1>1, <1>3, <1>4
<1>7. PICK i \in 0 .. Len(x) : /\ CString(x) = SubSeq(x, 1, i) /\ \A k \in 1 .. i : x[k] # Nul
                               /\ i < Len(x) => x[i + 1] = Nul
  BY <1>3, CStringIs
<1>8. PICK j \in 0 .. Len(y) : /\ CString(y) = SubSeq(y, 1, j) /\ \A k \in 1 .. j : y[k] # Nul
                               /\ j < Len(y) => y[j + 1] = Nul
  BY <1>4, CStringIs
<1>9. i = j
  <2>1. i <= Len(y)
    BY <1>6, <1>7
  <2>2. ~(i < j)
    <3>1. i < j => i + 1 \in 1 .. j /\ i + 1 \in 1 .. Len(y) /\ i < Len(x)
      BY <1>6, <1>8
    <3> QED BY <3>1, <1>5, <1>7, <1>8
  <2>3. ~(j < i)
    <3>1. j < i => j + 1 \in 1 .. i /\ j + 1 \in 1 .. Len(y) /\ j < Len(y)
      BY <1>6, <2>1
    <3> QED BY <3>1, <1>5, <1>7, <1>8
  <2> QED BY <2>2, <2>3
<1>10. SubSeq(x, 1, i) = SubSeq(y, 1, i)
  <2>1. i \in Nat /\ 1 \in Nat /\ i <= Len(x) /\ i <= Len(y)
    BY <1>6, <1>8, <1>9
  <2>2. /\ SubSeq(x, 1, i) \in Seq(Byte)
        /\ Len(SubSeq(x, 1, i)) = IF 1 <= i THEN i - 1 + 1 ELSE 0
        /\ \A k \in 1 .. i - 1 + 1 : SubSeq(x, 1, i)[k] = x[1 + k - 1]
    BY <2>1, <1>3, Cut
  <2>3. /\ SubSeq(y, 1, i) \in Seq(Byte)
        /\ Len(SubSeq(y, 1, i)) = IF 1 <= i THEN i - 1 + 1 ELSE 0
        /\ \A k \in 1 .. i - 1 + 1 : SubSeq(y, 1, i)[k] = y[1 + k - 1]
    BY <2>1, <1>4, Cut
  <2>4. \A k \in 1 .. i : SubSeq(x, 1, i)[k] = SubSeq(y, 1, i)[k]
    BY <2>1, <2>2, <2>3, <1>5
  <2>5. Len(SubSeq(x, 1, i)) = i /\ Len(SubSeq(y, 1, i)) = i
    BY <2>1, <2>2, <2>3
  <2> QED BY <2>2, <2>3, <2>4, <2>5, SeqEqual
<1>11. CString(y) = CString(x) /\ CString(y) \in Seq(Byte)
  <2>1. j \in Nat /\ j <= Len(y)
    BY <1>6, <1>8
  <2>2. SubSeq(y, 1, j) \in Seq(Byte)
    BY <2>1, <1>4, Cut
  <2> QED BY <2>2, <1>7, <1>8, <1>9, <1>10
<1>12. SetBytes(s, CString(x)) /\ Holds(s, CString(y))
  BY DEF AssignPtr, x, y, m, v
<1> QED BY <1>11, <1>12, SetBytesKeeps

LEMMA PieceIs ==
  ASSUME StringInv, NEW t \in Strings, NEW from \in Nat, NEW to \in 0 .. objs[t].len
  PROVE  /\ SubSeq(mem[objs[t].ptr], from + 1, to) = SubSeq(value[t], from + 1, to)
         /\ SubSeq(value[t], from + 1, to) \in Seq(Byte)
<1> DEFINE m == mem[objs[t].ptr]
           v == value[t]
           a == from + 1
<1>1. /\ v \in Seq(Byte) /\ Len(v) \in Nat /\ m \in Seq(Byte) /\ Len(m) \in Nat
      /\ Len(v) < Len(m) /\ to \in 0 .. Len(v)
      /\ \A i \in 1 .. Len(v) : m[i] = v[i]
  BY StringIs
<1> HIDE DEF m, v
<1>2. a \in Nat /\ 1 <= a /\ to \in Nat /\ to <= Len(v) /\ to <= Len(m)
  BY <1>1
<1> HIDE DEF a
<1>3. /\ SubSeq(m, a, to) \in Seq(Byte)
      /\ Len(SubSeq(m, a, to)) = IF a <= to THEN to - a + 1 ELSE 0
      /\ \A i \in 1 .. to - a + 1 : SubSeq(m, a, to)[i] = m[a + i - 1]
  BY <1>1, <1>2, Cut
<1>4. /\ SubSeq(v, a, to) \in Seq(Byte)
      /\ Len(SubSeq(v, a, to)) = IF a <= to THEN to - a + 1 ELSE 0
      /\ \A i \in 1 .. to - a + 1 : SubSeq(v, a, to)[i] = v[a + i - 1]
  BY <1>1, <1>2, Cut
<1>5. \A i \in 1 .. Len(SubSeq(m, a, to)) : SubSeq(m, a, to)[i] = SubSeq(v, a, to)[i]
  <2> SUFFICES ASSUME NEW i \in 1 .. Len(SubSeq(m, a, to))
      PROVE SubSeq(m, a, to)[i] = SubSeq(v, a, to)[i]
    OBVIOUS
  <2>1. i \in 1 .. to - a + 1 /\ a + i - 1 \in 1 .. Len(v)
    BY <1>1, <1>2, <1>3
  <2> QED BY <2>1, <1>1, <1>3, <1>4
<1>6. SubSeq(m, a, to) = SubSeq(v, a, to)
  BY <1>3, <1>4, <1>5, SeqEqual
<1> QED BY <1>4, <1>6 DEF m, v, a

\* Removing a range, in the two ways it is said.
LEMMA ReplacedIs ==
  ASSUME NEW v \in Seq(Byte), NEW new \in Seq(Byte), NEW at \in Nat, NEW n \in Nat
  PROVE  /\ Replaced(v, at, n, new) = SubRange(v, 0, at) \o new \o SubRange(v, at + n, Npos)
         /\ Replaced(v, at, n, new) \in Seq(Byte)
         /\ Replaced(v, at, Npos, <<>>) = SubRange(v, 0, at)
<1>1. Len(v) \in Nat
  BY LenProperties
<1>2. /\ RangeStart(v, 0) = 0 /\ RangeEnd(v, 0, at) = RangeStart(v, at)
      /\ RangeStart(v, at + n) = RangeEnd(v, at, n) /\ RangeEnd(v, at + n, Npos) = Len(v)
      /\ RangeEnd(v, at, Npos) = Len(v)
  BY <1>1 DEF RangeStart, RangeEnd, Capped, Npos
<1>3. /\ SubRange(v, 0, at) = SubSeq(v, 0 + 1, RangeStart(v, at))
      /\ SubRange(v, at + n, Npos) = SubSeq(v, RangeEnd(v, at, n) + 1, Len(v))
  BY <1>2 DEF SubRange
<1>4. SubRange(v, 0, at) = SubSeq(v, 1, RangeStart(v, at))
  BY <1>3
<1>5. Replaced(v, at, n, new) = SubRange(v, 0, at) \o new \o SubRange(v, at + n, Npos)
  BY <1>3, <1>4 DEF Replaced
<1>6. 0 \in Nat /\ at + n \in Nat /\ Npos \in Nat \cup {Npos} /\ at \in Nat \cup {Npos}
  OBVIOUS
<1>7. SubRange(v, 0, at) \in Seq(Byte) /\ SubRange(v, at + n, Npos) \in Seq(Byte)
  BY <1>6, RangeIs
<1>8. SubRange(v, 0, at) \o new \in Seq(Byte)
  BY <1>7, ConcatProperties
<1>9. (SubRange(v, 0, at) \o new) \o SubRange(v, at + n, Npos) \in Seq(Byte)
  BY <1>7, <1>8, ConcatProperties
<1>10. Replaced(v, at, Npos, <<>>) = SubRange(v, 0, at)
  <2>1. SubSeq(v, Len(v) + 1, Len(v)) = <<>>
    BY <1>1, SubSeqEmpty
  <2>2. Replaced(v, at, Npos, <<>>) = (SubRange(v, 0, at) \o <<>>) \o <<>>
    BY <1>2, <1>4, <2>1 DEF Replaced
  <2> QED BY <2>2, <1>7, ConcatEmptySeq
<1> QED BY <1>5, <1>9, <1>10

LEMMA EditsKeep ==
  ASSUME StringInv, NEW s \in Strings, NEW t \in Strings, NEW o \in Nat
  PROVE  /\ \A n \in Nat \cup {Npos} : AssignSubstr(s, t, o, n) => StringInv'
         /\ \A n \in Nat \cup {Npos} : AppendSubstr(s, t, o, n) => StringInv'
         /\ \A n \in Nat \cup {Npos} : Erase(s, o, n) => StringInv'
         /\ \A n, k \in Nat, c \in Chars : ReplaceRepeat(s, o, n, k, c) => StringInv'
<1> DEFINE v == value[s]
           w == value[t]
<1>1. v \in Seq(Byte) /\ StringBytes(s) = v /\ w \in Seq(Byte) /\ StringBytes(t) = w
  BY StringIs
<1> HIDE DEF v, w
<1>2. ASSUME NEW n \in Nat \cup {Npos}, AssignSubstr(s, t, o, n) PROVE StringInv'
  <2>1. SubRange(w, o, n) \in Seq(Byte)
    BY <1>1, RangeIs
  <2>2. SetBytes(s, SubRange(w, o, n)) /\ Holds(s, SubRange(w, o, n))
    BY <1>1, <1>2 DEF AssignSubstr, w
  <2> QED BY <2>1, <2>2, SetBytesKeeps
<1>3. ASSUME NEW n \in Nat \cup {Npos}, AppendSubstr(s, t, o, n) PROVE StringInv'
  <2>1. SubRange(w, o, n) \in Seq(Byte)
    BY <1>1, RangeIs
  <2>2. v \o SubRange(w, o, n) \in Seq(Byte)
    BY <1>1, <2>1, ConcatProperties
  <2>3. SetBytes(s, v \o SubRange(w, o, n)) /\ Holds(s, v \o SubRange(w, o, n))
    BY <1>1, <1>3 DEF AppendSubstr, v, w
  <2> QED BY <2>2, <2>3, SetBytesKeeps
<1>4. ASSUME NEW n \in Nat \cup {Npos}, Erase(s, o, n) PROVE StringInv'
  <2> DEFINE x == Replaced(v, o, n, <<>>)
  <2>1. SetBytes(s, x)
    BY <1>1, <1>4 DEF Erase
  <2>2. Holds(s, SubRange(v, 0, o) \o (IF n = Npos THEN <<>> ELSE SubRange(v, o + n, Npos)))
    BY <1>4 DEF Erase, v
  <2>3. <<>> \in Seq(Byte)
    OBVIOUS
  <2>4. 0 \in Nat /\ SubRange(v, 0, o) \in Seq(Byte)
    BY <1>1, RangeIs
  <2>5. x = SubRange(v, 0, o) \o (IF n = Npos THEN <<>> ELSE SubRange(v, o + n, Npos))
    <3>1. CASE n = Npos
      <4>1. x = SubRange(v, 0, o)
        BY <3>1, <1>1, <2>3, ReplacedIs
      <4>2. SubRange(v, 0, o) \o <<>> = SubRange(v, 0, o)
        BY <2>4, ConcatEmptySeq
      <4> QED BY <3>1, <4>1, <4>2
    <3>2. CASE n \in Nat
      <4>1. x = (SubRange(v, 0, o) \o <<>>) \o SubRange(v, o + n, Npos)
        BY <3>2, <1>1, <2>3, ReplacedIs
      <4>2. SubRange(v, 0, o) \o <<>> = SubRange(v, 0, o)
        BY <2>4, ConcatEmptySeq
      <4>3. n # Npos
        BY <3>2 DEF Npos
      <4> QED BY <4>1, <4>2, <4>3
    <3> QED BY <3>1, <3>2
  <2>6. x \in Seq(Byte)
    <3>1. CASE n = Npos
      BY <3>1, <1>1, <2>3, <2>4, ReplacedIs
    <3>2. CASE n \in Nat
      BY <3>2, <1>1, <2>3, ReplacedIs
    <3> QED BY <3>1, <3>2
  <2> HIDE DEF x
  <2>7. Holds(s, x)
    BY <2>2, <2>5
  <2> QED BY <2>1, <2>6, <2>7, SetBytesKeeps
<1>5. ASSUME NEW n \in Nat, NEW k \in Nat, NEW c \in Chars, ReplaceRepeat(s, o, n, k, c)
      PROVE StringInv'
  <2> DEFINE new == [i \in 1 .. k |-> c]
             x == Replaced(v, o, n, new)
  <2>1. c \in Byte
    BY StringAssumption DEF Byte
  <2>2. new \in Seq(Byte)
    BY <2>1
  <2>3. SetBytes(s, x) /\ Holds(s, (SubRange(v, 0, o) \o new) \o SubRange(v, o + n, Npos))
    BY <1>1, <1>5 DEF ReplaceRepeat, v
  <2> HIDE DEF new
  <2>4. x = (SubRange(v, 0, o) \o new) \o SubRange(v, o + n, Npos) /\ x \in Seq(Byte)
    BY <1>1, <2>2, ReplacedIs, ZenonT(30)
  <2> HIDE DEF x
  <2>5. Holds(s, x)
    BY <2>3, <2>4
  <2> QED BY <2>3, <2>4, <2>5, SetBytesKeeps
<1> QED BY <1>2, <1>3, <1>4, <1>5

LEMMA PointersKeep ==
  ASSUME StringInv, NEW s \in Strings, NEW t \in Strings
  PROVE  /\ \A o \in 0 .. objs[t].len : \A n \in 0 .. objs[t].len - o :
              AssignPtrLen(s, t, o, n) => StringInv'
         /\ \A last \in 0 .. objs[s].len, to \in 0 .. objs[t].len :
              \A first \in 0 .. last, from \in 0 .. to :
                ReplaceRange(s, first, last, t, from, to) => StringInv'
<1> DEFINE v == value[s]
<1>1. /\ v \in Seq(Byte) /\ StringBytes(s) = v /\ Len(v) \in Nat /\ objs[s].len = Len(v)
      /\ objs[t].len \in Nat
  BY StringIs
<1>2. ASSUME NEW o \in 0 .. objs[t].len, NEW n \in 0 .. objs[t].len - o, AssignPtrLen(s, t, o, n)
      PROVE StringInv'
  <2> DEFINE to == o + n
  <2>1. o \in Nat /\ to \in 0 .. objs[t].len
    BY <1>1
  <2>2. /\ SetBytes(s, SubSeq(mem[objs[t].ptr], o + 1, to))
        /\ Holds(s, SubSeq(value[t], o + 1, to))
    BY <1>2 DEF AssignPtrLen
  <2> HIDE DEF to
  <2>3. /\ SubSeq(mem[objs[t].ptr], o + 1, to) = SubSeq(value[t], o + 1, to)
        /\ SubSeq(value[t], o + 1, to) \in Seq(Byte)
    BY <2>1, PieceIs
  <2> QED BY <2>2, <2>3, SetBytesKeeps
<1>3. ASSUME NEW last \in 0 .. objs[s].len, NEW to \in 0 .. objs[t].len,
             NEW first \in 0 .. last, NEW from \in 0 .. to,
             ReplaceRange(s, first, last, t, from, to)
      PROVE StringInv'
  <2> DEFINE new == SubSeq(value[t], from + 1, to)
             n == last - first
             x == Replaced(v, first, n, new)
  <2>1. /\ first \in Nat /\ n \in Nat /\ first + n = last /\ from \in Nat
        /\ Capped(first, objs[s].len) = first /\ Capped(last, objs[s].len) = last
    BY <1>1 DEF Capped
  <2>2. SubSeq(mem[objs[t].ptr], from + 1, to) = new /\ new \in Seq(Byte)
    BY <2>1, PieceIs
  <2>3. SetBytes(s, x) /\ Holds(s, (SubRange(v, 0, first) \o new) \o SubRange(v, last, Npos))
    BY <1>1, <1>3, <2>1, <2>2 DEF ReplaceRange
  <2> HIDE DEF new, n, v
  <2>6. v \in Seq(Byte) /\ new \in Seq(Byte) /\ first \in Nat /\ n \in Nat
    BY <1>1, <2>1, <2>2
  <2>4. x = (SubRange(v, 0, first) \o new) \o SubRange(v, first + n, Npos) /\ x \in Seq(Byte)
    BY <2>6, ReplacedIs
  <2> HIDE DEF x
  <2>5. Holds(s, x)
    BY <2>1, <2>3, <2>4
  <2> QED BY <2>3, <2>4, <2>5, SetBytesKeeps
<1> QED BY <1>2, <1>3

LEMMA ZerosAre ==
  ASSUME NEW n \in Nat
  PROVE  Zeros(n) \in Seq(Byte) /\ Len(Zeros(n)) = n /\ \A i \in 1 .. n : Zeros(n)[i] = Nul
BY DEF Zeros, Nul, Byte

LEMMA SizesKeep ==
  ASSUME StringInv, NEW s \in Strings, NEW n \in Nat
  PROVE  /\ Resize(s, n) => StringInv'
         /\ \A keep \in BOOLEAN : Grow(s, n, keep) => StringInv'
<1> DEFINE v == value[s]
<1>1. v \in Seq(Byte) /\ StringBytes(s) = v /\ Len(v) \in Nat
  BY StringIs
<1> HIDE DEF v
<1>2. ASSUME Resize(s, n) PROVE StringInv'
  <2> DEFINE c == Capped(n, Len(v))
  <2>1. c \in 0 .. Len(v) /\ n - c \in Nat
    BY <1>1 DEF Capped
  <2> HIDE DEF c
  <2>2. 1 \in Nat /\ c \in Nat /\ c <= Len(v)
    BY <1>1, <2>1
  <2>3. SubSeq(v, 1, c) \in Seq(Byte)
    BY <1>1, <2>2, Cut
  <2>4. SubSeq(v, 1, c) \o Zeros(n - c) \in Seq(Byte)
    BY <2>1, <2>3, ZerosAre, ConcatProperties
  <2>5. Resized(v, n) \in Seq(Byte)
    BY <2>4 DEF Resized, c
  <2>6. SetBytes(s, Resized(v, n)) /\ Holds(s, Resized(v, n))
    BY <1>1, <1>2 DEF Resize, v
  <2> QED BY <2>5, <2>6, SetBytesKeeps
<1>3. ASSUME NEW keep \in BOOLEAN, Grow(s, n, keep) PROVE StringInv'
  <2> DEFINE data == IF keep THEN SubRange(v, 0, n) ELSE <<>>
             rest == Zeros(n + 1 - Len(data))
  <2>1. /\ SubRange(v, 0, n) \in Seq(Byte) /\ Len(SubRange(v, 0, n)) <= n
        /\ Len(SubRange(v, 0, n)) \in Nat
    <3> DEFINE e == RangeEnd(v, 0, n)
    <3>1. RangeStart(v, 0) = 0 /\ e \in 0 .. Len(v) /\ e <= n
      BY <1>1 DEF RangeStart, RangeEnd, Capped, Npos
    <3> HIDE DEF e
    <3>2. 1 \in Nat /\ e \in Nat /\ e <= Len(v)
      BY <1>1, <3>1
    <3>3. SubSeq(v, 1, e) \in Seq(Byte) /\ Len(SubSeq(v, 1, e)) = IF 1 <= e THEN e - 1 + 1 ELSE 0
      BY <1>1, <3>2, Cut
    <3>4. SubRange(v, 0, n) = SubSeq(v, 1, e)
      BY <3>1 DEF SubRange, e
    <3> QED BY <3>1, <3>2, <3>3, <3>4
  <2>2. data \in Seq(Byte) /\ Len(data) <= n /\ Len(data) \in Nat
    BY <2>1
  <2>3. Points(s, data \o rest, Len(data), n) /\ Holds(s, data)
    BY <1>1, <1>3 DEF Grow, v
  <2> HIDE DEF data
  <2>4. n + 1 - Len(data) \in Nat /\ 1 <= n + 1 - Len(data)
    BY <2>2
  <2>5. rest \in Seq(Byte) /\ Len(rest) = n + 1 - Len(data) /\ rest[1] = Nul
    BY <2>4, ZerosAre
  <2> HIDE DEF rest
  <2>6. Len(data \o rest) = Len(data) + Len(rest)
    BY <2>2, <2>5, ConcatProperties
  <2>7. Len(data \o rest) = n + 1
    BY <2>2, <2>5, <2>6
  <2> QED BY <2>2, <2>3, <2>5, <2>7, BufferKeeps
<1> QED BY <1>2, <1>3

LEMMA SwapKeeps ==
  ASSUME StringInv, NEW s \in Strings, NEW t \in Strings, s # t, Swap(s, t)
  PROVE  StringInv'
<1>1. /\ objs \in [Strings -> [ptr : Nat, len : Nat, res : Nat]] /\ value \in [Strings -> Seq(Byte)]
      /\ DOMAIN mem = Used(objs) /\ (\A p \in Used(objs) : mem[p] \in Seq(Byte))
      /\ mem[Empty] = <<Nul>>
  BY DEF StringInv, StringTypeOK
<1>2. /\ objs' \in [Strings -> [ptr : Nat, len : Nat, res : Nat]] /\ objs'[s] = objs[t]
      /\ objs'[t] = objs[s] /\ \A u \in Strings \ {s, t} : objs'[u] = objs[u]
  BY <1>1 DEF Swap
<1>3. /\ value' \in [Strings -> Seq(Byte)] /\ value'[s] = value[t]
      /\ value'[t] = value[s] /\ \A u \in Strings \ {s, t} : value'[u] = value[u]
  BY <1>1 DEF Swap
<1>4. mem' = mem
  BY DEF Swap
\* Every string now is one there was before.
<1>5. \A u \in Strings : \E w \in Strings :
        /\ objs'[u] = objs[w] /\ value'[u] = value[w]
        /\ w = IF u = s THEN t ELSE IF u = t THEN s ELSE u
  <2> SUFFICES ASSUME NEW u \in Strings
      PROVE \E w \in Strings : /\ objs'[u] = objs[w] /\ value'[u] = value[w]
                               /\ w = IF u = s THEN t ELSE IF u = t THEN s ELSE u
    OBVIOUS
  <2>1. CASE u = s
    BY <2>1, <1>2, <1>3
  <2>2. CASE u # s /\ u = t
    BY <2>2, <1>2, <1>3
  <2>3. CASE u # s /\ u # t
    BY <2>3, <1>2, <1>3
  <2> QED BY <2>1, <2>2, <2>3
<1>6. Used(objs') = Used(objs)
  <2>1. {objs'[u].ptr : u \in Strings} \subseteq {objs[u].ptr : u \in Strings}
    BY <1>5
  <2>2. \A u \in Strings : \E w \in Strings : objs'[w] = objs[u]
    BY <1>2
  <2>3. {objs[u].ptr : u \in Strings} \subseteq {objs'[u].ptr : u \in Strings}
    BY <2>2
  <2> QED BY <2>1, <2>3 DEF Used
<1>7. StringTypeOK'
  BY <1>1, <1>2, <1>3, <1>4, <1>6 DEF StringTypeOK, Used
<1>8. OwnBuffers'
  <2>1. /\ \A a, b \in Strings : a # b /\ objs[a].ptr = objs[b].ptr => objs[a].ptr = Empty
        /\ \A a \in Strings : objs[a].ptr = Empty => objs[a].len = 0
    BY DEF StringInv, OwnBuffers
  <2>2. ASSUME NEW a \in Strings, NEW b \in Strings, a # b, objs'[a].ptr = objs'[b].ptr
        PROVE objs'[a].ptr = Empty
    <3>1. PICK c \in Strings : objs'[a] = objs[c] /\ c = IF a = s THEN t ELSE IF a = t THEN s ELSE a
      BY <1>5
    <3>2. PICK d \in Strings : objs'[b] = objs[d] /\ d = IF b = s THEN t ELSE IF b = t THEN s ELSE b
      BY <1>5
    <3>3. c # d
      BY <3>1, <3>2, <2>2
    <3> QED BY <2>1, <2>2, <3>1, <3>2, <3>3
  <2>3. \A a \in Strings : objs'[a].ptr = Empty => objs'[a].len = 0
    BY <1>5, <2>1
  <2> QED BY <2>2, <2>3 DEF OwnBuffers
<1>9. StringsAreValues'
  <2> SUFFICES ASSUME NEW u \in Strings
      PROVE /\ SubSeq(mem[objs'[u].ptr], 1, objs'[u].len) = value'[u]
            /\ objs'[u].len <= objs'[u].res /\ objs'[u].res < Len(mem[objs'[u].ptr])
            /\ mem[objs'[u].ptr][objs'[u].len + 1] = Nul
    BY <1>4 DEF StringsAreValues, StringBytes
  <2>1. PICK w \in Strings : objs'[u] = objs[w] /\ value'[u] = value[w]
    BY <1>5
  <2> QED BY <2>1 DEF StringInv, StringsAreValues, StringBytes
<1> QED BY <1>7, <1>8, <1>9 DEF StringInv

\* The guest writes to the bytes of one string, and of no other.
LEMMA PokeKeeps ==
  ASSUME StringInv, NEW s \in Strings, NEW i \in 1 .. objs[s].len, NEW c \in Chars \cup {Nul},
         Poke(s, i, c)
  PROVE  StringInv'
<1> DEFINE p == objs[s].ptr
           v == value[s]
           m == mem[p]
<1>1. /\ objs \in [Strings -> [ptr : Nat, len : Nat, res : Nat]] /\ value \in [Strings -> Seq(Byte)]
      /\ DOMAIN mem = Used(objs) /\ (\A q \in Used(objs) : mem[q] \in Seq(Byte))
      /\ mem[Empty] = <<Nul>> /\ \A t \in Strings : objs[t].ptr \in Used(objs)
  BY DEF StringInv, StringTypeOK, Used
<1>2. /\ v \in Seq(Byte) /\ Len(v) \in Nat /\ m \in Seq(Byte) /\ Len(m) \in Nat
      /\ Len(v) < Len(m) /\ objs[s].len = Len(v) /\ m[Len(v) + 1] = Nul
      /\ \A j \in 1 .. Len(v) : m[j] = v[j]
  BY StringIs
<1>3. objs' = objs /\ value' = [value EXCEPT ![s][i] = c] /\ mem' = [mem EXCEPT ![p][i] = c]
  BY DEF Poke
<1>4. c \in Byte
  BY StringAssumption DEF Byte, Nul
<1>5. i \in 1 .. Len(v) /\ i \in 1 .. Len(m)
  BY <1>2
<1> DEFINE x == [v EXCEPT ![i] = c]
           y == [m EXCEPT ![i] = c]
<1>6. /\ x \in Seq(Byte) /\ Len(x) = Len(v)
      /\ \A j \in 1 .. Len(v) : x[j] = IF j = i THEN c ELSE v[j]
  BY <1>2, <1>4, <1>5, ExceptSeq
<1>7. /\ y \in Seq(Byte) /\ Len(y) = Len(m)
      /\ \A j \in 1 .. Len(m) : y[j] = IF j = i THEN c ELSE m[j]
  BY <1>2, <1>4, <1>5, ExceptSeq
<1>8. value'[s] = x /\ value' \in [Strings -> Seq(Byte)] /\ \A t \in Strings \ {s} : value'[t] = value[t]
  BY <1>1, <1>3, <1>6
<1>9. mem'[p] = y /\ DOMAIN mem' = DOMAIN mem /\ \A q \in DOMAIN mem \ {p} : mem'[q] = mem[q]
  BY <1>1, <1>3
<1> HIDE DEF x, y
<1>10. p # Empty /\ \A t \in Strings \ {s} : objs[t].ptr # p
  BY <1>2, <1>5 DEF StringInv, OwnBuffers
<1>11. StringTypeOK'
  <2>1. \A q \in Used(objs) : mem'[q] \in Seq(Byte)
    BY <1>1, <1>7, <1>9
  <2>2. Empty \in DOMAIN mem
    BY <1>1 DEF Used
  <2>3. mem'[Empty] = <<Nul>>
    BY <2>2, <1>1, <1>9, <1>10
  <2>4. Used(objs)' = Used(objs)
    BY <1>3 DEF Used
  <2>5. DOMAIN mem' = Used(objs)
    BY <1>1, <1>9
  <2>6. objs' \in [Strings -> [ptr : Nat, len : Nat, res : Nat]] /\ value' \in [Strings -> Seq(Byte)]
    BY <1>1, <1>3, <1>8
  <2> QED BY <2>1, <2>3, <2>4, <2>5, <2>6 DEF StringTypeOK
<1>12. SubSeq(y, 1, Len(v)) = x
  <2>1. 1 \in Nat /\ Len(v) \in Nat /\ Len(v) <= Len(y)
    BY <1>2, <1>7
  <2>2. /\ SubSeq(y, 1, Len(v)) \in Seq(Byte)
        /\ Len(SubSeq(y, 1, Len(v))) = IF 1 <= Len(v) THEN Len(v) - 1 + 1 ELSE 0
        /\ \A j \in 1 .. Len(v) - 1 + 1 : SubSeq(y, 1, Len(v))[j] = y[1 + j - 1]
    BY <2>1, <1>7, Cut
  <2> HIDE DEF v, m
  <2>3. Len(SubSeq(y, 1, Len(v))) = Len(v)
    BY <1>2, <2>2
  <2>4. \A j \in 1 .. Len(v) : SubSeq(y, 1, Len(v))[j] = y[j]
    BY <1>2, <2>2
  <2>5. \A j \in 1 .. Len(v) : y[j] = x[j]
    BY <1>2, <1>6, <1>7
  <2> QED BY <1>6, <2>2, <2>3, <2>4, <2>5, SeqEqual
<1>13. y[Len(v) + 1] = Nul
  <2>1. Len(v) + 1 \in 1 .. Len(m) /\ Len(v) + 1 # i
    BY <1>2, <1>5
  <2> QED BY <2>1, <1>2, <1>7
<1>14. StringsAreValues'
  <2> SUFFICES ASSUME NEW t \in Strings
      PROVE /\ SubSeq(mem'[objs[t].ptr], 1, objs[t].len) = value'[t]
            /\ objs[t].len <= objs[t].res /\ objs[t].res < Len(mem'[objs[t].ptr])
            /\ mem'[objs[t].ptr][objs[t].len + 1] = Nul
    BY <1>3 DEF StringsAreValues, StringBytes
  <2>1. /\ SubSeq(mem[objs[t].ptr], 1, objs[t].len) = value[t]
        /\ objs[t].len <= objs[t].res /\ objs[t].res < Len(mem[objs[t].ptr])
        /\ mem[objs[t].ptr][objs[t].len + 1] = Nul
    BY DEF StringInv, StringsAreValues, StringBytes
  <2>2. CASE t = s
    BY <2>1, <2>2, <1>2, <1>7, <1>8, <1>9, <1>12, <1>13
  <2>3. CASE t # s
    <3>1. mem'[objs[t].ptr] = mem[objs[t].ptr]
      BY <2>3, <1>1, <1>9, <1>10
    <3> QED BY <2>1, <2>3, <3>1, <1>8
  <2> QED BY <2>2, <2>3
<1>15. OwnBuffers'
  BY <1>3 DEF StringInv, OwnBuffers
<1> QED BY <1>11, <1>14, <1>15 DEF StringInv

LEMMA StringsStart == StringsInit => StringInv
<1> SUFFICES ASSUME StringsInit PROVE StringInv
  OBVIOUS
<1>1. \A s \in Strings : objs[s] = [ptr |-> Empty, len |-> 0, res |-> 0] /\ value[s] = <<>>
  BY DEF StringsInit
<1>2. mem = [p \in {Empty} |-> <<Nul>>]
  BY DEF StringsInit
<1>3. Used(objs) = {Empty}
  BY <1>1 DEF Used
<1>4. <<Nul>> \in Seq(Byte) /\ Len(<<Nul>>) = 1 /\ <<Nul>>[1] = Nul
  BY DEF Nul, Byte
<1>5. objs \in [Strings -> [ptr : Nat, len : Nat, res : Nat]] /\ value \in [Strings -> Seq(Byte)]
  BY DEF StringsInit, Empty
<1>6. StringTypeOK
  BY <1>2, <1>3, <1>4, <1>5 DEF StringTypeOK
<1>7. SubSeq(<<Nul>>, 1, 0) = <<>>
  BY SubSeqEmpty
<1>8. StringsAreValues
  <2> SUFFICES ASSUME NEW s \in Strings
      PROVE /\ SubSeq(mem[objs[s].ptr], 1, objs[s].len) = value[s]
            /\ objs[s].len <= objs[s].res /\ objs[s].res < Len(mem[objs[s].ptr])
            /\ mem[objs[s].ptr][objs[s].len + 1] = Nul
    BY DEF StringsAreValues, StringBytes
  <2>1. mem[Empty] = <<Nul>>
    BY <1>2
  <2>2. objs[s].ptr = Empty /\ objs[s].len = 0 /\ objs[s].res = 0
    BY <1>1
  <2>3. mem[objs[s].ptr] = <<Nul>> /\ objs[s].len + 1 = 1 /\ 0 <= 0 /\ 0 < 1
    BY <2>1, <2>2
  <2> QED BY <2>2, <2>3, <1>1, <1>4, <1>7
<1> QED BY <1>1, <1>6, <1>8 DEF StringInv, OwnBuffers

LEMMA StringsKept == StringInv /\ [StringsNext]_stringVars => StringInv'
<1> SUFFICES ASSUME StringInv, [StringsNext]_stringVars PROVE StringInv'
  OBVIOUS
<1>0. /\ MaxLen \in Nat /\ 0 .. MaxLen \subseteq Nat /\ {1, 2, Npos} \subseteq Nat \cup {Npos}
      /\ 0 .. 2 \subseteq Nat
  BY StringAssumption
<1>1. ASSUME NEW s \in Strings, NEW lit \in Literals, AssignLiteral(s, lit) PROVE StringInv'
  BY <1>1, AssignLiteralKeeps
<1>2. ASSUME NEW s \in Strings, NEW o \in 0 .. MaxLen, NEW n \in {1, 2, Npos}, Erase(s, o, n)
      PROVE StringInv'
  BY <1>0, <1>2, EditsKeep
<1>3. ASSUME NEW s \in Strings, NEW o \in 0 .. MaxLen, NEW n \in 0 .. 2, NEW k \in 0 .. 2,
             NEW c \in Chars, ReplaceRepeat(s, o, n, k, c)
      PROVE StringInv'
  BY <1>0, <1>3, EditsKeep
<1>4. ASSUME NEW s \in Strings, NEW n \in 0 .. MaxLen, Resize(s, n) PROVE StringInv'
  BY <1>0, <1>4, SizesKeep
<1>5. ASSUME NEW s \in Strings, NEW n \in 0 .. MaxLen, NEW keep \in BOOLEAN, Grow(s, n, keep)
      PROVE StringInv'
  BY <1>0, <1>5, SizesKeep
<1>6. ASSUME NEW s \in Strings, NEW i \in 1 .. objs[s].len, NEW c \in Chars \cup {Nul}, Poke(s, i, c)
      PROVE StringInv'
  BY <1>6, PokeKeeps
<1>7. ASSUME NEW s \in Strings, NEW t \in Strings, NEW o \in 0 .. objs[t].len, AssignPtr(s, t, o)
      PROVE StringInv'
  BY <1>7, AssignPtrKeeps
<1>8. ASSUME NEW s \in Strings, NEW t \in Strings, NEW o \in 0 .. objs[t].len,
             NEW n \in 0 .. objs[t].len - o, AssignPtrLen(s, t, o, n)
      PROVE StringInv'
  BY <1>8, PointersKeep
<1>9. ASSUME NEW s \in Strings, NEW t \in Strings, NEW o \in 0 .. MaxLen, NEW n \in {1, 2, Npos},
             AssignSubstr(s, t, o, n) \/ AppendSubstr(s, t, o, n)
      PROVE StringInv'
  BY <1>0, <1>9, EditsKeep
<1>10. ASSUME NEW s \in Strings, NEW t \in Strings, NEW last \in 0 .. objs[s].len,
              NEW to \in 0 .. objs[t].len, NEW first \in 0 .. last, NEW from \in 0 .. to,
              ReplaceRange(s, first, last, t, from, to)
       PROVE StringInv'
  BY <1>10, PointersKeep
<1>11. ASSUME NEW s \in Strings, NEW t \in Strings, s # t, Swap(s, t) PROVE StringInv'
  BY <1>11, SwapKeeps
<1>12. CASE UNCHANGED stringVars
  BY <1>12 DEF stringVars, StringInv, StringTypeOK, OwnBuffers, StringsAreValues, StringBytes, Used
<1> QED BY <1>1, <1>2, <1>3, <1>4, <1>5, <1>6, <1>7, <1>8, <1>9, <1>10, <1>11, <1>12 DEF StringsNext

\* Of any number of strings of any length, each holds what its own calls put there, and
\* c_str finds a NUL behind it (BasicString): buffers are not shared (OwnBuffers).
THEOREM StringsHoldTheirValues == StringsSpec => []StringsAreValues
<1>1. StringInv => StringsAreValues
  BY DEF StringInv
<1> QED BY <1>1, StringsStart, StringsKept, PTL DEF StringsSpec

----------------------------------------------------------------------------
(* Sounds. *)

SoundRecord ==
  [context : Pointers \cup {NoPointer}, wave : Waves, frequency : Nat, repeat : BOOLEAN,
   playing : BOOLEAN, paused : BOOLEAN, position : Nat]

\* The largest step a sound can have.
Stride(x) == Max(Frequencies \cup {x.wave.step})

\* A sound x and what was heard of it.
SoundOK(x, h) ==
  /\ x \in SoundRecord /\ h \in Seq(Nat)
  /\ x.frequency \in Frequencies \cup {x.wave.step}
  /\ ~(x.playing /\ x.paused)
  /\ x.position < Length(x) + Stride(x)
  /\ h = <<>> => x.position = Start
  /\ h # <<>> =>
       /\ h[1] < Stride(x)
       /\ \A i \in 2 .. Len(h) : h[i] - h[i - 1] \in 1 .. Stride(x)
       /\ IF x.position = Start THEN h[Len(h)] + Stride(x) >= Length(x)
          ELSE x.position - h[Len(h)] \in 1 .. Stride(x)

SoundInv ==
  /\ contexts \subseteq Pointers \cup {NoPointer} /\ DOMAIN heard = DOMAIN sounds
  /\ \A s \in DOMAIN sounds : SoundOK(sounds[s], heard[s]) /\ sounds[s].context \in contexts

\* A finite set of numbers has a largest one.
LEMMA Largest ==
  ASSUME NEW S \in SUBSET Nat, IsFiniteSet(S), S # {}
  PROVE  Max(S) \in S /\ \A k \in S : Max(S) >= k
<1>1. PICK q \in Seq(S) : \A k \in S : \E i \in 1 .. Len(q) : q[i] = k
  BY DEF IsFiniteSet
<1>2. Len(q) \in Nat /\ \A i \in 1 .. Len(q) : q[i] \in Nat
  BY LenProperties, ElementOfSeq
<1> DEFINE Bound(n, m) == \A i \in 1 .. n : q[i] <= m
           T == {n \in 0 .. Len(q) : ~\E m \in Nat : Bound(n, m)}
<1>3. T = {}
  <2> SUFFICES ASSUME T # {} PROVE FALSE
    OBVIOUS
  <2>1. T \in SUBSET Nat
    BY <1>2
  <2> HIDE DEF T
  <2>2. PICK n \in T : \A k \in T : n <= k
    BY <2>1, Least
  <2>3. n \in 0 .. Len(q) /\ ~\E m \in Nat : Bound(n, m)
    BY DEF T
  <2>4. n # 0
    <3>1. Bound(0, 0)
      OBVIOUS
    <3> QED BY <2>3, <3>1
  <2>5. n - 1 \in 0 .. Len(q) /\ n - 1 \notin T
    <3>1. n \in 0 .. Len(q)
      BY <2>3
    <3>2. n - 1 \in 0 .. Len(q) /\ ~(n <= n - 1)
      BY <3>1, <2>4, <1>2
    <3> QED BY <3>2, <2>2
  <2>6. PICK m \in Nat : Bound(n - 1, m)
    BY <2>5 DEF T
  <2>7. q[n] \in Nat
    BY <1>2, <2>3, <2>4
  <2>8. Bound(n, IF q[n] <= m THEN m ELSE q[n])
    <3> SUFFICES ASSUME NEW i \in 1 .. n PROVE q[i] <= (IF q[n] <= m THEN m ELSE q[n])
      OBVIOUS
    <3>1. CASE i = n
      BY <2>7, <3>1
    <3>2. CASE i # n
      <4>1. i \in 1 .. n - 1
        BY <2>3, <2>4, <3>2, <1>2
      <4>2. i \in 1 .. Len(q)
        BY <2>3, <1>2
      <4>3. q[i] <= m /\ q[i] \in Nat
        BY <4>1, <4>2, <2>6, <1>2
      <4> QED BY <4>3, <2>7
    <3> QED BY <3>1, <3>2
  <2> QED BY <2>3, <2>7, <2>8
<1> DEFINE B == {m \in Nat : \A k \in S : k <= m}
<1>4. B \in SUBSET Nat /\ B # {}
  <2>1. PICK m \in Nat : Bound(Len(q), m)
    <3>1. Len(q) \in 0 .. Len(q)
      BY <1>2
    <3> HIDE DEF Bound
    <3>2. ~(Len(q) \in 0 .. Len(q) /\ ~\E m \in Nat : Bound(Len(q), m))
      BY <1>3, Zenon
    <3> QED BY <3>1, <3>2
  <2>2. m \in B
    BY <1>1, <2>1
  <2> QED BY <2>2
<1> HIDE DEF B
<1>5. PICK m \in B : \A k \in B : m <= k
  BY <1>4, Least
<1>6. m \in Nat /\ \A k \in S : k <= m
  BY DEF B
<1>7. m \in S
  <2> SUFFICES ASSUME m \notin S PROVE FALSE
    OBVIOUS
  <2>1. PICK k \in S : TRUE
    OBVIOUS
  <2>2. k \in Nat /\ k <= m /\ k # m
    BY <1>6
  <2>3. m - 1 \in Nat
    BY <1>6, <2>2
  <2>4. \A j \in S : j \in Nat /\ j <= m /\ j # m
    BY <1>6
  <2>5. \A j \in S : j <= m - 1
    BY <2>4, <1>6
  <2>6. m - 1 \in B
    BY <2>3, <2>5 DEF B
  <2> QED BY <2>6, <1>5, <1>6
<1>8. \E x \in S : \A y \in S : x >= y
  BY <1>6, <1>7
<1> QED BY <1>8 DEF Max

\* A step goes forward, and no further than the stride.
LEMMA StrideIs ==
  ASSUME NEW x \in SoundRecord, x.frequency \in Frequencies \cup {x.wave.step}
  PROVE  /\ Stride(x) \in Nat \ {0} /\ Step(x) \in 1 .. Stride(x)
         /\ Length(x) \in Nat
         /\ \A f \in Frequencies \cup {x.wave.step} : f <= Stride(x)
<1> DEFINE S == Frequencies \cup {x.wave.step}
<1>1. x.wave.step \in Nat \ {0} /\ x.wave.frames \in Nat
  BY SoundAssumption DEF SoundRecord
<1>2. S \in SUBSET Nat /\ S # {}
  BY <1>1, SoundAssumption
<1>3. IsFiniteSet(S)
  BY SoundAssumption, FS_AddElement
<1>4. x.frequency \in S /\ x.wave.step \in S
  OBVIOUS
<1> HIDE DEF S
<1>5. Max(S) \in S /\ \A k \in S : Max(S) >= k
  BY <1>2, <1>3, Largest
<1>6. Stride(x) = Max(S)
  BY DEF Stride, S
<1>7. Stride(x) \in Nat \ {0} /\ x.wave.step <= Stride(x) /\ x.frequency <= Stride(x) /\ x.frequency \in Nat
  <2> DEFINE M == Max(S)
             a == x.wave.step
             b == x.frequency
  <2>1. M \in Nat /\ M >= a /\ M >= b /\ a \in Nat \ {0} /\ b \in Nat
    BY <1>1, <1>2, <1>4, <1>5
  <2> HIDE DEF M, a, b
  <2>2. M \in Nat \ {0} /\ a <= M /\ b <= M
    BY <2>1
  <2> QED BY <2>1, <2>2, <1>6 DEF M, a, b
<1>8. Step(x) \in 1 .. Stride(x)
  BY <1>1, <1>7 DEF Step
<1>9. Length(x) \in Nat
  BY <1>1 DEF Length, Quarters
<1>10. \A f \in S : f <= Stride(x)
  BY <1>2, <1>5, <1>6
<1> QED BY <1>7, <1>8, <1>9, <1>10 DEF S

LEMMA Remainder ==
  ASSUME NEW a \in Nat, NEW n \in Nat \ {0}
  PROVE  /\ (a % n) \in 0 .. n - 1
         /\ \E k \in Nat : a = k * n + (a % n) /\ (a >= n => k > 0)
<1>1. (a % n) \in 0 .. n - 1
  OBVIOUS
<1>2. a = (a \div n) * n + (a % n)
  OBVIOUS
<1>3. a \div n \in Nat
  OBVIOUS
<1>4. a >= n => a \div n > 0
  <2> DEFINE d == a \div n
             e == (a % n)
  <2>1. a = d * n + e /\ e < n /\ d \in Nat /\ e \in Nat
    BY <1>1, <1>2, <1>3
  <2> HIDE DEF d, e
  <2>2. a >= n => d # 0
    BY <2>1
  <2> QED BY <2>1, <2>2 DEF d
<1> QED BY <1>1, <1>2, <1>3, <1>4

LEMMA NoRemainder ==
  ASSUME NEW k \in Nat, NEW n \in Nat \ {0}
  PROVE  (k * n) % n = 0
OBVIOUS

\* What the loop carries.
MixRecord == [sound : SoundRecord, heard : Seq(Nat), ended : BOOLEAN]

\* What a frame leaves of a sound.
SameSound(x, y) ==
  /\ y.context = x.context /\ y.wave = x.wave /\ y.frequency = x.frequency
  /\ y.repeat = x.repeat

LEMMA SameSoundIs ==
  ASSUME NEW x, NEW y, SameSound(x, y)
  PROVE  Step(y) = Step(x) /\ Stride(y) = Stride(x) /\ Length(y) = Length(x)
BY DEF SameSound, Step, Stride, Length

\* A frame of a sound that is not over, of one that wraps, and of one that ends.
LEMMA FrameIs ==
  ASSUME NEW m \in MixRecord, SoundOK(m.sound, m.heard), Length(m.sound) > 0
  PROVE  LET x == m.sound
             y == MixFrame(m).sound
             h == MixFrame(m).heard
         IN /\ MixFrame(m) \in MixRecord /\ SameSound(x, y)
            /\ m.ended => MixFrame(m) = m
            /\ ~m.ended /\ x.position < Length(x) =>
                 /\ y.position = x.position + Step(x) /\ ~MixFrame(m).ended
                 /\ y.playing = x.playing /\ y.paused = x.paused
                 /\ h = IF x.position = Start THEN <<Start>> ELSE Append(m.heard, x.position)
            /\ ~m.ended /\ x.position >= Length(x) /\ x.repeat =>
                 /\ y.position = (x.position % Length(x)) + Step(x) /\ ~MixFrame(m).ended
                 /\ y.playing = x.playing /\ y.paused = x.paused
                 /\ h = <<x.position % Length(x)>>
            /\ ~m.ended /\ x.position >= Length(x) /\ ~x.repeat =>
                 /\ y.position = Start /\ MixFrame(m).ended /\ ~y.playing /\ ~y.paused
                 /\ h = m.heard
<1> DEFINE x == m.sound
           over == x.position >= Length(x)
           at == IF over THEN x.position % Length(x) ELSE x.position
           to == at + Step(x)
           log == IF over \/ at = Start THEN <<at>> ELSE Append(m.heard, at)
<1>1. x \in SoundRecord /\ m.heard \in Seq(Nat) /\ m.ended \in BOOLEAN
  BY DEF MixRecord
<1>2. Length(x) \in Nat \ {0} /\ Step(x) \in Nat /\ x.position \in Nat /\ x.repeat \in BOOLEAN
  BY <1>1, StrideIs DEF SoundOK, SoundRecord
<1>3. at \in Nat /\ over \in BOOLEAN
  <2>1. x.position % Length(x) \in Nat
    <3> DEFINE a == x.position
               n == Length(x)
    <3>1. a \in Nat /\ n \in Nat \ {0}
      BY <1>2
    <3> HIDE DEF a, n
    <3>2. a % n \in 0 .. n - 1
      BY <3>1, Remainder
    <3> QED BY <3>1, <3>2 DEF a, n
  <2> QED BY <2>1, <1>2
<1>4. to \in Nat /\ log \in Seq(Nat)
  <2> HIDE DEF at, over
  <2>1. to \in Nat
    BY <1>2, <1>3
  <2>2. <<at>> \in Seq(Nat) /\ Append(m.heard, at) \in Seq(Nat)
    BY <1>1, <1>3, AppendProperties
  <2> QED BY <2>1, <2>2
<1>5. CASE m.ended
  <2>1. MixFrame(m) = m
    BY <1>5 DEF MixFrame, Frame
  <2> QED BY <2>1, <1>5 DEF SameSound
<1>6. CASE ~m.ended /\ over /\ ~x.repeat
  <2>1. MixFrame(m) = [m EXCEPT !.sound.playing = FALSE, !.sound.paused = FALSE,
                                !.sound.position = Start, !.ended = TRUE]
    BY <1>6 DEF MixFrame, Frame
  <2> DEFINE y == [x EXCEPT !.playing = FALSE, !.paused = FALSE, !.position = Start]
  <2>2. MixFrame(m) = [sound |-> y, heard |-> m.heard, ended |-> TRUE]
    BY <2>1 DEF MixRecord
  <2>3. /\ y \in SoundRecord /\ y.position = Start /\ ~y.playing /\ ~y.paused /\ SameSound(x, y)
    BY <1>1 DEF SoundRecord, Start, SameSound
  <2> HIDE DEF y
  <2>4. MixFrame(m) \in MixRecord
    BY <2>2, <2>3, <1>1 DEF MixRecord
  <2> QED BY <2>2, <2>3, <2>4, <1>6, <1>2
<1>7. CASE ~m.ended /\ (over => x.repeat)
  <2>1. MixFrame(m) = [m EXCEPT !.sound.position = to, !.heard = log]
    BY <1>7 DEF MixFrame, Frame
  <2> HIDE DEF to, log
  <2> DEFINE y == [x EXCEPT !.position = to]
  <2>2. MixFrame(m) = [sound |-> y, heard |-> log, ended |-> m.ended]
    BY <2>1 DEF MixRecord
  <2>3. /\ y \in SoundRecord /\ y.position = to /\ y.playing = x.playing /\ y.paused = x.paused
        /\ SameSound(x, y)
    BY <1>1, <1>4 DEF SoundRecord, SameSound
  <2> HIDE DEF y
  <2>4. MixFrame(m) \in MixRecord
    BY <2>2, <2>3, <1>1, <1>4 DEF MixRecord
  <2>5. CASE over
    <3>1. to = (x.position % Length(x)) + Step(x) /\ log = <<x.position % Length(x)>>
      BY <2>5 DEF to, log
    <3> QED BY <2>2, <2>3, <2>4, <2>5, <3>1, <1>7, <1>2
  <2>6. CASE ~over
    <3>1. to = x.position + Step(x)
          /\ log = IF x.position = Start THEN <<Start>> ELSE Append(m.heard, x.position)
      BY <2>6 DEF to, log
    <3> QED BY <2>2, <2>3, <2>4, <2>6, <3>1, <1>7, <1>2
  <2> QED BY <2>5, <2>6
<1> QED BY <1>3, <1>5, <1>6, <1>7

\* A sound goes on from where it was last heard.
LEMMA FrameKeeps ==
  ASSUME NEW m \in MixRecord, SoundOK(m.sound, m.heard), Length(m.sound) > 0
  PROVE  SoundOK(MixFrame(m).sound, MixFrame(m).heard)
<1> DEFINE x == m.sound
           y == MixFrame(m).sound
           h == m.heard
           g == MixFrame(m).heard
           L == Length(x)
           M == Stride(x)
<1>1. x \in SoundRecord /\ h \in Seq(Nat) /\ x.frequency \in Frequencies \cup {x.wave.step}
      /\ ~(x.playing /\ x.paused) /\ x.position \in Nat /\ x.position < L + M
  BY DEF SoundOK, SoundRecord
<1>2. L \in Nat \ {0} /\ M \in Nat \ {0} /\ Step(x) \in 1 .. M
  BY <1>1, StrideIs
<1>3. MixFrame(m) \in MixRecord /\ SameSound(x, y)
  BY FrameIs
<1>4. y \in SoundRecord /\ g \in Seq(Nat) /\ y.frequency \in Frequencies \cup {y.wave.step}
      /\ Length(y) = L /\ Stride(y) = M
  BY <1>1, <1>3, SameSoundIs DEF MixRecord, SameSound
<1>5. CASE m.ended
  BY <1>5, FrameIs
<1>6. CASE ~m.ended /\ x.position < L
  <2>1. /\ y.position = x.position + Step(x) /\ y.playing = x.playing /\ y.paused = x.paused
        /\ g = IF x.position = Start THEN <<Start>> ELSE Append(h, x.position)
    BY <1>6, FrameIs
  <2> DEFINE p == x.position
             d == Step(x)
  <2> HIDE DEF L, M, p, d
  <2>2. p \in Nat /\ p < L /\ d \in 1 .. M /\ y.position = p + d
    BY <1>1, <1>2, <1>6, <2>1 DEF L, p, d, M
  <2>3. y.position < L + M /\ y.position # Start /\ y.position - p \in 1 .. M
    BY <1>2, <2>2 DEF Start
  <2>4. CASE p = Start
    <3>1. g = <<Start>>
      BY <2>1, <2>4 DEF p
    <3>2. g # <<>> /\ g[1] = 0 /\ Len(g) = 1
      BY <3>1 DEF Start
    <3> QED BY <1>1, <1>2, <1>4, <2>1, <2>3, <2>4, <3>2 DEF SoundOK, Start, L, M
  <2>5. CASE p # Start
    <3>1. h # <<>>
      BY <2>5 DEF SoundOK, p
    <3>2. /\ h[1] < M /\ \A i \in 2 .. Len(h) : h[i] - h[i - 1] \in 1 .. M
          /\ p - h[Len(h)] \in 1 .. M
      BY <2>5, <3>1 DEF SoundOK, p, M
    <3>3. Len(h) \in Nat \ {0}
      BY <1>1, <3>1, EmptySeq, LenProperties
    <3>4. /\ Len(g) = Len(h) + 1 /\ g[Len(h) + 1] = p
          /\ \A i \in 1 .. Len(h) : g[i] = h[i]
      BY <1>1, <2>1, <2>2, <2>5, AppendProperties DEF p
    <3>5. ASSUME NEW i \in 2 .. Len(g) PROVE g[i] - g[i - 1] \in 1 .. M
      <4>1. CASE i = Len(g)
        <5>1. i - 1 = Len(h) /\ i - 1 \in 1 .. Len(h)
          BY <4>1, <3>3, <3>4
        <5> QED BY <4>1, <5>1, <3>2, <3>4
      <4>2. CASE i # Len(g)
        <5>1. i \in 2 .. Len(h) /\ i \in 1 .. Len(h) /\ i - 1 \in 1 .. Len(h)
          BY <4>2, <3>3, <3>4
        <5> QED BY <5>1, <3>2, <3>4
      <4> QED BY <4>1, <4>2
    <3>6. g[1] < M /\ g # <<>> /\ g[Len(g)] = p
      BY <3>2, <3>3, <3>4
    <3> QED BY <1>1, <1>4, <2>1, <2>3, <3>5, <3>6 DEF SoundOK, L, M
  <2> QED BY <2>4, <2>5
<1>7. CASE ~m.ended /\ x.position >= L /\ x.repeat
  <2> DEFINE p == x.position
             d == Step(x)
             a == p % L
  <2>1. /\ y.position = a + d /\ y.playing = x.playing /\ y.paused = x.paused /\ g = <<a>>
    BY <1>7, FrameIs
  <2>2. p \in Nat /\ d \in 1 .. M /\ p >= L /\ p < L + M
    BY <1>1, <1>2, <1>7
  <2> HIDE DEF L, M, p, d
  <2>3. a \in 0 .. L - 1 /\ \E k \in Nat : p = k * L + a /\ (p >= L => k > 0)
    BY <1>2, <2>2, Remainder
  <2> HIDE DEF a
  <2>4. a < M
    <3>1. PICK k \in Nat : p = k * L + a /\ k > 0
      BY <2>2, <2>3
    <3>2. k * L >= L
      BY <3>1, <1>2
    <3>3. k * L \in Nat
      BY <1>2
    <3> DEFINE q == k * L
    <3> HIDE DEF q
    <3>4. q \in Nat /\ q >= L /\ p = q + a
      BY <3>1, <3>2, <3>3 DEF q
    <3> QED BY <3>4, <2>2, <2>3, <1>2
  <2>5. y.position < L + M /\ y.position # Start /\ y.position - a \in 1 .. M
    BY <1>2, <2>1, <2>2, <2>3 DEF Start
  <2>6. g # <<>> /\ g[1] = a /\ Len(g) = 1
    BY <2>1
  <2> QED BY <1>1, <1>2, <1>4, <2>1, <2>4, <2>5, <2>6 DEF SoundOK, L, M
<1>8. CASE ~m.ended /\ x.position >= L /\ ~x.repeat
  <2>1. y.position = Start /\ ~y.playing /\ ~y.paused /\ g = h
    BY <1>8, FrameIs
  <2>2. y.position < L + M
    BY <2>1, <1>2 DEF Start
  <2>3. x.position # Start
    BY <1>8, <1>2 DEF Start
  <2>4. h # <<>> => /\ h[1] < M /\ \A i \in 2 .. Len(h) : h[i] - h[i - 1] \in 1 .. M
                    /\ x.position - h[Len(h)] \in 1 .. M
    BY <2>3 DEF SoundOK
  <2>5. h # <<>> => h[Len(h)] + M >= L
    <3> SUFFICES ASSUME h # <<>> PROVE h[Len(h)] + M >= L
      OBVIOUS
    <3>1. h[Len(h)] \in Nat
      <4>1. Len(h) \in 1 .. Len(h)
        BY <1>1, EmptySeq, LenProperties
      <4> QED BY <4>1, <1>1, ElementOfSeq
    <3> DEFINE e == h[Len(h)]
               p == x.position
    <3>2. e \in Nat /\ p \in Nat /\ p - e \in 1 .. M /\ p >= L
      BY <3>1, <2>4, <1>1, <1>8
    <3> HIDE DEF e, p, L, M
    <3>3. e + M >= L
      BY <3>2, <1>2
    <3> QED BY <3>3 DEF e
  <2> QED BY <1>1, <1>4, <2>1, <2>2, <2>4, <2>5 DEF SoundOK
<1> QED BY <1>1, <1>2, <1>5, <1>6, <1>7, <1>8 DEF SoundRecord

----------------------------------------------------------------------------
(* The loop over the frames of a buffer. *)

After(m, n, f) == f = [i \in 0 .. n |-> IF i = 0 THEN m ELSE MixFrame(f[i - 1])]

LEMMA AfterExists ==
  ASSUME NEW m, NEW n \in Nat
  PROVE  \E f : After(m, n, f)
<1> DEFINE T == {k \in Nat : ~\E f : After(m, k, f)}
<1> SUFFICES ASSUME T # {} PROVE FALSE
  OBVIOUS
<1>1. T \in SUBSET Nat
  OBVIOUS
<1>2. PICK k \in T : \A j \in T : k <= j
  <2> HIDE DEF T
  <2> QED BY <1>1, Least
<1>3. After(m, 0, [i \in 0 .. 0 |-> m])
  BY DEF After
<1>4. k \in Nat /\ k # 0 /\ k - 1 \in Nat /\ k - 1 \notin T /\ ~\E f : After(m, k, f)
  <2>1. k \in Nat /\ ~\E f : After(m, k, f)
    OBVIOUS
  <2>2. k # 0
    BY <1>3, <2>1
  <2> HIDE DEF T
  <2> QED BY <1>2, <2>1, <2>2
<1>5. PICK f : After(m, k - 1, f)
  BY <1>4
<1> DEFINE g == [i \in 0 .. k |-> IF i = k THEN MixFrame(f[k - 1]) ELSE f[i]]
<1>6. ASSUME NEW i \in 0 .. k
      PROVE  g[i] = IF i = 0 THEN m ELSE MixFrame(g[i - 1])
  <2>1. CASE i = k
    <3>1. i # 0 /\ i - 1 = k - 1 /\ i - 1 # k /\ i - 1 \in 0 .. k
      BY <1>4, <2>1
    <3> QED BY <2>1, <3>1
  <2>2. CASE i # k
    <3>1. i \in 0 .. k - 1 /\ (i # 0 => i - 1 \in 0 .. k /\ i - 1 # k)
      BY <1>4, <2>2
    <3>2. f[i] = IF i = 0 THEN m ELSE MixFrame(f[i - 1])
      BY <1>5, <3>1 DEF After
    <3> QED BY <2>2, <3>1, <3>2
  <2> QED BY <2>1, <2>2
<1>7. g = [i \in 0 .. k |-> g[i]]
  OBVIOUS
<1> HIDE DEF g, T
<1>8. After(m, k, g)
  BY <1>6, <1>7 DEF After
<1> QED BY <1>4, <1>8

LEMMA FramesIs ==
  ASSUME NEW m, NEW n \in Nat
  PROVE  \E f : /\ Frames(m, n) = f[n] /\ f[0] = m
                /\ \A i \in 1 .. n : f[i] = MixFrame(f[i - 1])
<1> DEFINE f == CHOOSE f : After(m, n, f)
<1>1. After(m, n, f)
  BY AfterExists
<1>2. Frames(m, n) = f[n]
  BY DEF Frames, After
<1> HIDE DEF f
<1>3. f[0] = m /\ \A i \in 1 .. n : f[i] = MixFrame(f[i - 1])
  BY <1>1 DEF After
<1> QED BY <1>2, <1>3

\* So far the sound x and what was heard before are those of m.
MixOK(m, x) == m \in MixRecord /\ SoundOK(m.sound, m.heard) /\ SameSound(x, m.sound)

LEMMA FramesKeep ==
  ASSUME NEW m \in MixRecord, SoundOK(m.sound, m.heard), Length(m.sound) > 0, NEW n \in Nat,
         NEW f, f[0] = m, \A i \in 1 .. n : f[i] = MixFrame(f[i - 1])
  PROVE  \A i \in 0 .. n : MixOK(f[i], m.sound)
<1> DEFINE T == {i \in 0 .. n : ~MixOK(f[i], m.sound)}
<1> SUFFICES ASSUME T # {} PROVE FALSE
  OBVIOUS
<1>1. T \in SUBSET Nat
  OBVIOUS
<1>2. PICK k \in T : \A j \in T : k <= j
  <2> HIDE DEF T
  <2> QED BY <1>1, Least
<1>3. MixOK(f[0], m.sound)
  BY DEF MixOK, SameSound
<1>4. k \in 1 .. n /\ ~MixOK(f[k], m.sound)
  BY <1>3
<1>5. MixOK(f[k - 1], m.sound)
  <2>1. k - 1 \in 0 .. n /\ k - 1 \notin T
    <3> HIDE DEF T
    <3> QED BY <1>2, <1>4
  <2> QED BY <2>1
<1> HIDE DEF T
<1>6. f[k] = MixFrame(f[k - 1])
  BY <1>4
<1> DEFINE p == f[k - 1]
<1> HIDE DEF p
<1>7. p \in MixRecord /\ SoundOK(p.sound, p.heard) /\ SameSound(m.sound, p.sound)
  BY <1>5 DEF MixOK, p
<1>8. Length(p.sound) > 0
  BY <1>7, SameSoundIs
<1>9. MixOK(MixFrame(p), m.sound)
  BY <1>7, <1>8, FrameIs, FrameKeeps DEF MixOK, SameSound
<1> QED BY <1>4, <1>6, <1>9 DEF p

LEMMA FramesOK ==
  ASSUME NEW m \in MixRecord, SoundOK(m.sound, m.heard), Length(m.sound) > 0, NEW n \in Nat
  PROVE  MixOK(Frames(m, n), m.sound)
<1>1. PICK f : /\ Frames(m, n) = f[n] /\ f[0] = m
               /\ \A i \in 1 .. n : f[i] = MixFrame(f[i - 1])
  BY FramesIs
<1>2. \A i \in 0 .. n : MixOK(f[i], m.sound)
  BY <1>1, FramesKeep
<1> QED BY <1>1, <1>2

LEMMA WholeKeeps ==
  ASSUME NEW s, SoundOK(sounds[s], heard[s]), NEW n \in Nat
  PROVE  LET m == Mixed(s, n)
         IN SoundOK(m.sound, m.heard) /\ SameSound(sounds[s], m.sound)
<1> DEFINE x == sounds[s]
           m == [sound |-> x, heard |-> heard[s], ended |-> FALSE]
<1>1. m \in MixRecord /\ x \in SoundRecord /\ Length(x) \in Nat
  BY StrideIs DEF SoundOK, MixRecord
<1>2. CASE Silent(x)
  BY <1>2 DEF Mixed, Whole, SameSound
<1>3. CASE ~Silent(x) /\ Length(x) = 0
  <2> DEFINE y == [x EXCEPT !.playing = FALSE]
  <2>1. Mixed(s, n).sound = y /\ Mixed(s, n).heard = heard[s]
    BY <1>3 DEF Mixed, Whole
  <2>2. y \in SoundRecord /\ y.position = x.position /\ ~y.playing /\ SameSound(x, y)
    BY <1>1 DEF SoundRecord, SameSound
  <2> HIDE DEF y
  <2>3. Stride(y) = Stride(x) /\ Length(y) = Length(x) /\ y.frequency \in Frequencies \cup {y.wave.step}
    BY <2>2, SameSoundIs DEF SoundOK, SameSound
  <2> QED BY <2>1, <2>2, <2>3 DEF SoundOK
<1>4. CASE ~Silent(x) /\ Length(x) # 0
  <2>1. Mixed(s, n) = Frames(m, n)
    BY <1>4 DEF Mixed, Whole
  <2>2. m.sound = x /\ m.heard = heard[s]
    OBVIOUS
  <2> HIDE DEF m
  <2>4. SoundOK(m.sound, m.heard) /\ Length(m.sound) > 0
    BY <1>1, <1>4, <2>2
  <2>5. MixOK(Frames(m, n), m.sound)
    BY <1>1, <2>4, FramesOK
  <2> QED BY <2>1, <2>2, <2>5 DEF MixOK
<1> QED BY <1>1, <1>2, <1>3, <1>4

----------------------------------------------------------------------------
(* The calls and the callback keep every sound as it should be. *)

\* A sound that a call left alone, but for what does not matter to what was heard.
LEMMA TouchedIs ==
  ASSUME NEW x, NEW h, SoundOK(x, h), NEW y \in SoundRecord, SameSound(x, y),
         y.position = x.position, ~(y.playing /\ y.paused)
  PROVE  SoundOK(y, h)
BY SameSoundIs DEF SoundOK, SameSound

LEMMA RewoundIs ==
  ASSUME NEW x, NEW h, SoundOK(x, h), NEW y \in SoundRecord, SameSound(x, y),
         y.position = Start, ~(y.playing /\ y.paused)
  PROVE  SoundOK(y, <<>>)
<1>1. Stride(y) = Stride(x) /\ Length(y) = Length(x) /\ y.frequency \in Frequencies \cup {y.wave.step}
  BY SameSoundIs DEF SoundOK, SameSound
<1>2. Stride(x) \in Nat \ {0} /\ Length(x) \in Nat
  BY StrideIs DEF SoundOK
<1>3. y.position < Length(y) + Stride(y)
  BY <1>1, <1>2 DEF Start
<1> QED BY <1>1, <1>3 DEF SoundOK

LEMMA SoundStart == SoundInit => SoundInv
BY DEF SoundInit, SoundInv

\* One sound changes, the others do not.
LEMMA OneSound ==
  ASSUME SoundInv, NEW s \in DOMAIN sounds, NEW y, NEW h,
         sounds' = [sounds EXCEPT ![s] = y],
         heard' \in {heard, [heard EXCEPT ![s] = h]}, heard' = heard => h = heard[s],
         UNCHANGED contexts, SoundOK(y, h), y.context = sounds[s].context
  PROVE  SoundInv'
<1>1. DOMAIN sounds' = DOMAIN sounds /\ DOMAIN heard' = DOMAIN sounds
  BY DEF SoundInv
<1>2. ASSUME NEW t \in DOMAIN sounds
      PROVE  SoundOK(sounds'[t], heard'[t]) /\ sounds'[t].context \in contexts'
  <2>1. CASE t = s
    <3>1. sounds'[t] = y
      BY <2>1
    <3>2. heard'[t] = h
      BY <2>1 DEF SoundInv
    <3> QED BY <3>1, <3>2, <2>1 DEF SoundInv
  <2>2. CASE t # s
    <3>1. sounds'[t] = sounds[t] /\ heard'[t] = heard[t]
      BY <2>2 DEF SoundInv
    <3> QED BY <3>1 DEF SoundInv
  <2> QED BY <2>1, <2>2
<1> QED BY <1>1, <1>2 DEF SoundInv

LEMMA RecordIs ==
  ASSUME SoundInv, NEW s \in DOMAIN sounds
  PROVE  sounds[s] \in SoundRecord /\ SoundOK(sounds[s], heard[s])
BY DEF SoundInv, SoundOK

LEMMA CallsKeep ==
  ASSUME SoundInv, Play \/ Pause \/ Stop \/ Reset \/ SetFrequency \/ SetRepeat
  PROVE  SoundInv'
<1>1. CASE Play
  <2>1. PICK s \in DOMAIN sounds :
          /\ sounds' = [sounds EXCEPT ![s].playing = TRUE, ![s].paused = FALSE]
          /\ UNCHANGED <<contexts, heard>>
    BY <1>1 DEF Play
  <2> DEFINE x == sounds[s]
             y == [x EXCEPT !.playing = TRUE, !.paused = FALSE]
  <2>2. sounds' = [sounds EXCEPT ![s] = y]
    BY <2>1
  <2>3. x \in SoundRecord /\ SoundOK(x, heard[s])
    BY RecordIs
  <2>4. y \in SoundRecord /\ SameSound(x, y) /\ y.position = x.position /\ ~y.paused
    BY <2>3 DEF SoundRecord, SameSound
  <2> HIDE DEF y
  <2>5. SoundOK(y, heard[s])
    BY <2>3, <2>4, TouchedIs
  <2> QED BY <2>1, <2>2, <2>4, <2>5, OneSound DEF SameSound
<1>2. CASE Pause
  <2>1. PICK s \in DOMAIN sounds :
          /\ sounds' = [sounds EXCEPT ![s].playing = FALSE, ![s].paused = TRUE]
          /\ UNCHANGED <<contexts, heard>>
    BY <1>2 DEF Pause
  <2> DEFINE x == sounds[s]
             y == [x EXCEPT !.playing = FALSE, !.paused = TRUE]
  <2>2. sounds' = [sounds EXCEPT ![s] = y]
    BY <2>1
  <2>3. x \in SoundRecord /\ SoundOK(x, heard[s])
    BY RecordIs
  <2>4. y \in SoundRecord /\ SameSound(x, y) /\ y.position = x.position /\ ~y.playing
    BY <2>3 DEF SoundRecord, SameSound
  <2> HIDE DEF y
  <2>5. SoundOK(y, heard[s])
    BY <2>3, <2>4, TouchedIs
  <2> QED BY <2>1, <2>2, <2>4, <2>5, OneSound DEF SameSound
<1>3. CASE Stop
  <2>1. PICK s \in DOMAIN sounds :
          /\ sounds' = [sounds EXCEPT ![s].playing = FALSE, ![s].paused = FALSE,
                                      ![s].position = Start]
          /\ heard' = [heard EXCEPT ![s] = <<>>]
          /\ UNCHANGED contexts
    BY <1>3 DEF Stop
  <2> DEFINE x == sounds[s]
             y == [x EXCEPT !.playing = FALSE, !.paused = FALSE, !.position = Start]
  <2>2. sounds' = [sounds EXCEPT ![s] = y]
    BY <2>1
  <2>3. x \in SoundRecord /\ SoundOK(x, heard[s])
    BY RecordIs
  <2>4. y \in SoundRecord /\ SameSound(x, y) /\ y.position = Start /\ ~y.playing
    BY <2>3 DEF SoundRecord, SameSound, Start
  <2> HIDE DEF y
  <2>5. SoundOK(y, <<>>)
    BY <2>3, <2>4, RewoundIs
  <2> HIDE DEF x
  <2>6. heard' = heard => heard[s] = <<>>
    BY <2>1 DEF SoundInv
  <2> QED BY <2>1, <2>2, <2>4, <2>5, <2>6, OneSound DEF SameSound, x
<1>4. CASE Reset
  <2>1. PICK s \in DOMAIN sounds :
          /\ sounds' = [sounds EXCEPT ![s].position = Start]
          /\ heard' = [heard EXCEPT ![s] = <<>>]
          /\ UNCHANGED contexts
    BY <1>4 DEF Reset
  <2> DEFINE x == sounds[s]
             y == [x EXCEPT !.position = Start]
  <2>2. sounds' = [sounds EXCEPT ![s] = y]
    BY <2>1
  <2>3. x \in SoundRecord /\ SoundOK(x, heard[s])
    BY RecordIs
  <2>4. /\ y \in SoundRecord /\ SameSound(x, y) /\ y.position = Start
        /\ y.playing = x.playing /\ y.paused = x.paused
    BY <2>3 DEF SoundRecord, SameSound, Start
  <2> HIDE DEF y
  <2>5. SoundOK(y, <<>>)
    <3>1. ~(y.playing /\ y.paused)
      BY <2>3, <2>4 DEF SoundOK
    <3> QED BY <2>3, <2>4, <3>1, RewoundIs
  <2> HIDE DEF x
  <2>6. heard' = heard => heard[s] = <<>>
    BY <2>1 DEF SoundInv
  <2> QED BY <2>1, <2>2, <2>4, <2>5, <2>6, OneSound DEF SameSound, x
<1>5. CASE SetFrequency
  <2>1. PICK s \in DOMAIN sounds, r \in Frequencies :
          sounds' = [sounds EXCEPT ![s].frequency = r] /\ UNCHANGED <<contexts, heard>>
    BY <1>5 DEF SetFrequency
  <2> DEFINE x == sounds[s]
             y == [x EXCEPT !.frequency = r]
  <2>2. sounds' = [sounds EXCEPT ![s] = y]
    BY <2>1
  <2>3. x \in SoundRecord /\ SoundOK(x, heard[s])
    BY RecordIs
  <2>4. /\ y \in SoundRecord /\ y.frequency = r /\ y.context = x.context
        /\ y.wave = x.wave /\ y.position = x.position /\ y.playing = x.playing /\ y.paused = x.paused
    BY <2>3, SoundAssumption DEF SoundRecord
  <2> HIDE DEF y
  <2>5. SoundOK(y, heard[s])
    <3>1. Length(y) = Length(x) /\ Stride(y) = Stride(x)
      BY <2>4 DEF Length, Stride
    <3> QED BY <2>3, <2>4, <3>1 DEF SoundOK
  <2> QED BY <2>1, <2>2, <2>4, <2>5, OneSound
<1>6. CASE SetRepeat
  <2>1. PICK s \in DOMAIN sounds, r \in BOOLEAN :
          sounds' = [sounds EXCEPT ![s].repeat = r] /\ UNCHANGED <<contexts, heard>>
    BY <1>6 DEF SetRepeat
  <2> DEFINE x == sounds[s]
             y == [x EXCEPT !.repeat = r]
  <2>2. sounds' = [sounds EXCEPT ![s] = y]
    BY <2>1
  <2>3. x \in SoundRecord /\ SoundOK(x, heard[s])
    BY RecordIs
  <2>4. /\ y \in SoundRecord /\ y.frequency = x.frequency /\ y.context = x.context
        /\ y.wave = x.wave /\ y.position = x.position /\ y.playing = x.playing /\ y.paused = x.paused
    BY <2>3 DEF SoundRecord
  <2> HIDE DEF y
  <2>5. SoundOK(y, heard[s])
    <3>1. Length(y) = Length(x) /\ Stride(y) = Stride(x)
      BY <2>4 DEF Length, Stride
    <3> QED BY <2>3, <2>4, <3>1 DEF SoundOK
  <2> QED BY <2>1, <2>2, <2>4, <2>5, OneSound
<1> QED BY <1>1, <1>2, <1>3, <1>4, <1>5, <1>6

\* Closing a sound or its context leaves the other sounds as they were.
LEMMA FewerSounds ==
  ASSUME SoundInv, NEW S, sounds' = Without(sounds, S), heard' = Without(heard, S),
         contexts' \subseteq contexts,
         \A t \in DOMAIN sounds \ S : sounds[t].context \in contexts'
  PROVE  SoundInv'
<1>1. DOMAIN sounds' = DOMAIN sounds \ S /\ DOMAIN heard' = DOMAIN sounds \ S
  BY DEF Without, Restrict, SoundInv
<1>2. \A t \in DOMAIN sounds' : sounds'[t] = sounds[t] /\ heard'[t] = heard[t]
  BY DEF Without, Restrict, SoundInv
<1> QED BY <1>1, <1>2 DEF SoundInv

LEMMA OpeningKeeps ==
  ASSUME SoundInv, CreateContext \/ DestroyContext \/ OpenSound \/ CloseSound
  PROVE  SoundInv'
<1>1. CASE CreateContext
  BY <1>1 DEF CreateContext, SoundInv
<1>2. CASE DestroyContext
  <2>1. PICK c \in contexts \ {NoPointer} :
          LET owned == {s \in DOMAIN sounds : sounds[s].context = c}
          IN /\ contexts' = contexts \ {c}
             /\ sounds' = Without(sounds, owned) /\ heard' = Without(heard, owned)
    BY <1>2 DEF DestroyContext
  <2> DEFINE owned == {s \in DOMAIN sounds : sounds[s].context = c}
  <2>2. \A t \in DOMAIN sounds \ owned : sounds[t].context \in contexts'
    BY <2>1 DEF SoundInv
  <2>3. sounds' = Without(sounds, owned) /\ heard' = Without(heard, owned)
    BY <2>1
  <2>4. contexts' \subseteq contexts
    BY <2>1
  <2> HIDE DEF owned
  <2> QED BY <2>2, <2>3, <2>4, FewerSounds
<1>3. CASE OpenSound
  <2>1. PICK c \in contexts \ {NoPointer}, p \in Pointers \cup {NoPointer}, w \in Waves :
          /\ Unused(p) /\ UNCHANGED contexts
          /\ sounds' = Added(sounds, p,
               [context |-> c, wave |-> w, frequency |-> w.step, repeat |-> FALSE,
                playing |-> FALSE, paused |-> FALSE, position |-> Start])
          /\ heard' = Added(heard, p, <<>>)
    BY <1>3 DEF OpenSound
  <2> DEFINE x == [context |-> c, wave |-> w, frequency |-> w.step, repeat |-> FALSE,
                   playing |-> FALSE, paused |-> FALSE, position |-> Start]
  <2>2. DOMAIN sounds' = DOMAIN sounds \cup {p} /\ DOMAIN heard' = DOMAIN sounds \cup {p}
    BY <2>1 DEF Added, SoundInv
  <2>3. sounds'[p] = x /\ heard'[p] = <<>>
    BY <2>1 DEF Added
  <2>4. \A t \in DOMAIN sounds : t # p /\ sounds'[t] = sounds[t] /\ heard'[t] = heard[t]
    BY <2>1 DEF Added, Unused, SoundInv
  <2>5. c \in Pointers \cup {NoPointer} /\ w.step \in Nat \ {0}
    BY SoundAssumption DEF SoundInv
  <2>6. x \in SoundRecord /\ x.frequency = x.wave.step
    BY <2>5 DEF SoundRecord, Start
  <2>7. x.position = Start /\ ~x.playing /\ x.context = c
    OBVIOUS
  <2> HIDE DEF x
  <2>8. Length(x) \in Nat /\ Stride(x) \in Nat \ {0}
    BY <2>6, StrideIs
  <2>9. SoundOK(x, <<>>)
    BY <2>6, <2>7, <2>8 DEF SoundOK, Start
  <2> QED BY <2>1, <2>2, <2>3, <2>4, <2>7, <2>9 DEF SoundInv
<1>4. CASE CloseSound
  <2>1. PICK s \in DOMAIN sounds \ {NoPointer} :
          /\ sounds' = Without(sounds, {s}) /\ heard' = Without(heard, {s})
          /\ UNCHANGED contexts
    BY <1>4 DEF CloseSound
  <2> QED BY <2>1, FewerSounds DEF SoundInv
<1> QED BY <1>1, <1>2, <1>3, <1>4

LEMMA MixKeeps ==
  ASSUME SoundInv, Mix
  PROVE  SoundInv'
<1>1. PICK n \in Buffers :
        /\ sounds' = [s \in DOMAIN sounds |-> Mixed(s, n).sound]
        /\ heard' = [s \in DOMAIN sounds |-> Mixed(s, n).heard]
        /\ UNCHANGED contexts
  BY DEF Mix
<1>2. DOMAIN sounds' = DOMAIN sounds /\ DOMAIN heard' = DOMAIN sounds
  BY <1>1
<1>3. ASSUME NEW s \in DOMAIN sounds
      PROVE  SoundOK(sounds'[s], heard'[s]) /\ sounds'[s].context \in contexts'
  <2>1. sounds'[s] = Mixed(s, n).sound /\ heard'[s] = Mixed(s, n).heard
    BY <1>1
  <2>2. SoundOK(sounds[s], heard[s]) /\ sounds[s].context \in contexts /\ n \in Nat
    BY SoundAssumption DEF SoundInv
  <2>3. SoundOK(Mixed(s, n).sound, Mixed(s, n).heard) /\ SameSound(sounds[s], Mixed(s, n).sound)
    BY <2>2, WholeKeeps
  <2> QED BY <1>1, <2>1, <2>2, <2>3 DEF SameSound
<1> QED BY <1>1, <1>2, <1>3 DEF SoundInv

\* What is heard of every sound, for any waves, frequencies and sizes of buffers.
THEOREM SoundsHold == SoundSpec => []SoundInv
<1>1. SoundInv /\ [SoundNext]_soundVars => SoundInv'
  <2> SUFFICES ASSUME SoundInv, [SoundNext]_soundVars PROVE SoundInv'
    OBVIOUS
  <2>1. CASE UNCHANGED soundVars
    BY <2>1 DEF SoundInv, soundVars
  <2>2. CASE SoundNext
    BY <2>2, CallsKeep, OpeningKeeps, MixKeeps DEF SoundNext
  <2> QED BY <2>1, <2>2
<1> QED BY <1>1, SoundStart, PTL DEF SoundSpec

\* However the guest pauses, plays and changes the speed, and however large the buffers
\* of the stream are, a sound is heard from its beginning without a repetition and
\* without a gap, up to its end if it ends by itself (mix_sound_into).
THEOREM SoundsAreHeardThrough == SoundSpec => []HeardThrough
<1>1. SoundInv => HeardThrough
  <2> SUFFICES ASSUME SoundInv, NEW s \in DOMAIN sounds
               PROVE  /\ sounds[s].context \in contexts
                      /\ sounds[s].position \in 0 .. Length(sounds[s]) + MaxStep(s)
                      /\ ~(sounds[s].playing /\ sounds[s].paused)
                      /\ heard[s] # <<>> =>
                           /\ heard[s][1] < MaxStep(s)
                           /\ \A i \in 2 .. Len(heard[s]) :
                                heard[s][i] - heard[s][i - 1] \in 1 .. MaxStep(s)
                           /\ sounds[s].position = Start =>
                                Last(heard[s]) + MaxStep(s) >= Length(sounds[s])
    BY DEF HeardThrough, SoundTypeOK, SoundInv
  <2> DEFINE x == sounds[s]
             h == heard[s]
  <2>1. SoundOK(x, h) /\ x.context \in contexts /\ MaxStep(s) = Stride(x)
    BY DEF SoundInv, MaxStep, Stride
  <2>2. x.position \in Nat /\ Length(x) \in Nat /\ Stride(x) \in Nat
    BY <2>1, StrideIs DEF SoundOK, SoundRecord
  <2>3. Last(h) = h[Len(h)]
    BY DEF Last
  <2> HIDE DEF x, h
  <2>4. x.position \in 0 .. Length(x) + Stride(x)
    BY <2>1, <2>2 DEF SoundOK
  <2>5. ~(x.playing /\ x.paused)
    BY <2>1 DEF SoundOK
  <2>6. h # <<>> => /\ h[1] < Stride(x)
                    /\ \A i \in 2 .. Len(h) : h[i] - h[i - 1] \in 1 .. Stride(x)
                    /\ x.position = Start => Last(h) + Stride(x) >= Length(x)
    BY <2>1, <2>3 DEF SoundOK
  <2> QED BY <2>1, <2>4, <2>5, <2>6 DEF x, h
<1> QED BY <1>1, SoundsHold, PTL

----------------------------------------------------------------------------
(* Time. *)

\* Where the sound x is after i frames: m is what the loop carries then.
InTime(x, i, m) ==
  IF x.repeat
  THEN /\ ~m.ended
       /\ \E k \in Nat : x.position + i * Step(x) = m.sound.position + k * Length(x)
       /\ i > 0 => m.sound.position - Step(x) \in 0 .. Length(x) - 1
  ELSE IF i = 0 \/ x.position + (i - 1) * Step(x) < Length(x)
       THEN ~m.ended /\ m.sound.playing /\ m.sound.position = x.position + i * Step(x)
       ELSE m.ended /\ ~m.sound.playing /\ m.sound.position = Start

LEMMA NextInTime ==
  ASSUME NEW x \in SoundRecord, x.frequency \in Frequencies \cup {x.wave.step}, Length(x) > 0,
         NEW m, MixOK(m, x), NEW i \in Nat, InTime(x, i, m)
  PROVE  InTime(x, i + 1, MixFrame(m))
<1> DEFINE y == MixFrame(m)
           L == Length(x)
           d == Step(x)
           from == x.position
           p == m.sound.position
<1>1. from \in Nat /\ p \in Nat /\ L \in Nat \ {0} /\ d \in Nat \ {0}
      /\ x.repeat \in BOOLEAN /\ m.ended \in BOOLEAN
  BY StrideIs DEF SoundRecord, MixOK, MixRecord
<1>2. Length(m.sound) = L /\ Step(m.sound) = d /\ m.sound.repeat = x.repeat
      /\ m \in MixRecord /\ SoundOK(m.sound, m.heard)
  BY SameSoundIs DEF MixOK, SameSound
<1>3. /\ m.ended => y = m
      /\ ~m.ended /\ p < L =>
           y.sound.position = p + d /\ ~y.ended /\ y.sound.playing = m.sound.playing
      /\ ~m.ended /\ p >= L /\ x.repeat => y.sound.position = (p % L) + d /\ ~y.ended
      /\ ~m.ended /\ p >= L /\ ~x.repeat =>
           y.sound.position = Start /\ y.ended /\ ~y.sound.playing
  BY <1>1, <1>2, FrameIs
<1> HIDE DEF y, L, d, from, p
<1>4. CASE x.repeat
  <2>1. PICK k \in Nat : from + i * d = p + k * L
    BY <1>4 DEF InTime, from, d, p, L
  <2>2. ~m.ended
    BY <1>4 DEF InTime
  <2>3. i * d \in Nat /\ k * L \in Nat /\ (i + 1) * d = i * d + d
    BY <1>1
  <2>4. CASE p < L
    <3>1. y.sound.position = p + d /\ ~y.ended
      BY <1>3, <2>2, <2>4
    <3>2. from + (i + 1) * d = y.sound.position + k * L
      BY <2>1, <2>3, <3>1, <1>1
    <3>3. y.sound.position - d \in 0 .. L - 1
      BY <3>1, <2>4, <1>1
    <3> QED BY <1>4, <3>1, <3>2, <3>3 DEF InTime, from, d, L, y
  <2>5. CASE p >= L
    <3>1. y.sound.position = (p % L) + d /\ ~y.ended
      BY <1>3, <1>4, <2>2, <2>5
    <3>2. PICK j \in Nat : p = j * L + (p % L)
      BY <1>1, Remainder
    <3>3. p % L \in 0 .. L - 1
      BY <1>1, Remainder
    <3>4. j * L \in Nat /\ (j + k) * L = j * L + k * L /\ j + k \in Nat
      BY <1>1
    <3> DEFINE a == p % L
    <3> HIDE DEF a
    <3>5. y.sound.position = a + d /\ p = j * L + a /\ a \in 0 .. L - 1
      BY <3>1, <3>2, <3>3 DEF a
    <3>6. from + (i + 1) * d = y.sound.position + (j + k) * L
      BY <2>1, <2>3, <3>4, <3>5, <1>1
    <3>7. y.sound.position - d \in 0 .. L - 1
      BY <3>5, <1>1
    <3> QED BY <1>4, <3>1, <3>4, <3>6, <3>7 DEF InTime, from, d, L, y
  <2> QED BY <2>4, <2>5, <1>1
<1>5. CASE ~x.repeat
  <2>1. i * d \in Nat /\ (i + 1) * d = i * d + d /\ (i + 1) - 1 = i /\ i + 1 # 0
    BY <1>1
  <2>2. i > 0 => (i - 1) * d = i * d - d
    BY <1>1
  <2>3. CASE i = 0 \/ from + (i - 1) * d < L
    <3>1. ~m.ended /\ m.sound.playing /\ p = from + i * d
      BY <1>5, <2>3 DEF InTime, from, d, p, L
    <3>2. CASE p < L
      <4>1. ~y.ended /\ y.sound.playing /\ y.sound.position = from + (i + 1) * d
        <5>1. ~y.ended /\ y.sound.playing /\ y.sound.position = p + d
          BY <1>3, <3>1, <3>2, Zenon
        <5>2. p + d = from + (i + 1) * d
          BY <1>1, <2>1, <3>1
        <5> QED BY <5>1, <5>2
      <4> QED BY <1>5, <2>1, <3>1, <3>2, <4>1 DEF InTime, from, d, L, y
    <3>3. CASE p >= L
      <4>1. y.ended /\ ~y.sound.playing /\ y.sound.position = Start
        BY <1>3, <1>5, <3>1, <3>3
      <4>2. ~(from + i * d < L)
        BY <1>1, <3>1, <3>3
      <4> QED BY <1>5, <2>1, <4>1, <4>2 DEF InTime, from, d, L, y
    <3> QED BY <3>2, <3>3, <1>1
  <2>4. CASE ~(i = 0 \/ from + (i - 1) * d < L)
    <3>1. m.ended /\ ~m.sound.playing /\ m.sound.position = Start
      BY <1>5, <2>4 DEF InTime, from, d, L
    <3>2. y = m
      BY <1>3, <3>1
    <3>3. ~(from + i * d < L)
      BY <1>1, <2>1, <2>2, <2>4
    <3> QED BY <1>5, <2>1, <3>1, <3>2, <3>3 DEF InTime, from, d, L, y
  <2> QED BY <2>3, <2>4
<1> QED BY <1>1, <1>4, <1>5

LEMMA FramesInTime ==
  ASSUME NEW m \in MixRecord, SoundOK(m.sound, m.heard), Length(m.sound) > 0, NEW n \in Nat,
         ~m.ended, m.sound.playing
  PROVE  InTime(m.sound, n, Frames(m, n))
<1>1. PICK f : /\ Frames(m, n) = f[n] /\ f[0] = m
               /\ \A i \in 1 .. n : f[i] = MixFrame(f[i - 1])
  BY FramesIs
<1>2. \A i \in 0 .. n : MixOK(f[i], m.sound)
  BY <1>1, FramesKeep
<1> DEFINE x == m.sound
           T == {i \in 0 .. n : ~InTime(x, i, f[i])}
<1>3. x \in SoundRecord /\ x.frequency \in Frequencies \cup {x.wave.step}
      /\ x.position \in Nat /\ Length(x) \in Nat /\ Step(x) \in Nat
  BY StrideIs DEF SoundOK, SoundRecord
<1>4. InTime(x, 0, m)
  <2> DEFINE d == Step(x)
             L == Length(x)
             p == x.position
  <2>1. p + 0 * d = p /\ p + 0 * d = p + 0 * L /\ 0 \in Nat
    BY <1>3
  <2> HIDE DEF d, L, p
  <2> QED BY <2>1 DEF InTime, d, L, p
<1>5. T = {}
  <2> SUFFICES ASSUME T # {} PROVE FALSE
    OBVIOUS
  <2>1. T \in SUBSET Nat
    OBVIOUS
  <2> HIDE DEF T
  <2>2. PICK k \in T : \A j \in T : k <= j
    BY <2>1, Least
  <2>3. k \in 0 .. n /\ ~InTime(x, k, f[k])
    BY DEF T
  <2>4. k # 0
    BY <2>3, <1>1, <1>4
  <2>5. k - 1 \in 0 .. n /\ k - 1 \notin T /\ k - 1 \in Nat /\ (k - 1) + 1 = k /\ k \in 1 .. n
    BY <2>2, <2>3, <2>4
  <2>6. InTime(x, k - 1, f[k - 1])
    BY <2>5 DEF T
  <2>7. MixOK(f[k - 1], x) /\ f[k] = MixFrame(f[k - 1])
    BY <2>5, <1>1, <1>2
  <2> DEFINE i == k - 1
             q == f[k - 1]
  <2>8. MixOK(q, x) /\ InTime(x, i, q) /\ i \in Nat /\ i + 1 = k /\ f[k] = MixFrame(q)
    BY <2>5, <2>6, <2>7
  <2> HIDE DEF i, q, x
  <2>9. InTime(x, i + 1, MixFrame(q))
    BY <2>8, <1>3, NextInTime DEF x
  <2> QED BY <2>3, <2>8, <2>9
<1>6. n \in 0 .. n /\ n \notin T
  BY <1>5
<1> HIDE DEF x
<1>7. InTime(x, n, f[n])
  BY <1>6
<1> QED BY <1>1, <1>7 DEF x

\* A buffer of n frames takes every sound that plays n steps further, over the end and
\* back to its beginning if it repeats (mix_sound_into, playback_step).
THEOREM SoundsKeepTime == SoundSpec => TimeIsKept
<1>1. SoundInv /\ [SoundNext]_soundVars => [KeepsTime]_soundVars
  <2> SUFFICES ASSUME SoundInv, SoundNext, NEW s \in DOMAIN sounds,
                      mixed' > 0, ~Silent(sounds[s]), sounds[s].wave.frames > 0
               PROVE  LET from == sounds[s].position
                          to   == sounds'[s].position
                          d    == Step(sounds[s])
                          len  == Length(sounds[s])
                      IN IF sounds[s].repeat
                         THEN (from + (mixed' * d) - to) % len = 0 /\ to - d \in 0 .. len - 1
                         ELSE IF from + ((mixed' - 1) * d) < len
                              THEN to = from + (mixed' * d) /\ sounds'[s].playing
                              ELSE to = Start /\ ~sounds'[s].playing
    BY DEF KeepsTime
  <2>1. Mix
    <3>1. mixed' # 0
      OBVIOUS
    <3>2. CreateContext \/ DestroyContext \/ OpenSound \/ CloseSound => mixed' = 0
      BY Zenon DEF CreateContext, DestroyContext, OpenSound, CloseSound
    <3>3. Play \/ Pause \/ Stop \/ Reset \/ SetFrequency \/ SetRepeat => mixed' = 0
      BY Zenon DEF Play, Pause, Stop, Reset, SetFrequency, SetRepeat
    <3> QED BY <3>1, <3>2, <3>3 DEF SoundNext
  <2>2. PICK n \in Buffers : sounds' = [t \in DOMAIN sounds |-> Mixed(t, n).sound] /\ mixed' = n
    BY <2>1 DEF Mix
  <2> DEFINE x == sounds[s]
             m == [sound |-> x, heard |-> heard[s], ended |-> FALSE]
             to == sounds'[s].position
             from == x.position
             d == Step(x)
             len == Length(x)
  <2>3. n \in Nat \ {0}
    BY <2>2, SoundAssumption
  <2>4. SoundOK(x, heard[s]) /\ x \in SoundRecord /\ x.wave.frames \in Nat
    BY SoundAssumption DEF SoundInv, SoundOK, SoundRecord
  <2>5. len \in Nat \ {0} /\ d \in Nat \ {0} /\ from \in Nat /\ x.playing
        /\ x.repeat \in BOOLEAN
    <3>1. len \in Nat \ {0}
      BY <2>4 DEF Length, Quarters
    <3>2. d \in Nat \ {0} /\ from \in Nat
      BY <2>4, StrideIs DEF SoundOK, SoundRecord
    <3>3. x.playing
      BY DEF Silent
    <3>4. x.repeat \in BOOLEAN
      BY <2>4 DEF SoundRecord
    <3> QED BY <3>1, <3>2, <3>3, <3>4
  <2>6. sounds'[s] = Frames(m, n).sound
    <3>1. Mixed(s, n) = Frames(m, n)
      BY <2>5 DEF Mixed, Whole
    <3> QED BY <3>1, <2>2
  <2>7. m \in MixRecord /\ ~m.ended /\ m.sound = x /\ m.heard = heard[s]
    BY <2>4 DEF MixRecord, SoundOK
  <2> HIDE DEF m
  <2>8. InTime(x, n, Frames(m, n))
    <3>1. m \in MixRecord /\ SoundOK(m.sound, m.heard) /\ Length(m.sound) > 0 /\ n \in Nat
          /\ ~m.ended /\ m.sound.playing
      BY <2>3, <2>4, <2>5, <2>7
    <3>2. InTime(m.sound, n, Frames(m, n))
      BY <3>1, FramesInTime
    <3> QED BY <3>2, <2>7
  <2>9. MixOK(Frames(m, n), m.sound)
    BY <2>3, <2>4, <2>5, <2>7, FramesOK
  <2>10. to \in Nat
    BY <2>6, <2>9 DEF MixOK, MixRecord, SoundRecord
  <2> HIDE DEF x, to, from, d, len
  <2>11. CASE x.repeat
    <3>1. PICK k \in Nat : from + n * d = to + k * len
      BY <2>6, <2>8, <2>11 DEF InTime, from, to, d, len
    <3>2. to - d \in 0 .. len - 1
      BY <2>3, <2>6, <2>8, <2>11 DEF InTime, to, d, len
    <3>3. n * d \in Nat /\ k * len \in Nat
      BY <2>3, <2>5
    <3>4. from + (n * d) - to = k * len
      BY <3>1, <3>3, <2>5, <2>10
    <3>5. (k * len) % len = 0
      BY <2>5, NoRemainder
    <3> QED BY <2>2, <2>11, <3>2, <3>4, <3>5 DEF x, from, to, d, len
  <2>12. CASE ~x.repeat /\ from + ((n - 1) * d) < len
    <3>1. to = from + n * d /\ sounds'[s].playing
      BY <2>3, <2>6, <2>8, <2>12 DEF InTime, from, to, d, len
    <3> QED BY <2>2, <2>12, <3>1 DEF x, from, to, d, len
  <2>13. CASE ~x.repeat /\ ~(from + ((n - 1) * d) < len)
    <3>1. to = Start /\ ~sounds'[s].playing
      BY <2>3, <2>6, <2>8, <2>13 DEF InTime, from, to, d, len
    <3> QED BY <2>2, <2>13, <3>1 DEF x, from, to, d, len
  <2> QED BY <2>11, <2>12, <2>13, <2>5
<1> QED BY <1>1, SoundsHold, PTL DEF SoundSpec, TimeIsKept

----------------------------------------------------------------------------
(* Files and streambufs. *)

OpenFile ==
  [path : Paths, read : BOOLEAN, write : BOOLEAN, append : BOOLEAN, eof : BOOLEAN,
   error : BOOLEAN, pos : Nat, seen : Nat]
StreamBuf ==
  [handle : Nat, area : Seq(Nat), r : Nat, w : Nat, at : Int, alone : BOOLEAN]
ReaderOf == [buf : StreamBuf, file : OpenFile, open : BOOLEAN, out : Seq(Nat)]

\* All that is in the area, read or not, is the file before its position, and the guest
\* stands where the unread part begins.
MirrorsOn(d, buf, file) ==
  buf.alone =>
    /\ buf.r <= buf.w /\ buf.w <= file.pos /\ buf.at = file.pos - (buf.w - buf.r)
    /\ buf.w > 0 => file.pos <= Len(d[file.path])
    /\ \A i \in 1 .. buf.w : buf.area[i] = d[file.path][file.pos - buf.w + i]
Mirrors(buf, file) == MirrorsOn(disk, buf, file)

EndIsEnd(file) == file.eof => file.pos >= file.seen

ReaderOK(x) ==
  /\ x \in ReaderOf /\ x.buf.w <= Len(x.buf.area)
  /\ EndIsEnd(x.file) /\ (x.open => Mirrors(x.buf, x.file))

\* What reading leaves as it is.
SameStream(x, y) ==
  /\ y.buf.handle = x.buf.handle /\ y.buf.alone = x.buf.alone
  /\ y.open = x.open /\ y.file.path = x.file.path

DiskOK == disk \in [Paths -> Seq(Nat)]

BufOK(b) ==
  /\ bufs[b].handle <= handles /\ bufs[b].w <= Len(bufs[b].area)
  /\ IsOpen(bufs[b].handle) => Mirrors(bufs[b], FileOf(b))

StreamInv ==
  /\ DiskOK /\ handles \in Nat
  /\ DOMAIN files \subseteq 1 .. handles
  /\ \A h \in DOMAIN files : files[h] \in OpenFile /\ EndIsEnd(files[h])
  /\ bufs \in [Bufs -> StreamBuf]
  /\ \A b \in Bufs : BufOK(b)

LEMMA CutAt ==
  ASSUME NEW q \in Seq(Nat), NEW a \in Nat, NEW b \in Nat, b <= Len(q)
  PROVE  /\ SubSeq(q, a + 1, b) \in Seq(Nat)
         /\ Len(SubSeq(q, a + 1, b)) = IF a < b THEN b - a ELSE 0
         /\ \A i \in 1 .. b - a : SubSeq(q, a + 1, b)[i] = q[a + i] /\ q[a + i] \in Nat
<1> DEFINE m == a + 1
<1>1. Len(q) \in Nat /\ \A i \in 1 .. Len(q) : q[i] \in Nat
  BY LenProperties, ElementOfSeq
<1>2. m \in Int /\ b \in Int /\ \A i \in m .. b : q[i] \in Nat
  BY <1>1
<1> HIDE DEF m
<1>3. /\ SubSeq(q, m, b) \in Seq(Nat)
      /\ Len(SubSeq(q, m, b)) = IF m <= b THEN b - m + 1 ELSE 0
      /\ \A i \in 1 .. b - m + 1 : SubSeq(q, m, b)[i] = q[m + i - 1]
  BY <1>2, SubSeqProperties
<1>4. (m <= b <=> a < b) /\ b - m + 1 = b - a /\ \A i \in 1 .. b - a : m + i - 1 = a + i /\ a + i \in m .. b
  BY DEF m
<1>5. \A i \in 1 .. b - a : SubSeq(q, m, b)[i] = q[a + i] /\ q[a + i] \in Nat
  BY <1>2, <1>3, <1>4
<1> QED BY <1>3, <1>4, <1>5 DEF m

LEMMA GotIs ==
  ASSUME DiskOK, NEW f \in OpenFile, NEW n \in Nat
  PROVE  /\ Got(f, n) \in 0 .. n
         /\ Got(f, n) > 0 => f.pos + Got(f, n) <= Len(disk[f.path])
         /\ f.read /\ Got(f, n) < n => f.pos + Got(f, n) >= Len(disk[f.path])
         /\ ~f.read => Got(f, n) = 0
         /\ disk[f.path] \in Seq(Nat) /\ Len(disk[f.path]) \in Nat
         /\ \A i \in 1 .. Got(f, n) : /\ ReadBytes(f, n)[i] = disk[f.path][f.pos + i]
                                      /\ ReadBytes(f, n)[i] \in Nat
<1> DEFINE d == disk[f.path]
           g == Got(f, n)
<1>1. d \in Seq(Nat) /\ Len(d) \in Nat
  BY LenProperties DEF DiskOK, OpenFile
<1>2. f.pos \in Nat /\ f.read \in BOOLEAN
  BY DEF OpenFile
<1>3. /\ g \in 0 .. n /\ (g > 0 => f.pos + g <= Len(d))
      /\ (f.read /\ g < n => f.pos + g >= Len(d)) /\ (~f.read => g = 0)
  <2> DEFINE l == Bigger(0, Len(d) - f.pos)
  <2>1. l \in Nat /\ (l > 0 => f.pos + l = Len(d)) /\ f.pos + l >= Len(d)
    BY <1>1, <1>2 DEF Bigger
  <2>2. g = IF f.read THEN Smaller(n, l) ELSE 0
    BY DEF Got, Left
  <2> HIDE DEF l, g, d
  <2>3. /\ Smaller(n, l) \in 0 .. n
        /\ Smaller(n, l) > 0 => f.pos + Smaller(n, l) <= Len(d)
        /\ Smaller(n, l) < n => f.pos + Smaller(n, l) >= Len(d)
    BY <1>1, <1>2, <2>1 DEF Smaller
  <2>4. 0 \in 0 .. n /\ ~(0 > 0)
    OBVIOUS
  <2> QED BY <1>2, <2>2, <2>3, <2>4, Zenon
<1> HIDE DEF g, d
<1>4. ASSUME NEW i \in 1 .. g
      PROVE SubSeq(d, f.pos + 1, f.pos + g)[i] = d[f.pos + i] /\ d[f.pos + i] \in Nat
  <2> DEFINE a == f.pos
             b == f.pos + g
  <2>1. a \in Nat /\ b \in Nat /\ b <= Len(d) /\ i \in 1 .. b - a
    BY <1>1, <1>2, <1>3
  <2> HIDE DEF a, b
  <2>2. SubSeq(d, a + 1, b)[i] = d[a + i] /\ d[a + i] \in Nat
    BY <1>1, <2>1, CutAt
  <2> QED BY <2>2 DEF a, b
<1> QED BY <1>1, <1>3, <1>4 DEF ReadBytes, g, d

LEMMA AfterReadIs ==
  ASSUME DiskOK, NEW f \in OpenFile, NEW n \in Nat, EndIsEnd(f)
  PROVE  /\ AfterRead(f, n) \in OpenFile /\ EndIsEnd(AfterRead(f, n))
         /\ AfterRead(f, n).path = f.path /\ AfterRead(f, n).pos = f.pos + Got(f, n)
<1>1. Got(f, n) \in Nat /\ Len(disk[f.path]) \in Nat
  BY GotIs
<1>2. CASE ~f.read
  <2>1. AfterRead(f, n) = [f EXCEPT !.error = TRUE]
    BY <1>2 DEF AfterRead
  <2>2. Got(f, n) = 0 /\ f.pos \in Nat
    BY <1>2, GotIs DEF OpenFile
  <2>3. AfterRead(f, n) \in OpenFile
    BY <2>1 DEF OpenFile
  <2>4. /\ AfterRead(f, n).path = f.path /\ AfterRead(f, n).pos = f.pos
        /\ AfterRead(f, n).eof = f.eof /\ AfterRead(f, n).seen = f.seen
    BY <2>1 DEF OpenFile
  <2> QED BY <2>2, <2>3, <2>4 DEF EndIsEnd
<1>3. CASE f.read
  <2> DEFINE g == Got(f, n)
             err == IF g > 0 THEN FALSE ELSE f.error
             p == f.pos + g
             e == g < n
             l == Len(disk[f.path])
  <2>1. AfterRead(f, n) = [f EXCEPT !.pos = p, !.eof = e, !.seen = l, !.error = err]
    BY <1>3 DEF AfterRead
  <2>2. p \in Nat /\ e \in BOOLEAN /\ l \in Nat /\ err \in BOOLEAN
    <3>1. p \in Nat /\ l \in Nat
      BY <1>1 DEF OpenFile
    <3>2. err \in BOOLEAN
      BY DEF OpenFile
    <3>3. e \in BOOLEAN
      OBVIOUS
    <3> HIDE DEF p, e, l, err
    <3> QED BY <3>1, <3>2, <3>3
  <2>3. e => p >= l
    BY <1>3, GotIs
  <2> HIDE DEF g, err, p, e, l
  <2>5. AfterRead(f, n) \in OpenFile
    BY <2>1, <2>2 DEF OpenFile
  <2>4. /\ AfterRead(f, n).path = f.path /\ AfterRead(f, n).pos = p /\ AfterRead(f, n).eof = e /\ AfterRead(f, n).seen = l
    BY <2>1, <2>2 DEF OpenFile
  <2> QED BY <2>3, <2>4, <2>5 DEF EndIsEnd, p, g
<1> QED BY <1>2, <1>3 DEF OpenFile

LEMMA ReaderIs ==
  ASSUME NEW x \in ReaderOf, NEW b, NEW f, NEW o
  PROVE  /\ [x EXCEPT !.buf = b, !.file = f] = [buf |-> b, file |-> f, open |-> x.open, out |-> x.out]
         /\ [x EXCEPT !.buf = b, !.out = o] = [buf |-> b, file |-> x.file, open |-> x.open, out |-> o]
         /\ [x EXCEPT !.buf = b] = [buf |-> b, file |-> x.file, open |-> x.open, out |-> x.out]
         /\ [x EXCEPT !.out = o] = [buf |-> x.buf, file |-> x.file, open |-> x.open, out |-> o]
<1>1. x = [buf |-> x.buf, file |-> x.file, open |-> x.open, out |-> x.out]
  BY DEF ReaderOf
<1> DEFINE y == [buf |-> b, file |-> x.file, open |-> x.open, out |-> x.out]
<1>4. [x EXCEPT !.buf = b] = y
  BY <1>1
<1>2. [x EXCEPT !.buf = b, !.file = f] = [buf |-> b, file |-> f, open |-> x.open, out |-> x.out]
  <2>1. [x EXCEPT !.buf = b, !.file = f] = [y EXCEPT !.file = f]
    BY <1>4, Zenon
  <2>2. [y EXCEPT !.file = f] = [buf |-> b, file |-> f, open |-> x.open, out |-> x.out]
    OBVIOUS
  <2> QED BY <2>1, <2>2
<1>3. [x EXCEPT !.buf = b, !.out = o] = [buf |-> b, file |-> x.file, open |-> x.open, out |-> o]
  <2>1. [x EXCEPT !.buf = b, !.out = o] = [y EXCEPT !.out = o]
    BY <1>4, Zenon
  <2>2. [y EXCEPT !.out = o] = [buf |-> b, file |-> x.file, open |-> x.open, out |-> o]
    OBVIOUS
  <2> QED BY <2>1, <2>2
<1>5. [x EXCEPT !.out = o] = [buf |-> x.buf, file |-> x.file, open |-> x.open, out |-> o]
  BY <1>1
<1> QED BY <1>2, <1>3, <1>4, <1>5

\* Filling the area.  A guest that has read all of it stands at the file's position.
LEMMA RefillIs ==
  ASSUME DiskOK, NEW x \in ReaderOf, x.buf.w <= Len(x.buf.area), EndIsEnd(x.file),
         x.buf.handle = Null /\ x.open => Mirrors(x.buf, x.file),
         x.open /\ x.buf.alone => x.buf.at = x.file.pos
  PROVE  ReaderOK(Refill(x)) /\ SameStream(x, Refill(x)) /\ Refill(x).out = x.out
<1> DEFINE area == IF Len(x.buf.area) = 0 THEN Fill(AreaSize) ELSE x.buf.area
           k == Len(area)
           n == IF x.open THEN Got(x.file, k) ELSE 0
           filled == [i \in DOMAIN area |-> IF i <= n THEN ReadBytes(x.file, k)[i] ELSE area[i]]
           file == IF x.open THEN AfterRead(x.file, k) ELSE x.file
           y == [x EXCEPT !.buf = [x.buf EXCEPT !.area = filled, !.r = 0, !.w = n], !.file = file]
<1>1. x.buf \in StreamBuf /\ x.file \in OpenFile /\ x.open \in BOOLEAN /\ x.out \in Seq(Nat)
  BY DEF ReaderOf
<1>2. area \in Seq(Nat) /\ k \in Nat
  <2>1. Fill(AreaSize) \in Seq(Nat)
    BY StreamAssumption DEF Fill
  <2>2. x.buf.area \in Seq(Nat)
    BY <1>1 DEF StreamBuf
  <2> QED BY <2>1, <2>2, LenProperties
<1> HIDE DEF area
<1>3. n \in 0 .. k /\ (~x.open => n = 0)
  BY <1>1, <1>2, GotIs
<1>4. \A i \in 1 .. n : /\ ReadBytes(x.file, k)[i] = disk[x.file.path][x.file.pos + i]
                         /\ ReadBytes(x.file, k)[i] \in Nat
  <2>1. CASE x.open
    <3>1. n = Got(x.file, k)
      BY <2>1
    <3> HIDE DEF n
    <3> QED BY <3>1, <1>1, <1>2, GotIs
  <2>2. CASE ~x.open
    <3>1. n = 0
      BY <2>2
    <3> HIDE DEF n
    <3> QED BY <3>1
  <2> QED BY <2>1, <2>2
<1>5. /\ filled \in Seq(Nat) /\ Len(filled) = k
      /\ \A i \in 1 .. n : filled[i] = disk[x.file.path][x.file.pos + i]
  <2>1. DOMAIN area = 1 .. k /\ \A i \in 1 .. k : area[i] \in Nat
    BY <1>2, LenProperties, ElementOfSeq
  <2>2. \A i \in 1 .. k : i <= n => i \in 1 .. n
    BY <1>3
  <2> HIDE DEF n, k
  <2>3. filled \in [1 .. k -> Nat]
    BY <2>1, <2>2, <1>4
  <2>4. \A i \in 1 .. n : i \in 1 .. k /\ i <= n
    BY <1>2, <1>3
  <2>5. \A i \in 1 .. n : filled[i] = ReadBytes(x.file, k)[i]
    BY <2>1, <2>4
  <2> HIDE DEF filled
  <2>6. filled \in Seq(Nat) /\ Len(filled) = k
    BY <2>3, <1>2
  <2> QED BY <2>5, <2>6, <1>4
<1>6. /\ file \in OpenFile /\ EndIsEnd(file) /\ file.path = x.file.path
      /\ file.pos = x.file.pos + n
  <2>1. CASE x.open
    <3>1. file = AfterRead(x.file, k) /\ n = Got(x.file, k)
      BY <2>1
    <3> QED BY <3>1, <1>1, <1>2, AfterReadIs
  <2>2. CASE ~x.open
    <3>1. file = x.file /\ n = 0
      BY <2>2
    <3> QED BY <3>1, <1>1 DEF OpenFile
  <2> QED BY <2>1, <2>2, <1>1
<1>7. x.open /\ n > 0 => x.file.pos + n <= Len(disk[x.file.path])
  BY <1>1, <1>2, GotIs
<1>8. CASE x.buf.handle = Null
  <2>1. Refill(x) = x
    BY <1>8 DEF Refill
  <2> QED BY <1>8, <2>1 DEF ReaderOK, SameStream
<1>9. CASE x.buf.handle # Null
  <2>1. Refill(x) = y
    BY <1>9 DEF Refill, area
  <2> HIDE DEF filled, file, n, k
  <2> DEFINE b == [x.buf EXCEPT !.area = filled, !.r = 0, !.w = n]
  <2>2. y = [buf |-> b, file |-> file, open |-> x.open, out |-> x.out]
    <3>1. y = [x EXCEPT !.buf = b, !.file = file]
      OBVIOUS
    <3> HIDE DEF y, b
    <3> QED BY <3>1, ReaderIs
  <2> HIDE DEF y
  <2>3. /\ b \in StreamBuf
        /\ b.area = filled /\ b.r = 0 /\ b.w = n /\ b.at = x.buf.at
        /\ b.alone = x.buf.alone /\ b.handle = x.buf.handle
    <3>1. n \in Nat /\ 0 \in Nat
      BY <1>2, <1>3
    <3>2. b \in StreamBuf
      BY <1>1, <1>5, <3>1 DEF StreamBuf
    <3>3. /\ b.area = filled /\ b.r = 0 /\ b.w = n /\ b.at = x.buf.at
          /\ b.alone = x.buf.alone /\ b.handle = x.buf.handle
      BY <1>1 DEF StreamBuf
    <3> QED BY <3>2, <3>3
  <2> HIDE DEF b
  <2>4. y \in ReaderOf
    BY <1>1, <1>6, <2>2, <2>3 DEF ReaderOf
  <2>5. x.open => Mirrors(b, file)
    <3> SUFFICES ASSUME x.open, b.alone PROVE
        /\ b.r <= b.w /\ b.w <= file.pos /\ b.at = file.pos - (b.w - b.r)
        /\ b.w > 0 => file.pos <= Len(disk[file.path])
        /\ \A i \in 1 .. b.w : b.area[i] = disk[file.path][file.pos - b.w + i]
      BY DEF Mirrors, MirrorsOn
    <3>1. x.buf.at = x.file.pos /\ x.file.pos \in Nat
      BY <1>1, <2>3 DEF OpenFile
    <3>2. file.pos - n = x.file.pos
      BY <3>1, <1>2, <1>3, <1>6
    <3>3. b.r <= b.w /\ b.w <= file.pos /\ b.at = file.pos - (b.w - b.r)
      BY <3>1, <3>2, <1>2, <1>3, <1>6, <2>3
    <3>4. b.w > 0 => file.pos <= Len(disk[file.path])
      BY <1>6, <1>7, <2>3
    <3>5. \A i \in 1 .. b.w : b.area[i] = disk[file.path][file.pos - b.w + i]
      BY <3>2, <1>5, <1>6, <2>3
    <3> QED BY <3>3, <3>4, <3>5
  <2>6. b.w <= Len(b.area)
    BY <1>3, <1>5, <2>3
  <2>9. y.buf = b /\ y.file = file /\ y.open = x.open /\ y.out = x.out
    BY <2>2
  <2>7. ReaderOK(y)
    BY <1>6, <2>9, <2>4, <2>5, <2>6 DEF ReaderOK
  <2>8. SameStream(x, y)
    BY <1>6, <2>9, <2>3 DEF SameStream
  <2> QED BY <2>1, <2>9, <2>7, <2>8
<1> QED BY <1>8, <1>9

\* What a call that reads makes of the reader x.
Follows(x, y) == ReaderOK(y) /\ SameStream(x, y)

LEMMA FollowsOn ==
  ASSUME NEW x, NEW y, NEW z, Follows(x, y), Follows(y, z)
  PROVE  Follows(x, z)
BY DEF Follows, SameStream

LEMMA PrepareOK ==
  ASSUME DiskOK, NEW x, ReaderOK(x)
  PROVE  Follows(x, Prepare(x)) /\ Prepare(x).out = x.out
<1>1. CASE Available(x) # 0
  BY <1>1 DEF Prepare, Follows, SameStream
<1>2. CASE Available(x) = 0
  <2>1. x \in ReaderOf /\ x.buf \in StreamBuf /\ x.file \in OpenFile
    BY DEF ReaderOK, ReaderOf
  <2>2. x.buf.r \in Nat /\ x.buf.w \in Nat /\ x.file.pos \in Nat
    BY <2>1 DEF StreamBuf, OpenFile
  <2>3. x.buf.w <= x.buf.r
    BY <1>2, <2>2 DEF Available, Bigger
  <2>4. x.open /\ x.buf.alone => x.buf.at = x.file.pos
    <3> SUFFICES ASSUME x.open, x.buf.alone PROVE x.buf.at = x.file.pos
      OBVIOUS
    <3>1. x.buf.r <= x.buf.w /\ x.buf.at = x.file.pos - (x.buf.w - x.buf.r)
      BY DEF ReaderOK, Mirrors, MirrorsOn
    <3> QED BY <2>2, <2>3, <3>1
  <2>5. ReaderOK(Refill(x)) /\ SameStream(x, Refill(x)) /\ Refill(x).out = x.out
    BY <2>1, <2>4, RefillIs DEF ReaderOK
  <2>6. Prepare(x) = Refill(x)
    BY <1>2 DEF Prepare
  <2> QED BY <2>5, <2>6 DEF Follows
<1> QED BY <1>1, <1>2

LEMMA TakeByteOK ==
  ASSUME DiskOK, NEW x, ReaderOK(x)
  PROVE  /\ Follows(x, Take(x))
         /\ Take(x).out = IF Peek(x) = None THEN x.out ELSE Append(x.out, Peek(x))
<1> DEFINE y == Prepare(x)
           b == y.buf
<1>1. Follows(x, y) /\ y.out = x.out
  BY PrepareOK
<1>2. CASE Peek(x) = None
  <2>1. Take(x) = y
    BY <1>2 DEF Take
  <2> HIDE DEF y
  <2> QED BY <1>1, <1>2, <2>1
<1>3. CASE Peek(x) # None
  <2> DEFINE c == Peek(x)
             new == [b EXCEPT !.r = @ + 1, !.at = @ + 1]
             z == [y EXCEPT !.buf = new, !.out = Append(y.out, c)]
  <2>1. Take(x) = z
    BY <1>3 DEF Take
  <2>2. Available(y) # 0 /\ ~(b.r >= Len(b.area)) /\ c = b.area[b.r + 1]
    BY <1>3 DEF Peek
  <2> HIDE DEF y
  <2>3. y \in ReaderOf /\ b \in StreamBuf /\ y.file \in OpenFile /\ y.out \in Seq(Nat)
        /\ y.open \in BOOLEAN
    BY <1>1 DEF Follows, ReaderOK, ReaderOf
  <2>4. b.r \in Nat /\ b.w \in Nat /\ b.area \in Seq(Nat) /\ b.at \in Int /\ y.file.pos \in Nat
    BY <2>3 DEF StreamBuf, OpenFile
  <2>5. b.r < b.w
    BY <2>2, <2>4 DEF Available, Bigger
  <2>6. c \in Nat
    <3> DEFINE r == b.r + 1
               q == b.area
    <3>1. r \in 1 .. Len(q) /\ q \in Seq(Nat)
      BY <2>2, <2>4, LenProperties
    <3> HIDE DEF r, q
    <3>2. q[r] \in Nat
      BY <3>1, ElementOfSeq
    <3> QED BY <2>2, <3>2 DEF r, q
  <2> HIDE DEF c
  <2>7. z = [buf |-> new, file |-> y.file, open |-> y.open, out |-> Append(y.out, c)]
    <3> DEFINE o == Append(y.out, c)
    <3>1. z = [y EXCEPT !.buf = new, !.out = o]
      OBVIOUS
    <3> HIDE DEF z, new, o, b
    <3>2. z = [buf |-> new, file |-> y.file, open |-> y.open, out |-> o]
      BY <3>1, <2>3, ReaderIs
    <3> QED BY <3>2 DEF o
  <2> HIDE DEF z
  <2>8. /\ new \in StreamBuf
        /\ new.area = b.area /\ new.r = b.r + 1 /\ new.w = b.w /\ new.at = b.at + 1
        /\ new.alone = b.alone /\ new.handle = b.handle
    <3>1. b.r + 1 \in Nat /\ b.at + 1 \in Int
      BY <2>4
    <3>2. new \in StreamBuf
      BY <2>3, <3>1 DEF StreamBuf
    <3>3. /\ new.area = b.area /\ new.r = b.r + 1 /\ new.w = b.w /\ new.at = b.at + 1
          /\ new.alone = b.alone /\ new.handle = b.handle
      BY <2>3 DEF StreamBuf
    <3> QED BY <3>2, <3>3
  <2> HIDE DEF new
  <2>9. z \in ReaderOf
    <3>1. Append(y.out, c) \in Seq(Nat)
      BY <2>3, <2>6, AppendProperties
    <3> QED BY <2>3, <2>7, <2>8, <3>1 DEF ReaderOf
  <2>10. y.open => Mirrors(new, y.file)
    <3> SUFFICES ASSUME y.open, new.alone PROVE
        /\ new.r <= new.w /\ new.w <= y.file.pos /\ new.at = y.file.pos - (new.w - new.r)
        /\ new.w > 0 => y.file.pos <= Len(disk[y.file.path])
        /\ \A i \in 1 .. new.w : new.area[i] = disk[y.file.path][y.file.pos - new.w + i]
      BY DEF Mirrors, MirrorsOn
    <3>1. /\ b.r <= b.w /\ b.w <= y.file.pos /\ b.at = y.file.pos - (b.w - b.r)
          /\ b.w > 0 => y.file.pos <= Len(disk[y.file.path])
          /\ \A i \in 1 .. b.w : b.area[i] = disk[y.file.path][y.file.pos - b.w + i]
      BY <1>1, <2>8 DEF Follows, ReaderOK, Mirrors, MirrorsOn
    <3> HIDE DEF b
    <3>2. new.r <= new.w /\ new.w <= y.file.pos /\ new.at = y.file.pos - (new.w - new.r)
      BY <2>4, <2>5, <2>8, <3>1
    <3> QED BY <2>8, <3>1, <3>2
  <2>11. new.w <= Len(new.area) /\ EndIsEnd(y.file)
    BY <1>1, <2>8 DEF Follows, ReaderOK
  <2>12. z.buf = new /\ z.file = y.file /\ z.open = y.open /\ z.out = Append(x.out, c)
    BY <1>1, <2>7
  <2>13. ReaderOK(z)
    BY <2>9, <2>10, <2>11, <2>12 DEF ReaderOK
  <2>14. SameStream(x, z)
    BY <1>1, <2>8, <2>12 DEF Follows, SameStream
  <2> QED BY <1>3, <2>1, <2>12, <2>13, <2>14 DEF Follows, c
<1> QED BY <1>2, <1>3

LEMMA TakeIfOK ==
  ASSUME DiskOK, NEW x, ReaderOK(x), NEW S
  PROVE  Follows(x, TakeIf(x, S))
<1>1. CASE Peek(x) \in S
  BY <1>1, TakeByteOK DEF TakeIf
<1>2. CASE Peek(x) \notin S
  BY <1>2, PrepareOK DEF TakeIf
<1> QED BY <1>1, <1>2

\* The loop of TakeWhile.
Taking(x, S, n, f) == f = [i \in 0 .. n |-> IF i = 0 THEN x ELSE TakeIf(f[i - 1], S)]

LEMMA TakingExists ==
  ASSUME NEW x, NEW S, NEW n \in Nat
  PROVE  \E f : Taking(x, S, n, f)
<1> DEFINE T == {k \in Nat : ~\E f : Taking(x, S, k, f)}
<1> SUFFICES ASSUME T # {} PROVE FALSE
  OBVIOUS
<1>1. T \in SUBSET Nat
  OBVIOUS
<1>2. PICK k \in T : \A j \in T : k <= j
  <2> HIDE DEF T
  <2> QED BY <1>1, Least
<1>3. Taking(x, S, 0, [i \in 0 .. 0 |-> x])
  BY DEF Taking
<1>4. k \in Nat /\ k # 0 /\ k - 1 \in Nat /\ k - 1 \notin T /\ ~\E f : Taking(x, S, k, f)
  <2>1. k \in Nat /\ ~\E f : Taking(x, S, k, f)
    OBVIOUS
  <2>2. k # 0
    BY <1>3, <2>1
  <2> HIDE DEF T
  <2> QED BY <1>2, <2>1, <2>2
<1>5. PICK f : Taking(x, S, k - 1, f)
  BY <1>4
<1> DEFINE g == [i \in 0 .. k |-> IF i = k THEN TakeIf(f[k - 1], S) ELSE f[i]]
<1>6. ASSUME NEW i \in 0 .. k
      PROVE  g[i] = IF i = 0 THEN x ELSE TakeIf(g[i - 1], S)
  <2>1. CASE i = k
    <3>1. i # 0 /\ i - 1 = k - 1 /\ i - 1 # k /\ i - 1 \in 0 .. k
      BY <1>4, <2>1
    <3> QED BY <2>1, <3>1
  <2>2. CASE i # k
    <3>1. i \in 0 .. k - 1 /\ (i # 0 => i - 1 \in 0 .. k /\ i - 1 # k)
      BY <1>4, <2>2
    <3>2. f[i] = IF i = 0 THEN x ELSE TakeIf(f[i - 1], S)
      BY <1>5, <3>1 DEF Taking
    <3> QED BY <2>2, <3>1, <3>2
  <2> QED BY <2>1, <2>2
<1>7. g = [i \in 0 .. k |-> g[i]]
  OBVIOUS
<1> HIDE DEF g, T
<1>8. Taking(x, S, k, g)
  BY <1>6, <1>7 DEF Taking
<1> QED BY <1>4, <1>8

LEMMA TakeWhileOK ==
  ASSUME DiskOK, NEW x, ReaderOK(x), NEW S, NEW n \in Nat
  PROVE  Follows(x, TakeWhile(x, S, n))
<1> DEFINE f == CHOOSE f : Taking(x, S, n, f)
           T == {i \in 0 .. n : ~Follows(x, f[i])}
<1>1. Taking(x, S, n, f)
  BY TakingExists
<1>2. TakeWhile(x, S, n) = f[n]
  BY DEF TakeWhile, Taking
<1> HIDE DEF f
<1>3. f[0] = x /\ \A i \in 1 .. n : f[i] = TakeIf(f[i - 1], S)
  BY <1>1 DEF Taking
<1>4. T = {}
  <2> SUFFICES ASSUME T # {} PROVE FALSE
    OBVIOUS
  <2>1. T \in SUBSET Nat
    OBVIOUS
  <2> HIDE DEF T
  <2>2. PICK k \in T : \A j \in T : k <= j
    BY <2>1, Least
  <2>3. k \in 0 .. n /\ ~Follows(x, f[k])
    BY DEF T
  <2>4. k # 0
    BY <2>3, <1>3 DEF Follows, SameStream
  <2>5. k - 1 \in 0 .. n /\ k - 1 \notin T /\ k \in 1 .. n
    BY <2>2, <2>3, <2>4
  <2> DEFINE y == f[k - 1]
  <2>6. Follows(x, y) /\ f[k] = TakeIf(y, S)
    BY <2>5, <1>3 DEF T
  <2> HIDE DEF y
  <2>7. Follows(y, TakeIf(y, S))
    BY <2>6, TakeIfOK DEF Follows
  <2>8. Follows(x, TakeIf(y, S))
    BY <2>6, <2>7, FollowsOn
  <2> QED BY <2>3, <2>6, <2>8
<1>5. n \in 0 .. n /\ n \notin T
  BY <1>4
<1> QED BY <1>2, <1>5

----------------------------------------------------------------------------
(* What a step does to the streambufs it is not about. *)

\* The file with handle h, if it is still open, is as it was for its readers.
Quiet(h) ==
  h \in DOMAIN files' =>
    /\ h \in DOMAIN files /\ files'[h].pos = files[h].pos /\ files'[h].path = files[h].path
    /\ disk'[files[h].path] = disk[files[h].path]

\* A streambuf that stays as it is, or is told that it is not alone.
Stays(b) ==
  \/ bufs'[b] = bufs[b] /\ (bufs[b].alone => Quiet(bufs[b].handle))
  \/ bufs'[b] = [bufs[b] EXCEPT !.alone = FALSE]

LEMMA FileIs ==
  ASSUME StreamInv, NEW b \in Bufs
  PROVE  /\ FileOf(b) \in OpenFile /\ EndIsEnd(FileOf(b))
         /\ IsOpen(bufs[b].handle) => FileOf(b) = files[bufs[b].handle] /\ bufs[b].handle # Null
         /\ bufs[b] \in StreamBuf
<1>1. NoFile \in OpenFile /\ EndIsEnd(NoFile)
  <2>1. (CHOOSE p \in Paths : TRUE) \in Paths
    BY StreamAssumption
  <2> QED BY <2>1 DEF NoFile, OpenFile, EndIsEnd
<1>2. \A h \in DOMAIN files : files[h] \in OpenFile /\ EndIsEnd(files[h]) /\ h # Null
  BY DEF StreamInv, Null
<1>3. bufs[b] \in StreamBuf
  BY DEF StreamInv
<1> QED BY <1>1, <1>2, <1>3 DEF FileOf, IsOpen

LEMMA StaysOK ==
  ASSUME StreamInv, NEW b \in Bufs, Stays(b), handles' \in Nat, handles <= handles'
  PROVE  bufs'[b] \in StreamBuf /\ BufOK(b)'
<1> DEFINE x == bufs[b]
           y == bufs'[b]
<1>1. x \in StreamBuf /\ x.handle <= handles /\ x.w <= Len(x.area) /\ handles \in Nat
  BY DEF StreamInv, BufOK
<1>2. /\ y \in StreamBuf
      /\ y.handle = x.handle /\ y.area = x.area /\ y.r = x.r /\ y.w = x.w /\ y.at = x.at
      /\ y.alone => y = x /\ Quiet(x.handle)
  <2>1. CASE y = x /\ (x.alone => Quiet(x.handle))
    BY <1>1, <2>1
  <2>2. CASE y = [x EXCEPT !.alone = FALSE]
    <3> HIDE DEF x, y
    <3>1. y \in StreamBuf
      BY <1>1, <2>2 DEF StreamBuf
    <3>2. /\ y.handle = x.handle /\ y.area = x.area /\ y.r = x.r /\ y.w = x.w /\ y.at = x.at
          /\ y.alone = FALSE
      BY <1>1, <2>2 DEF StreamBuf
    <3> QED BY <3>1, <3>2
  <2> QED BY <2>1, <2>2 DEF Stays
<1>3. y.handle <= handles' /\ y.w <= Len(y.area)
  <2>1. x.handle \in Nat
    BY <1>1 DEF StreamBuf
  <2>2. x.handle <= handles'
    BY <1>1, <2>1
  <2> QED BY <2>2, <1>1, <1>2
<1>4. ASSUME y.handle \in DOMAIN files' PROVE MirrorsOn(disk', y, files'[y.handle])
  <2> SUFFICES ASSUME y.alone PROVE MirrorsOn(disk', y, files'[y.handle])
    BY DEF MirrorsOn
  <2>1. y = x /\ Quiet(x.handle) /\ x.handle \in DOMAIN files'
    BY <1>2, <1>4
  <2> DEFINE h == x.handle
             f == files[h]
             g == files'[h]
  <2>2. h \in DOMAIN files /\ g.pos = f.pos /\ g.path = f.path /\ disk'[f.path] = disk[f.path]
    BY <2>1 DEF Quiet
  <2>3. Mirrors(x, f)
    BY <2>2 DEF StreamInv, BufOK, IsOpen, FileOf
  <2> HIDE DEF x, y, f, g, h
  <2>4. x.alone => /\ x.r <= x.w /\ x.w <= g.pos /\ x.at = g.pos - (x.w - x.r)
                   /\ x.w > 0 => g.pos <= Len(disk'[g.path])
                   /\ \A i \in 1 .. x.w : x.area[i] = disk'[g.path][g.pos - x.w + i]
    BY <2>2, <2>3 DEF Mirrors, MirrorsOn
  <2>5. y = x /\ files'[y.handle] = g
    BY <2>1 DEF g, h
  <2> QED BY <2>4, <2>5 DEF MirrorsOn
<1>5. IsOpen(bufs[b].handle)' => Mirrors(bufs[b], FileOf(b))'
  BY <1>4 DEF IsOpen, FileOf, Mirrors
<1> QED BY <1>2, <1>3, <1>5 DEF BufOK

\* Every streambuf stays, or is in order again after the step.
LEMMA StepOK ==
  ASSUME StreamInv, DiskOK', handles' \in Nat, handles <= handles',
         DOMAIN files' \subseteq 1 .. handles',
         \A h \in DOMAIN files' : files'[h] \in OpenFile /\ EndIsEnd(files'[h]),
         bufs' = [b \in Bufs |-> bufs'[b]],
         \A b \in Bufs : Stays(b) \/ (bufs'[b] \in StreamBuf /\ BufOK(b)')
  PROVE  StreamInv'
<1>1. \A b \in Bufs : bufs'[b] \in StreamBuf /\ BufOK(b)'
  BY StaysOK
<1>2. bufs' \in [Bufs -> StreamBuf]
  BY <1>1
<1> QED BY <1>1, <1>2 DEF StreamInv, EndIsEnd

\* Moved changes nothing but who is alone.
LEMMA MovedIs ==
  ASSUME NEW S, NEW b \in Bufs
  PROVE  /\ DOMAIN Moved(S) = Bufs /\ Moved(S) = [c \in Bufs |-> Moved(S)[c]]
         /\ b \in S => Moved(S)[b] = [bufs[b] EXCEPT !.alone = FALSE]
         /\ b \notin S => Moved(S)[b] = bufs[b]
BY DEF Moved

----------------------------------------------------------------------------
(* Files. *)

LEMMA OpenedIs ==
  ASSUME StreamInv, NEW p \in Paths, NEW mode \in OpenModes \cup {FallbackMode}
  PROVE  /\ Opened(p, mode) \in OpenFile /\ EndIsEnd(Opened(p, mode))
         /\ Opened(p, mode).path = p /\ Opened(p, mode).pos \in Nat
         /\ ~mode.ate => Opened(p, mode).pos = 0
<1>1. mode \in [read : BOOLEAN, write : BOOLEAN, append : BOOLEAN,
                create : BOOLEAN, truncate : BOOLEAN, ate : BOOLEAN]
  <2>1. FallbackMode \in [read : BOOLEAN, write : BOOLEAN, append : BOOLEAN,
                          create : BOOLEAN, truncate : BOOLEAN, ate : BOOLEAN]
    BY DEF FallbackMode
  <2> QED BY <2>1, StreamAssumption
<1>2. Len(disk[p]) \in Nat
  BY LenProperties DEF StreamInv, DiskOK
<1> DEFINE w == mode.write \/ mode.append
           n == IF mode.ate THEN Len(disk[p]) ELSE 0
<1>3. mode.read \in BOOLEAN /\ w \in BOOLEAN /\ mode.append \in BOOLEAN /\ n \in Nat
  BY <1>1, <1>2
<1>4. ~mode.ate => n = 0
  OBVIOUS
<1>5. Opened(p, mode) = [path |-> p, read |-> mode.read, write |-> w, append |-> mode.append,
                         eof |-> FALSE, error |-> FALSE, pos |-> n, seen |-> 0]
  BY DEF Opened
<1> HIDE DEF w, n
<1>6. Opened(p, mode) \in OpenFile
  BY <1>3, <1>5 DEF OpenFile
<1>7. Opened(p, mode).path = p /\ Opened(p, mode).pos = n /\ Opened(p, mode).eof = FALSE
  BY <1>5
<1> QED BY <1>3, <1>4, <1>6, <1>7 DEF EndIsEnd

LEMMA BeforeIs ==
  ASSUME StreamInv, NEW p \in Paths, NEW mode, disk' = Before(p, mode)
  PROVE  /\ DiskOK' /\ \A q \in Paths \ {p} : disk'[q] = disk[q]
         /\ ~mode.truncate => disk' = disk
<1>1. <<>> \in Seq(Nat)
  OBVIOUS
<1> QED BY <1>1 DEF Before, StreamInv, DiskOK

LEMMA SoughtIs ==
  ASSUME NEW f \in OpenFile, NEW p \in Nat
  PROVE  AfterSeek(f, p) \in OpenFile /\ EndIsEnd(AfterSeek(f, p)) /\ AfterSeek(f, p).pos = p
<1>1. AfterSeek(f, p) \in OpenFile
  BY DEF AfterSeek, OpenFile
<1>2. AfterSeek(f, p).pos = p /\ AfterSeek(f, p).eof = FALSE
  BY DEF AfterSeek, OpenFile
<1> QED BY <1>1, <1>2 DEF EndIsEnd

\* Flags alone.
LEMMA FlagsAre ==
  ASSUME NEW f \in OpenFile, EndIsEnd(f), NEW e \in BOOLEAN
  PROVE  /\ LET g == [f EXCEPT !.error = e]
            IN g \in OpenFile /\ EndIsEnd(g) /\ g.pos = f.pos /\ g.path = f.path
         /\ LET g == [f EXCEPT !.eof = FALSE, !.error = FALSE]
            IN g \in OpenFile /\ EndIsEnd(g) /\ g.pos = f.pos /\ g.path = f.path
<1> DEFINE g == [f EXCEPT !.error = e]
           h == [f EXCEPT !.eof = FALSE, !.error = FALSE]
<1>1. g \in OpenFile
  BY DEF OpenFile
<1>2. g.pos = f.pos /\ g.path = f.path /\ g.eof = f.eof /\ g.seen = f.seen
  BY DEF OpenFile
<1>3. h \in OpenFile
  BY DEF OpenFile
<1>4. h.pos = f.pos /\ h.path = f.path /\ h.eof = FALSE
  BY DEF OpenFile
<1> HIDE DEF g, h
<1>5. EndIsEnd(g) /\ EndIsEnd(h)
  BY <1>2, <1>4 DEF EndIsEnd
<1> QED BY <1>1, <1>2, <1>3, <1>4, <1>5 DEF g, h

LEMMA WrittenIs ==
  ASSUME DiskOK, NEW f \in OpenFile, EndIsEnd(f), NEW n \in Nat
  PROVE  /\ Written(f, n) \in Seq(Nat)
         /\ AfterWrite(f, n) \in OpenFile /\ EndIsEnd(AfterWrite(f, n))
<1> DEFINE c == disk[f.path]
           a == WriteAt(f)
           top == Bigger(Len(c), a + n)
<1>1. c \in Seq(Nat) /\ Len(c) \in Nat /\ \A i \in 1 .. Len(c) : c[i] \in Nat
  BY LenProperties, ElementOfSeq DEF DiskOK, OpenFile
<1>2. a \in Nat
  BY <1>1 DEF WriteAt, OpenFile
<1>3. top \in Nat
  BY <1>1, <1>2 DEF Bigger
<1>4. Written(f, n) \in Seq(Nat)
  <2>1. Written(f, n) =
          [i \in 1 .. top |->
             IF i > a /\ i <= a + n THEN Zero ELSE IF i <= Len(c) THEN c[i] ELSE Zero]
    BY DEF Written
  <2> HIDE DEF top, a, c
  <2>2. \A i \in 1 .. top : (IF i > a /\ i <= a + n THEN Zero
                             ELSE IF i <= Len(c) THEN c[i] ELSE Zero) \in Nat
    BY <1>1, StreamAssumption
  <2>3. Written(f, n) \in [1 .. top -> Nat]
    BY <2>1, <2>2
  <2> QED BY <2>3, <1>3
<1>5. AfterWrite(f, n) \in OpenFile /\ EndIsEnd(AfterWrite(f, n))
  <2>1. CASE ~f.write
    <3>1. AfterWrite(f, n) = [f EXCEPT !.error = TRUE]
      BY <2>1 DEF AfterWrite
    <3> QED BY <3>1, FlagsAre
  <2>2. CASE f.write
    <3> DEFINE p == WriteAt(f) + n
    <3>1. AfterWrite(f, n) = [f EXCEPT !.pos = p, !.eof = FALSE, !.error = FALSE]
      BY <2>2 DEF AfterWrite
    <3>2. p \in Nat
      BY <1>2
    <3> HIDE DEF p
    <3>3. AfterWrite(f, n) \in OpenFile
      BY <3>1, <3>2 DEF OpenFile
    <3>4. AfterWrite(f, n).eof = FALSE
      BY <3>1 DEF OpenFile
    <3> QED BY <3>3, <3>4 DEF EndIsEnd
  <2> QED BY <2>1, <2>2
<1> QED BY <1>4, <1>5

----------------------------------------------------------------------------
(* FILE streams and descriptors. *)

\* One file changes, those who have its handle are told.
LEMMA OneFile ==
  ASSUME StreamInv, NEW h \in DOMAIN files, NEW g \in OpenFile, EndIsEnd(g),
         files' = [files EXCEPT ![h] = g], bufs' = Moved(Shares(h)), UNCHANGED <<disk, handles>>
  PROVE  StreamInv'
<1>1. DOMAIN files' = DOMAIN files /\ h # Null
  BY DEF StreamInv, Null
<1>2. \A k \in DOMAIN files' : files'[k] \in OpenFile /\ EndIsEnd(files'[k])
  BY <1>1 DEF StreamInv
<1>3. ASSUME NEW b \in Bufs PROVE Stays(b)
  <2>1. CASE b \in Shares(h)
    BY <2>1, MovedIs DEF Stays
  <2>2. CASE b \notin Shares(h)
    <3>1. bufs[b].handle # h
      BY <1>1, <2>2 DEF Shares
    <3>2. Quiet(bufs[b].handle)
      BY <1>1, <3>1 DEF Quiet
    <3> QED BY <2>2, <3>2, MovedIs DEF Stays
  <2> QED BY <2>1, <2>2
<1>4. DiskOK' /\ handles' \in Nat /\ handles <= handles' /\ DOMAIN files' \subseteq 1 .. handles'
  BY <1>1 DEF StreamInv, DiskOK
<1>5. bufs' = [b \in Bufs |-> bufs'[b]]
  BY DEF Moved
<1> QED BY <1>2, <1>3, <1>4, <1>5, StepOK

LEMMA FileCallsKeep ==
  ASSUME StreamInv, Read \/ Seek \/ Rewind
  PROVE  StreamInv'
<1>1. CASE Read
  <2>1. PICK h \in DOMAIN files, n \in Counts \cup {0} :
          /\ files' = [files EXCEPT ![h] = AfterRead(@, n)]
          /\ bufs' = Moved(Shares(h)) /\ UNCHANGED <<disk, handles>>
    BY <1>1 DEF Read
  <2>2. n \in Nat /\ files[h] \in OpenFile /\ EndIsEnd(files[h]) /\ DiskOK
    BY StreamAssumption DEF StreamInv
  <2> DEFINE g == AfterRead(files[h], n)
  <2>3. g \in OpenFile /\ EndIsEnd(g)
    BY <2>2, AfterReadIs
  <2>4. files' = [files EXCEPT ![h] = g]
    BY <2>1
  <2> HIDE DEF g
  <2> QED BY <2>1, <2>3, <2>4, OneFile
<1>2. CASE Seek
  <2>1. PICK h \in DOMAIN files : \E p \in -1 .. Len(disk[files[h].path]) + 1 :
          /\ files' = [files EXCEPT ![h] =
                         IF p < 0 THEN [@ EXCEPT !.error = TRUE] ELSE AfterSeek(@, p)]
          /\ bufs' = Moved(Shares(h)) /\ UNCHANGED <<disk, handles>>
    BY <1>2 DEF Seek
  <2>2. PICK p \in -1 .. Len(disk[files[h].path]) + 1 :
          /\ files' = [files EXCEPT ![h] =
                         IF p < 0 THEN [@ EXCEPT !.error = TRUE] ELSE AfterSeek(@, p)]
          /\ bufs' = Moved(Shares(h)) /\ UNCHANGED <<disk, handles>>
    BY <2>1
  <2> DEFINE f == files[h]
             g == IF p < 0 THEN [f EXCEPT !.error = TRUE] ELSE AfterSeek(f, p)
  <2>3. files' = [files EXCEPT ![h] = g]
    BY <2>2
  <2>4. f \in OpenFile /\ EndIsEnd(f)
    BY DEF StreamInv
  <2> HIDE DEF f
  <2>5. g \in OpenFile /\ EndIsEnd(g)
    <3>1. CASE p < 0
      BY <2>4, <3>1, FlagsAre
    <3>2. CASE ~(p < 0)
      <4>1. p \in Nat
        BY <3>2
      <4> QED BY <2>4, <3>2, <4>1, SoughtIs
    <3> QED BY <3>1, <3>2
  <2> HIDE DEF g
  <2> QED BY <2>2, <2>3, <2>5, OneFile
<1>3. CASE Rewind
  <2>1. PICK h \in DOMAIN files :
          /\ files' = [files EXCEPT ![h] = AfterSeek(@, 0)]
          /\ bufs' = Moved(Shares(h)) /\ UNCHANGED <<disk, handles>>
    BY <1>3 DEF Rewind
  <2> DEFINE g == AfterSeek(files[h], 0)
  <2>2. g \in OpenFile /\ EndIsEnd(g)
    BY SoughtIs DEF StreamInv
  <2>3. files' = [files EXCEPT ![h] = g]
    BY <2>1
  <2> HIDE DEF g
  <2> QED BY <2>1, <2>2, <2>3, OneFile
<1> QED BY <1>1, <1>2, <1>3

\* Nobody reads flags.
LEMMA FlagsKeep ==
  ASSUME StreamInv, NEW h \in DOMAIN files, NEW g \in OpenFile, EndIsEnd(g),
         g.pos = files[h].pos, g.path = files[h].path,
         files' = [files EXCEPT ![h] = g], UNCHANGED <<disk, bufs, handles>>
  PROVE  StreamInv'
<1>1. DOMAIN files' = DOMAIN files
  OBVIOUS
<1>2. \A k \in DOMAIN files' : files'[k] \in OpenFile /\ EndIsEnd(files'[k])
  BY <1>1 DEF StreamInv
<1>3. ASSUME NEW b \in Bufs PROVE Stays(b)
  <2>1. Quiet(bufs[b].handle)
    BY <1>1 DEF Quiet
  <2> QED BY <2>1 DEF Stays
<1>4. DiskOK' /\ handles' \in Nat /\ handles <= handles' /\ DOMAIN files' \subseteq 1 .. handles'
  BY <1>1 DEF StreamInv, DiskOK
<1>5. bufs' = [b \in Bufs |-> bufs'[b]]
  BY DEF StreamInv
<1> QED BY <1>2, <1>3, <1>4, <1>5, StepOK

LEMMA FlagCallsKeep ==
  ASSUME StreamInv, ClearErr \/ Flush \/ Sync
  PROVE  StreamInv'
<1>1. CASE ClearErr
  <2>1. PICK h \in DOMAIN files :
          /\ files' = [files EXCEPT ![h].eof = FALSE, ![h].error = FALSE]
          /\ UNCHANGED <<disk, bufs, handles>>
    BY <1>1 DEF ClearErr
  <2> DEFINE f == files[h]
             g == [f EXCEPT !.eof = FALSE, !.error = FALSE]
  <2>2. files' = [files EXCEPT ![h] = g]
    BY <2>1
  <2>3. f \in OpenFile /\ EndIsEnd(f)
    BY DEF StreamInv
  <2> HIDE DEF f
  <2>4. g \in OpenFile /\ EndIsEnd(g) /\ g.pos = f.pos /\ g.path = f.path
    BY <2>3, FlagsAre
  <2> HIDE DEF g
  <2> QED BY <2>1, <2>2, <2>4, FlagsKeep DEF f
<1>2. ASSUME NEW h \in DOMAIN files, files' = [files EXCEPT ![h].error = FALSE],
             UNCHANGED <<disk, bufs, handles>>
      PROVE  StreamInv'
  <2> DEFINE f == files[h]
             g == [f EXCEPT !.error = FALSE]
  <2>2. files' = [files EXCEPT ![h] = g]
    BY <1>2
  <2>3. f \in OpenFile /\ EndIsEnd(f)
    BY DEF StreamInv
  <2> HIDE DEF f
  <2>4. g \in OpenFile /\ EndIsEnd(g) /\ g.pos = f.pos /\ g.path = f.path
    BY <2>3, FlagsAre
  <2> HIDE DEF g
  <2> QED BY <1>2, <2>2, <2>4, FlagsKeep DEF f
<1>3. CASE Flush
  BY <1>2, <1>3 DEF Flush
<1>4. CASE Sync
  BY <1>2, <1>4 DEF Sync, IsOpen
<1> QED BY <1>1, <1>3, <1>4

LEMMA BufIs ==
  ASSUME NEW b, NEW x, bufs'[b] = x, x.handle <= handles', x.w <= Len(x.area),
         x.handle \in DOMAIN files' => MirrorsOn(disk', x, files'[x.handle])
  PROVE  BufOK(b)'
BY DEF BufOK, IsOpen, FileOf, Mirrors

\* Opening and closing files leaves the rest of the files as they were.
LEMMA OpeningAdds ==
  ASSUME StreamInv, NEW F, F \subseteq DOMAIN files, NEW g \in OpenFile, EndIsEnd(g),
         files' = Put(Restrict(files, F), NewHandle, g), handles' = NewHandle
  PROVE  /\ handles' \in Nat /\ handles <= handles' /\ DOMAIN files' \subseteq 1 .. handles'
         /\ \A h \in DOMAIN files' : files'[h] \in OpenFile /\ EndIsEnd(files'[h])
         /\ NewHandle \in Nat \ {0} /\ NewHandle \in DOMAIN files' /\ files'[NewHandle] = g
         /\ \A b \in Bufs : bufs[b].handle # NewHandle
         /\ \A h \in DOMAIN files' \ {NewHandle} : h \in F /\ files'[h] = files[h]
<1>1. handles \in Nat /\ DOMAIN files \subseteq 1 .. handles
  BY DEF StreamInv
<1>2. NewHandle \in Nat \ {0} /\ NewHandle \notin DOMAIN files /\ handles < NewHandle
  BY <1>1 DEF NewHandle
<1>3. DOMAIN files' = F \cup {NewHandle}
  BY DEF Put, Restrict
<1>4. files'[NewHandle] = g
  BY DEF Put
<1>5. \A h \in F : h # NewHandle /\ files'[h] = files[h]
  BY <1>2 DEF Put, Restrict
<1>6. \A b \in Bufs : bufs[b].handle # NewHandle
  <2>1. \A b \in Bufs : bufs[b].handle <= handles /\ bufs[b].handle \in Nat
    BY DEF StreamInv, BufOK, StreamBuf
  <2> QED BY <1>1, <1>2, <2>1
<1>7. \A h \in DOMAIN files' : files'[h] \in OpenFile /\ EndIsEnd(files'[h])
  BY <1>3, <1>4, <1>5 DEF StreamInv
<1>8. handles' \in Nat /\ handles <= handles' /\ DOMAIN files' \subseteq 1 .. handles'
  <2>1. \A h \in F : h \in 1 .. NewHandle
    BY <1>1, <1>2
  <2>2. NewHandle \in 1 .. NewHandle
    BY <1>2
  <2> QED BY <1>1, <1>2, <1>3, <2>1, <2>2
<1> QED BY <1>2, <1>3, <1>4, <1>5, <1>6, <1>7, <1>8

LEMMA OpenKeeps ==
  ASSUME StreamInv, Open
  PROVE  StreamInv'
<1>1. PICK p \in Paths, mode \in OpenModes :
        /\ files' = Put(files, NewHandle, Opened(p, mode)) /\ handles' = NewHandle
        /\ disk' = Before(p, mode)
        /\ bufs' = Moved(IF mode.truncate THEN OnPath(p) ELSE {})
  BY DEF Open, Allocates
<1> DEFINE g == Opened(p, mode)
           S == IF mode.truncate THEN OnPath(p) ELSE {}
<1>2. g \in OpenFile /\ EndIsEnd(g)
  BY OpenedIs
<1>3. files' = Put(Restrict(files, DOMAIN files), NewHandle, g)
  BY <1>1 DEF Put, Restrict
<1> HIDE DEF g
<1>4. /\ handles' \in Nat /\ handles <= handles' /\ DOMAIN files' \subseteq 1 .. handles'
      /\ \A h \in DOMAIN files' : files'[h] \in OpenFile /\ EndIsEnd(files'[h])
      /\ \A b \in Bufs : bufs[b].handle # NewHandle
      /\ \A h \in DOMAIN files' \ {NewHandle} : h \in DOMAIN files /\ files'[h] = files[h]
  BY <1>1, <1>2, <1>3, OpeningAdds
<1>5. /\ DiskOK' /\ \A q \in Paths \ {p} : disk'[q] = disk[q]
      /\ ~mode.truncate => disk' = disk
  BY <1>1, BeforeIs
<1>6. ASSUME NEW b \in Bufs PROVE Stays(b)
  <2>1. CASE b \in S
    BY <1>1, <2>1, MovedIs DEF Stays
  <2>2. CASE b \notin S
    <3>1. Quiet(bufs[b].handle)
      <4> DEFINE h == bufs[b].handle
      <4> SUFFICES ASSUME h \in DOMAIN files' PROVE
             h \in DOMAIN files /\ files'[h] = files[h] /\ disk'[files[h].path] = disk[files[h].path]
        BY DEF Quiet
      <4>1. h \in DOMAIN files /\ files'[h] = files[h]
        BY <1>4
      <4>2. files[h].path \in Paths
        BY <4>1 DEF StreamInv, OpenFile
      <4>3. CASE mode.truncate
        <5>1. files[h].path # p
          BY <2>2, <4>1, <4>3 DEF OnPath, IsOpen
        <5> QED BY <4>1, <4>2, <5>1, <1>5
      <4>4. CASE ~mode.truncate
        BY <4>1, <4>4, <1>5
      <4> QED BY <4>3, <4>4
    <3> QED BY <1>1, <2>2, <3>1, MovedIs DEF Stays
  <2> QED BY <2>1, <2>2
<1>7. bufs' = [b \in Bufs |-> bufs'[b]]
  BY <1>1 DEF Moved
<1> QED BY <1>4, <1>5, <1>6, <1>7, StepOK

LEMMA CloseKeeps ==
  ASSUME StreamInv, Close
  PROVE  StreamInv'
<1>1. PICK h \in DOMAIN files :
        /\ files' = Restrict(files, DOMAIN files \ {h})
        /\ bufs' = Moved(Shares(h)) /\ UNCHANGED <<disk, handles>>
  BY DEF Close
<1>2. DOMAIN files' = DOMAIN files \ {h} /\ \A k \in DOMAIN files \ {h} : files'[k] = files[k]
  BY <1>1 DEF Restrict
<1>3. \A k \in DOMAIN files' : files'[k] \in OpenFile /\ EndIsEnd(files'[k])
  BY <1>2 DEF StreamInv
<1>4. ASSUME NEW b \in Bufs PROVE Stays(b)
  <2>1. CASE b \in Shares(h)
    BY <1>1, <2>1, MovedIs DEF Stays
  <2>2. CASE b \notin Shares(h)
    <3>1. Quiet(bufs[b].handle)
      BY <1>1, <1>2 DEF Quiet
    <3> QED BY <1>1, <2>2, <3>1, MovedIs DEF Stays
  <2> QED BY <2>1, <2>2
<1>5. DiskOK' /\ handles' \in Nat /\ handles <= handles' /\ DOMAIN files' \subseteq 1 .. handles'
  BY <1>1, <1>2 DEF StreamInv, DiskOK
<1>6. bufs' = [b \in Bufs |-> bufs'[b]]
  BY <1>1 DEF Moved
<1> QED BY <1>3, <1>4, <1>5, <1>6, StepOK

\* fwrite and xsputn.
LEMMA WritingKeeps ==
  ASSUME StreamInv, NEW h \in DOMAIN files, NEW n \in Counts,
         files' = [files EXCEPT ![h] = AfterWrite(files[h], n)],
         disk' = IF files[h].write THEN [disk EXCEPT ![files[h].path] = Written(files[h], n)]
                 ELSE disk,
         bufs' = Moved(Shares(h) \cup OnPath(files[h].path)), UNCHANGED handles
  PROVE  StreamInv'
<1> DEFINE f == files[h]
           g == AfterWrite(f, n)
           S == Shares(h) \cup OnPath(f.path)
<1>1. f \in OpenFile /\ EndIsEnd(f) /\ n \in Nat /\ h # Null /\ f.path \in Paths /\ DiskOK
  BY StreamAssumption DEF StreamInv, OpenFile, Null
<1>2. g \in OpenFile /\ EndIsEnd(g) /\ Written(f, n) \in Seq(Nat)
  BY <1>1, WrittenIs
<1> HIDE DEF g
<1>3. DOMAIN files' = DOMAIN files /\ files'[h] = g /\ \A k \in DOMAIN files \ {h} : files'[k] = files[k]
  BY DEF g
<1>4. \A k \in DOMAIN files' : files'[k] \in OpenFile /\ EndIsEnd(files'[k])
  BY <1>2, <1>3 DEF StreamInv
<1>5. DiskOK' /\ \A q \in Paths \ {f.path} : disk'[q] = disk[q]
  BY <1>1, <1>2 DEF DiskOK
<1>6. ASSUME NEW b \in Bufs PROVE Stays(b)
  <2>1. CASE b \in S
    BY <2>1, MovedIs DEF Stays
  <2>2. CASE b \notin S
    <3> DEFINE k == bufs[b].handle
    <3>1. k # h
      BY <1>1, <2>2 DEF Shares
    <3>2. ASSUME k \in DOMAIN files'
          PROVE  k \in DOMAIN files /\ files'[k] = files[k]
                 /\ disk'[files[k].path] = disk[files[k].path]
      <4>1. k \in DOMAIN files /\ files'[k] = files[k]
        BY <1>3, <3>1, <3>2
      <4>2. files[k].path \in Paths /\ files[k].path # f.path
        BY <2>2, <4>1 DEF StreamInv, OpenFile, OnPath, IsOpen
      <4> QED BY <4>1, <4>2, <1>5
    <3>3. Quiet(k)
      BY <3>2 DEF Quiet
    <3> QED BY <2>2, <3>3, MovedIs DEF Stays
  <2> QED BY <2>1, <2>2
<1>7. handles' \in Nat /\ handles <= handles' /\ DOMAIN files' \subseteq 1 .. handles'
  BY <1>3 DEF StreamInv
<1>8. bufs' = [b \in Bufs |-> bufs'[b]]
  BY DEF Moved
<1> QED BY <1>4, <1>5, <1>6, <1>7, <1>8, StepOK

LEMMA WriteKeeps ==
  ASSUME StreamInv, Write
  PROVE  StreamInv'
BY WritingKeeps DEF Write

----------------------------------------------------------------------------
(* The calls of streambufs. *)

LEMMA FreshIs ==
  ASSUME NEW h \in Nat, NEW p \in Nat, NEW a \in BOOLEAN
  PROVE  /\ Fresh(h, p, a) \in StreamBuf
         /\ Fresh(h, p, a).handle = h /\ Fresh(h, p, a).w = 0 /\ Fresh(h, p, a).r = 0
         /\ Fresh(h, p, a).w <= Len(Fresh(h, p, a).area)
         /\ Fresh(h, p, a).at = p /\ Fresh(h, p, a).alone = a
<1>1. Fill(AreaSize) \in Seq(Nat)
  BY StreamAssumption DEF Fill
<1>2. Len(Fill(AreaSize)) \in Nat
  BY <1>1, LenProperties
<1>3. p \in Int
  OBVIOUS
<1>4. Fresh(h, p, a) \in StreamBuf
  BY <1>1, <1>3 DEF Fresh, StreamBuf
<1>5. /\ Fresh(h, p, a).handle = h /\ Fresh(h, p, a).w = 0 /\ Fresh(h, p, a).r = 0
      /\ Fresh(h, p, a).at = p /\ Fresh(h, p, a).alone = a /\ Fresh(h, p, a).area = Fill(AreaSize)
  BY DEF Fresh
<1> QED BY <1>2, <1>4, <1>5

\* An empty area mirrors the file, from the position on.
LEMMA EmptyMirrors ==
  ASSUME NEW d, NEW x \in StreamBuf, NEW f \in OpenFile, x.w = 0, x.r = 0, x.at = f.pos
  PROVE  MirrorsOn(d, x, f)
<1>1. f.pos \in Nat
  BY DEF OpenFile
<1> QED BY <1>1 DEF MirrorsOn

LEMMA ConstructKeeps ==
  ASSUME StreamInv, Construct
  PROVE  StreamInv'
<1>1. PICK b \in Bufs, h \in DOMAIN files \cup {Null} :
        /\ bufs' = [Moved(Shares(h)) EXCEPT
             ![b] = Fresh(h, IF IsOpen(h) THEN files[h].pos ELSE 0, Shares(h) \subseteq {b})]
        /\ UNCHANGED <<disk, files, handles>>
  BY DEF Construct
<1> DEFINE p == IF IsOpen(h) THEN files[h].pos ELSE 0
           a == Shares(h) \subseteq {b}
           x == Fresh(h, p, a)
<1>2. h \in Nat /\ h <= handles
  BY DEF StreamInv, Null
<1>3. p \in Nat /\ (IsOpen(h) => files[h] \in OpenFile /\ p = files[h].pos)
  BY DEF StreamInv, IsOpen, OpenFile
<1>4. a \in BOOLEAN
  OBVIOUS
<1> HIDE DEF p, a
<1>5. /\ x \in StreamBuf /\ x.handle = h /\ x.w = 0 /\ x.r = 0 /\ x.w <= Len(x.area)
      /\ x.at = p
  BY <1>2, <1>3, <1>4, FreshIs
<1>6. bufs' = [Moved(Shares(h)) EXCEPT ![b] = x]
  BY <1>1 DEF p, a
<1> HIDE DEF x
<1>7. bufs'[b] = x /\ \A c \in Bufs \ {b} : bufs'[c] = Moved(Shares(h))[c]
  BY <1>6, MovedIs
<1>8. BufOK(b)'
  <2>1. x.handle \in DOMAIN files' => MirrorsOn(disk', x, files'[x.handle])
    BY <1>1, <1>3, <1>5, EmptyMirrors DEF IsOpen
  <2> QED BY <1>1, <1>2, <1>5, <1>7, <2>1, BufIs
<1>9. ASSUME NEW c \in Bufs \ {b} PROVE Stays(c)
  <2>1. Quiet(bufs[c].handle)
    BY <1>1 DEF Quiet
  <2> QED BY <1>7, <2>1, MovedIs DEF Stays
<1>10. bufs' = [c \in Bufs |-> bufs'[c]]
  BY <1>6, MovedIs
<1>11. /\ DiskOK' /\ handles' \in Nat /\ handles <= handles' /\ DOMAIN files' \subseteq 1 .. handles'
       /\ \A k \in DOMAIN files' : files'[k] \in OpenFile /\ EndIsEnd(files'[k])
  BY <1>1 DEF StreamInv, DiskOK
<1>12. \A c \in Bufs : Stays(c) \/ (bufs'[c] \in StreamBuf /\ BufOK(c)')
  BY <1>5, <1>7, <1>8, <1>9
<1> QED BY <1>10, <1>11, <1>12, StepOK

LEMMA OpenBufKeeps ==
  ASSUME StreamInv, OpenBuf
  PROVE  StreamInv'
<1>1. PICK b \in Bufs, q \in Paths, mode \in OpenModes :
        /\ files' = Put(Restrict(files, DOMAIN files \ {bufs[b].handle}), NewHandle, Opened(q, mode))
        /\ bufs' = [Moved(Shares(bufs[b].handle) \cup (IF mode.truncate THEN OnPath(q) ELSE {}))
                      EXCEPT ![b] = Fresh(NewHandle, Opened(q, mode).pos, TRUE)]
        /\ disk' = Before(q, mode) /\ handles' = NewHandle
  BY DEF OpenBuf, Allocates
<1> DEFINE g == Opened(q, mode)
           F == DOMAIN files \ {bufs[b].handle}
           S == Shares(bufs[b].handle) \cup (IF mode.truncate THEN OnPath(q) ELSE {})
           x == Fresh(NewHandle, g.pos, TRUE)
<1>2. g \in OpenFile /\ EndIsEnd(g) /\ g.pos \in Nat
  BY OpenedIs
<1> HIDE DEF g
<1>3. /\ handles' \in Nat /\ handles <= handles' /\ DOMAIN files' \subseteq 1 .. handles'
      /\ \A h \in DOMAIN files' : files'[h] \in OpenFile /\ EndIsEnd(files'[h])
      /\ NewHandle \in Nat \ {0} /\ NewHandle \in DOMAIN files' /\ files'[NewHandle] = g
      /\ \A c \in Bufs : bufs[c].handle # NewHandle
      /\ \A h \in DOMAIN files' \ {NewHandle} : h \in F /\ files'[h] = files[h]
  <2>1. files' = Put(Restrict(files, F), NewHandle, g) /\ F \subseteq DOMAIN files
    BY <1>1 DEF g
  <2> HIDE DEF F
  <2> QED BY <1>1, <1>2, <2>1, OpeningAdds
<1>4. /\ DiskOK' /\ \A r \in Paths \ {q} : disk'[r] = disk[r]
      /\ ~mode.truncate => disk' = disk
  BY <1>1, BeforeIs
<1>5. /\ x \in StreamBuf /\ x.handle = NewHandle /\ x.w = 0 /\ x.r = 0 /\ x.w <= Len(x.area)
      /\ x.at = g.pos
  <2>1. NewHandle \in Nat /\ TRUE \in BOOLEAN
    BY <1>3
  <2> QED BY <1>2, <2>1, FreshIs, ZenonT(30)
<1>6. bufs' = [Moved(S) EXCEPT ![b] = x]
  BY <1>1 DEF g
<1> HIDE DEF x, S
<1>7. bufs'[b] = x /\ \A c \in Bufs \ {b} : bufs'[c] = Moved(S)[c]
  BY <1>6, MovedIs
<1>8. BufOK(b)'
  <2>1. MirrorsOn(disk', x, files'[x.handle])
    BY <1>2, <1>3, <1>5, EmptyMirrors
  <2>2. x.handle <= handles'
    BY <1>1, <1>3, <1>5
  <2> QED BY <1>5, <1>7, <2>1, <2>2, BufIs
<1>9. ASSUME NEW c \in Bufs \ {b} PROVE Stays(c)
  <2>1. CASE c \in S
    BY <1>7, <2>1, MovedIs DEF Stays
  <2>2. CASE c \notin S
    <3> DEFINE h == bufs[c].handle
    <3>1. ASSUME h \in DOMAIN files'
          PROVE  h \in DOMAIN files /\ files'[h] = files[h]
                 /\ disk'[files[h].path] = disk[files[h].path]
      <4>1. h \in DOMAIN files /\ files'[h] = files[h]
        BY <1>3, <3>1
      <4>2. files[h].path \in Paths
        BY <4>1 DEF StreamInv, OpenFile
      <4>3. CASE mode.truncate
        <5>1. c \notin OnPath(q)
          BY <2>2, <4>3 DEF S
        <5>2. files[h].path # q
          BY <4>1, <5>1 DEF OnPath, IsOpen
        <5> QED BY <4>1, <4>2, <5>2, <1>4
      <4>4. CASE ~mode.truncate
        BY <4>1, <4>4, <1>4
      <4> QED BY <4>3, <4>4
    <3>2. Quiet(h)
      BY <3>1 DEF Quiet
    <3> QED BY <1>7, <2>2, <3>2, MovedIs DEF Stays
  <2> QED BY <2>1, <2>2
<1>10. bufs' = [c \in Bufs |-> bufs'[c]]
  BY <1>6, MovedIs
<1>12. \A c \in Bufs : Stays(c) \/ (bufs'[c] \in StreamBuf /\ BufOK(c)')
  BY <1>5, <1>7, <1>8, <1>9
<1> QED BY <1>3, <1>4, <1>10, <1>12, StepOK

LEMMA DestroyKeeps ==
  ASSUME StreamInv, Destroy
  PROVE  StreamInv'
<1>1. PICK b \in Bufs :
        /\ files' = Restrict(files, DOMAIN files \ {bufs[b].handle})
        /\ bufs' = [Moved(Shares(bufs[b].handle)) EXCEPT ![b].handle = Null]
        /\ UNCHANGED <<disk, handles>>
  BY DEF Destroy
<1> DEFINE S == Shares(bufs[b].handle)
           m == Moved(S)[b]
           x == [m EXCEPT !.handle = Null]
           o == bufs[b]
<1>2. /\ DOMAIN files' = DOMAIN files \ {o.handle}
      /\ \A k \in DOMAIN files \ {o.handle} : files'[k] = files[k]
  BY <1>1 DEF Restrict
<1>3. \A k \in DOMAIN files' : files'[k] \in OpenFile /\ EndIsEnd(files'[k])
  BY <1>2 DEF StreamInv
<1>4. bufs' = [Moved(S) EXCEPT ![b] = x]
  BY <1>1
<1>5. o \in StreamBuf /\ o.w <= Len(o.area)
  BY DEF StreamInv, BufOK
<1>6. m \in StreamBuf /\ m.w = o.w /\ m.area = o.area
  <2>1. m = o \/ m = [o EXCEPT !.alone = FALSE]
    BY MovedIs
  <2> HIDE DEF m, o
  <2> QED BY <1>5, <2>1 DEF StreamBuf
<1> HIDE DEF S, m, o
<1>7. x \in StreamBuf /\ x.handle = Null /\ x.w = o.w /\ x.area = o.area
  <2>1. Null \in Nat
    BY DEF Null
  <2>2. x \in StreamBuf
    BY <1>6, <2>1 DEF StreamBuf
  <2>3. x.handle = Null /\ x.w = m.w /\ x.area = m.area
    BY <1>6 DEF StreamBuf
  <2> QED BY <1>6, <2>2, <2>3
<1> HIDE DEF x
<1>8. bufs'[b] = x /\ \A c \in Bufs \ {b} : bufs'[c] = Moved(S)[c]
  BY <1>4, MovedIs
<1>9. /\ DiskOK' /\ handles' \in Nat /\ handles <= handles' /\ DOMAIN files' \subseteq 1 .. handles'
  BY <1>1, <1>2 DEF StreamInv, DiskOK
<1>10. BufOK(b)'
  <2>1. Null \notin DOMAIN files' /\ Null <= handles'
    BY <1>9 DEF Null
  <2> QED BY <1>5, <1>7, <1>8, <2>1, BufIs
<1>11. ASSUME NEW c \in Bufs \ {b} PROVE Stays(c)
  <2>1. Quiet(bufs[c].handle)
    BY <1>1, <1>2 DEF Quiet
  <2> QED BY <1>8, <2>1, MovedIs DEF Stays
<1>12. bufs' = [c \in Bufs |-> bufs'[c]]
  BY <1>4, MovedIs
<1>13. \A c \in Bufs : Stays(c) \/ (bufs'[c] \in StreamBuf /\ BufOK(c)')
  BY <1>7, <1>8, <1>10, <1>11
<1> QED BY <1>3, <1>9, <1>12, <1>13, StepOK

\* Only streambuf b changes, in the guest's memory.
LEMMA OneBuf ==
  ASSUME StreamInv, NEW b \in Bufs, NEW x \in StreamBuf,
         bufs' = [bufs EXCEPT ![b] = x], UNCHANGED <<disk, files, handles>>,
         x.handle = bufs[b].handle, x.w <= Len(x.area),
         IsOpen(x.handle) => ~x.alone
  PROVE  StreamInv'
<1>1. bufs \in [Bufs -> StreamBuf] /\ bufs[b].handle <= handles
  BY DEF StreamInv, BufOK
<1>2. bufs'[b] = x /\ \A c \in Bufs \ {b} : bufs'[c] = bufs[c]
  BY <1>1
<1>3. BufOK(b)'
  <2>1. x.handle \in DOMAIN files' => MirrorsOn(disk', x, files'[x.handle])
    BY DEF IsOpen, MirrorsOn
  <2> QED BY <1>1, <1>2, <2>1, BufIs
<1>4. ASSUME NEW c \in Bufs \ {b} PROVE Stays(c)
  <2>1. Quiet(bufs[c].handle)
    BY DEF Quiet
  <2> QED BY <1>2, <2>1 DEF Stays
<1>5. bufs' = [c \in Bufs |-> bufs'[c]]
  BY <1>1
<1>6. /\ DiskOK' /\ handles' \in Nat /\ handles <= handles' /\ DOMAIN files' \subseteq 1 .. handles'
      /\ \A k \in DOMAIN files' : files'[k] \in OpenFile /\ EndIsEnd(files'[k])
  BY DEF StreamInv, DiskOK
<1>7. \A c \in Bufs : Stays(c) \/ (bufs'[c] \in StreamBuf /\ BufOK(c)')
  BY <1>2, <1>3, <1>4
<1> QED BY <1>5, <1>6, <1>7, StepOK

LEMMA SetAreaKeeps ==
  ASSUME StreamInv, SetArea
  PROVE  StreamInv'
<1>1. PICK b \in Bufs, n \in Counts \cup {0} : \E w \in {0, n} : \E k \in 0 .. w :
        /\ bufs' = [bufs EXCEPT ![b] = [@ EXCEPT !.area = Fill(n), !.r = k, !.w = w, !.alone = FALSE]]
        /\ UNCHANGED <<disk, files, handles>>
  BY DEF SetArea
<1>2. PICK w \in {0, n} : \E k \in 0 .. w :
        /\ bufs' = [bufs EXCEPT ![b] = [@ EXCEPT !.area = Fill(n), !.r = k, !.w = w, !.alone = FALSE]]
        /\ UNCHANGED <<disk, files, handles>>
  BY <1>1
<1>3. PICK k \in 0 .. w :
        /\ bufs' = [bufs EXCEPT ![b] = [@ EXCEPT !.area = Fill(n), !.r = k, !.w = w, !.alone = FALSE]]
        /\ UNCHANGED <<disk, files, handles>>
  BY <1>2
<1> DEFINE o == bufs[b]
           area == Fill(n)
           x == [o EXCEPT !.area = area, !.r = k, !.w = w, !.alone = FALSE]
<1>4. n \in Nat /\ w \in 0 .. n /\ k \in Nat
  <2>1. n \in Nat
    <3>1. Counts \subseteq Nat
      BY StreamAssumption
    <3> QED BY <3>1
  <2>2. w \in 0 .. n /\ w \in Nat
    BY <2>1
  <2> QED BY <2>1, <2>2
<1>5. area \in Seq(Nat) /\ Len(area) = n
  <2>1. area \in [1 .. n -> Nat]
    BY StreamAssumption DEF Fill
  <2> HIDE DEF area
  <2> QED BY <1>4, <2>1
<1>6. o \in StreamBuf
  BY DEF StreamInv
<1>7. bufs' = [bufs EXCEPT ![b] = x]
  BY <1>3
<1> HIDE DEF area, o
<1>8. x \in StreamBuf
  <2>1. w \in Nat /\ k \in Nat /\ area \in Seq(Nat) /\ FALSE \in BOOLEAN
    BY <1>4, <1>5
  <2> QED BY <1>6, <2>1 DEF StreamBuf
<1>9. x.handle = o.handle /\ x.area = area /\ x.w = w /\ x.alone = FALSE
  BY <1>6 DEF StreamBuf
<1> HIDE DEF x
<1>10. x.w <= Len(x.area)
  BY <1>4, <1>5, <1>9
<1> QED BY <1>3, <1>7, <1>8, <1>9, <1>10, OneBuf DEF o

\* A seek that fails.
LEMMA SeekBeforeKeeps ==
  ASSUME StreamInv, SeekBefore
  PROVE  StreamInv'
<1>1. PICK b \in Bufs, n \in Counts, end \in BOOLEAN :
        /\ IsOpen(bufs[b].handle)
        /\ bufs' = [bufs EXCEPT ![b] = [@ EXCEPT !.r = Back(b, n, end), !.alone = FALSE]]
        /\ UNCHANGED <<disk, files, handles>>
  BY Zenon DEF SeekBefore
<1> DEFINE o == bufs[b]
           f == FileOf(b)
           r == Back(b, n, end)
           x == [o EXCEPT !.r = r, !.alone = FALSE]
<1>2. o \in StreamBuf /\ o.w <= Len(o.area) /\ IsOpen(o.handle)
  BY <1>1 DEF StreamInv, BufOK
<1>3. r \in Nat
  <2> DEFINE len  == Len(disk[f.path])
             off  == -n - (IF end THEN len ELSE f.pos)
             from == IF end THEN o.w ELSE o.r
  <2>1. n \in Nat /\ o.w \in Nat /\ o.r \in Nat
    BY <1>2, StreamAssumption DEF StreamBuf
  <2>2. f \in OpenFile
    BY <1>2 DEF StreamInv, FileOf, IsOpen
  <2>3. f.pos \in Nat /\ f.path \in Paths
    BY <2>2 DEF OpenFile
  <2>4. len \in Nat
    <3>1. disk[f.path] \in Seq(Nat)
      BY <2>3 DEF StreamInv, DiskOK
    <3> QED BY <3>1, LenProperties
  <2>5. r = Bigger(0, Smaller(from + off, o.w))
    BY DEF Back
  <2> HIDE DEF o, f, len, r
  <2>6. from + off \in Int
    BY <2>1, <2>3, <2>4
  <2> HIDE DEF from, off
  <2> QED BY <2>1, <2>5, <2>6 DEF Bigger, Smaller
<1>4. bufs' = [bufs EXCEPT ![b] = x] /\ UNCHANGED <<disk, files, handles>>
  BY <1>1
<1> HIDE DEF r, o
<1>5. x \in StreamBuf
  BY <1>2, <1>3 DEF StreamBuf
<1>6. x.handle = o.handle /\ x.area = o.area /\ x.w = o.w /\ ~x.alone
  BY <1>2 DEF StreamBuf
<1> HIDE DEF x
<1>7. x.handle = bufs[b].handle /\ x.w <= Len(x.area)
  BY <1>2, <1>6 DEF o
<1> QED BY <1>4, <1>5, <1>6, <1>7, OneBuf

LEMMA SeekBufKeeps ==
  ASSUME StreamInv, SeekBuf
  PROVE  StreamInv'
<1>1. PICK b \in Bufs : \E p \in 0 .. Len(disk[FileOf(b).path]) + 1 :
        /\ IF IsOpen(bufs[b].handle)
           THEN /\ files' = [files EXCEPT ![bufs[b].handle] = AfterSeek(@, p)]
                /\ bufs' = [Moved(Shares(bufs[b].handle)) EXCEPT
                     ![b] = [AfterSeekBuf(bufs[b]) EXCEPT
                               !.at = p, !.alone = Shares(bufs[b].handle) = {b}]]
           ELSE /\ bufs' = [bufs EXCEPT ![b].r = p]
                /\ UNCHANGED files
        /\ UNCHANGED <<disk, handles>>
  BY DEF SeekBuf
<1>2. PICK p \in 0 .. Len(disk[FileOf(b).path]) + 1 :
        /\ IF IsOpen(bufs[b].handle)
           THEN /\ files' = [files EXCEPT ![bufs[b].handle] = AfterSeek(@, p)]
                /\ bufs' = [Moved(Shares(bufs[b].handle)) EXCEPT
                     ![b] = [AfterSeekBuf(bufs[b]) EXCEPT
                               !.at = p, !.alone = Shares(bufs[b].handle) = {b}]]
           ELSE /\ bufs' = [bufs EXCEPT ![b].r = p]
                /\ UNCHANGED files
        /\ UNCHANGED <<disk, handles>>
  BY <1>1
<1> DEFINE o == bufs[b]
           h == o.handle
<1>3. o \in StreamBuf /\ o.w <= Len(o.area) /\ h <= handles /\ p \in Nat
  BY DEF StreamInv, BufOK
<1>4. CASE ~IsOpen(h)
  <2> DEFINE x == [o EXCEPT !.r = p]
  <2>1. bufs' = [bufs EXCEPT ![b] = x] /\ UNCHANGED <<disk, files, handles>>
    BY <1>2, <1>4
  <2> HIDE DEF o
  <2>2. x \in StreamBuf
    BY <1>3 DEF StreamBuf
  <2>3. x.handle = h /\ x.area = o.area /\ x.w = o.w
    BY <1>3 DEF StreamBuf
  <2> HIDE DEF x
  <2>4. ~IsOpen(x.handle) /\ x.handle = bufs[b].handle /\ x.w <= Len(x.area)
    BY <1>3, <1>4, <2>3 DEF o
  <2> QED BY <2>1, <2>2, <2>4, OneBuf
<1>5. CASE IsOpen(h)
  <2> DEFINE a == Shares(h) = {b}
             x == [[o EXCEPT !.r = 0, !.w = 0] EXCEPT !.at = p, !.alone = a]
             g == AfterSeek(files[h], p)
  <2>1. /\ files' = [files EXCEPT ![h] = g] /\ UNCHANGED <<disk, handles>>
        /\ bufs' = [Moved(Shares(h)) EXCEPT ![b] = x]
    BY <1>2, <1>5 DEF AfterSeekBuf, Dropped
  <2>2. h \in DOMAIN files /\ h # Null
    BY <1>5 DEF IsOpen, StreamInv, Null
  <2>3. g \in OpenFile /\ EndIsEnd(g) /\ g.pos = p
    BY <1>3, <2>2, SoughtIs DEF StreamInv
  <2> HIDE DEF g
  <2>4. DOMAIN files' = DOMAIN files /\ files'[h] = g /\ \A k \in DOMAIN files \ {h} : files'[k] = files[k]
    BY <2>1, <2>2
  <2>5. x \in StreamBuf /\ x.handle = h /\ x.w = 0 /\ x.r = 0 /\ x.at = p /\ x.area = o.area
    <3> DEFINE y == [o EXCEPT !.r = 0, !.w = 0]
    <3>1. a \in BOOLEAN /\ 0 \in Nat /\ p \in Int
      BY <1>3
    <3> HIDE DEF a, o, h
    <3>2. y \in StreamBuf
      BY <1>3, <3>1 DEF StreamBuf
    <3>3. y.handle = o.handle /\ y.w = 0 /\ y.r = 0 /\ y.area = o.area
      BY <1>3 DEF StreamBuf
    <3> HIDE DEF y
    <3> DEFINE z == [y EXCEPT !.at = p, !.alone = a]
    <3>4. z \in StreamBuf
      BY <3>1, <3>2 DEF StreamBuf
    <3>5. z.handle = y.handle /\ z.w = y.w /\ z.r = y.r /\ z.area = y.area /\ z.at = p
      BY <3>2 DEF StreamBuf
    <3>6. z = x
      BY DEF y
    <3> HIDE DEF z, x
    <3> QED BY <3>3, <3>4, <3>5, <3>6 DEF h
  <2> HIDE DEF x, a
  <2>6. bufs'[b] = x /\ \A c \in Bufs \ {b} : bufs'[c] = Moved(Shares(h))[c]
    BY <2>1, MovedIs
  <2>7. BufOK(b)'
    <3>1. MirrorsOn(disk', x, files'[x.handle])
      BY <2>3, <2>4, <2>5, EmptyMirrors
    <3>2. x.w <= Len(x.area)
      <4>1. Len(o.area) \in Nat
        BY <1>3, LenProperties DEF StreamBuf
      <4> QED BY <2>5, <4>1
    <3>3. x.handle <= handles'
      BY <1>3, <2>1, <2>5
    <3> HIDE DEF o, h
    <3> QED BY <2>6, <3>1, <3>2, <3>3, BufIs
  <2>8. ASSUME NEW c \in Bufs \ {b} PROVE Stays(c)
    <3>1. CASE c \in Shares(h)
      BY <2>6, <3>1, MovedIs DEF Stays
    <3>2. CASE c \notin Shares(h)
      <4>1. bufs[c].handle # h
        BY <2>2, <3>2 DEF Shares
      <4>2. Quiet(bufs[c].handle)
        BY <2>1, <2>4, <4>1 DEF Quiet
      <4> QED BY <2>6, <3>2, <4>2, MovedIs DEF Stays
    <3> QED BY <3>1, <3>2
  <2>9. bufs' = [c \in Bufs |-> bufs'[c]]
    BY <2>1, MovedIs
  <2>10. \A k \in DOMAIN files' : files'[k] \in OpenFile /\ EndIsEnd(files'[k])
    BY <2>3, <2>4 DEF StreamInv
  <2>11. DiskOK' /\ handles' \in Nat /\ handles <= handles' /\ DOMAIN files' \subseteq 1 .. handles'
    BY <2>1, <2>4 DEF StreamInv, DiskOK
  <2>12. \A c \in Bufs : Stays(c) \/ (bufs'[c] \in StreamBuf /\ BufOK(c)')
    BY <2>5, <2>6, <2>7, <2>8
  <2> QED BY <2>9, <2>10, <2>11, <2>12, StepOK
<1> QED BY <1>4, <1>5

LEMMA XsputnKeeps ==
  ASSUME StreamInv, Xsputn
  PROVE  StreamInv'
<1>1. PICK b \in Bufs, n \in Counts :
        LET f == FileOf(b)
            h == bufs[b].handle
            a == bufs[b].area
            w == bufs[b].w
            m == Bigger(0, Smaller(n, Len(a)) - w)
        IN /\ IF h # Null
              THEN /\ IsOpen(h)
                   /\ files' = [files EXCEPT ![h] = AfterWrite(f, n)]
                   /\ disk' = IF f.write THEN [disk EXCEPT ![f.path] = Written(f, n)] ELSE disk
                   /\ bufs' = Moved(Shares(h) \cup OnPath(f.path))
              ELSE /\ bufs' = [bufs EXCEPT ![b].w = w + m,
                                ![b].area = [i \in DOMAIN a |-> IF i > w /\ i <= w + m THEN Zero ELSE a[i]]]
                   /\ UNCHANGED <<disk, files>>
           /\ UNCHANGED handles
  BY DEF Xsputn
<1> DEFINE o == bufs[b]
           h == o.handle
<1>2. CASE h # Null
  <2>1. h \in DOMAIN files /\ FileOf(b) = files[h]
    BY <1>1, <1>2 DEF IsOpen, FileOf
  <2> QED BY <1>1, <1>2, <2>1, WritingKeeps
<1>3. CASE h = Null
  <2> DEFINE a == o.area
             w == o.w
             m == Bigger(0, Smaller(n, Len(a)) - w)
             e == w + m
             area == [i \in DOMAIN a |-> IF i > w /\ i <= e THEN Zero ELSE a[i]]
             x == [o EXCEPT !.w = e, !.area = area]
  <2>1. bufs' = [bufs EXCEPT ![b] = x] /\ UNCHANGED <<disk, files, handles>>
    BY <1>1, <1>3
  <2>2. o \in StreamBuf /\ w <= Len(a) /\ n \in Nat
    BY StreamAssumption DEF StreamInv, BufOK
  <2> HIDE DEF o
  <2>3. w \in Nat /\ a \in Seq(Nat) /\ Len(a) \in Nat /\ DOMAIN a = 1 .. Len(a)
        /\ \A i \in 1 .. Len(a) : a[i] \in Nat
    BY <2>2, LenProperties, ElementOfSeq DEF StreamBuf
  <2> HIDE DEF a, w
  <2>4. e \in Nat /\ e <= Len(a)
    BY <2>2, <2>3 DEF Bigger, Smaller
  <2> HIDE DEF e
  <2>5. area \in Seq(Nat) /\ Len(area) = Len(a)
    <3> DEFINE l == Len(a)
    <3>1. area \in [1 .. l -> Nat] /\ l \in Nat
      BY <2>3, StreamAssumption
    <3> HIDE DEF area, l
    <3>2. area \in Seq(Nat) /\ Len(area) = l
      BY <3>1
    <3> QED BY <3>2 DEF l
  <2> HIDE DEF area
  <2>6. x \in StreamBuf
    BY <2>2, <2>4, <2>5 DEF StreamBuf
  <2>7. x.handle = h /\ x.area = area /\ x.w = e
    BY <2>2 DEF StreamBuf
  <2> HIDE DEF x
  <2>8. ~IsOpen(x.handle)
    BY <1>3, <2>7 DEF StreamInv, IsOpen, Null
  <2>9. x.handle = bufs[b].handle /\ x.w <= Len(x.area)
    BY <2>4, <2>5, <2>7 DEF o
  <2> QED BY <2>1, <2>6, <2>8, <2>9, OneBuf
<1> QED BY <1>2, <1>3

----------------------------------------------------------------------------
(* Reading through a streambuf. *)

LEMMA StartsOK ==
  ASSUME StreamInv, NEW b \in Bufs
  PROVE  /\ ReaderOK(Reader(b)) /\ DiskOK
         /\ Reader(b).buf = bufs[b] /\ Reader(b).file = FileOf(b)
         /\ Reader(b).open = IsOpen(bufs[b].handle)
<1>1. /\ Reader(b).buf = bufs[b] /\ Reader(b).file = FileOf(b) /\ Reader(b).out = <<>>
      /\ Reader(b).open = IsOpen(bufs[b].handle)
  BY DEF Reader
<1>2. FileOf(b) \in OpenFile /\ EndIsEnd(FileOf(b)) /\ bufs[b] \in StreamBuf
  BY FileIs
<1>3. IsOpen(bufs[b].handle) \in BOOLEAN /\ <<>> \in Seq(Nat)
  BY DEF IsOpen
<1>4. Reader(b) \in ReaderOf
  BY <1>2, <1>3 DEF Reader, ReaderOf
<1>5. /\ bufs[b].w <= Len(bufs[b].area)
      /\ IsOpen(bufs[b].handle) => Mirrors(bufs[b], FileOf(b))
  BY DEF StreamInv, BufOK
<1>6. DiskOK
  BY DEF StreamInv
<1> HIDE DEF StreamInv
<1>7. ReaderOK(Reader(b))
  BY <1>1, <1>2, <1>4, <1>5 DEF ReaderOK
<1> QED BY <1>1, <1>6, <1>7

LEMMA ReadsKeeps ==
  ASSUME StreamInv, NEW b \in Bufs, NEW y, ReaderOK(y), y.buf.handle = bufs[b].handle,
         y.open = IsOpen(bufs[b].handle), Reads(b, y), UNCHANGED handles
  PROVE  StreamInv'
<1> DEFINE h == bufs[b].handle
           S == IF y.file = FileOf(b) THEN {} ELSE Shares(h) \ {b}
<1>1. /\ bufs' = [Moved(S) EXCEPT ![b] = y.buf]
      /\ files' = IF y.open THEN [files EXCEPT ![h] = y.file] ELSE files
      /\ disk' = disk
  BY DEF Reads
<1>2. /\ y.buf \in StreamBuf /\ y.file \in OpenFile /\ EndIsEnd(y.file)
      /\ y.buf.w <= Len(y.buf.area) /\ (y.open => Mirrors(y.buf, y.file))
  BY DEF ReaderOK, ReaderOf
<1>3. /\ DOMAIN files' = DOMAIN files
      /\ y.open => h \in DOMAIN files /\ files'[h] = y.file
      /\ \A k \in DOMAIN files \ {h} : files'[k] = files[k]
      /\ ~y.open => h \notin DOMAIN files
  BY <1>1 DEF IsOpen
<1>4. \A k \in DOMAIN files' : files'[k] \in OpenFile /\ EndIsEnd(files'[k])
  BY <1>2, <1>3 DEF StreamInv
<1>5. bufs'[b] = y.buf /\ \A c \in Bufs \ {b} : bufs'[c] = Moved(S)[c]
  BY <1>1, MovedIs
<1>6. BufOK(b)'
  <2>1. y.buf.handle \in DOMAIN files' => MirrorsOn(disk', y.buf, files'[y.buf.handle])
    BY <1>1, <1>2, <1>3 DEF Mirrors
  <2>2. y.buf.handle <= handles'
    BY DEF StreamInv, BufOK
  <2> QED BY <1>2, <1>5, <2>1, <2>2, BufIs
<1> HIDE DEF S
<1>7. ASSUME NEW c \in Bufs \ {b} PROVE Stays(c)
  <2>1. CASE c \in S
    BY <1>5, <2>1, MovedIs DEF Stays
  <2>2. CASE c \notin S
    <3>1. Quiet(bufs[c].handle)
      <4>1. CASE y.open /\ y.file # FileOf(b)
        <5>1. h # Null
          BY <1>3, <4>1 DEF StreamInv, Null
        <5>2. bufs[c].handle # h
          BY <2>2, <4>1, <5>1 DEF Shares, S
        <5> QED BY <1>1, <1>3, <5>2 DEF Quiet
      <4>2. CASE y.open /\ y.file = FileOf(b)
        <5>1. files'[h] = files[h]
          BY <1>3, <4>2 DEF FileOf
        <5> QED BY <1>1, <1>3, <5>1 DEF Quiet
      <4>3. CASE ~y.open
        BY <1>1, <4>3 DEF Quiet
      <4> QED BY <4>1, <4>2, <4>3
    <3> QED BY <1>5, <2>2, <3>1, MovedIs DEF Stays
  <2> QED BY <2>1, <2>2
<1>8. bufs' = [c \in Bufs |-> bufs'[c]]
  BY <1>1, MovedIs
<1>9. DiskOK' /\ handles' \in Nat /\ handles <= handles' /\ DOMAIN files' \subseteq 1 .. handles'
  BY <1>1, <1>3 DEF StreamInv, DiskOK
<1>10. \A c \in Bufs : Stays(c) \/ (bufs'[c] \in StreamBuf /\ BufOK(c)')
  BY <1>2, <1>5, <1>6, <1>7
<1> QED BY <1>4, <1>8, <1>9, <1>10, StepOK

LEMMA FollowsKeeps ==
  ASSUME StreamInv, NEW b \in Bufs, NEW y, Follows(Reader(b), y), Reads(b, y), UNCHANGED handles
  PROVE  StreamInv'
<1>1. ReaderOK(y) /\ y.buf.handle = bufs[b].handle /\ y.open = IsOpen(bufs[b].handle)
  BY StartsOK DEF Follows, SameStream
<1> QED BY <1>1, ReadsKeeps

LEMMA ReadingKeeps ==
  ASSUME StreamInv, Underflow \/ Uflow \/ Xsgetn
  PROVE  StreamInv'
<1>1. CASE Underflow
  <2>1. PICK b \in Bufs : Reads(b, Prepare(Reader(b))) /\ UNCHANGED handles
    BY <1>1 DEF Underflow
  <2> DEFINE y == Prepare(Reader(b))
  <2>2. Follows(Reader(b), y)
    BY StartsOK, PrepareOK
  <2> HIDE DEF y
  <2>3. Reads(b, y)
    BY <2>1 DEF y
  <2> QED BY <2>1, <2>2, <2>3, FollowsKeeps
<1>2. CASE Uflow
  <2>1. PICK b \in Bufs : Reads(b, Take(Reader(b))) /\ UNCHANGED handles
    BY <1>2 DEF Uflow
  <2> DEFINE y == Take(Reader(b))
  <2>2. Follows(Reader(b), y)
    BY StartsOK, TakeByteOK
  <2> HIDE DEF y
  <2>3. Reads(b, y)
    BY <2>1 DEF y
  <2> QED BY <2>1, <2>2, <2>3, FollowsKeeps
<1>3. CASE Xsgetn
  <2>1. PICK b \in Bufs, n \in Counts : Reads(b, TakeWhile(Reader(b), Nat, n)) /\ UNCHANGED handles
    BY <1>3 DEF Xsgetn
  <2> DEFINE y == TakeWhile(Reader(b), Nat, n)
  <2>2. n \in Nat
    BY StreamAssumption
  <2>3. Follows(Reader(b), y)
    BY <2>2, StartsOK, TakeWhileOK
  <2> HIDE DEF y
  <2>4. Reads(b, y)
    BY <2>1 DEF y
  <2> QED BY <2>1, <2>3, <2>4, FollowsKeeps
<1> QED BY <1>1, <1>2, <1>3

LEMMA GetlineKeeps ==
  ASSUME StreamInv, Getline
  PROVE  StreamInv'
<1>1. PICK b \in Bufs, n \in Counts :
        LET y == TakeWhile(Reader(b), Nat \ {NewLine}, n - 1)
            stored == Len(y.out)
            room == stored < n - 1
            end == IF room THEN Take(y) ELSE y
        IN Reads(b, end) /\ UNCHANGED handles
  BY DEF Getline
<1> DEFINE y == TakeWhile(Reader(b), Nat \ {NewLine}, n - 1)
           end == IF Len(y.out) < n - 1 THEN Take(y) ELSE y
<1>2. Reads(b, end) /\ UNCHANGED handles
  BY <1>1
<1>3. n - 1 \in Nat
  BY StreamAssumption
<1>4. Follows(Reader(b), y)
  BY <1>3, StartsOK, TakeWhileOK
<1> HIDE DEF y
<1>5. Follows(y, Take(y))
  BY <1>4, StartsOK, TakeByteOK DEF Follows
<1>6. Follows(Reader(b), Take(y))
  BY <1>4, <1>5, FollowsOn
<1>7. Follows(Reader(b), end)
  BY <1>4, <1>6
<1> HIDE DEF end
<1> QED BY <1>2, <1>7, FollowsKeeps

\* A byte put back: the guest stands before it again, if it is the byte that was there.
LEMMA PutBackOK ==
  ASSUME DiskOK, NEW y, ReaderOK(y), NEW keep \in BOOLEAN, y.buf.r # 0,
         y.buf.r <= Len(y.buf.area)
  PROVE  /\ ReaderOK(PutBack(y, keep)) /\ PutBack(y, keep).buf.handle = y.buf.handle
         /\ PutBack(y, keep).open = y.open
<1> DEFINE b == y.buf
           r == b.r
           a == b.area
           area == [a EXCEPT ![r] = Zero]
           back == [b EXCEPT !.r = r - 1, !.at = b.at - 1]
           other == [back EXCEPT !.alone = FALSE, !.area = area]
           x == IF keep THEN back ELSE other
           z == [y EXCEPT !.buf = x]
<1>2. y \in ReaderOf /\ b \in StreamBuf /\ y.file \in OpenFile /\ y.open \in BOOLEAN /\ y.out \in Seq(Nat)
  BY DEF ReaderOK, ReaderOf
<1>4. r \in Nat /\ r # 0 /\ a \in Seq(Nat) /\ r <= Len(a) /\ b.at \in Int /\ b.w \in Nat
  BY <1>2 DEF StreamBuf
<1>5. Len(a) \in Nat
  BY <1>4, LenProperties
<1>6. r - 1 \in Nat /\ b.at - 1 \in Int
  BY <1>4
<1>7. area \in Seq(Nat) /\ Len(area) = Len(a)
  <2>1. DOMAIN a = 1 .. Len(a) /\ a \in [1 .. Len(a) -> Nat]
    BY <1>4, LenProperties, ElementOfSeq
  <2> HIDE DEF r, a
  <2> DEFINE l == Len(a)
  <2>2. area \in [1 .. l -> Nat] /\ l \in Nat
    BY <1>5, <2>1, StreamAssumption
  <2> HIDE DEF area, l
  <2>3. area \in Seq(Nat) /\ Len(area) = l
    BY <2>2
  <2> QED BY <2>3 DEF l
<1>8. back \in StreamBuf /\ back.r = r - 1 /\ back.at = b.at - 1 /\ back.alone = b.alone
      /\ back.area = a /\ back.w = b.w /\ back.handle = b.handle
  <2> HIDE DEF b
  <2>1. back \in StreamBuf
    BY <1>2, <1>6 DEF StreamBuf
  <2>2. back.r = r - 1 /\ back.at = b.at - 1 /\ back.alone = b.alone
        /\ back.area = a /\ back.w = b.w /\ back.handle = b.handle
    BY <1>2 DEF StreamBuf
  <2> QED BY <2>1, <2>2
<1>9. PutBack(y, keep) = z
  <2>1. back.area = y.buf.area
    BY <1>8
  <2>2. [back EXCEPT !.alone = FALSE, !.area = [@ EXCEPT ![y.buf.r] = Zero]] = other
    BY <2>1, Zenon
  <2> QED BY <2>2, Zenon DEF PutBack
<1> HIDE DEF back, area
<1>10. other \in StreamBuf /\ other.alone = FALSE /\ other.area = area
       /\ other.w = b.w /\ other.handle = b.handle
  <2>1. other \in StreamBuf
    BY <1>7, <1>8 DEF StreamBuf
  <2>2. other.alone = FALSE /\ other.area = area /\ other.w = back.w /\ other.handle = back.handle
    BY <1>8 DEF StreamBuf
  <2> QED BY <1>8, <2>1, <2>2
<1> HIDE DEF other
<1>11. /\ x \in StreamBuf /\ x.w = b.w /\ x.handle = b.handle /\ Len(x.area) = Len(a)
       /\ x.alone => keep
  BY <1>7, <1>8, <1>10
<1>12. y.open => Mirrors(x, y.file)
  <2> SUFFICES ASSUME y.open, x.alone PROVE Mirrors(x, y.file)
    BY DEF Mirrors, MirrorsOn
  <2>1. x = back
    BY <1>11
  <2>2. b.alone /\ x.r = b.r - 1 /\ x.at = b.at - 1 /\ x.area = b.area
    BY <1>8, <2>1
  <2>3. y.file.pos \in Nat
    BY <1>2 DEF OpenFile
  <2>4. /\ b.r <= b.w /\ b.w <= y.file.pos /\ b.at = y.file.pos - (b.w - b.r)
        /\ b.w > 0 => y.file.pos <= Len(disk[y.file.path])
        /\ \A i \in 1 .. b.w : b.area[i] = disk[y.file.path][y.file.pos - b.w + i]
    BY <2>2 DEF ReaderOK, Mirrors, MirrorsOn
  <2> HIDE DEF b, x
  <2>5. /\ x.r <= x.w /\ x.w <= y.file.pos /\ x.at = y.file.pos - (x.w - x.r)
    BY <1>4, <1>11, <2>2, <2>3, <2>4 DEF r
  <2> QED BY <1>11, <2>2, <2>4, <2>5 DEF Mirrors, MirrorsOn
<1> HIDE DEF x
<1>13. z = [buf |-> x, file |-> y.file, open |-> y.open, out |-> y.out]
  BY <1>2, ReaderIs
<1> HIDE DEF z
<1>14. z \in ReaderOf
  BY <1>2, <1>11, <1>13 DEF ReaderOf
<1>15. z.buf = x /\ z.file = y.file /\ z.open = y.open
  BY <1>13
<1>16. x.w <= Len(x.area) /\ EndIsEnd(y.file)
  BY <1>11 DEF ReaderOK
<1>17. ReaderOK(z) /\ z.buf.handle = y.buf.handle /\ z.open = y.open
  BY <1>11, <1>12, <1>14, <1>15, <1>16 DEF ReaderOK
<1> QED BY <1>9, <1>17

LEMMA PbackfailKeeps ==
  ASSUME StreamInv, Pbackfail
  PROVE  StreamInv'
<1>1. PICK b \in Bufs, keep \in BOOLEAN :
        LET y == Prepare(Reader(b))
        IN /\ Reads(b, IF y.buf.r = 0 \/ y.buf.r > Len(y.buf.area) THEN y ELSE PutBack(y, keep))
           /\ UNCHANGED handles
  BY DEF Pbackfail
<1> DEFINE y == Prepare(Reader(b))
           stop == y.buf.r = 0 \/ y.buf.r > Len(y.buf.area)
           x == IF stop THEN y ELSE PutBack(y, keep)
<1>2. Reads(b, x) /\ UNCHANGED handles
  BY <1>1
<1>3. DiskOK /\ Follows(Reader(b), y)
  BY StartsOK, PrepareOK
<1> HIDE DEF y
<1>4. ReaderOK(y) /\ y.buf.handle = bufs[b].handle /\ y.open = IsOpen(bufs[b].handle)
  BY <1>3, StartsOK DEF Follows, SameStream
<1>5. ReaderOK(x) /\ x.buf.handle = bufs[b].handle /\ x.open = IsOpen(bufs[b].handle)
  <2>1. CASE stop
    BY <1>4, <2>1
  <2>2. CASE ~stop
    <3>1. y.buf.r # 0 /\ y.buf.r <= Len(y.buf.area)
      <4>1. y.buf.r \in Nat /\ Len(y.buf.area) \in Nat
        BY <1>4, LenProperties DEF ReaderOK, ReaderOf, StreamBuf
      <4> QED BY <2>2, <4>1
    <3> DEFINE z == PutBack(y, keep)
    <3>2. ReaderOK(z) /\ z.buf.handle = y.buf.handle /\ z.open = y.open
      BY <1>3, <1>4, <3>1, PutBackOK
    <3>3. x = z
      BY <2>2
    <3> HIDE DEF z, x
    <3> QED BY <1>4, <3>2, <3>3
  <2> QED BY <2>1, <2>2
<1> HIDE DEF x
<1> QED BY <1>2, <1>5, ReadsKeeps

\* Blanks, then digits.
LEMMA NumberOK ==
  ASSUME DiskOK, NEW x, ReaderOK(x), NEW n \in Nat
  PROVE  LET blank == TakeWhile(x, Blanks, n)
             digit == TakeWhile([blank EXCEPT !.out = <<>>], Digits, n)
         IN Follows(x, digit)
<1> DEFINE blank == TakeWhile(x, Blanks, n)
           none == [blank EXCEPT !.out = <<>>]
           digit == TakeWhile(none, Digits, n)
<1>1. Follows(x, blank)
  BY TakeWhileOK
<1> HIDE DEF blank
<1>2. Follows(x, none)
  <2>1. blank \in ReaderOf
    BY <1>1 DEF Follows, ReaderOK
  <2>2. none = [buf |-> blank.buf, file |-> blank.file, open |-> blank.open, out |-> <<>>]
    BY <2>1, ReaderIs
  <2>3. <<>> \in Seq(Nat)
    OBVIOUS
  <2>4. none \in ReaderOf
    BY <2>1, <2>2, <2>3 DEF ReaderOf
  <2>5. none.buf = blank.buf /\ none.file = blank.file /\ none.open = blank.open
    BY <2>2
  <2> HIDE DEF none
  <2> QED BY <1>1, <2>4, <2>5 DEF Follows, ReaderOK, SameStream
<1> HIDE DEF none
<1>3. Follows(none, digit)
  BY <1>2, TakeWhileOK DEF Follows
<1> HIDE DEF digit
<1>4. Follows(x, digit)
  BY <1>2, <1>3, FollowsOn
<1> QED BY <1>4 DEF digit, none, blank

\* What attach_version_dat_fallback makes of a filebuf without a file.
LEMMA FallbackOK ==
  ASSUME StreamInv, NEW b \in Bufs
  PROVE  LET x == Refill([buf |-> [bufs[b] EXCEPT !.handle = NewHandle, !.at = 0, !.alone = TRUE],
                          file |-> Opened(VersionDat, FallbackMode), open |-> TRUE, out |-> <<>>])
         IN ReaderOK(x) /\ x.buf.handle = NewHandle /\ x.open
<1> DEFINE o == bufs[b]
           h == NewHandle
           buf == [o EXCEPT !.handle = h, !.at = 0, !.alone = TRUE]
           g == Opened(VersionDat, FallbackMode)
           x == [buf |-> buf, file |-> g, open |-> TRUE, out |-> <<>>]
<1>1. DiskOK /\ o \in StreamBuf /\ o.w <= Len(o.area) /\ h \in Nat /\ h # Null
  BY DEF StreamInv, BufOK, NewHandle, Null
<1>2. g \in OpenFile /\ EndIsEnd(g) /\ g.pos = 0
  <2>1. VersionDat \in Paths /\ ~FallbackMode.ate
    BY StreamAssumption DEF FallbackMode
  <2> QED BY <2>1, OpenedIs
<1> HIDE DEF g, o, h
<1>3. buf \in StreamBuf
  <2>1. 0 \in Int /\ TRUE \in BOOLEAN
    OBVIOUS
  <2> QED BY <1>1, <2>1 DEF StreamBuf
<1>4. buf.handle = h /\ buf.w = o.w /\ buf.area = o.area /\ buf.at = 0
  BY <1>1 DEF StreamBuf
<1> HIDE DEF buf
<1>5. x \in ReaderOf
  <2>1. TRUE \in BOOLEAN /\ <<>> \in Seq(Nat)
    OBVIOUS
  <2> QED BY <1>2, <1>3, <2>1 DEF ReaderOf
<1>6. x.buf = buf /\ x.file = g /\ x.open /\ x.open \in BOOLEAN
  OBVIOUS
<1> HIDE DEF x
<1>7. x.buf.w <= Len(x.buf.area) /\ EndIsEnd(x.file) /\ x.buf.handle # Null /\ x.buf.at = x.file.pos
  BY <1>1, <1>2, <1>4, <1>6
<1>8. ReaderOK(Refill(x)) /\ SameStream(x, Refill(x))
  BY <1>1, <1>5, <1>7, RefillIs
<1>9. Refill(x).buf.handle = h /\ Refill(x).open
  BY <1>4, <1>6, <1>8 DEF SameStream
<1> QED BY <1>8, <1>9 DEF x, buf, g, o, h

LEMMA ExtractKeeps ==
  ASSUME StreamInv, Extract
  PROVE  StreamInv'
<1>1. PICK b \in Bufs :
        LET most == Len(disk[IF Falls(b) THEN VersionDat ELSE FileOf(b).path]) + Len(bufs[b].area) + 1
            h == IF Falls(b) THEN NewHandle ELSE bufs[b].handle
            start == IF Falls(b)
                     THEN Refill([buf |-> [bufs[b] EXCEPT !.handle = h, !.at = 0, !.alone = TRUE],
                                  file |-> Opened(VersionDat, FallbackMode), open |-> TRUE, out |-> <<>>])
                     ELSE Reader(b)
            blank == TakeWhile(start, Blanks, most)
            digit == TakeWhile([blank EXCEPT !.out = <<>>], Digits, most)
        IN IF Falls(b)
           THEN /\ Allocates
                /\ files' = Put(files, h, digit.file)
                /\ bufs' = [bufs EXCEPT ![b] = digit.buf]
                /\ UNCHANGED disk
           ELSE Reads(b, digit) /\ UNCHANGED handles
  BY DEF Extract
<1> DEFINE most == Len(disk[IF Falls(b) THEN VersionDat ELSE FileOf(b).path]) + Len(bufs[b].area) + 1
           start == IF Falls(b)
                    THEN Refill([buf |-> [bufs[b] EXCEPT !.handle = NewHandle, !.at = 0, !.alone = TRUE],
                                 file |-> Opened(VersionDat, FallbackMode), open |-> TRUE, out |-> <<>>])
                    ELSE Reader(b)
           blank == TakeWhile(start, Blanks, most)
           digit == TakeWhile([blank EXCEPT !.out = <<>>], Digits, most)
<1>2. most \in Nat
  <2>1. FileOf(b).path \in Paths /\ VersionDat \in Paths /\ bufs[b].area \in Seq(Nat)
    BY FileIs, StreamAssumption DEF OpenFile, StreamBuf
  <2>2. \A p \in Paths : Len(disk[p]) \in Nat
    BY LenProperties DEF StreamInv, DiskOK
  <2> DEFINE p == IF Falls(b) THEN VersionDat ELSE FileOf(b).path
             m == Len(disk[p])
             k == Len(bufs[b].area)
  <2>3. p \in Paths
    BY <2>1
  <2> HIDE DEF p
  <2>4. m \in Nat /\ k \in Nat
    BY <2>1, <2>2, <2>3, LenProperties
  <2>5. most = m + k + 1
    BY DEF p
  <2> HIDE DEF m, k, most
  <2> QED BY <2>4, <2>5
<1>3. CASE ~Falls(b)
  <2>1. Reads(b, digit) /\ UNCHANGED handles
    BY <1>1, <1>3
  <2>2. start = Reader(b)
    BY <1>3
  <2> HIDE DEF start, most
  <2>3. Follows(start, digit)
    BY <1>2, <2>2, StartsOK, NumberOK
  <2> HIDE DEF digit
  <2> QED BY <2>1, <2>2, <2>3, FollowsKeeps
<1>4. CASE Falls(b)
  <2>1. /\ handles' = NewHandle /\ files' = Put(files, NewHandle, digit.file)
        /\ bufs' = [bufs EXCEPT ![b] = digit.buf] /\ UNCHANGED disk
    BY <1>1, <1>4 DEF Allocates
  <2>2. ReaderOK(start) /\ start.buf.handle = NewHandle /\ start.open
    BY <1>4, FallbackOK
  <2> HIDE DEF start, most
  <2>3. Follows(start, digit)
    <3>1. DiskOK
      BY DEF StreamInv
    <3> QED BY <1>2, <2>2, <3>1, NumberOK
  <2> HIDE DEF digit
  <2> DEFINE x == digit.buf
             g == digit.file
  <2>4. /\ x \in StreamBuf /\ x.handle = NewHandle /\ x.w <= Len(x.area)
        /\ g \in OpenFile /\ EndIsEnd(g) /\ Mirrors(x, g)
    BY <2>2, <2>3 DEF Follows, SameStream, ReaderOK, ReaderOf
  <2>5. files' = Put(Restrict(files, DOMAIN files), NewHandle, g)
    BY <2>1 DEF Put, Restrict
  <2>6. bufs' = [bufs EXCEPT ![b] = x]
    BY <2>1
  <2> HIDE DEF x, g
  <2>7. /\ handles' \in Nat /\ handles <= handles' /\ DOMAIN files' \subseteq 1 .. handles'
        /\ \A h \in DOMAIN files' : files'[h] \in OpenFile /\ EndIsEnd(files'[h])
        /\ NewHandle \in Nat \ {0} /\ NewHandle \in DOMAIN files' /\ files'[NewHandle] = g
        /\ \A c \in Bufs : bufs[c].handle # NewHandle
        /\ \A h \in DOMAIN files' \ {NewHandle} : h \in DOMAIN files /\ files'[h] = files[h]
    BY <2>1, <2>4, <2>5, OpeningAdds
  <2>8. bufs'[b] = x /\ \A c \in Bufs \ {b} : bufs'[c] = bufs[c]
    BY <2>6 DEF StreamInv
  <2>9. BufOK(b)'
    <3>1. MirrorsOn(disk', x, files'[x.handle])
      BY <2>1, <2>4, <2>7 DEF Mirrors
    <3>2. x.handle <= handles'
      BY <2>1, <2>4, <2>7
    <3> QED BY <2>4, <2>8, <3>1, <3>2, BufIs
  <2>10. ASSUME NEW c \in Bufs \ {b} PROVE Stays(c)
    <3>1. Quiet(bufs[c].handle)
      BY <2>1, <2>7 DEF Quiet
    <3> QED BY <2>8, <3>1 DEF Stays
  <2>11. bufs' = [c \in Bufs |-> bufs'[c]]
    BY <2>6 DEF StreamInv
  <2>12. DiskOK'
    BY <2>1 DEF StreamInv, DiskOK
  <2>13. \A c \in Bufs : Stays(c) \/ (bufs'[c] \in StreamBuf /\ BufOK(c)')
    BY <2>4, <2>8, <2>9, <2>10
  <2> QED BY <2>7, <2>11, <2>12, <2>13, StepOK
<1> QED BY <1>3, <1>4

----------------------------------------------------------------------------
(* The theorem. *)

LEMMA StreamsStart == StreamsInit => StreamInv
<1> SUFFICES ASSUME StreamsInit PROVE StreamInv
  OBVIOUS
<1>1. /\ disk \in [Paths -> Contents] /\ files = <<>> /\ handles = 0
      /\ bufs = [b \in Bufs |-> UnusedBuf]
  BY DEF StreamsInit
<1>2. DiskOK
  BY <1>1, StreamAssumption DEF DiskOK
<1>3. DOMAIN files = {} /\ handles \in Nat
  BY <1>1
<1>4. UnusedBuf \in StreamBuf
  <2>1. <<>> \in Seq(Nat) /\ Null \in Nat /\ 0 \in Nat /\ 0 \in Int /\ FALSE \in BOOLEAN
    BY DEF Null
  <2> QED BY <2>1 DEF UnusedBuf, StreamBuf
<1>5. UnusedBuf.handle = 0 /\ UnusedBuf.w = 0 /\ UnusedBuf.area = <<>>
  BY DEF UnusedBuf, Null
<1>6. ASSUME NEW b \in Bufs PROVE BufOK(b)
  <2>1. bufs[b] = UnusedBuf
    BY <1>1
  <2>2. Len(<<>>) = 0
    OBVIOUS
  <2> QED BY <1>1, <1>3, <1>5, <2>1, <2>2 DEF BufOK, IsOpen
<1>7. bufs \in [Bufs -> StreamBuf]
  BY <1>1, <1>4
<1> QED BY <1>2, <1>3, <1>6, <1>7 DEF StreamInv

LEMMA StreamsStep == StreamInv /\ [StreamsNext]_streamVars => StreamInv'
<1> SUFFICES ASSUME StreamInv, [StreamsNext]_streamVars PROVE StreamInv'
  OBVIOUS
<1>1. CASE UNCHANGED streamVars
  BY <1>1 DEF streamVars, StreamInv, DiskOK, BufOK, IsOpen, Mirrors, MirrorsOn, FileOf, NoFile
<1>2. CASE Open \/ Close \/ Write
  BY <1>2, OpenKeeps, CloseKeeps, WriteKeeps
<1>3. CASE Read \/ Seek \/ Rewind
  BY <1>3, FileCallsKeep
<1>4. CASE ClearErr \/ Flush \/ Sync
  BY <1>4, FlagCallsKeep
<1>5. CASE Construct \/ OpenBuf \/ Destroy
  BY <1>5, ConstructKeeps, OpenBufKeeps, DestroyKeeps
<1>6. CASE SetArea \/ SeekBuf \/ SeekBefore \/ Xsputn
  BY <1>6, SetAreaKeeps, SeekBufKeeps, SeekBeforeKeeps, XsputnKeeps
<1>7. CASE Underflow \/ Uflow \/ Xsgetn
  BY <1>7, ReadingKeeps
<1>8. CASE Pbackfail \/ Getline \/ Extract
  BY <1>8, PbackfailKeeps, GetlineKeeps, ExtractKeeps
<1> QED BY <1>1, <1>2, <1>3, <1>4, <1>5, <1>6, <1>7, <1>8 DEF StreamsNext

LEMMA SameSeq ==
  ASSUME NEW p \in Seq(Nat), NEW q \in Seq(Nat), Len(p) = Len(q), \A i \in 1 .. Len(p) : p[i] = q[i]
  PROVE  p = q
BY SeqEqual

\* What is unread is a piece of the file.
LEMMA UnreadIs ==
  ASSUME NEW x \in StreamBuf, NEW c \in Seq(Nat), NEW pos \in Nat, x.w <= Len(x.area),
         x.r <= x.w, x.w <= pos, x.at = pos - (x.w - x.r), x.w > 0 => pos <= Len(c),
         \A i \in 1 .. x.w : x.area[i] = c[pos - x.w + i]
  PROVE  SubSeq(x.area, x.r + 1, x.w) = SubSeq(c, x.at + 1, pos)
<1> DEFINE a == x.area
           r == x.r
           w == x.w
           at == x.at
<1>1. a \in Seq(Nat) /\ r \in Nat /\ w \in Nat /\ at \in Int
  BY DEF StreamBuf
<1>2. r <= w /\ w <= pos /\ at = pos - (w - r) /\ w <= Len(a) /\ (w > 0 => pos <= Len(c))
      /\ \A i \in 1 .. w : a[i] = c[pos - w + i]
  OBVIOUS
<1> SUFFICES SubSeq(a, r + 1, w) = SubSeq(c, at + 1, pos)
  OBVIOUS
<1> HIDE DEF a, r, w, at
<1>3. at \in Nat
  BY <1>1, <1>2
<1>4. CASE r = w
  <2>1. at = pos
    BY <1>1, <1>2, <1>4
  <2>2. SubSeq(a, r + 1, w) = <<>>
    BY <1>1, <1>4
  <2>3. SubSeq(c, at + 1, pos) = <<>>
    BY <2>1
  <2> QED BY <2>2, <2>3
<1>5. CASE r # w
  <2>1. r < w /\ at < pos /\ pos <= Len(c) /\ w - r = pos - at
    BY <1>1, <1>2, <1>5
  <2> DEFINE p == SubSeq(a, r + 1, w)
             q == SubSeq(c, at + 1, pos)
  <2>2. p \in Seq(Nat) /\ Len(p) = w - r /\ \A i \in 1 .. w - r : p[i] = a[r + i]
    BY <1>1, <1>2, <2>1, CutAt
  <2>3. q \in Seq(Nat) /\ Len(q) = pos - at /\ \A i \in 1 .. pos - at : q[i] = c[at + i]
    BY <1>3, <2>1, CutAt
  <2> HIDE DEF p, q
  <2>4. ASSUME NEW i \in 1 .. w - r PROVE p[i] = q[i]
    <3>1. r + i \in 1 .. w /\ pos - w + (r + i) = at + i
      <4>1. i \in Int /\ 1 <= i /\ i <= w - r
        BY <1>1
      <4>2. at = pos - (w - r)
        BY <1>2
      <4> QED BY <1>1, <4>1, <4>2
    <3>2. a[r + i] = c[pos - w + (r + i)]
      BY <1>2, <3>1
    <3> QED BY <2>1, <2>2, <2>3, <3>1, <3>2
  <2>5. Len(p) = Len(q) /\ \A i \in 1 .. Len(p) : p[i] = q[i]
    BY <2>1, <2>2, <2>3, <2>4
  <2>6. p = q
    BY <2>2, <2>3, <2>5, SameSeq
  <2> QED BY <2>6 DEF p, q
<1> QED BY <1>4, <1>5

LEMMA StreamsMean == StreamInv => ReadsGoOn
<1> SUFFICES ASSUME StreamInv PROVE ReadsGoOn
  OBVIOUS
<1>1. StreamTypeOK
  <2>1. \A h \in DOMAIN files : files[h].path \in Paths /\ files[h].pos \in Nat
    BY DEF StreamInv, OpenFile
  <2>2. ASSUME NEW b \in Bufs PROVE bufs[b].w \in 0 .. Len(bufs[b].area) /\ bufs[b].r \in Nat
    <3>1. bufs[b] \in StreamBuf /\ bufs[b].w <= Len(bufs[b].area)
      BY DEF StreamInv, BufOK
    <3>2. bufs[b].w \in Nat /\ bufs[b].r \in Nat /\ Len(bufs[b].area) \in Nat
      BY <3>1, LenProperties DEF StreamBuf
    <3> QED BY <3>1, <3>2
  <2>3. DOMAIN files \subseteq 1 .. handles
    BY DEF StreamInv
  <2> QED BY <2>1, <2>2, <2>3 DEF StreamTypeOK
<1>2. EofMeansEnd
  BY DEF StreamInv, EofMeansEnd, EndIsEnd
<1>3. UnreadIsNext
  <2> SUFFICES ASSUME NEW b \in Bufs, bufs[b].alone, IsOpen(bufs[b].handle)
               PROVE  LET x == bufs[b]
                          f == FileOf(b)
                          n == Available(Reader(b))
                      IN /\ x.at = f.pos - n
                         /\ SubSeq(x.area, x.r + 1, x.w) = SubSeq(disk[f.path], x.at + 1, f.pos)
    BY DEF UnreadIsNext
  <2> DEFINE x == bufs[b]
             f == FileOf(b)
             n == Available(Reader(b))
             c == disk[f.path]
             pos == f.pos
  <2>1. f \in OpenFile /\ x \in StreamBuf
    BY FileIs
  <2>2. x.w <= Len(x.area) /\ Mirrors(x, f) /\ x.alone
    BY DEF StreamInv, BufOK
  <2>3. c \in Seq(Nat) /\ pos \in Nat
    BY <2>1 DEF StreamInv, DiskOK, OpenFile
  <2>4. n = Bigger(0, x.w - x.r)
    BY DEF Available, Reader
  <2> HIDE DEF x, f, n
  <2>5. /\ x.r <= x.w /\ x.w <= pos /\ x.at = pos - (x.w - x.r)
        /\ x.w > 0 => pos <= Len(c)
        /\ \A i \in 1 .. x.w : x.area[i] = c[pos - x.w + i]
    BY <2>2 DEF Mirrors, MirrorsOn
  <2>6. x.w \in Nat /\ x.r \in Nat
    BY <2>1 DEF StreamBuf
  <2>7. n = x.w - x.r
    BY <2>4, <2>5, <2>6 DEF Bigger
  <2> HIDE DEF c, pos
  <2>8. SubSeq(x.area, x.r + 1, x.w) = SubSeq(c, x.at + 1, pos)
    BY <2>1, <2>2, <2>3, <2>5, UnreadIs
  <2>9. x.at = pos - n
    BY <2>5, <2>7
  <2> QED BY <2>8, <2>9 DEF x, f, n, c, pos
<1> QED BY <1>1, <1>2, <1>3 DEF ReadsGoOn

\* What a guest reads through a filebuf that has its file for itself is the file, byte after
\* byte, whatever mixture of underflow, uflow, xsgetn, pbackfail, getline, operator>> and the
\* calls that seek, open and close it uses, in files and areas of any length; and feof is
\* told at the end only.
THEOREM ReadsAlwaysGoOn == StreamsSpec => []ReadsGoOn
<1>1. StreamsSpec => []StreamInv
  BY StreamsStart, StreamsStep, PTL DEF StreamsSpec
<1> QED BY <1>1, StreamsMean, PTL

----------------------------------------------------------------------------
(* Drawing (module Raster). *)

RectType == Int \X Int \X Int \X Int

\* A DC of the window, whose clip is made of rectangles.
DcOK ==
  /\ dc.ox \in Int /\ dc.oy \in Int
  /\ \A i \in DOMAIN dc.clip : dc.clip[i] \in RectType

\* What the clip leaves of some rectangles is what lies in one of them and in the clip.
LEMMA ClippedIs ==
  ASSUME DcOK, NEW r \in RectType, NEW q \in Cells
  PROVE  (\E k \in Clipped(r) : Inside(q, k)) <=> Inside(q, r) /\ InClip(q)
<1>1. q[1] \in Int /\ q[2] \in Int
  BY RasterAssumption DEF Cells
<1>2. \A k \in RectType :
        Inside(q, <<Highest(r[1], k[1]), Highest(r[2], k[2]), Lowest(r[3], k[3]), Lowest(r[4], k[4])>>)
          <=> Inside(q, r) /\ Inside(q, k)
  <2> TAKE k \in RectType
  <2>1. /\ r[1] \in Int /\ r[2] \in Int /\ r[3] \in Int /\ r[4] \in Int
        /\ k[1] \in Int /\ k[2] \in Int /\ k[3] \in Int /\ k[4] \in Int
    BY DEF RectType
  <2> QED BY <1>1, <2>1 DEF Inside, Highest, Lowest
<1> DEFINE Common(k) == <<Highest(r[1], k[1]), Highest(r[2], k[2]), Lowest(r[3], k[3]), Lowest(r[4], k[4])>>
<1>3. Clipped(r) = {Common(k) : k \in {dc.clip[i] : i \in DOMAIN dc.clip}}
  BY DEF Clipped
<1>4. \A i \in DOMAIN dc.clip : Inside(q, Common(dc.clip[i])) <=> Inside(q, r) /\ Inside(q, dc.clip[i])
  BY <1>2 DEF DcOK
<1> HIDE DEF Common
<1>5. (\E k \in Clipped(r) : Inside(q, k)) <=> \E i \in DOMAIN dc.clip : Inside(q, Common(dc.clip[i]))
  BY <1>3, Zenon
<1> QED BY <1>4, <1>5, Zenon DEF InClip

LEMMA FillIs ==
  ASSUME DcOK, NEW r \in RectType, NEW p, NEW c
  PROVE  FillClipped(p, r, c) =
           [q \in Cells |-> IF Inside(q, r) /\ InClip(q) THEN c ELSE p[q]]
<1>1. \A q \in Cells : q \in CellsOf(Clipped(r)) <=> Inside(q, r) /\ InClip(q)
  BY ClippedIs DEF CellsOf
<1> QED BY <1>1 DEF FillClipped, Painted

\* The loop of draw_line along a row or a column goes to the next point each time.
Walks(f, a, dx, dy, sx, sy) ==
  f = [i \in 0 .. Highest(dx, dy) |-> IF i = 0 THEN [at |-> a, err |-> dx - dy]
                                      ELSE Ahead(f[i - 1], dx, dy, sx, sy)]

LEMMA WalkIs ==
  ASSUME NEW dx \in Nat, NEW dy \in Nat, NEW sx, NEW sy, NEW a, NEW f,
         Walks(f, a, dx, dy, sx, sy)
  PROVE  Walk(a, dx, dy, sx, sy) = f
<1> DEFINE n == Highest(dx, dy)
           start == [at |-> a, err |-> dx - dy]
           IsWalk(g) == g = [i \in 0 .. n |-> IF i = 0 THEN start ELSE Ahead(g[i - 1], dx, dy, sx, sy)]
           w == CHOOSE g : IsWalk(g)
           T == {i \in 0 .. n : w[i] # f[i]}
<1>1. n \in Nat
  BY DEF Highest
<1>2. Walk(a, dx, dy, sx, sy) = w
  BY DEF Walk
<1>3. IsWalk(w)
  <2>1. IsWalk(f)
    BY DEF Walks
  <2> HIDE DEF IsWalk
  <2> QED BY <2>1
<1> HIDE DEF w
<1>4. /\ w = [i \in 0 .. n |-> w[i]] /\ f = [i \in 0 .. n |-> f[i]]
      /\ w[0] = f[0]
      /\ \A i \in 0 .. n : i # 0 => /\ w[i] = Ahead(w[i - 1], dx, dy, sx, sy)
                                    /\ f[i] = Ahead(f[i - 1], dx, dy, sx, sy)
  <2> HIDE DEF n, start
  <2>0. 0 \in 0 .. n
    BY <1>1
  <2>1. IsWalk(f)
    BY DEF n, start, Walks
  <2>2. \A g : IsWalk(g) => /\ g = [i \in 0 .. n |-> g[i]] /\ g[0] = start
                            /\ \A i \in 0 .. n : i # 0 => g[i] = Ahead(g[i - 1], dx, dy, sx, sy)
    BY <2>0
  <2> HIDE DEF IsWalk
  <2> QED BY <1>3, <2>1, <2>2
<1> HIDE DEF n, IsWalk
<1>5. CASE T = {}
  <2>1. \A i \in 0 .. n : w[i] = f[i]
    BY <1>5
  <2>2. w = f
    BY <1>4, <2>1, Zenon
  <2> QED BY <1>2, <2>2
<1>6. CASE T # {}
  <2>1. PICK m \in T : \A k \in T : m <= k
    <3>1. T \in SUBSET Nat
      BY <1>1
    <3> HIDE DEF T
    <3> QED BY <1>6, <3>1, Least
  <2>2. m \in 0 .. n /\ w[m] # f[m]
    OBVIOUS
  <2>3. m # 0
    BY <1>4, <2>2
  <2>4. m - 1 \in 0 .. n /\ ~(m <= m - 1)
    BY <1>1, <2>2, <2>3
  <2>5. w[m - 1] = f[m - 1]
    BY <2>1, <2>4
  <2> QED BY <1>4, <2>2, <2>3, <2>5, Zenon
<1> QED BY <1>5, <1>6

\* The points of a line along a row, and of one down a column.
LEMMA LevelLine ==
  ASSUME NEW a \in Int \X Int, NEW b \in Int \X Int, a[2] = b[2], a[1] <= b[1],
         NEW q \in Int \X Int
  PROVE  q \in Line(a, b) <=> a[1] <= q[1] /\ q[1] <= b[1] /\ q[2] = a[2]
<1> DEFINE n  == b[1] - a[1]
           sx == IF a[1] < b[1] THEN 1 ELSE -1
           sy == IF a[2] < b[2] THEN 1 ELSE -1
           f == [i \in 0 .. n |-> [at |-> <<a[1] + i, a[2]>>, err |-> n]]
<1>1. a[1] \in Int /\ a[2] \in Int /\ b[1] \in Int /\ b[2] \in Int /\ q[1] \in Int /\ q[2] \in Int
      /\ a = <<a[1], a[2]>> /\ q = <<q[1], q[2]>>
  OBVIOUS
<1>2. n \in Nat /\ Abs(b[1] - a[1]) = n /\ Abs(b[2] - a[2]) = 0 /\ Highest(n, 0) = n
  BY <1>1 DEF Abs, Highest
<1>3. Line(a, b) = {Walk(a, n, 0, sx, sy)[i].at : i \in 0 .. n}
  <2>1. Line(a, b) = {Walk(a, Abs(b[1] - a[1]), Abs(b[2] - a[2]), sx, sy)[i].at :
                        i \in 0 .. Highest(Abs(b[1] - a[1]), Abs(b[2] - a[2]))}
    BY DEF Line
  <2> HIDE DEF sx, sy, n
  <2> QED BY <1>2, <2>1
<1>4. Walks(f, a, n, 0, sx, sy)
  <2>1. \A i \in 0 .. n : f[i] = IF i = 0 THEN [at |-> a, err |-> n - 0]
                                 ELSE Ahead(f[i - 1], n, 0, sx, sy)
    <3> TAKE i \in 0 .. n
    <3>1. CASE i = 0
      BY <1>1, <1>2, <3>1
    <3>2. CASE i # 0
      <4>1. i - 1 \in 0 .. n /\ i \in Int /\ n > 0 /\ a[1] < b[1]
        BY <1>1, <1>2, <3>2
      <4>2. f[i - 1] = [at |-> <<a[1] + (i - 1), a[2]>>, err |-> n]
        BY <4>1
      <4>3. 2 * n > -0 /\ ~(2 * n < n) /\ sx = 1 /\ (n - 0) + 0 = n /\ a[1] + (i - 1) + 1 = a[1] + i
        BY <1>1, <1>2, <4>1
      <4> HIDE DEF n, sx, sy
      <4>4. Ahead([at |-> <<a[1] + (i - 1), a[2]>>, err |-> n], n, 0, sx, sy)
              = [at |-> <<a[1] + i, a[2]>>, err |-> n]
        BY <4>3 DEF Ahead
      <4> QED BY <3>2, <4>2, <4>4
    <3> QED BY <3>1, <3>2
  <2> QED BY <1>2, <2>1 DEF Walks
<1>5. \A i \in 0 .. n : f[i].at = <<a[1] + i, a[2]>>
  OBVIOUS
<1> HIDE DEF n, sx, sy, f
<1>6. Walk(a, n, 0, sx, sy) = f
  <2>1. 0 \in Nat
    OBVIOUS
  <2> QED BY <1>2, <1>4, <2>1, WalkIs
<1>7. Line(a, b) = {f[i].at : i \in 0 .. n}
  BY <1>3, <1>6
<1>8. ASSUME a[1] <= q[1], q[1] <= b[1], q[2] = a[2] PROVE q \in Line(a, b)
  <2>1. q[1] - a[1] \in 0 .. n /\ a[1] + (q[1] - a[1]) = q[1]
    BY <1>1, <1>8 DEF n
  <2>2. f[q[1] - a[1]].at = q
    BY <1>1, <1>5, <1>8, <2>1
  <2> QED BY <1>7, <2>1, <2>2
<1>9. ASSUME q \in Line(a, b) PROVE a[1] <= q[1] /\ q[1] <= b[1] /\ q[2] = a[2]
  <2>1. PICK i \in 0 .. n : q = <<a[1] + i, a[2]>>
    BY <1>5, <1>7, <1>9
  <2>2. q[1] = a[1] + i /\ q[2] = a[2] /\ i \in Int /\ 0 <= i /\ i <= n
    BY <1>2, <2>1
  <2> QED BY <1>1, <2>2 DEF n
<1> QED BY <1>8, <1>9

LEMMA UprightLine ==
  ASSUME NEW a \in Int \X Int, NEW b \in Int \X Int, a[1] = b[1], a[2] <= b[2],
         NEW q \in Int \X Int
  PROVE  q \in Line(a, b) <=> a[2] <= q[2] /\ q[2] <= b[2] /\ q[1] = a[1]
<1> DEFINE n  == b[2] - a[2]
           sx == IF a[1] < b[1] THEN 1 ELSE -1
           sy == IF a[2] < b[2] THEN 1 ELSE -1
           f == [i \in 0 .. n |-> [at |-> <<a[1], a[2] + i>>, err |-> 0 - n]]
<1>1. a[1] \in Int /\ a[2] \in Int /\ b[1] \in Int /\ b[2] \in Int /\ q[1] \in Int /\ q[2] \in Int
      /\ a = <<a[1], a[2]>> /\ q = <<q[1], q[2]>>
  OBVIOUS
<1>2. n \in Nat /\ Abs(b[2] - a[2]) = n /\ Abs(b[1] - a[1]) = 0 /\ Highest(0, n) = n
  BY <1>1 DEF Abs, Highest
<1>3. Line(a, b) = {Walk(a, 0, n, sx, sy)[i].at : i \in 0 .. n}
  <2>1. Line(a, b) = {Walk(a, Abs(b[1] - a[1]), Abs(b[2] - a[2]), sx, sy)[i].at :
                        i \in 0 .. Highest(Abs(b[1] - a[1]), Abs(b[2] - a[2]))}
    BY DEF Line
  <2> HIDE DEF sx, sy, n
  <2> QED BY <1>2, <2>1
<1>4. Walks(f, a, 0, n, sx, sy)
  <2>1. \A i \in 0 .. n : f[i] = IF i = 0 THEN [at |-> a, err |-> 0 - n]
                                 ELSE Ahead(f[i - 1], 0, n, sx, sy)
    <3> TAKE i \in 0 .. n
    <3>1. CASE i = 0
      <4>1. a[2] + i = a[2] /\ f[i] = [at |-> <<a[1], a[2] + i>>, err |-> 0 - n]
        BY <1>1, <3>1
      <4>2. f[i] = [at |-> a, err |-> 0 - n]
        <5> HIDE DEF f, n
        <5> QED BY <1>1, <4>1
      <4> QED BY <3>1, <4>2
    <3>2. CASE i # 0
      <4>1. i - 1 \in 0 .. n /\ i \in Int /\ n > 0 /\ a[2] < b[2]
        BY <1>1, <1>2, <3>2
      <4>2. f[i - 1] = [at |-> <<a[1], a[2] + (i - 1)>>, err |-> 0 - n]
        BY <4>1
      <4>3. ~(2 * (0 - n) > -n) /\ 2 * (0 - n) < 0 /\ sy = 1 /\ ((0 - n) - 0) + 0 = 0 - n
            /\ a[2] + (i - 1) + 1 = a[2] + i
        BY <1>1, <1>2, <4>1
      <4> HIDE DEF n, sx, sy
      <4>4. Ahead([at |-> <<a[1], a[2] + (i - 1)>>, err |-> 0 - n], 0, n, sx, sy)
              = [at |-> <<a[1], a[2] + i>>, err |-> 0 - n]
        BY <4>3 DEF Ahead
      <4> QED BY <3>2, <4>2, <4>4
    <3> QED BY <3>1, <3>2
  <2> QED BY <1>2, <2>1 DEF Walks
<1>5. \A i \in 0 .. n : f[i].at = <<a[1], a[2] + i>>
  OBVIOUS
<1> HIDE DEF n, sx, sy, f
<1>6. Walk(a, 0, n, sx, sy) = f
  <2>1. 0 \in Nat
    OBVIOUS
  <2> QED BY <1>2, <1>4, <2>1, WalkIs
<1>7. Line(a, b) = {f[i].at : i \in 0 .. n}
  BY <1>3, <1>6
<1>8. ASSUME a[2] <= q[2], q[2] <= b[2], q[1] = a[1] PROVE q \in Line(a, b)
  <2>1. q[2] - a[2] \in 0 .. n /\ a[2] + (q[2] - a[2]) = q[2]
    BY <1>1, <1>8 DEF n
  <2>2. f[q[2] - a[2]].at = q
    BY <1>1, <1>5, <1>8, <2>1
  <2> QED BY <1>7, <2>1, <2>2
<1>9. ASSUME q \in Line(a, b) PROVE a[2] <= q[2] /\ q[2] <= b[2] /\ q[1] = a[1]
  <2>1. PICK i \in 0 .. n : q = <<a[1], a[2] + i>>
    BY <1>5, <1>7, <1>9
  <2>2. q[2] = a[2] + i /\ q[1] = a[1] /\ i \in Int /\ 0 <= i /\ i <= n
    BY <1>2, <2>1
  <2> QED BY <1>1, <2>2 DEF n
<1> QED BY <1>8, <1>9

\* The lines along the sides of a rectangle that has points are its sides.
LEMMA SidesDrawn ==
  ASSUME NEW r \in RectType, HasPoints(r), NEW q \in Cells
  PROVE  LET x == r[3] - 1
             y == r[4] - 1
         IN (\/ q \in Line(<<r[1], r[2]>>, <<x, r[2]>>) \/ q \in Line(<<r[1], y>>, <<x, y>>)
             \/ q \in Line(<<r[1], r[2]>>, <<r[1], y>>) \/ q \in Line(<<x, r[2]>>, <<x, y>>))
            <=> \E s \in Sides(r) : Inside(q, s)
<1> DEFINE x == r[3] - 1
           y == r[4] - 1
<1>1. /\ r[1] \in Int /\ r[2] \in Int /\ r[3] \in Int /\ r[4] \in Int
      /\ x \in Int /\ y \in Int /\ r[1] <= x /\ r[2] <= y
  BY DEF RectType, HasPoints
<1>2. q \in Int \X Int /\ q[1] \in Int /\ q[2] \in Int
  BY RasterAssumption DEF Cells
<1>3. q \in Line(<<r[1], r[2]>>, <<x, r[2]>>) <=> r[1] <= q[1] /\ q[1] <= x /\ q[2] = r[2]
  BY <1>1, <1>2, LevelLine
<1>4. q \in Line(<<r[1], y>>, <<x, y>>) <=> r[1] <= q[1] /\ q[1] <= x /\ q[2] = y
  BY <1>1, <1>2, LevelLine
<1>5. q \in Line(<<r[1], r[2]>>, <<r[1], y>>) <=> r[2] <= q[2] /\ q[2] <= y /\ q[1] = r[1]
  BY <1>1, <1>2, UprightLine
<1>6. q \in Line(<<x, r[2]>>, <<x, y>>) <=> r[2] <= q[2] /\ q[2] <= y /\ q[1] = x
  BY <1>1, <1>2, UprightLine
<1>7. (\E s \in Sides(r) : Inside(q, s)) <=>
        \/ Inside(q, <<r[1], r[2], r[3], r[2] + 1>>) \/ Inside(q, <<r[1], r[4] - 1, r[3], r[4]>>)
        \/ Inside(q, <<r[1], r[2], r[1] + 1, r[4]>>) \/ Inside(q, <<r[3] - 1, r[2], r[3], r[4]>>)
  BY DEF Sides
<1>8. /\ Inside(q, <<r[1], r[2], r[3], r[2] + 1>>) <=> r[1] <= q[1] /\ q[1] <= x /\ q[2] = r[2]
      /\ Inside(q, <<r[1], r[4] - 1, r[3], r[4]>>) <=> r[1] <= q[1] /\ q[1] <= x /\ q[2] = y
      /\ Inside(q, <<r[1], r[2], r[1] + 1, r[4]>>) <=> r[2] <= q[2] /\ q[2] <= y /\ q[1] = r[1]
      /\ Inside(q, <<r[3] - 1, r[2], r[3], r[4]>>) <=> r[2] <= q[2] /\ q[2] <= y /\ q[1] = x
  BY <1>1, <1>2 DEF Inside
<1> HIDE DEF x, y
<1>9. (\/ q \in Line(<<r[1], r[2]>>, <<x, r[2]>>) \/ q \in Line(<<r[1], y>>, <<x, y>>)
       \/ q \in Line(<<r[1], r[2]>>, <<r[1], y>>) \/ q \in Line(<<x, r[2]>>, <<x, y>>))
      <=> \E s \in Sides(r) : Inside(q, s)
  BY <1>3, <1>4, <1>5, <1>6, <1>7, <1>8
<1> QED BY <1>9 DEF x, y

\* What Rectangle does to the pixels, and what the GPU does with its sides.
LEMMA RectIs ==
  ASSUME DcOK, NEW r \in RectType, NEW p, NEW pen, NEW brush, pen # NoColour
  PROVE  LET x == r[3] - 1
             y == r[4] - 1
             drawn(q) == \/ q \in Line(<<r[1], r[2]>>, <<x, r[2]>>)
                         \/ q \in Line(<<r[1], y>>, <<x, y>>)
                         \/ q \in Line(<<r[1], r[2]>>, <<r[1], y>>)
                         \/ q \in Line(<<x, r[2]>>, <<x, y>>)
             filled == IF brush = NoColour THEN p ELSE FillClipped(p, r, brush)
         IN RectClipped(p, r, pen, brush)
              = [q \in Cells |-> IF drawn(q) /\ InClip(q) THEN pen ELSE filled[q]]
<1> DEFINE x == r[3] - 1
           y == r[4] - 1
           filled == IF brush = NoColour THEN p ELSE FillClipped(p, r, brush)
           L1 == Line(<<r[1], r[2]>>, <<x, r[2]>>)
           L2 == Line(<<r[1], y>>, <<x, y>>)
           L3 == Line(<<r[1], r[2]>>, <<r[1], y>>)
           L4 == Line(<<x, r[2]>>, <<x, y>>)
           On(p0, L) == Painted(p0, {q \in L : InClip(q)}, pen)
<1>1. RectClipped(p, r, pen, brush) = On(On(On(On(filled, L1), L2), L3), L4)
  BY DEF RectClipped, LineClipped
<1> HIDE DEF filled, L1, L2, L3, L4
<1>2. \A p0, L : On(p0, L) = [q \in Cells |-> IF q \in L /\ InClip(q) THEN pen ELSE p0[q]]
  BY DEF Painted
<1> HIDE DEF On
<1>3. \A q \in Cells : On(On(On(On(filled, L1), L2), L3), L4)[q]
        = IF (q \in L1 \/ q \in L2 \/ q \in L3 \/ q \in L4) /\ InClip(q) THEN pen ELSE filled[q]
  BY <1>2
<1>4. On(On(On(On(filled, L1), L2), L3), L4)
        = [q \in Cells |-> IF (q \in L1 \/ q \in L2 \/ q \in L3 \/ q \in L4) /\ InClip(q)
                           THEN pen ELSE filled[q]]
  BY <1>2, <1>3
<1> QED BY <1>1, <1>4 DEF L1, L2, L3, L4, filled

LEMMA SidesAre ==
  ASSUME DcOK, NEW r \in RectType, NEW q \in Cells
  PROVE  q \in CellsOf(UNION {Clipped(s) : s \in Sides(r)})
           <=> InClip(q) /\ \E s \in Sides(r) : Inside(q, s)
<1>1. Sides(r) \subseteq RectType
  BY DEF Sides, RectType
<1>2. \A s \in Sides(r) : (\E k \in Clipped(s) : Inside(q, k)) <=> Inside(q, s) /\ InClip(q)
  BY <1>1, ClippedIs
<1>3. q \in CellsOf(UNION {Clipped(s) : s \in Sides(r)})
        <=> \E s \in Sides(r) : \E k \in Clipped(s) : Inside(q, k)
  BY DEF CellsOf
<1> QED BY <1>2, <1>3

----------------------------------------------------------------------------
(* The calls. *)

RasterInv == dc \in Dcs /\ GpuRepeats

LEMMA DcIsOK == ASSUME dc \in Dcs PROVE DcOK
BY RasterAssumption DEF DcOK, RectType

LEMMA OnSurfaceType ==
  ASSUME DcOK, NEW r \in Rects
  PROVE  /\ OnSurface(r) \in RectType
         /\ Turned(r) \in RectType /\ OnSurface(Turned(r)) \in RectType
<1>1. r[1] \in Int /\ r[2] \in Int /\ r[3] \in Int /\ r[4] \in Int
  BY RasterAssumption
<1> QED BY <1>1 DEF DcOK, OnSurface, Turned, RectType

\* Every call keeps the texture as near as before, draws inside the clip and keeps the DC.
Right == dc' = dc /\ (GpuRepeats => GpuRepeats') /\ StaysInClip

LEMMA FillRight ==
  ASSUME DcOK, NEW r \in Rects, NEW c, FillRect(r, c)
  PROVE  Right
<1> DEFINE s == OnSurface(r)
<1>1. s \in RectType
  BY OnSurfaceType
<1>2. /\ pixels' = FillClipped(pixels, s, c) /\ tex' = FillClipped(tex, s, c)
      /\ dc' = dc /\ (approx' <=> approx)
  BY DEF FillRect, Drew
<1> HIDE DEF s
<1>3. pixels' = [q \in Cells |-> IF Inside(q, s) /\ InClip(q) THEN c ELSE pixels[q]]
  BY <1>1, <1>2, FillIs
<1>4. StaysInClip
  BY <1>3 DEF StaysInClip
<1>5. GpuRepeats => GpuRepeats'
  BY <1>2 DEF GpuRepeats
<1> QED BY <1>2, <1>4, <1>5 DEF Right

LEMMA RectangleRight ==
  ASSUME DcOK, NEW rect \in RectType, OnSurface(rect) \in RectType, NEW pen, NEW brush,
         Rectangle(rect, pen, brush)
  PROVE  Right
<1> DEFINE r == OnSurface(rect)
           filled(p) == IF brush = NoColour THEN p ELSE FillClipped(p, r, brush)
           sides == UNION {Clipped(s) : s \in Sides(r)}
<1>1. /\ pixels' = RectClipped(pixels, r, pen, brush)
      /\ tex' = IF pen = NoColour THEN filled(tex) ELSE Painted(filled(tex), CellsOf(sides), pen)
      /\ dc' = dc /\ (approx' <=> approx \/ (pen # NoColour /\ ~HasPoints(rect)))
  BY DEF Rectangle, Drew, GpuSides
<1>2. r \in RectType /\ (HasPoints(rect) <=> HasPoints(r))
  <2>1. /\ rect[1] \in Int /\ rect[2] \in Int /\ rect[3] \in Int /\ rect[4] \in Int
        /\ dc.ox \in Int /\ dc.oy \in Int
    BY DEF DcOK, RectType
  <2> QED BY <2>1 DEF OnSurface, HasPoints
<1> HIDE DEF r
<1>3. \A p : \A q \in Cells : InClip(q) \/ filled(p)[q] = p[q]
  <2>1. \A p : FillClipped(p, r, brush)
                 = [q \in Cells |-> IF Inside(q, r) /\ InClip(q) THEN brush ELSE p[q]]
    BY <1>2, FillIs
  <2> QED BY <2>1
<1> DEFINE drawn(q) == \/ q \in Line(<<r[1], r[2]>>, <<r[3] - 1, r[2]>>)
                       \/ q \in Line(<<r[1], r[4] - 1>>, <<r[3] - 1, r[4] - 1>>)
                       \/ q \in Line(<<r[1], r[2]>>, <<r[1], r[4] - 1>>)
                       \/ q \in Line(<<r[3] - 1, r[2]>>, <<r[3] - 1, r[4] - 1>>)
<1>4. pen # NoColour =>
        pixels' = [q \in Cells |-> IF drawn(q) /\ InClip(q) THEN pen ELSE filled(pixels)[q]]
  <2>1. pen # NoColour => RectClipped(pixels, r, pen, brush)
          = [q \in Cells |-> IF drawn(q) /\ InClip(q) THEN pen ELSE filled(pixels)[q]]
    BY <1>2, RectIs
  <2> QED BY <1>1, <2>1
<1>5. pen = NoColour => pixels' = filled(pixels)
  BY <1>1 DEF RectClipped
<1>6. HasPoints(r) => \A q \in Cells : drawn(q) <=> \E s \in Sides(r) : Inside(q, s)
  BY <1>2, SidesDrawn
<1> HIDE DEF filled, drawn
<1>7. StaysInClip
  <2>1. CASE pen = NoColour
    BY <1>3, <1>5, <2>1 DEF StaysInClip
  <2>2. CASE pen # NoColour
    <3>1. \A q \in Cells : InClip(q) \/ pixels'[q] = filled(pixels)[q]
      BY <1>4, <2>2
    <3> QED BY <1>3, <3>1 DEF StaysInClip
  <2> QED BY <2>1, <2>2
<1>8. ASSUME GpuRepeats, ~approx' PROVE tex' = pixels'
  <2>1. ~approx /\ tex = pixels /\ (pen # NoColour => HasPoints(r))
    BY <1>1, <1>2, <1>8 DEF GpuRepeats
  <2>2. CASE pen = NoColour
    BY <1>1, <1>5, <2>1, <2>2
  <2>3. CASE pen # NoColour
    <3>1. tex' = [q \in Cells |-> IF q \in CellsOf(sides) THEN pen ELSE filled(pixels)[q]]
      BY <1>1, <2>1, <2>3 DEF Painted
    <3>2. \A q \in Cells : q \in CellsOf(sides) <=> InClip(q) /\ \E s \in Sides(r) : Inside(q, s)
      BY <1>2, SidesAre
    <3> HIDE DEF sides
    <3>3. \A q \in Cells : q \in CellsOf(sides) <=> drawn(q) /\ InClip(q)
      BY <1>6, <2>1, <2>3, <3>2
    <3> QED BY <1>4, <2>3, <3>1, <3>3
  <2> QED BY <2>2, <2>3
<1> QED BY <1>1, <1>7, <1>8 DEF Right, GpuRepeats

\* What the pixels are where nothing is drawn, the upload of a rectangle leaves alone.
LEMMA UploadIs ==
  ASSUME NEW r, NEW new, tex = pixels, new = [q \in Cells |-> new[q]],
         \A q \in Cells : ~Inside(q, r) => new[q] = pixels[q]
  PROVE  Upload(r, new) = new
BY DEF Upload

LEMMA BitBltRight ==
  ASSUME NEW rect, NEW x, NEW y, NEW copies \in BOOLEAN, BitBlt(rect, x, y, copies)
  PROVE  Right
<1> DEFINE r == OnSurface(rect)
           new == Blitted(pixels, r, x, y)
<1>1. /\ pixels' = new /\ dc' = dc /\ (~approx' => ~approx)
      /\ tex' = IF copies THEN Blitted(tex, r, x, y) ELSE Upload(r, new)
  BY DEF BitBlt, Drew
<1> HIDE DEF r
<1>2. /\ new = [q \in Cells |-> new[q]]
      /\ \A q \in Cells : ~Inside(q, r) \/ ~InClip(q) => new[q] = pixels[q]
  BY DEF Blitted
<1> HIDE DEF new
<1>3. tex = pixels => Upload(r, new) = new
  BY <1>2, UploadIs
<1>4. tex = pixels => Blitted(tex, r, x, y) = new
  BY DEF new
<1> QED BY <1>1, <1>2, <1>3, <1>4 DEF Right, GpuRepeats, StaysInClip

LEMMA BitBltFillsRight ==
  ASSUME DcOK, NEW rect \in Rects, NEW c, BitBltFills(rect, c)
  PROVE  Right
<1> DEFINE r == OnSurface(rect)
           new == FillClipped(pixels, r, c)
<1>1. pixels' = new /\ dc' = dc /\ (~approx' => ~approx) /\ tex' = Upload(r, new)
  BY DEF BitBltFills, Drew
<1>2. r \in RectType
  BY OnSurfaceType
<1> HIDE DEF r
<1>3. new = [q \in Cells |-> IF Inside(q, r) /\ InClip(q) THEN c ELSE pixels[q]]
  BY <1>2, FillIs
<1> HIDE DEF new
<1>4. /\ new = [q \in Cells |-> new[q]]
      /\ \A q \in Cells : ~Inside(q, r) \/ ~InClip(q) => new[q] = pixels[q]
  BY <1>3
<1>5. tex = pixels => Upload(r, new) = new
  BY <1>4, UploadIs
<1> QED BY <1>1, <1>4, <1>5 DEF Right, GpuRepeats, StaysInClip

LEMMA StretchBltRight ==
  ASSUME NEW rect, NEW flip, StretchBlt(rect, flip)
  PROVE  Right
<1> DEFINE r == OnSurface(rect)
           w == IF flip THEN r[1] - r[3] ELSE r[3] - r[1]
           h == r[4] - r[2]
<1>1. pixels' = Stretched(pixels, r, w, h) /\ dc' = dc /\ approx'
  BY DEF StretchBlt, Drew, Stretch
<1> HIDE DEF r, w, h
<1>2. \A q \in Cells : InClip(q) \/ pixels'[q] = pixels[q]
  BY <1>1 DEF Stretched
<1> QED BY <1>1, <1>2 DEF Right, GpuRepeats, StaysInClip

LEMMA PointsRight ==
  ASSUME NEW p, NEW c, LineTo(p, c) \/ SetPixel(p, c) \/ MoveToEx(p)
  PROVE  Right
<1>1. CASE LineTo(p, c)
  <2> DEFINE a == <<current[1] + dc.ox, current[2] + dc.oy>>
             b == <<p[1] + dc.ox, p[2] + dc.oy>>
  <2>1. pixels' = LineClipped(pixels, a, b, c) /\ dc' = dc /\ approx'
    BY <1>1 DEF LineTo, Drew
  <2> HIDE DEF a, b
  <2>2. \A q \in Cells : InClip(q) \/ pixels'[q] = pixels[q]
    BY <2>1 DEF LineClipped, Painted
  <2> QED BY <2>1, <2>2 DEF Right, GpuRepeats, StaysInClip
<1>2. CASE SetPixel(p, c)
  BY <1>2 DEF SetPixel, Drew, Right, GpuRepeats, StaysInClip
<1>3. CASE MoveToEx(p)
  BY <1>3 DEF MoveToEx, Right, GpuRepeats, StaysInClip
<1> QED BY <1>1, <1>2, <1>3

LEMMA RasterStep ==
  ASSUME RasterInv, [RasterNext]_rasterVars
  PROVE  RasterInv' /\ [StaysInClip]_rasterVars
<1>1. CASE UNCHANGED rasterVars
  BY <1>1 DEF rasterVars, RasterInv, GpuRepeats
<1>2. CASE RasterNext
  <2>1. DcOK
    BY DcIsOK DEF RasterInv
  <2>2. ASSUME NEW r \in Rects, NEW c, FillRect(r, c) \/ PatBlt(r, c) PROVE Right
    BY <2>1, <2>2, FillRight DEF PatBlt
  <2>3. ASSUME NEW r \in Rects, NEW c, BitBltFills(r, c) PROVE Right
    BY <2>1, <2>3, BitBltFillsRight
  <2>4. ASSUME NEW r \in Rects, NEW s \in {r, Turned(r)}, NEW pen, NEW brush,
               Rectangle(s, pen, brush)
        PROVE  Right
    <3>1. s \in RectType /\ OnSurface(s) \in RectType
      BY <2>1, OnSurfaceType, RasterAssumption DEF RectType
    <3> QED BY <2>1, <2>4, <3>1, RectangleRight
  <2>5. ASSUME NEW p, NEW c, LineTo(p, c) \/ SetPixel(p, c) \/ MoveToEx(p) PROVE Right
    BY <2>5, PointsRight
  <2>6. ASSUME NEW r, NEW x, NEW y, NEW copies \in BOOLEAN, BitBlt(r, x, y, copies) PROVE Right
    BY <2>6, BitBltRight
  <2>7. ASSUME NEW r, NEW flip, StretchBlt(r, flip) PROVE Right
    BY <2>7, StretchBltRight
  <2>8. Right
    BY <1>2, <2>2, <2>3, <2>4, <2>5, <2>6, <2>7, Zenon DEF RasterNext
  <2> QED BY <2>8 DEF Right, RasterInv
<1> QED BY <1>1, <1>2

\* Fills, frames, copies and uploads leave the texture with the pixels of the bitmap,
\* for surfaces of any size, any clips, rectangles and bitmaps, until something is drawn
\* that the GPU is known to approximate.
THEOREM TextureRepeats == RasterSpec => []GpuRepeats
<1>1. RasterInit => RasterInv
  BY DEF RasterInit, RasterInv, GpuRepeats
<1>2. RasterInv /\ [RasterNext]_rasterVars => RasterInv'
  BY RasterStep
<1>3. RasterInv => GpuRepeats
  BY DEF RasterInv
<1> QED BY <1>1, <1>2, <1>3, PTL DEF RasterSpec

\* No call but SetPixel draws outside the clip of its DC.
THEOREM DrawnInsideClip == RasterSpec => DrawsInsideClip
<1>1. RasterInit => RasterInv
  BY DEF RasterInit, RasterInv, GpuRepeats
<1>2. RasterInv /\ [RasterNext]_rasterVars => RasterInv' /\ [StaysInClip]_rasterVars
  BY RasterStep
<1> QED BY <1>1, <1>2, PTL DEF RasterSpec, DrawsInsideClip

----------------------------------------------------------------------------
(* Run length encoded bitmaps (module RleBitmap). *)

\* A decoder between two turns.
DecoderOK(d) ==
  /\ d.at \in Nat \ {0} /\ d.x \in Nat /\ d.y \in Nat /\ d.stop \in BOOLEAN

\* The bytes its next turn reads are there.
Complete(f, c, d) ==
  /\ d.at + 1 <= Len(c)
  /\ c[d.at] = 0 /\ c[d.at + 1] = 2 => d.at + 3 <= Len(c)
  /\ c[d.at] = 0 /\ c[d.at + 1] > 2 => d.at + 1 + Holder(f, c[d.at + 1]) <= Len(c)

\* The first k turns for these bytes, each with all it reads.
Trace(T, k, f, c) ==
  /\ k \in Nat /\ 2 * k <= Len(c)
  /\ T[0] = Beginning
  /\ \A i \in 0 .. k : DecoderOK(T[i])
  /\ \A i \in 0 .. k : i # k => /\ Goes(c, T[i]) /\ Complete(f, c, T[i])
                                /\ T[i + 1] = Turn(f, c, T[i])

Decodes(g, f, c) ==
  g = [i \in 0 .. Turns(c) |->
         IF i = 0 THEN Beginning
         ELSE IF Goes(c, g[i - 1]) THEN Turn(f, c, g[i - 1]) ELSE g[i - 1]]

LEMMA DecodingIs ==
  ASSUME NEW f, NEW c \in Seq(Octet), NEW g, Decodes(g, f, c)
  PROVE  Decoding(f, c) = g
<1> DEFINE n == Turns(c)
           Went(d) == IF Goes(c, d) THEN Turn(f, c, d) ELSE d
           IsIt(w) == w = [i \in 0 .. n |-> IF i = 0 THEN Beginning ELSE Went(w[i - 1])]
           w == CHOOSE w : IsIt(w)
           T == {i \in 0 .. n : w[i] # g[i]}
<1>1. n \in Nat
  BY DEF Turns
<1>2. Decoding(f, c) = w
  BY DEF Decoding
<1>3. IsIt(g)
  BY DEF Decodes
<1>4. IsIt(w)
  <2> HIDE DEF IsIt
  <2> QED BY <1>3
<1> HIDE DEF w, n, Went
<1>5. \A h : IsIt(h) => /\ h = [i \in 0 .. n |-> h[i]] /\ h[0] = Beginning
                        /\ \A i \in 0 .. n : i # 0 => h[i] = Went(h[i - 1])
  <2>1. 0 \in 0 .. n
    BY <1>1
  <2> QED BY <2>1
<1> HIDE DEF IsIt
<1>6. /\ w = [i \in 0 .. n |-> w[i]] /\ g = [i \in 0 .. n |-> g[i]] /\ w[0] = g[0]
      /\ \A i \in 0 .. n : i # 0 => w[i] = Went(w[i - 1]) /\ g[i] = Went(g[i - 1])
  BY <1>3, <1>4, <1>5
<1>7. CASE T = {}
  <2>1. \A i \in 0 .. n : w[i] = g[i]
    BY <1>7
  <2>2. w = g
    BY <1>6, <2>1, Zenon
  <2> QED BY <1>2, <2>2
<1>8. CASE T # {}
  <2>1. PICK m \in T : \A k \in T : m <= k
    <3>1. T \in SUBSET Nat
      BY <1>1
    <3> HIDE DEF T
    <3> QED BY <1>8, <3>1, Least
  <2>2. m \in 0 .. n /\ w[m] # g[m]
    OBVIOUS
  <2>3. m # 0
    BY <1>6, <2>2
  <2>4. m - 1 \in 0 .. n /\ ~(m <= m - 1)
    BY <1>1, <2>2, <2>3
  <2>5. w[m - 1] = g[m - 1]
    BY <2>1, <2>4
  <2> QED BY <1>6, <2>2, <2>3, <2>5, Zenon
<1> QED BY <1>7, <1>8

\* A decoder that goes no further after these turns has come to its end.
LEMMA DecodeIs ==
  ASSUME NEW f, NEW c \in Seq(Octet), NEW T, NEW k, Trace(T, k, f, c), ~Goes(c, T[k])
  PROVE  Decode(f, c) = T[k]
<1> DEFINE n == Turns(c)
           g == [i \in 0 .. n |-> IF i <= k THEN T[i] ELSE T[k]]
<1>1. k \in Nat /\ n \in Nat /\ k <= n /\ k \in 0 .. n
  BY DEF Trace, Turns
<1>2. T[0] = Beginning /\ \A i \in 0 .. k : i # k => Goes(c, T[i]) /\ T[i + 1] = Turn(f, c, T[i])
  BY DEF Trace
<1>3. Decodes(g, f, c)
  <2>1. \A i \in 0 .. n : g[i] = IF i = 0 THEN Beginning
                                 ELSE IF Goes(c, g[i - 1]) THEN Turn(f, c, g[i - 1]) ELSE g[i - 1]
    <3> TAKE i \in 0 .. n
    <3>1. CASE i = 0
      BY <1>1, <1>2, <3>1
    <3>2. CASE i # 0 /\ i <= k
      <4>1. i - 1 \in 0 .. k /\ i - 1 # k /\ i - 1 \in 0 .. n /\ i - 1 <= k /\ (i - 1) + 1 = i
        BY <1>1, <3>2
      <4>2. g[i] = T[i] /\ g[i - 1] = T[i - 1]
        BY <3>2, <4>1
      <4>3. Goes(c, T[i - 1]) /\ T[i] = Turn(f, c, T[i - 1])
        BY <1>2, <4>1
      <4> HIDE DEF g
      <4> QED BY <3>2, <4>2, <4>3
    <3>3. CASE ~(i <= k)
      <4>1. i - 1 \in 0 .. n /\ i # 0 /\ (i - 1 <= k => i - 1 = k)
        BY <1>1, <3>3
      <4>2. g[i] = T[k] /\ g[i - 1] = T[k]
        BY <3>3, <4>1
      <4> HIDE DEF g
      <4> QED BY <4>1, <4>2
    <3> QED BY <3>1, <3>2, <3>3
  <2>2. g = [i \in 0 .. n |-> g[i]]
    OBVIOUS
  <2> HIDE DEF g
  <2> QED BY <2>1, <2>2 DEF Decodes
<1>4. Decoding(f, c) = g
  <2> HIDE DEF g
  <2> QED BY <1>3, DecodingIs
<1>5. g[n] = T[k]
  BY <1>1
<1> HIDE DEF g
<1> QED BY <1>4, <1>5 DEF Decode

LEMMA BehindIs ==
  ASSUME NEW c \in Seq(Octet), NEW b \in Seq(Octet)
  PROVE  /\ c \o b \in Seq(Octet) /\ Len(c \o b) = Len(c) + Len(b)
         /\ \A j \in 1 .. Len(c) : (c \o b)[j] = c[j]
         /\ \A j \in 1 .. Len(b) : (c \o b)[Len(c) + j] = b[j]
OBVIOUS

LEMMA HolderIs ==
  ASSUME NEW f \in RleFormats, NEW n \in Nat
  PROVE  /\ Holder(f, n) \in Nat /\ (n > 0 => Holder(f, n) > 0)
         /\ \A j \in 1 .. n : Holder(f, j) \in 1 .. Holder(f, n)
BY DEF Holder, RleFormats

LEMMA OctetIs == Octet \subseteq Nat /\ \A n \in Octet : n <= 255
BY DEF Octet

\* The kinds of turns.
Kinds(f, c, d) ==
  LET count == c[d.at]
      second == c[d.at + 1]
  IN
    /\ count \in Nat /\ second \in Nat
    /\ count > 0 =>
         Turn(f, c, d) = Decoder(d.at + 2, d.x + count, d.y,
                                 Wrote(f, d.pic, d.y, d.x, RunValues(f, count, second)), d.stop)
    /\ count = 0 /\ second = 0 => Turn(f, c, d) = Decoder(d.at + 2, 0, d.y + 1, d.pic, d.stop)
    /\ count = 0 /\ second = 1 => Turn(f, c, d) = Decoder(d.at + 2, d.x, d.y, d.pic, TRUE)
    /\ count = 0 /\ second = 2 /\ d.at + 3 <= Len(c) =>
         Turn(f, c, d) = Decoder(d.at + 4, d.x + c[d.at + 2], d.y + c[d.at + 3], d.pic, d.stop)
    /\ count = 0 /\ second > 2 =>
         Turn(f, c, d) = Decoder(d.at + 2 + Skips(f, second), d.x + second, d.y,
                           Wrote(f, d.pic, d.y, d.x, LiteralValues(f, c, d.at + 1, second)), d.stop)

LEMMA TurnIs ==
  ASSUME NEW f, NEW c \in Seq(Octet), NEW d, DecoderOK(d), d.at + 1 <= Len(c)
  PROVE  Kinds(f, c, d)
<1> DEFINE count == c[d.at]
           second == c[d.at + 1]
           run == Wrote(f, d.pic, d.y, d.x, RunValues(f, count, second))
           literal == Wrote(f, d.pic, d.y, d.x, LiteralValues(f, c, d.at + 1, second))
           past == d.at + 2 + Skips(f, second)
           right == d.x + count
           far == d.x + second
<1>1. d.x \in Nat /\ d.y \in Nat /\ d.at \in Nat /\ d.at + 1 \in Nat /\ Len(c) \in Nat /\ d.at \in 1 .. Len(c) /\ d.at + 1 \in 1 .. Len(c)
  BY DEF DecoderOK
<1>2. count \in Octet /\ second \in Octet
  BY <1>1
<1>3. count \in Nat /\ second \in Nat
  BY <1>2, OctetIs
<1>4. Turn(f, c, d) =
        CASE count > 0 ->
               Decoder(d.at + 2, right, d.y, run, d.stop)
          [] count = 0 /\ second = 0 -> Decoder(d.at + 2, 0, d.y + 1, d.pic, d.stop)
          [] count = 0 /\ second = 1 -> Decoder(d.at + 2, d.x, d.y, d.pic, TRUE)
          [] count = 0 /\ second = 2 /\ d.at + 3 > Len(c) -> Decoder(d.at + 2, d.x, d.y, d.pic, TRUE)
          [] count = 0 /\ second = 2 /\ d.at + 3 <= Len(c) ->
               Decoder(d.at + 4, d.x + c[d.at + 2], d.y + c[d.at + 3], d.pic, d.stop)
          [] OTHER ->
               Decoder(past, far, d.y, literal, d.stop)
  BY DEF Turn
<1> HIDE DEF count, second, run, literal, past, right, far
<1>5. count > 0 => Turn(f, c, d) = Decoder(d.at + 2, right, d.y, run, d.stop)
  <2>1. count > 0 => count # 0
    BY <1>3
  <2> QED BY <1>4, <2>1
<1>6. count = 0 /\ second = 0 => Turn(f, c, d) = Decoder(d.at + 2, 0, d.y + 1, d.pic, d.stop)
  BY <1>4
<1>7. count = 0 /\ second = 1 => Turn(f, c, d) = Decoder(d.at + 2, d.x, d.y, d.pic, TRUE)
  BY <1>4
<1>8. count = 0 /\ second = 2 /\ d.at + 3 <= Len(c) =>
        Turn(f, c, d) = Decoder(d.at + 4, d.x + c[d.at + 2], d.y + c[d.at + 3], d.pic, d.stop)
  BY <1>1, <1>4
<1>9. count = 0 /\ second > 2 =>
        Turn(f, c, d) = Decoder(past, far, d.y, literal, d.stop)
  <2>1. count = 0 /\ second > 2 => ~(count > 0) /\ second \notin {0, 1, 2}
    BY <1>3
  <2> QED BY <1>4, <2>1
<1> QED BY <1>3, <1>5, <1>6, <1>7, <1>8, <1>9 DEF count, second, run, literal, past, right, far, Kinds

\* A turn that has all its bytes does the same when more follow.
LEMMA TurnStays ==
  ASSUME NEW f \in RleFormats, NEW c \in Seq(Octet), NEW b \in Seq(Octet),
         NEW d, DecoderOK(d), Complete(f, c, d)
  PROVE  /\ Turn(f, c \o b, d) = Turn(f, c, d)
         /\ Complete(f, c \o b, d)
         /\ Goes(c, d) => Goes(c \o b, d)
<1> DEFINE e == c \o b
           count == c[d.at]
           second == c[d.at + 1]
<1>1. /\ e \in Seq(Octet) /\ Len(c) <= Len(e) /\ Len(c) \in Nat /\ Len(e) \in Nat
      /\ \A j \in 1 .. Len(c) : e[j] = c[j]
  <2>1. Len(b) \in Nat /\ Len(c) \in Nat /\ Len(e) = Len(c) + Len(b)
    BY BehindIs
  <2> QED BY <2>1, BehindIs
<1> HIDE DEF e
<1>2. /\ d.at \in Nat /\ d.at >= 1 /\ d.at + 1 <= Len(c) /\ d.at \in 1 .. Len(c)
      /\ d.at + 1 \in 1 .. Len(c)
  BY <1>1 DEF DecoderOK, Complete
<1>3. count \in Nat /\ second \in Nat /\ e[d.at] = count /\ e[d.at + 1] = second
  <2>1. count \in Nat /\ second \in Nat
    BY <1>2, TurnIs DEF Kinds
  <2> QED BY <1>1, <1>2, <2>1
<1>4. Complete(f, e, d)
  <2>1. second > 2 => Holder(f, second) \in Nat
    BY <1>3, HolderIs
  <2> QED BY <1>1, <1>2, <1>3, <2>1 DEF Complete
<1>5. Goes(c, d) => Goes(e, d)
  BY <1>1, <1>2 DEF Goes
<1>6. count = 0 /\ second = 2 => /\ d.at + 3 <= Len(c) /\ ~(d.at + 3 > Len(c)) /\ ~(d.at + 3 > Len(e))
                                /\ d.at + 3 <= Len(e)
                                /\ e[d.at + 2] = c[d.at + 2] /\ e[d.at + 3] = c[d.at + 3]
  <2> SUFFICES ASSUME count = 0, second = 2
               PROVE  /\ d.at + 3 <= Len(c) /\ ~(d.at + 3 > Len(c)) /\ ~(d.at + 3 > Len(e))
                      /\ d.at + 3 <= Len(e)
                      /\ e[d.at + 2] = c[d.at + 2] /\ e[d.at + 3] = c[d.at + 3]
    OBVIOUS
  <2>1. d.at + 3 <= Len(c)
    BY DEF Complete
  <2>2. d.at + 2 \in 1 .. Len(c) /\ d.at + 3 \in 1 .. Len(c)
    BY <1>1, <1>2, <2>1
  <2> QED BY <1>1, <1>2, <2>1, <2>2
<1>7. count = 0 /\ second > 2 => LiteralValues(f, e, d.at + 1, second) = LiteralValues(f, c, d.at + 1, second)
  <2> SUFFICES ASSUME count = 0, second > 2
               PROVE  LiteralValues(f, e, d.at + 1, second) = LiteralValues(f, c, d.at + 1, second)
    OBVIOUS
  <2>1. d.at + 1 + Holder(f, second) <= Len(c)
    BY DEF Complete
  <2>2. \A j \in 1 .. second : /\ (d.at + 1) + Holder(f, j) <= Len(c) /\ (d.at + 1) + Holder(f, j) <= Len(e)
                              /\ e[(d.at + 1) + Holder(f, j)] = c[(d.at + 1) + Holder(f, j)]
    <3> TAKE j \in 1 .. second
    <3>1. Holder(f, second) \in Nat /\ Holder(f, j) \in 1 .. Holder(f, second)
      BY <1>3, HolderIs
    <3> DEFINE last == Holder(f, second)
               h == Holder(f, j)
               at == d.at
    <3>2. /\ last \in Nat /\ h \in Nat /\ h >= 1 /\ h <= last /\ at \in Nat
          /\ (at + 1) + last <= Len(c) /\ Len(c) \in Nat /\ Len(c) <= Len(e) /\ Len(e) \in Nat
      BY <1>1, <1>2, <2>1, <3>1
    <3>3. (at + 1) + h \in 1 .. Len(c) /\ (at + 1) + h <= Len(e)
      <4> HIDE DEF last, h, at
      <4> QED BY <3>2
    <3> QED BY <1>1, <3>3
  <2>3. /\ {j \in 1 .. second : (d.at + 1) + Holder(f, j) <= Len(c)} = 1 .. second
        /\ {j \in 1 .. second : (d.at + 1) + Holder(f, j) <= Len(e)} = 1 .. second
    BY <2>2
  <2> HIDE DEF second
  <2> QED BY <2>2, <2>3 DEF LiteralValues
<1>8. Turn(f, e, d) = Turn(f, c, d)
  <2>1. \/ count > 0 \/ (count = 0 /\ second = 0) \/ (count = 0 /\ second = 1)
        \/ (count = 0 /\ second = 2) \/ (count = 0 /\ second > 2)
    <3> HIDE DEF count, second
    <3> QED BY <1>3
  <2>2. d.at + 1 <= Len(e)
    BY <1>1, <1>2
  <2>3. Kinds(f, c, d) /\ Kinds(f, e, d)
    BY <1>1, <1>2, <2>2, TurnIs
  <2>4. CASE count > 0
    BY <1>3, <2>3, <2>4 DEF Kinds
  <2>5. CASE count = 0 /\ second = 0
    BY <1>3, <2>3, <2>5 DEF Kinds
  <2>6. CASE count = 0 /\ second = 1
    BY <1>3, <2>3, <2>6 DEF Kinds
  <2>7. CASE count = 0 /\ second = 2
    BY <1>3, <1>6, <2>3, <2>7 DEF Kinds
  <2>8. CASE count = 0 /\ second > 2
    BY <1>3, <1>7, <2>3, <2>8 DEF Kinds
  <2> QED BY <2>1, <2>4, <2>5, <2>6, <2>7, <2>8
<1> QED BY <1>4, <1>5, <1>8 DEF e

LEMMA TraceStays ==
  ASSUME NEW f \in RleFormats, NEW c \in Seq(Octet), NEW b \in Seq(Octet),
         NEW T, NEW k, Trace(T, k, f, c)
  PROVE  Trace(T, k, f, c \o b)
<1>1. Len(c \o b) = Len(c) + Len(b) /\ Len(b) \in Nat /\ Len(c) \in Nat
  BY BehindIs
<1>2. k \in Nat /\ 2 * k <= Len(c) /\ T[0] = Beginning /\ \A i \in 0 .. k : DecoderOK(T[i])
  BY DEF Trace
<1>3. 2 * k <= Len(c \o b)
  BY <1>1, <1>2
<1>4. ASSUME NEW i \in 0 .. k, i # k
      PROVE  Goes(c \o b, T[i]) /\ Complete(f, c \o b, T[i]) /\ T[i + 1] = Turn(f, c \o b, T[i])
  <2>1. Goes(c, T[i]) /\ Complete(f, c, T[i]) /\ T[i + 1] = Turn(f, c, T[i]) /\ DecoderOK(T[i])
    BY <1>4 DEF Trace
  <2> QED BY <2>1, TurnStays
<1> QED BY <1>2, <1>3, <1>4 DEF Trace

LEMMA TraceGoesOn ==
  ASSUME NEW f, NEW c \in Seq(Octet), NEW T, NEW k, Trace(T, k, f, c),
         Goes(c, T[k]), Complete(f, c, T[k]), DecoderOK(Turn(f, c, T[k])), 2 * (k + 1) <= Len(c)
  PROVE  \E U : Trace(U, k + 1, f, c) /\ U[k + 1] = Turn(f, c, T[k])
<1> DEFINE U == [i \in 0 .. k + 1 |-> IF i = k + 1 THEN Turn(f, c, T[k]) ELSE T[i]]
<1>1. /\ k \in Nat /\ T[0] = Beginning /\ \A i \in 0 .. k : DecoderOK(T[i])
      /\ \A i \in 0 .. k : i # k => /\ Goes(c, T[i]) /\ Complete(f, c, T[i])
                                    /\ T[i + 1] = Turn(f, c, T[i])
  BY DEF Trace
<1>2. U[k + 1] = Turn(f, c, T[k]) /\ \A i \in 0 .. k : U[i] = T[i]
  BY <1>1
<1> HIDE DEF U
<1>3. U[0] = Beginning
  BY <1>1, <1>2
<1>4. \A i \in 0 .. k + 1 : DecoderOK(U[i])
  <2> TAKE i \in 0 .. k + 1
  <2>1. i = k + 1 \/ i \in 0 .. k
    BY <1>1
  <2> QED BY <1>1, <1>2, <2>1
<1>5. ASSUME NEW i \in 0 .. k + 1, i # k + 1
      PROVE  Goes(c, U[i]) /\ Complete(f, c, U[i]) /\ U[i + 1] = Turn(f, c, U[i])
  <2>1. i \in 0 .. k /\ (i # k => i + 1 \in 0 .. k)
    BY <1>1, <1>5
  <2>2. U[i] = T[i]
    BY <1>2, <2>1
  <2>3. CASE i = k
    <3>1. U[i + 1] = Turn(f, c, T[i])
      BY <1>2, <2>3
    <3> QED BY <2>2, <2>3, <3>1
  <2>4. CASE i # k
    <3>1. U[i + 1] = T[i + 1]
      BY <1>2, <2>1, <2>4
    <3> QED BY <1>1, <2>1, <2>2, <2>4, <3>1
  <2> QED BY <2>3, <2>4
<1>6. k + 1 \in Nat
  BY <1>1
<1>7. Trace(U, k + 1, f, c)
  BY <1>3, <1>4, <1>5, <1>6 DEF Trace
<1> QED BY <1>2, <1>7

\* Nothing that follows counts: the encoder is behind its end or below the last line.
Beyond(y, fin) == fin \/ ~(y < Lines)

\* The decoder after all turns that are possible: with the encoder, or at an end where
\* nothing of what the encoder may add counts.
Reached(d, c, p, x, y, fin) ==
  /\ d.pic = p
  /\ ~Beyond(y, fin) => d.at = Len(c) + 1 /\ d.x = x /\ d.y = y /\ d.stop = FALSE
  /\ Beyond(y, fin) => d.stop = TRUE \/ ~(d.y < Lines)

RleTypeOK ==
  /\ format \in RleFormats /\ code \in Seq(Octet) /\ finished \in BOOLEAN
  /\ column \in Nat /\ line \in Nat

InStep(f, c, p, x, y, fin) ==
  \E T, k : Trace(T, k, f, c) /\ Reached(T[k], c, p, x, y, fin)

RleInv == RleTypeOK /\ InStep(format, code, pic, column, line, finished)

LEMMA ReachedDecodes ==
  ASSUME RleInv
  PROVE  DecodesWhatWasEncoded
<1>1. PICK T, k : Trace(T, k, format, code) /\ Reached(T[k], code, pic, column, line, finished)
  BY DEF RleInv, InStep
<1>2. DecoderOK(T[k]) /\ code \in Seq(Octet) /\ Len(code) \in Nat
  BY <1>1 DEF Trace, RleInv, RleTypeOK
<1>3. ~Goes(code, T[k])
  <2>1. CASE ~Beyond(line, finished)
    <3>1. T[k].at = Len(code) + 1
      BY <1>1, <2>1 DEF Reached
    <3>2. ~(T[k].at + 1 <= Len(code))
      BY <1>2, <3>1
    <3> QED BY <3>2 DEF Goes
  <2>2. CASE Beyond(line, finished)
    BY <1>1, <2>2 DEF Reached, Goes
  <2> QED BY <2>1, <2>2
<1>4. Decode(format, code) = T[k]
  BY <1>1, <1>2, <1>3, DecodeIs
<1> QED BY <1>1, <1>4 DEF DecodesWhatWasEncoded, Reached

\* One turn takes the decoder over the piece b, to where its encoder then is.
Told(f, c, e, p, x, y, p2, x2, y2, fin2) ==
  \A d : DecoderOK(d) /\ d.at = Len(c) + 1 /\ d.x = x /\ d.y = y /\ d.pic = p /\ d.stop = FALSE =>
    Complete(f, e, d) /\ Turn(f, e, d) = Decoder(Len(e) + 1, x2, y2, p2, fin2)

Extends(e, c, b) == e = c \o b /\ c \in Seq(Octet) /\ b \in Seq(Octet) /\ Len(b) >= 2

LEMMA TurnReaches ==
  ASSUME NEW c \in Seq(Octet), NEW x \in Nat, NEW y \in Nat, NEW p, NEW fin \in BOOLEAN
  PROVE  /\ DecoderOK(Decoder(Len(c) + 1, x, y, p, fin))
         /\ Reached(Decoder(Len(c) + 1, x, y, p, fin), c, p, x, y, fin)
<1> DEFINE t == Decoder(Len(c) + 1, x, y, p, fin)
<1>1. t.at = Len(c) + 1 /\ t.x = x /\ t.y = y /\ t.pic = p /\ t.stop = fin
  BY DEF Decoder
<1> HIDE DEF t
<1>2. t.at \in Nat \ {0} /\ t.x \in Nat /\ t.y \in Nat
  BY <1>1
<1>3. t.stop \in BOOLEAN
  BY <1>1
<1>4. Reached(t, c, p, x, y, fin)
  <2>1. CASE fin = TRUE
    BY <1>1, <2>1, Zenon DEF Reached, Beyond
  <2>2. CASE fin = FALSE
    BY <1>1, <2>2, Zenon DEF Reached, Beyond
  <2> QED BY <2>1, <2>2
<1> QED BY <1>2, <1>3, <1>4 DEF DecoderOK, t

\* A step of the encoder for the piece b, which one turn undoes.
PieceCase(f, c, b, e, p, x, y, fin, p2, x2, y2, fin2) ==
  /\ f \in RleFormats /\ Extends(e, c, b)
  /\ y \in Nat /\ fin \in BOOLEAN /\ x2 \in Nat /\ y2 \in Nat /\ fin2 \in BOOLEAN
  /\ InStep(f, c, p, x, y, fin)
  /\ ~Beyond(y, fin) => Told(f, c, e, p, x, y, p2, x2, y2, fin2)
  /\ Beyond(y, fin) => p2 = p /\ Beyond(y2, fin2)

LEMMA PieceKeeps ==
  ASSUME NEW f, NEW c, NEW b, NEW e, NEW p, NEW x, NEW y, NEW fin, NEW p2, NEW x2, NEW y2, NEW fin2,
         PieceCase(f, c, b, e, p, x, y, fin, p2, x2, y2, fin2)
  PROVE  InStep(f, e, p2, x2, y2, fin2)
<1>0. /\ f \in RleFormats /\ Extends(e, c, b)
      /\ y \in Nat /\ fin \in BOOLEAN /\ x2 \in Nat /\ y2 \in Nat /\ fin2 \in BOOLEAN
      /\ InStep(f, c, p, x, y, fin)
      /\ ~Beyond(y, fin) => Told(f, c, e, p, x, y, p2, x2, y2, fin2)
      /\ Beyond(y, fin) => p2 = p /\ Beyond(y2, fin2)
  BY DEF PieceCase
<1>1. /\ e \in Seq(Octet) /\ Len(e) = Len(c) + Len(b) /\ Len(c) \in Nat /\ Len(b) \in Nat
      /\ Len(b) >= 2
  BY <1>0, BehindIs DEF Extends
<1>2. PICK T, k : Trace(T, k, f, c) /\ Reached(T[k], c, p, x, y, fin)
  BY <1>0 DEF InStep
<1>3. Trace(T, k, f, e)
  BY <1>0, <1>2, TraceStays DEF Extends
<1>4. DecoderOK(T[k]) /\ k \in Nat /\ 2 * k <= Len(c)
  BY <1>2 DEF Trace
<1>5. CASE ~Beyond(y, fin)
  <2> DEFINE d == T[k]
  <2>1. DecoderOK(d) /\ d.at = Len(c) + 1 /\ d.x = x /\ d.y = y /\ d.pic = p /\ d.stop = FALSE
    BY <1>0, <1>2, <1>4, <1>5 DEF Reached
  <2>2. /\ Complete(f, e, d) /\ DecoderOK(Turn(f, e, d))
        /\ Reached(Turn(f, e, d), e, p2, x2, y2, fin2)
    <3>1. Complete(f, e, d) /\ Turn(f, e, d) = Decoder(Len(e) + 1, x2, y2, p2, fin2)
      <4>1. Told(f, c, e, p, x, y, p2, x2, y2, fin2)
        BY <1>0, <1>5
      <4> HIDE DEF d
      <4> QED BY <2>1, <4>1 DEF Told
    <3> HIDE DEF d
    <3> QED BY <1>0, <1>1, <3>1, TurnReaches
  <2>3. d.at + 1 <= Len(e) /\ 2 * (k + 1) <= Len(e)
    BY <1>1, <1>4, <2>1
  <2>4. Goes(e, d)
    BY <1>0, <1>5, <2>1, <2>3 DEF Goes, Beyond
  <2>5. PICK U : Trace(U, k + 1, f, e) /\ U[k + 1] = Turn(f, e, d)
    BY <1>0, <1>1, <1>3, <2>2, <2>3, <2>4, TraceGoesOn
  <2>6. Reached(U[k + 1], e, p2, x2, y2, fin2)
    BY <2>2, <2>5
  <2> QED BY <2>5, <2>6 DEF InStep
<1>6. CASE Beyond(y, fin)
  <2>1. T[k].pic = p2 /\ (T[k].stop = TRUE \/ ~(T[k].y < Lines))
    BY <1>0, <1>2, <1>6 DEF Reached
  <2>2. Reached(T[k], e, p2, x2, y2, fin2)
    BY <1>0, <1>6, <2>1 DEF Reached
  <2> QED BY <1>3, <2>2 DEF InStep
<1> QED BY <1>5, <1>6

\* What the decoder finds of a piece behind the bytes it has been through.
Meets(e, c, b, d) == Extends(e, c, b) /\ DecoderOK(d) /\ d.at = Len(c) + 1
Met(f, e, c, b, d) ==
  /\ Kinds(f, e, d) /\ Len(e) = Len(c) + Len(b)
  /\ e[d.at] = b[1] /\ e[d.at + 1] = b[2]
  /\ \A j \in 1 .. Len(b) : e[d.at + j - 1] = b[j]
  /\ d.at + 1 <= Len(e)

LEMMA PieceMet ==
  ASSUME NEW f, NEW c, NEW b, NEW e, NEW d, Meets(e, c, b, d)
  PROVE  Met(f, e, c, b, d)
<1>0. Extends(e, c, b) /\ DecoderOK(d) /\ d.at = Len(c) + 1
  BY DEF Meets
<1>1. /\ e \in Seq(Octet) /\ Len(e) = Len(c) + Len(b) /\ Len(c) \in Nat /\ Len(b) \in Nat
      /\ \A j \in 1 .. Len(b) : e[Len(c) + j] = b[j]
      /\ Len(b) >= 2
  BY <1>0, BehindIs DEF Extends
<1>2. d.at + 1 <= Len(e)
  BY <1>0, <1>1
<1>3. Kinds(f, e, d)
  BY <1>0, <1>1, <1>2, TurnIs
<1>4. \A j \in 1 .. Len(b) : e[d.at + j - 1] = b[j]
  <2> TAKE j \in 1 .. Len(b)
  <2>1. d.at + j - 1 = Len(c) + j
    BY <1>0, <1>1
  <2> QED BY <1>1, <2>1
<1>5. e[d.at] = b[1] /\ e[d.at + 1] = b[2]
  <2>1. d.at = Len(c) + 1 /\ d.at + 1 = Len(c) + 2 /\ 1 \in 1 .. Len(b) /\ 2 \in 1 .. Len(b)
    BY <1>0, <1>1
  <2> QED BY <1>1, <2>1
<1> QED BY <1>1, <1>2, <1>3, <1>4, <1>5 DEF Met

LEMMA ShortPieces ==
  /\ \A u, v \in Octet : <<u, v>> \in Seq(Octet) /\ Len(<<u, v>>) = 2 /\ <<u, v>>[1] = u /\ <<u, v>>[2] = v
  /\ \A u, v, w, z \in Octet :
       /\ <<u, v, w, z>> \in Seq(Octet) /\ Len(<<u, v, w, z>>) = 4
       /\ <<u, v, w, z>>[1] = u /\ <<u, v, w, z>>[2] = v
       /\ <<u, v, w, z>>[3] = w /\ <<u, v, w, z>>[4] = z
  /\ 0 \in Octet /\ 1 \in Octet /\ 2 \in Octet
<1>1. 0 \in Octet /\ 1 \in Octet /\ 2 \in Octet
  BY DEF Octet
<1> QED BY <1>1

\* The step of the encoder for a piece.
PieceStep(b, p2, x2, y2, fin2) ==
  /\ format' = format /\ code' = code \o b
  /\ pic' = p2 /\ column' = x2 /\ line' = y2 /\ finished' = fin2

LEMMA EncoderKeeps ==
  ASSUME RleInv, NEW b \in Seq(Octet), Len(b) >= 2, NEW p2, NEW x2 \in Nat, NEW y2 \in Nat,
         NEW fin2 \in BOOLEAN, PieceStep(b, p2, x2, y2, fin2),
         ~Beyond(line, finished) => Told(format, code, code', pic, column, line, p2, x2, y2, fin2),
         Beyond(line, finished) => p2 = pic /\ Beyond(y2, fin2)
  PROVE  RleInv'
<1>0. PICK e : e = code'
  OBVIOUS
<1>1. /\ code \in Seq(Octet) /\ format \in RleFormats /\ finished \in BOOLEAN /\ line \in Nat
      /\ InStep(format, code, pic, column, line, finished)
  BY DEF RleInv, RleTypeOK
<1>2. Extends(e, code, b)
  BY <1>0, <1>1 DEF Extends, PieceStep
<1>3. InStep(format, e, p2, x2, y2, fin2)
  <2>1. ~Beyond(line, finished) => Told(format, code, e, pic, column, line, p2, x2, y2, fin2)
    BY <1>0
  <2>2. PieceCase(format, code, b, e, pic, column, line, finished, p2, x2, y2, fin2)
    BY <1>1, <1>2, <2>1, Zenon DEF PieceCase
  <2> QED BY <2>2, PieceKeeps
<1>4. e \in Seq(Octet)
  BY <1>2, BehindIs DEF Extends
<1>5. RleTypeOK'
  BY <1>0, <1>1, <1>4 DEF RleTypeOK, PieceStep
<1>6. InStep(format, code, pic, column, line, finished)'
  BY <1>0, <1>3 DEF PieceStep
<1> QED BY <1>5, <1>6 DEF RleInv

LEMMA EndOfLineKeeps ==
  ASSUME RleInv, EndOfLine
  PROVE  RleInv'
<1> DEFINE b == <<0, 0>>
<1>1. /\ PieceStep(b, pic, 0, line + 1, finished)
      /\ code \in Seq(Octet) /\ line \in Nat /\ Lines \in Nat /\ Len(code) \in Nat
      /\ finished \in BOOLEAN
  BY RleAssumption DEF RleInv, RleTypeOK, EndOfLine, Piece, PieceStep
<1>2. b \in Seq(Octet) /\ Len(b) = 2 /\ b[1] = 0 /\ b[2] = 0 /\ Len(b) >= 2
  BY ShortPieces
<1> HIDE DEF b
<1>0. PICK e : e = code'
  OBVIOUS
<1>3. Extends(e, code, b)
  BY <1>0, <1>1, <1>2 DEF Extends, PieceStep
<1>4. Told(format, code, e, pic, column, line, pic, 0, line + 1, FALSE)
  <2> SUFFICES ASSUME NEW d, DecoderOK(d), d.at = Len(code) + 1, d.y = line, d.pic = pic, d.stop = FALSE
               PROVE  /\ Complete(format, e, d)
                      /\ Turn(format, e, d) = Decoder(Len(e) + 1, 0, line + 1, pic, FALSE)
    BY DEF Told
  <2>1. /\ Kinds(format, e, d) /\ Len(e) = Len(code) + 2 /\ e[d.at] = 0 /\ e[d.at + 1] = 0
        /\ d.at + 1 <= Len(e)
    <3>1. /\ Kinds(format, e, d) /\ Len(e) = Len(code) + Len(b) /\ e[d.at] = b[1]
          /\ e[d.at + 1] = b[2] /\ d.at + 1 <= Len(e)
      <4>1. Meets(e, code, b, d)
        BY <1>3 DEF Meets
      <4>2. Met(format, e, code, b, d)
        BY <4>1, PieceMet
      <4> QED BY <4>2 DEF Met
    <3> QED BY <1>2, <3>1
  <2>2. Turn(format, e, d) = Decoder(d.at + 2, 0, d.y + 1, d.pic, d.stop)
    BY <2>1 DEF Kinds
  <2>3. d.at + 2 = Len(e) + 1
    BY <1>1, <2>1
  <2>4. Complete(format, e, d)
    BY <2>1 DEF Complete
  <2> QED BY <2>2, <2>3, <2>4
<1>5. /\ ~Beyond(line, finished) =>
           Told(format, code, e, pic, column, line, pic, 0, line + 1, finished)
      /\ Beyond(line, finished) => Beyond(line + 1, finished)
  <2>1. ~Beyond(line, finished) => finished = FALSE
    BY <1>1, Zenon DEF Beyond
  <2>2. Beyond(line, finished) => Beyond(line + 1, finished)
    BY <1>1 DEF Beyond
  <2> QED BY <1>4, <2>1, <2>2
<1>6. 0 \in Nat /\ line + 1 \in Nat
  BY <1>1
<1> QED BY <1>0, <1>1, <1>2, <1>5, <1>6, EncoderKeeps

LEMMA JumpKeeps ==
  ASSUME RleInv, NEW dx \in Octet, NEW dy \in Octet, Jump(dx, dy)
  PROVE  RleInv'
<1> DEFINE b == <<0, 2, dx, dy>>
<1>1. /\ PieceStep(b, pic, column + dx, line + dy, finished)
      /\ code \in Seq(Octet) /\ line \in Nat /\ column \in Nat /\ Lines \in Nat /\ Len(code) \in Nat
      /\ finished \in BOOLEAN
  BY RleAssumption DEF RleInv, RleTypeOK, Jump, Piece, PieceStep
<1>2. /\ b \in Seq(Octet) /\ Len(b) = 4 /\ Len(b) >= 2
      /\ b[1] = 0 /\ b[2] = 2 /\ b[3] = dx /\ b[4] = dy
  BY ShortPieces
<1>3. dx \in Nat /\ dy \in Nat
  BY OctetIs
<1> HIDE DEF b
<1>0. PICK e : e = code'
  OBVIOUS
<1>4. Extends(e, code, b)
  BY <1>0, <1>1, <1>2 DEF Extends, PieceStep
<1>5. Told(format, code, e, pic, column, line, pic, column + dx, line + dy, FALSE)
  <2> SUFFICES ASSUME NEW d, DecoderOK(d), d.at = Len(code) + 1, d.x = column, d.y = line, d.pic = pic,
                      d.stop = FALSE
               PROVE  /\ Complete(format, e, d)
                      /\ Turn(format, e, d) = Decoder(Len(e) + 1, column + dx, line + dy, pic, FALSE)
    BY DEF Told
  <2>1. Met(format, e, code, b, d)
    <3>1. Meets(e, code, b, d)
      BY <1>4 DEF Meets
    <3> QED BY <3>1, PieceMet
  <2>2. /\ Kinds(format, e, d) /\ Len(e) = Len(code) + 4 /\ e[d.at] = 0 /\ e[d.at + 1] = 2
        /\ d.at + 1 <= Len(e) /\ \A j \in 1 .. 4 : e[d.at + j - 1] = b[j]
    BY <1>2, <2>1 DEF Met
  <2>3. e[d.at + 2] = dx /\ e[d.at + 3] = dy
    <3>1. d.at + 2 = d.at + 3 - 1 /\ d.at + 3 = d.at + 4 - 1
      BY <1>1
    <3> QED BY <1>2, <2>2, <3>1
  <2>4. d.at + 3 <= Len(e) /\ d.at + 4 = Len(e) + 1
    BY <1>1, <2>2
  <2>5. Turn(format, e, d) = Decoder(d.at + 4, d.x + e[d.at + 2], d.y + e[d.at + 3], d.pic, d.stop)
    BY <2>2, <2>4 DEF Kinds
  <2>6. Complete(format, e, d)
    BY <2>2, <2>4 DEF Complete
  <2> QED BY <2>3, <2>4, <2>5, <2>6
<1>6. /\ ~Beyond(line, finished) =>
           Told(format, code, e, pic, column, line, pic, column + dx, line + dy, finished)
      /\ Beyond(line, finished) => Beyond(line + dy, finished)
  <2>1. ~Beyond(line, finished) => finished = FALSE
    BY <1>1, Zenon DEF Beyond
  <2>2. Beyond(line, finished) => Beyond(line + dy, finished)
    BY <1>1, <1>3 DEF Beyond
  <2> QED BY <1>5, <2>1, <2>2
<1>7. column + dx \in Nat /\ line + dy \in Nat
  BY <1>1, <1>3
<1> QED BY <1>0, <1>1, <1>2, <1>6, <1>7, EncoderKeeps

LEMMA EndOfBitmapKeeps ==
  ASSUME RleInv, EndOfBitmap
  PROVE  RleInv'
<1> DEFINE b == <<0, 1>>
<1>1. /\ PieceStep(b, pic, column, line, TRUE)
      /\ code \in Seq(Octet) /\ line \in Nat /\ column \in Nat /\ Len(code) \in Nat
  BY DEF RleInv, RleTypeOK, EndOfBitmap, Piece, PieceStep
<1>2. b \in Seq(Octet) /\ Len(b) = 2 /\ b[1] = 0 /\ b[2] = 1 /\ Len(b) >= 2
  BY ShortPieces
<1> HIDE DEF b
<1>0. PICK e : e = code'
  OBVIOUS
<1>3. Extends(e, code, b)
  BY <1>0, <1>1, <1>2 DEF Extends, PieceStep
<1>4. Told(format, code, e, pic, column, line, pic, column, line, TRUE)
  <2> SUFFICES ASSUME NEW d, DecoderOK(d), d.at = Len(code) + 1, d.x = column, d.y = line, d.pic = pic,
                      d.stop = FALSE
               PROVE  /\ Complete(format, e, d)
                      /\ Turn(format, e, d) = Decoder(Len(e) + 1, column, line, pic, TRUE)
    BY DEF Told
  <2>1. Met(format, e, code, b, d)
    <3>1. Meets(e, code, b, d)
      BY <1>3 DEF Meets
    <3> QED BY <3>1, PieceMet
  <2>2. /\ Kinds(format, e, d) /\ Len(e) = Len(code) + 2 /\ e[d.at] = 0 /\ e[d.at + 1] = 1
        /\ d.at + 1 <= Len(e)
    BY <1>2, <2>1 DEF Met
  <2>3. Turn(format, e, d) = Decoder(d.at + 2, d.x, d.y, d.pic, TRUE)
    BY <2>2 DEF Kinds
  <2>4. d.at + 2 = Len(e) + 1
    BY <1>1, <2>2
  <2>5. Complete(format, e, d)
    BY <2>2 DEF Complete
  <2> QED BY <2>3, <2>4, <2>5
<1>5. Beyond(line, TRUE)
  BY DEF Beyond
<1> QED BY <1>0, <1>1, <1>2, <1>4, <1>5, EncoderKeeps

\* What a piece with pixels makes of the picture.
Drawn(values) ==
  IF finished \/ line >= Lines THEN pic ELSE Wrote(format, pic, line, column, values)

\* The step for a piece of pixels, which the decoder reads as they are.
LEMMA PixelsKeep ==
  ASSUME RleInv, NEW b \in Seq(Octet), Len(b) >= 2, NEW values, NEW n \in Nat,
         PieceStep(b, Drawn(values), column + n, line, finished),
         NEW e, e = code',
         \A d : Meets(e, code, b, d) /\ Met(format, e, code, b, d) =>
           /\ Complete(format, e, d)
           /\ Turn(format, e, d) = Decoder(Len(e) + 1, d.x + n, d.y,
                                           Wrote(format, d.pic, d.y, d.x, values), d.stop)
  PROVE  RleInv'
<1>1. /\ code \in Seq(Octet) /\ line \in Nat /\ column \in Nat /\ Lines \in Nat /\ finished \in BOOLEAN
      /\ column + n \in Nat
  BY RleAssumption DEF RleInv, RleTypeOK
<1>2. Extends(e, code, b)
  BY <1>1 DEF Extends, PieceStep
<1>3. CASE ~Beyond(line, finished)
  <2>1. finished = FALSE
    BY <1>1, <1>3, Zenon DEF Beyond
  <2>2. Drawn(values) = Wrote(format, pic, line, column, values)
    <3>1. ~(line >= Lines)
      BY <1>1, <1>3 DEF Beyond
    <3> QED BY <2>1, <3>1 DEF Drawn
  <2>3. Told(format, code, e, pic, column, line, Drawn(values), column + n, line, finished)
    <3> SUFFICES ASSUME NEW d, DecoderOK(d), d.at = Len(code) + 1, d.x = column, d.y = line, d.pic = pic,
                        d.stop = FALSE
                 PROVE  /\ Complete(format, e, d)
                        /\ Turn(format, e, d) = Decoder(Len(e) + 1, column + n, line, Drawn(values), finished)
      BY DEF Told
    <3>1. Meets(e, code, b, d)
      BY <1>2 DEF Meets
    <3>2. Met(format, e, code, b, d)
      BY <3>1, PieceMet
    <3>3. /\ Complete(format, e, d)
          /\ Turn(format, e, d) = Decoder(Len(e) + 1, d.x + n, d.y,
                                          Wrote(format, d.pic, d.y, d.x, values), d.stop)
      BY <3>1, <3>2
    <3> QED BY <2>1, <2>2, <3>3
  <2> QED BY <1>1, <1>3, <2>3, EncoderKeeps
<1>4. CASE Beyond(line, finished)
  <2>1. Drawn(values) = pic
    <3>1. finished \/ line >= Lines
      BY <1>1, <1>4 DEF Beyond
    <3> QED BY <3>1 DEF Drawn
  <2> QED BY <1>1, <1>4, <2>1, EncoderKeeps
<1> QED BY <1>3, <1>4

\* The two pixels of a byte.
LEMMA HalvesAre ==
  ASSUME NEW a \in Octet, NEW b \in Octet, a < 16, b < 16
  PROVE  16 * a + b \in Octet /\ High(16 * a + b) = a /\ Low(16 * a + b) = b
BY DEF Octet, High, Low

LEMMA RunKeeps ==
  ASSUME RleInv, NEW n \in Octet \ {0}, NEW p \in Octet, NEW q \in Octet, Run(n, p, q)
  PROVE  RleInv'
<1> DEFINE byte == IF format.nibbles THEN 16 * p + q ELSE p
           b == <<n, byte>>
           values == [i \in 1 .. n |-> IF i % 2 = 1 THEN p ELSE q]
<1>1. /\ format \in RleFormats /\ format.nibbles \in BOOLEAN
      /\ format.nibbles => p < 16 /\ q < 16
      /\ ~format.nibbles => p = q
  BY DEF RleInv, RleTypeOK, RleFormats, Run, Representable
<1>2. n \in Nat /\ n > 0 /\ n \in Octet
  BY OctetIs
<1>3. byte \in Octet
  <2>1. CASE format.nibbles
    BY <1>1, <2>1, HalvesAre
  <2>2. CASE ~format.nibbles
    BY <2>2
  <2> QED BY <2>1, <2>2
<1>4. RunValues(format, n, byte) = values
  <2>1. CASE format.nibbles
    <3>1. \A i \in 1 .. n : Half(i, byte) = IF i % 2 = 1 THEN p ELSE q
      BY <1>1, <2>1, HalvesAre DEF Half
    <3> HIDE DEF byte
    <3> QED BY <2>1, <3>1 DEF RunValues
  <2>2. CASE ~format.nibbles
    <3>1. \A i \in 1 .. n : byte = IF i % 2 = 1 THEN p ELSE q
      BY <1>1, <2>2
    <3> HIDE DEF byte
    <3> QED BY <2>2, <3>1 DEF RunValues
  <2> QED BY <2>1, <2>2
<1>5. Len(values) = n
  BY <1>2
<1>6. PieceStep(b, Drawn(values), column + n, line, finished)
  <2>1. /\ code' = code \o b /\ column' = column + Len(values)
        /\ UNCHANGED <<format, line, finished>>
        /\ pic' = IF finished \/ line >= Lines THEN pic ELSE Wrote(format, pic, line, column, values)
    BY DEF Run, Piece, Puts
  <2> HIDE DEF b, values
  <2> QED BY <1>5, <2>1 DEF PieceStep, Drawn
<1> HIDE DEF byte
<1>7. b \in Seq(Octet) /\ Len(b) = 2 /\ b[1] = n /\ b[2] = byte /\ Len(b) >= 2
  BY <1>2, <1>3, ShortPieces
<1> HIDE DEF b, values
<1>0. PICK e : e = code'
  OBVIOUS
<1>8. ASSUME NEW d, Meets(e, code, b, d), Met(format, e, code, b, d)
      PROVE  /\ Complete(format, e, d)
             /\ Turn(format, e, d) = Decoder(Len(e) + 1, d.x + n, d.y,
                                             Wrote(format, d.pic, d.y, d.x, values), d.stop)
  <2>1. /\ Kinds(format, e, d) /\ Len(e) = Len(code) + 2 /\ e[d.at] = n /\ e[d.at + 1] = byte
        /\ d.at + 1 <= Len(e)
    BY <1>7, <1>8 DEF Met
  <2>2. Turn(format, e, d) = Decoder(d.at + 2, d.x + n, d.y,
                               Wrote(format, d.pic, d.y, d.x, RunValues(format, n, byte)), d.stop)
    BY <1>2, <2>1 DEF Kinds
  <2>3. d.at = Len(code) + 1 /\ Len(code) \in Nat
    BY <1>8 DEF Meets, RleInv, RleTypeOK
  <2>4. d.at + 2 = Len(e) + 1
    BY <2>1, <2>3
  <2>5. Complete(format, e, d)
    BY <1>2, <2>1 DEF Complete
  <2> QED BY <1>4, <2>2, <2>4, <2>5
<1> QED BY <1>0, <1>2, <1>6, <1>7, <1>8, PixelsKeep

\* The bytes of a literal run hold its values.
LEMMA LiteralBytesAre ==
  ASSUME NEW f \in RleFormats, NEW values \in Seq(Octet),
         f.nibbles => \A i \in 1 .. Len(values) : values[i] < 16
  PROVE  /\ LiteralBytes(f, values) \in Seq(Octet)
         /\ Len(LiteralBytes(f, values)) = Holder(f, Len(values))
         /\ \A i \in 1 .. Len(values) :
              LET byte == LiteralBytes(f, values)[Holder(f, i)]
              IN  (IF f.nibbles THEN Half(i, byte) ELSE byte) = values[i]
<1> DEFINE n == Len(values)
           h == Holder(f, n)
           Second(i) == IF 2 * i <= Len(values) THEN values[2 * i] ELSE 0
           byte(i) == IF ~f.nibbles THEN values[i] ELSE 16 * values[2 * i - 1] + Second(i)
           bytes == [i \in 1 .. h |-> byte(i)]
<1>1. n \in Nat /\ h \in Nat /\ f.nibbles \in BOOLEAN /\ \A i \in 1 .. n : values[i] \in Octet
  BY HolderIs DEF RleFormats
<1>2. LiteralBytes(f, values) = bytes
  BY DEF LiteralBytes
<1>3. CASE f.nibbles
  <2>1. h = (n + 1) \div 2
    BY <1>3 DEF Holder
  <2>2. ASSUME NEW i \in 1 .. h
        PROVE  /\ 2 * i - 1 \in 1 .. n /\ values[2 * i - 1] \in Octet /\ values[2 * i - 1] < 16
               /\ Second(i) \in Octet /\ Second(i) < 16 /\ byte(i) = 16 * values[2 * i - 1] + Second(i)
    <3>1. 2 * i - 1 \in 1 .. n /\ 2 * i \in Nat /\ 2 * i >= 1
      BY <1>1, <2>1
    <3>2. CASE 2 * i <= n
      <4>1. 2 * i \in 1 .. n
        BY <1>1, <3>1, <3>2
      <4> QED BY <1>1, <1>3, <3>1, <3>2, <4>1
    <3>3. CASE ~(2 * i <= n)
      <4>1. Second(i) = 0
        BY <3>3
      <4> QED BY <1>1, <1>3, <3>1, <4>1 DEF Octet
    <3> QED BY <3>2, <3>3
  <2>3. \A i \in 1 .. h : /\ byte(i) \in Octet /\ High(byte(i)) = values[2 * i - 1]
                          /\ Low(byte(i)) = Second(i)
    <3> TAKE i \in 1 .. h
    <3>1. /\ values[2 * i - 1] \in Octet /\ values[2 * i - 1] < 16
          /\ Second(i) \in Octet /\ Second(i) < 16 /\ byte(i) = 16 * values[2 * i - 1] + Second(i)
      BY <2>2
    <3> HIDE DEF byte, Second
    <3> QED BY <3>1, HalvesAre
  <2>4. \A i \in 1 .. n : Half(i, byte(Holder(f, i))) = values[i]
    <3> TAKE i \in 1 .. n
    <3>1. Holder(f, i) = (i + 1) \div 2 /\ Holder(f, i) \in 1 .. h
      BY <1>1, <1>3, HolderIs DEF Holder
    <3>2. /\ High(byte(Holder(f, i))) = values[2 * Holder(f, i) - 1]
          /\ Low(byte(Holder(f, i))) = Second(Holder(f, i))
      BY <2>3, <3>1
    <3> HIDE DEF byte
    <3>3. CASE i % 2 = 1
      <4>1. 2 * Holder(f, i) - 1 = i
        BY <3>1, <3>3
      <4> QED BY <3>2, <3>3, <4>1 DEF Half
    <3>4. CASE i % 2 # 1
      <4>1. 2 * Holder(f, i) = i /\ i <= n
        BY <3>1, <3>4
      <4>2. Second(Holder(f, i)) = values[i]
        BY <4>1
      <4> HIDE DEF Second
      <4> QED BY <3>2, <3>4, <4>2 DEF Half
    <3> QED BY <3>3, <3>4
  <2> HIDE DEF byte
  <2>5. bytes \in Seq(Octet) /\ Len(bytes) = h /\ \A i \in 1 .. h : bytes[i] = byte(i)
    BY <1>1, <2>3
  <2>6. \A i \in 1 .. n : Holder(f, i) \in 1 .. h
    BY <1>1, HolderIs
  <2> HIDE DEF bytes
  <2> QED BY <1>2, <1>3, <2>4, <2>5, <2>6
<1>4. CASE ~f.nibbles
  <2>1. h = n /\ \A i \in 1 .. n : Holder(f, i) = i /\ byte(i) = values[i]
    BY <1>1, <1>4 DEF Holder
  <2> HIDE DEF byte
  <2>2. bytes \in Seq(Octet) /\ Len(bytes) = h /\ \A i \in 1 .. h : bytes[i] = byte(i)
    BY <1>1, <2>1
  <2> HIDE DEF bytes
  <2> QED BY <1>2, <1>4, <2>1, <2>2
<1> QED BY <1>3, <1>4

\* A literal run as it is written: two bytes, its bytes, and one to make them even.
LEMMA LiteralPiece ==
  ASSUME NEW f \in RleFormats, NEW bytes \in Seq(Octet), NEW n \in Octet, Len(bytes) = Holder(f, n)
  PROVE  LET b == <<0, n>> \o bytes \o (IF Len(bytes) % 2 = 1 THEN <<0>> ELSE <<>>)
         IN  /\ b \in Seq(Octet) /\ Len(b) = 2 + Skips(f, n) /\ b[1] = 0 /\ b[2] = n
             /\ \A j \in 1 .. Len(bytes) : b[2 + j] = bytes[j]
             /\ Skips(f, n) \in Nat /\ Len(bytes) <= Skips(f, n)
<1> DEFINE pad == IF Len(bytes) % 2 = 1 THEN <<0>> ELSE <<>>
           a == <<0, n>> \o bytes
           b == a \o pad
<1>1. 0 \in Octet /\ <<0, n>> \in Seq(Octet) /\ Len(<<0, n>>) = 2 /\ <<0, n>>[1] = 0 /\ <<0, n>>[2] = n
  BY ShortPieces
<1>2. pad \in Seq(Octet) /\ Len(pad) = Len(bytes) % 2
  <2>1. Len(bytes) \in Nat
    OBVIOUS
  <2>2. CASE Len(bytes) % 2 = 1
    BY <1>1, <2>2
  <2>3. CASE Len(bytes) % 2 # 1
    BY <2>1, <2>3
  <2> QED BY <2>2, <2>3
<1> HIDE DEF pad
<1>3. /\ a \in Seq(Octet) /\ Len(a) = 2 + Len(bytes) /\ a[1] = 0 /\ a[2] = n
      /\ \A j \in 1 .. Len(bytes) : a[2 + j] = bytes[j]
  <2> DEFINE head == <<0, n>>
  <2>1. head \in Seq(Octet) /\ Len(head) = 2 /\ head[1] = 0 /\ head[2] = n
    BY <1>1
  <2> HIDE DEF head
  <2>2. /\ head \o bytes \in Seq(Octet) /\ Len(head \o bytes) = Len(head) + Len(bytes)
        /\ \A j \in 1 .. Len(head) : (head \o bytes)[j] = head[j]
        /\ \A j \in 1 .. Len(bytes) : (head \o bytes)[Len(head) + j] = bytes[j]
    BY <2>1, BehindIs
  <2>3. 1 \in 1 .. Len(head) /\ 2 \in 1 .. Len(head)
    BY <2>1
  <2>4. a = head \o bytes
    BY DEF head
  <2> HIDE DEF a
  <2> QED BY <2>1, <2>2, <2>3, <2>4
<1> HIDE DEF a
<1>4. /\ b \in Seq(Octet) /\ Len(b) = Len(a) + Len(pad)
      /\ \A j \in 1 .. Len(a) : b[j] = a[j]
  BY <1>2, <1>3, BehindIs
<1> HIDE DEF b
<1>5. Len(bytes) \in Nat /\ Len(bytes) % 2 \in Nat
  OBVIOUS
<1>6. Skips(f, n) = Len(bytes) + (Len(bytes) % 2)
  BY DEF Skips, Padded
<1>7. \A j \in 1 .. Len(bytes) : b[2 + j] = bytes[j]
  <2> TAKE j \in 1 .. Len(bytes)
  <2>1. 2 + j \in 1 .. Len(a)
    BY <1>3, <1>5
  <2> QED BY <1>3, <1>4, <2>1
<1>8. b[1] = 0 /\ b[2] = n
  <2>1. 1 \in 1 .. Len(a) /\ 2 \in 1 .. Len(a)
    BY <1>3, <1>5
  <2> QED BY <1>3, <1>4, <2>1
<1>9. Len(b) = 2 + Skips(f, n) /\ Skips(f, n) \in Nat /\ Len(bytes) <= Skips(f, n)
  BY <1>2, <1>3, <1>4, <1>5, <1>6
<1> QED BY <1>4, <1>7, <1>8, <1>9 DEF a, b, pad

LEMMA LiteralKeeps ==
  ASSUME RleInv, NEW values \in LiteralRuns, Literal(values)
  PROVE  RleInv'
<1> DEFINE n == Len(values)
           bytes == LiteralBytes(format, values)
           b == <<0, n>> \o bytes \o (IF Len(bytes) % 2 = 1 THEN <<0>> ELSE <<>>)
<1>1. /\ format \in RleFormats /\ values \in Seq(Octet) /\ n \in Octet /\ n \in Nat /\ n > 2
      /\ code \in Seq(Octet) /\ Len(code) \in Nat
  <2>1. values \in Seq(Octet) /\ Len(values) \in 3 .. 255
    BY RleAssumption
  <2>2. \A m \in 3 .. 255 : m \in Octet /\ m \in Nat /\ m > 2
    BY DEF Octet
  <2>3. format \in RleFormats /\ code \in Seq(Octet) /\ Len(code) \in Nat
    BY DEF RleInv, RleTypeOK
  <2> QED BY <2>1, <2>2, <2>3
<1>2. format.nibbles => \A i \in 1 .. n : values[i] < 16
  <2>1. \A i \in DOMAIN values : Representable(values[i])
    BY DEF Literal
  <2>2. DOMAIN values = 1 .. n
    BY <1>1
  <2> QED BY <2>1, <2>2 DEF Representable
<1>3. /\ bytes \in Seq(Octet) /\ Len(bytes) = Holder(format, n)
      /\ \A i \in 1 .. n : (IF format.nibbles THEN Half(i, bytes[Holder(format, i)])
                            ELSE bytes[Holder(format, i)]) = values[i]
  BY <1>1, <1>2, LiteralBytesAre
<1>4. PieceStep(b, Drawn(values), column + n, line, finished)
  <2>1. /\ code' = code \o b /\ column' = column + Len(values)
        /\ UNCHANGED <<format, line, finished>>
        /\ pic' = IF finished \/ line >= Lines THEN pic ELSE Wrote(format, pic, line, column, values)
    BY DEF Literal, Piece, Puts
  <2> HIDE DEF b
  <2> QED BY <2>1 DEF PieceStep, Drawn
<1> HIDE DEF bytes
<1>5. /\ b \in Seq(Octet) /\ Len(b) = 2 + Skips(format, n) /\ b[1] = 0 /\ b[2] = n
      /\ \A j \in 1 .. Len(bytes) : b[2 + j] = bytes[j]
      /\ Skips(format, n) \in Nat /\ Len(bytes) <= Skips(format, n)
  <2> HIDE DEF n
  <2> QED BY <1>1, <1>3, LiteralPiece
<1> HIDE DEF b, n
<1>6. \A j \in 1 .. n : Holder(format, j) \in 1 .. Len(bytes)
  BY <1>1, <1>3, HolderIs
<1>0. PICK e : e = code'
  OBVIOUS
<1>7. ASSUME NEW d, Meets(e, code, b, d), Met(format, e, code, b, d)
      PROVE  /\ Complete(format, e, d)
             /\ Turn(format, e, d) = Decoder(Len(e) + 1, d.x + n, d.y,
                                             Wrote(format, d.pic, d.y, d.x, values), d.stop)
  <2>1. /\ Kinds(format, e, d) /\ Len(e) = Len(code) + Len(b) /\ e[d.at] = 0 /\ e[d.at + 1] = n
        /\ d.at + 1 <= Len(e) /\ \A j \in 1 .. Len(b) : e[d.at + j - 1] = b[j]
    BY <1>5, <1>7 DEF Met
  <2>2. d.at = Len(code) + 1
    BY <1>7 DEF Meets
  <2>3. \A j \in 1 .. Len(bytes) : (d.at + 1) + j <= Len(e) /\ e[(d.at + 1) + j] = bytes[j]
    <3> TAKE j \in 1 .. Len(bytes)
    <3>1. Len(bytes) \in Nat
      BY <1>3
    <3>2. 2 + j \in 1 .. Len(b) /\ d.at + (2 + j) - 1 = (d.at + 1) + j /\ (d.at + 1) + j <= Len(e)
      BY <1>1, <1>5, <2>1, <2>2, <3>1
    <3>3. e[(d.at + 1) + j] = b[2 + j]
      BY <2>1, <3>2
    <3> QED BY <1>5, <3>2, <3>3
  <2>4. LiteralValues(format, e, d.at + 1, n) = values
    <3>1. \A i \in 1 .. n : /\ (d.at + 1) + Holder(format, i) <= Len(e)
                            /\ e[(d.at + 1) + Holder(format, i)] = bytes[Holder(format, i)]
      BY <1>6, <2>3
    <3>2. {j \in 1 .. n : (d.at + 1) + Holder(format, j) <= Len(e)} = 1 .. n
      BY <3>1
    <3>3. LiteralValues(format, e, d.at + 1, n) = [i \in 1 .. n |-> values[i]]
      BY <1>3, <3>1, <3>2, Zenon DEF LiteralValues
    <3>4. values = [i \in 1 .. n |-> values[i]]
      BY <1>1 DEF n
    <3> QED BY <3>3, <3>4
  <2>5. Turn(format, e, d) = Decoder(d.at + 2 + Skips(format, n), d.x + n, d.y,
                               Wrote(format, d.pic, d.y, d.x, LiteralValues(format, e, d.at + 1, n)), d.stop)
    BY <1>1, <2>1 DEF Kinds
  <2>6. d.at + 2 + Skips(format, n) = Len(e) + 1
    BY <1>1, <1>5, <2>1, <2>2
  <2>7. Complete(format, e, d)
    <3>1. d.at + 1 + Holder(format, n) <= Len(e)
      BY <1>1, <1>3, <1>5, <2>1, <2>2
    <3> QED BY <1>1, <2>1, <3>1 DEF Complete
  <2> QED BY <2>4, <2>5, <2>6, <2>7
<1>8. Len(b) >= 2
  BY <1>5
<1> QED BY <1>0, <1>1, <1>4, <1>5, <1>7, <1>8, PixelsKeep

LEMMA RleStarts ==
  ASSUME RleInit
  PROVE  RleInv
<1> DEFINE T == [i \in {0} |-> Beginning]
<1>1. /\ format \in RleFormats /\ code = <<>> /\ pic = Blank /\ column = 0 /\ line = 0
      /\ finished = FALSE
  BY DEF RleInit
<1>2. code \in Seq(Octet) /\ Len(code) = 0
  BY <1>1
<1>3. T[0] = Beginning
  OBVIOUS
<1> HIDE DEF T
<1>4. /\ DecoderOK(Beginning) /\ Beginning.at = 1 /\ Beginning.x = 0 /\ Beginning.y = 0
      /\ Beginning.pic = Blank /\ Beginning.stop = FALSE
  BY DEF Beginning, Decoder, DecoderOK
<1>5. Trace(T, 0, format, code)
  BY <1>2, <1>3, <1>4 DEF Trace
<1>6. Reached(T[0], code, pic, column, line, finished)
  BY <1>1, <1>2, <1>3, <1>4 DEF Reached, Beyond
<1> QED BY <1>1, <1>2, <1>5, <1>6 DEF RleInv, RleTypeOK, InStep

LEMMA RleStep ==
  ASSUME RleInv, [RleNext]_rleVars
  PROVE  RleInv'
<1>1. ASSUME NEW n \in RunLengths, NEW p \in RunPixels, NEW q \in RunPixels, Run(n, p, q)
      PROVE  RleInv'
  BY <1>1, RunKeeps, RleAssumption
<1>2. ASSUME NEW values \in LiteralRuns, Literal(values)
      PROVE  RleInv'
  BY <1>2, LiteralKeeps
<1>3. ASSUME NEW jump \in Jumps, Jump(jump[1], jump[2])
      PROVE  RleInv'
  <2>1. jump[1] \in Octet /\ jump[2] \in Octet
    BY RleAssumption
  <2> QED BY <1>3, <2>1, JumpKeeps
<1>4. CASE EndOfLine
  BY <1>4, EndOfLineKeeps
<1>5. CASE EndOfBitmap
  BY <1>5, EndOfBitmapKeeps
<1>6. CASE UNCHANGED rleVars
  BY <1>6 DEF rleVars, RleInv, RleTypeOK
<1> QED BY <1>1, <1>2, <1>3, <1>4, <1>5, <1>6 DEF RleNext

\* decode_rle8_pixels and decode_rle4_pixels have after every piece of an encoding the
\* picture it stands for: the cursor never parts from the encoder's, for all pictures,
\* runs, literal runs of 3 to 255 pixels, jumps, and pieces behind the last line or the end.
THEOREM PicturesAreDecoded == RleSpec => []DecodesWhatWasEncoded
<1>1. RleInit => RleInv
  BY RleStarts
<1>2. RleInv /\ [RleNext]_rleVars => RleInv'
  BY RleStep
<1>3. RleInv => DecodesWhatWasEncoded
  BY ReachedDecodes
<1> QED BY <1>1, <1>2, <1>3, PTL DEF RleSpec
=============================================================================
