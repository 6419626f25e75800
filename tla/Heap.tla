-------------------------------- MODULE Heap --------------------------------
(***************************************************************************)
(* The guest heap: Win32Context::alloc_heap_block and free_heap_block, the *)
(* best-fit allocator behind malloc, calloc, operator new, GlobalAlloc,    *)
(* realloc and the stacks of guest threads.  Addresses and sizes count     *)
(* bytes; every operation runs under the lock of heap_blocks and on the    *)
(* emulator thread, so each is one step.                                   *)
(***************************************************************************)
EXTENDS Integers, Sequences, FiniteSets, SequencesExt

CONSTANTS
  Base, Limit,   \* HEAP_BASE, HEAP_BASE + HEAP_SIZE
  Sizes          \* the sizes a guest may ask for

ASSUME HeapAssumption ==
  Base \in Nat \ {0} /\ Limit \in Nat /\ Base <= Limit /\ Sizes \subseteq Nat

VARIABLES
  allocations,   \* HeapBookkeeping::allocations, address -> size
  freeList,      \* HeapBookkeeping::free_list, without its order
  cursor         \* heap_cursor

vars == <<allocations, freeList, cursor>>

Block == [addr : Nat, size : Nat \ {0}]
Live  == DOMAIN allocations
End(b) == b.addr + b.size

\* align_heap_size: at least one byte, a multiple of four.
Align(n) == IF n = 0 THEN 4 ELSE 4 * ((n + 3) \div 4)

-----------------------------------------------------------------------------
(* push_free_block.                                                          *)

\* The new block swallows the neighbours it touches.  Blocks are disjoint, so
\* there is at most one on either side and no other pair merges.
PushFree(free, new) ==
  LET before == {b \in free : End(b) = new.addr}
      after  == {b \in free : b.addr = End(new)}
      lo     == IF before = {} THEN new.addr ELSE (CHOOSE b \in before : TRUE).addr
      hi     == IF after = {} THEN End(new) ELSE End(CHOOSE b \in after : TRUE)
  IN  (free \ (before \cup after)) \cup {[addr |-> lo, size |-> hi - lo]}

\* sort_by_key: the blocks of S by address.
ByAddress(S) ==
  [n \in 1 .. Cardinality(S) |->
     CHOOSE b \in S : Cardinality({c \in S : c.addr < b.addr}) = n - 1]

\* Mutant: blocks are joined only if they overlap.
MergeStepOverlapOnly(merged, b) ==
  IF merged # <<>> /\ End(Last(merged)) > b.addr
  THEN LET p  == Last(merged)
           hi == IF End(b) > End(p) THEN End(b) ELSE End(p)
       IN  Append(Front(merged), [p EXCEPT !.size = hi - p.addr])
  ELSE Append(merged, b)

\* The loop of push_free_block: one pass over the blocks in address order, each
\* joined to the last merged block if it touches or overlaps it.
MergeStep(merged, b) ==
  IF merged # <<>> /\ End(Last(merged)) >= b.addr
  THEN LET p  == Last(merged)
           hi == IF End(b) > End(p) THEN End(b) ELSE End(p)
       IN  Append(Front(merged), [p EXCEPT !.size = hi - p.addr])
  ELSE Append(merged, b)

MergeLoop(free, new) ==
  LET s == ByAddress(free \cup {new})
      merged[n \in 0 .. Len(s)] ==
        IF n = 0 THEN <<>> ELSE MergeStep(merged[n - 1], s[n])
  IN  ToSet(merged[Len(s)])

-----------------------------------------------------------------------------
(* alloc_heap_block.                                                         *)

\* The free blocks that fit, and the smallest of them (ties in list order).
Fits(need)    == {b \in freeList : b.size >= need}
BestFit(need) == {b \in Fits(need) : \A c \in Fits(need) : b.size <= c.size}

\* Mutant: the remainder of a split block is forgotten.
RestForgotten(b, need) == freeList \ {b}

\* The free list after "need" bytes are cut from the front of b.
Rest(b, need) ==
  IF b.size > need
  THEN PushFree(freeList \ {b}, [addr |-> b.addr + need, size |-> b.size - need])
  ELSE freeList \ {b}

\* The possible outcomes of a successful allocation.
Outcomes(n) ==
  LET need == Align(n)
  IN  {[addr |-> b.addr, size |-> need, free |-> Rest(b, need), cursor |-> cursor]
         : b \in BestFit(need)}
      \cup
      {[addr |-> c, size |-> need, free |-> freeList, cursor |-> c + need]
         : c \in {x \in {cursor} : Fits(need) = {} /\ x + need <= Limit}}

Allocate(o) ==
  /\ allocations' = [a \in Live \cup {o.addr} |->
                       IF a = o.addr THEN o.size ELSE allocations[a]]
  /\ freeList' = o.free
  /\ cursor' = o.cursor

\* malloc_impl and its callers.  On failure the guest gets 0 and nothing changes.
Malloc == \E n \in Sizes : \E o \in Outcomes(n) : Allocate(o)

-----------------------------------------------------------------------------
(* free_heap_block, realloc.                                                 *)

\* free, GlobalFree, the stack of a finished thread.  An address that is not the
\* start of a live block (NULL, a block freed before, the inside of a block) is
\* ignored.
Release(p) ==
  /\ p \in Live
  /\ allocations' = [a \in Live \ {p} |-> allocations[a]]
  /\ freeList' = PushFree(freeList, [addr |-> p, size |-> allocations[p]])
  /\ UNCHANGED cursor

Free == \E p \in Live : Release(p)

\* Mutant: a block that is large enough is shrunk in place.
ReallocInPlace ==
  \E p \in Live, n \in Sizes \ {0} :
    /\ Align(n) < allocations[p]
    /\ allocations' = [allocations EXCEPT ![p] = Align(n)]
    /\ freeList' = PushFree(freeList, [addr |-> p + Align(n),
                                      size |-> allocations[p] - Align(n)])
    /\ UNCHANGED cursor

\* realloc(p, n): the new block is allocated before the old one is released, so
\* the bytes can be copied.  n = 0 is free, an unknown p is malloc.
Realloc ==
  \E p \in Live, n \in Sizes \ {0} : \E o \in Outcomes(n) :
    /\ allocations' = [a \in (Live \ {p}) \cup {o.addr} |->
                         IF a = o.addr THEN o.size ELSE allocations[a]]
    /\ freeList' = PushFree(o.free, [addr |-> p, size |-> allocations[p]])
    /\ cursor' = o.cursor

Init ==
  /\ allocations = [a \in {} |-> 0]
  /\ freeList = {}
  /\ cursor = Base

Next == Malloc \/ Free \/ Realloc

Spec == Init /\ [][Next]_vars

-----------------------------------------------------------------------------
(* Properties.                                                               *)

LiveBlocks == {[addr |-> a, size |-> allocations[a]] : a \in Live}
Blocks     == LiveBlocks \cup freeList

Apart(b, c)   == End(b) <= c.addr \/ End(c) <= b.addr
Within(b, x)  == b.addr <= x /\ x < End(b)

TypeOK ==
  /\ Live \subseteq Nat /\ allocations \in [Live -> Nat \ {0}]
  /\ freeList \subseteq Block
  /\ cursor \in Base .. Limit

\* No two blocks, live or free, share a byte, and all lie between the start of
\* the heap and the cursor: an allocation never hands out memory that another
\* owner still uses.
Disjoint ==
  /\ \A b, c \in Blocks : b # c => Apart(b, c)
  /\ LiveBlocks \cap freeList = {}
  /\ \A b \in Blocks : Base <= b.addr /\ End(b) <= cursor

\* Freed memory is never lost: every byte below the cursor belongs to a live
\* block or can be allocated again.
NothingLost == \A x \in Base .. (cursor - 1) : \E b \in Blocks : Within(b, x)

\* Two free blocks never touch: a request fails only if no gap between live
\* blocks is large enough, however the gap came about.
Coalesced == \A b, c \in freeList : End(b) # c.addr

\* The bytes below the cursor are divided between live blocks and free blocks, and
\* the free ones are as large as they can be.
HeapIntact == Disjoint /\ NothingLost /\ Coalesced

\* The pass over the sorted list computes what PushFree says, for every block
\* that could be freed now.
MergeLoopMatches ==
  \A p \in Live :
    LET b == [addr |-> p, size |-> allocations[p]]
    IN  MergeLoop(freeList, b) = PushFree(freeList, b)

\* A live block keeps its address and its size until its owner frees or
\* reallocates it: at most one leaves in a step, and none is resized in place.
LiveBlocksStay ==
  [][/\ \A p \in Live \cap DOMAIN allocations' : allocations'[p] = allocations[p]
     /\ \A p, q \in Live \ DOMAIN allocations' : p = q]_vars

=============================================================================
