--------------------------- MODULE Scheduler_proof ---------------------------
(***************************************************************************)
(* The guest threads' list and registers for every number of threads,      *)
(* steps and window procedures within one another.                         *)
(***************************************************************************)
EXTENDS Scheduler, FiniteSetTheorems, SequenceTheorems, TLAPS

----------------------------------------------------------------------------
(* Indices in order. *)

LEMMA InOrderIs ==
  ASSUME NEW S \in SUBSET Nat, IsFiniteSet(S)
  PROVE  /\ Cardinality(S) \in Nat /\ DOMAIN InOrder(S) = 1 .. Cardinality(S)
         /\ \A n \in DOMAIN InOrder(S) : InOrder(S)[n] \in S
         /\ \A i \in S : \E n \in DOMAIN InOrder(S) : InOrder(S)[n] = i
         /\ \A m, n \in DOMAIN InOrder(S) : InOrder(S)[m] = InOrder(S)[n] => m = n
<1> DEFINE N         == Cardinality(S)
           before(i) == {j \in S : j < i}
           rank      == [i \in S |-> Cardinality(before(i))]
<1>1. N \in Nat /\ S \subseteq Nat
  BY FS_CardinalityType
<1>2. ASSUME NEW i \in S
      PROVE  IsFiniteSet(before(i)) /\ rank[i] \in Nat
  BY FS_Subset, FS_CardinalityType
<1>3. ASSUME NEW a \in S, NEW b \in S, a < b PROVE rank[a] < rank[b]
  <2>3. a \in Nat /\ b \in Nat /\ \A j \in S : j \in Nat
    BY <1>1
  <2>4. ~(a < a) /\ \A j \in S : j < a => j < b
    BY <1>3, <2>3
  <2>1. before(a) \subseteq before(b) /\ a \in before(b) /\ a \notin before(a)
    BY <1>3, <2>4
  <2>2. Cardinality(before(a)) <= Cardinality(before(b))
        /\ Cardinality(before(b)) # Cardinality(before(a))
    BY <1>2, <2>1, FS_Subset
  <2> QED BY <1>2, <2>2
<1>4. ASSUME NEW i \in S PROVE rank[i] \in 0 .. N - 1
  <2>1. i \notin before(i) /\ before(i) \subseteq S
    BY <1>1
  <2>2. rank[i] <= N /\ rank[i] # N
    BY <1>1, <1>2, <2>1, FS_Subset
  <2>3. rank[i] \in Nat
    BY <1>2
  <2> HIDE DEF rank, N
  <2> QED BY <1>1, <2>2, <2>3
<1>5. rank \in Surjection(S, 0 .. N - 1)
  <2>1. \A a, b \in S : rank[a] = rank[b] => a = b
    <3> SUFFICES ASSUME NEW a \in S, NEW b \in S, rank[a] = rank[b], a # b PROVE FALSE
      OBVIOUS
    <3>1. rank[a] \in Nat /\ rank[b] \in Nat
      BY <1>2
    <3>2. a < b \/ b < a
      OBVIOUS
    <3> HIDE DEF rank
    <3> QED BY <1>3, <3>1, <3>2
  <2>2. rank \in [S -> 0 .. N - 1]
    BY <1>4
  <2> HIDE DEF rank
  <2>3. rank \in Injection(S, 0 .. N - 1)
    BY <2>1, <2>2 DEF Injection, IsInjective
  <2>4. IsFiniteSet(0 .. N - 1) /\ Cardinality(0 .. N - 1) = N
    <3> HIDE DEF N
    <3>1. N \in Nat
      BY <1>1
    <3> QED BY <3>1, FS_Interval
  <2> QED BY <1>1, <2>3, <2>4, FS_Injection
<1>6. ASSUME NEW n \in 1 .. N
      PROVE  InOrder(S)[n] \in S /\ rank[InOrder(S)[n]] = n - 1
  <2>1. InOrder(S)[n] = CHOOSE i \in S : Cardinality(before(i)) = n - 1
    BY DEF InOrder
  <2>2. \E i \in S : rank[i] = n - 1
    <3>1. n - 1 \in 0 .. N - 1
      BY <1>1
    <3> HIDE DEF rank
    <3> QED BY <1>5, <3>1 DEF Surjection
  <2>3. \E i \in S : Cardinality(before(i)) = n - 1
    BY <2>2
  <2> QED BY <2>1, <2>3
<1>7. DOMAIN InOrder(S) = 1 .. N
  BY DEF InOrder
<1>8. ASSUME NEW i \in S PROVE \E n \in 1 .. N : InOrder(S)[n] = i
  <2>1. rank[i] \in Nat /\ rank[i] + 1 \in 1 .. N
    BY <1>1, <1>2, <1>4
  <2>2. InOrder(S)[rank[i] + 1] \in S /\ rank[InOrder(S)[rank[i] + 1]] = rank[i]
    <3> HIDE DEF rank
    <3> QED BY <1>6, <2>1
  <2>3. ASSUME NEW a \in S, rank[a] = rank[i] PROVE a = i
    <3>1. rank[a] \in Nat /\ rank[i] \in Nat /\ (a = i \/ a < i \/ i < a)
      BY <1>2
    <3> HIDE DEF rank
    <3> QED BY <1>3, <2>3, <3>1
  <2> HIDE DEF rank
  <2> QED BY <2>1, <2>2, <2>3
<1>9. \A m, n \in 1 .. N : InOrder(S)[m] = InOrder(S)[n] => m = n
  <2> HIDE DEF rank
  <2> QED BY <1>6
<1> QED BY <1>1, <1>6, <1>7, <1>8, <1>9

----------------------------------------------------------------------------
(* The list of the threads. *)

Threads == [id : Workers, regs : Nat, alive : BOOLEAN, term : BOOLEAN]
Copies  == [index : Nat \ {0}, id : Workers, regs : Nat]
Calls   ==
  [kind : {"proc"}, tid : Callers]
    \cup [kind : {"round"}, list : Seq(Copies), pos : Nat, caller : Tids, saved : Nat]

IdsOf(list)    == {list[i].id : i \in DOMAIN list}
Distinct(list) == \A i, j \in DOMAIN list : list[i].id = list[j].id => i = j

LEMMA CopiesAre ==
  ASSUME NEW s \in Seq(Copies)
  PROVE  \A j \in DOMAIN s : s[j].index \in Nat \ {0} /\ s[j].id \in Workers /\ s[j].regs \in Nat
<1>1. \A j \in DOMAIN s : s[j] \in Copies
  OBVIOUS
<1> QED BY <1>1 DEF Copies

\* A list of the same threads, entry by entry.
SameThreads(list, other) ==
  /\ list \in Seq(Threads) /\ Len(list) = Len(other)
  /\ \A i \in DOMAIN other : list[i].id = other[i].id

LEMMA SameIds ==
  ASSUME NEW list, NEW other \in Seq(Threads), SameThreads(list, other)
  PROVE  /\ DOMAIN list = DOMAIN other
         /\ IdsOf(list) = IdsOf(other) /\ (Distinct(other) => Distinct(list))
<1>1. DOMAIN list = DOMAIN other
  BY DEF SameThreads
<1> QED BY <1>1 DEF SameThreads, IdsOf, Distinct

LEMMA LivingIs ==
  ASSUME NEW list \in Seq(Threads), Distinct(list)
  PROVE  /\ Living(list) \in Seq(Threads) /\ Distinct(Living(list))
         /\ \A n \in DOMAIN Living(list) : \E i \in DOMAIN list : Living(list)[n] = list[i]
         /\ IdsOf(Living(list)) = IdsOf(list) \ Dead(list)
<1> DEFINE S  == {i \in DOMAIN list : list[i].alive}
           is == InOrder(S)
<1>1. DOMAIN list = 1 .. Len(list) /\ Len(list) \in Nat /\ \A i \in DOMAIN list : list[i] \in Threads
  OBVIOUS
<1>2. S \in SUBSET Nat /\ IsFiniteSet(S)
  <2>1. IsFiniteSet(1 .. Len(list))
    BY <1>1, FS_Interval
  <2>2. S \subseteq 1 .. Len(list)
    BY <1>1
  <2> QED BY <1>1, <2>1, <2>2, FS_Subset
<1>3. S \subseteq DOMAIN list
  OBVIOUS
<1>4. /\ Cardinality(S) \in Nat /\ DOMAIN is = 1 .. Cardinality(S)
      /\ \A n \in DOMAIN is : is[n] \in S
      /\ \A i \in S : \E n \in DOMAIN is : is[n] = i
      /\ \A m, n \in DOMAIN is : is[m] = is[n] => m = n
  <2> HIDE DEF S
  <2> QED BY <1>2, InOrderIs
<1>5. Living(list) = [n \in DOMAIN is |-> list[is[n]]]
  BY DEF Living
<1> HIDE DEF is
<1>6. /\ DOMAIN Living(list) = 1 .. Cardinality(S)
      /\ \A n \in DOMAIN Living(list) :
           is[n] \in DOMAIN list /\ Living(list)[n] = list[is[n]]
  BY <1>3, <1>4, <1>5
<1>7. Living(list) \in Seq(Threads)
  <2> DEFINE T == Threads
  <2>1. \A n \in 1 .. Cardinality(S) : list[is[n]] \in T
    BY <1>1, <1>4, <1>6
  <2> HIDE DEF T, S
  <2>2. Living(list) = [n \in 1 .. Cardinality(S) |-> list[is[n]]]
    BY <1>4, <1>5
  <2>3. Living(list) \in [1 .. Cardinality(S) -> T]
    BY <2>1, <2>2
  <2>4. Living(list) \in Seq(T)
    BY <1>4, <2>3, SeqDef
  <2> QED BY <2>4 DEF T
<1>8. Distinct(Living(list))
  BY <1>4, <1>6 DEF Distinct
<1>9. \A i \in DOMAIN list : list[i].id \in Dead(list) <=> i \notin S
  BY DEF Dead, Distinct
<1>10. IdsOf(Living(list)) = IdsOf(list) \ Dead(list)
  <2>1. ASSUME NEW n \in DOMAIN Living(list)
        PROVE  Living(list)[n].id \in IdsOf(list) \ Dead(list)
    BY <1>4, <1>6, <1>9 DEF IdsOf
  <2>2. ASSUME NEW i \in DOMAIN list, list[i].id \notin Dead(list)
        PROVE  list[i].id \in IdsOf(Living(list))
    <3>1. PICK n \in DOMAIN is : is[n] = i
      BY <1>4, <1>9, <2>2
    <3> QED BY <1>4, <1>6, <3>1 DEF IdsOf
  <2> QED BY <2>1, <2>2 DEF IdsOf
<1> QED BY <1>6, <1>7, <1>8, <1>10

LEMMA SnapshotIs ==
  ASSUME threads \in Seq(Threads)
  PROVE  /\ Snapshot \in Seq(Copies)
         /\ \A n \in DOMAIN Snapshot :
              /\ Snapshot[n].index \in DOMAIN threads
              /\ Snapshot[n].id = threads[Snapshot[n].index].id
              /\ Snapshot[n].regs = threads[Snapshot[n].index].regs
         /\ \A m, n \in DOMAIN Snapshot : Snapshot[m].index = Snapshot[n].index => m = n
<1> DEFINE S   == {i \in DOMAIN threads : MayRun(threads[i])}
           run == InOrder(S)
           C(i) == [index |-> i, id |-> threads[i].id, regs |-> threads[i].regs]
<1>1. /\ DOMAIN threads = 1 .. Len(threads) /\ Len(threads) \in Nat
      /\ \A i \in DOMAIN threads : threads[i] \in Threads
  OBVIOUS
<1>2. S \in SUBSET Nat /\ IsFiniteSet(S) /\ S \subseteq DOMAIN threads
  <2>1. IsFiniteSet(1 .. Len(threads))
    BY <1>1, FS_Interval
  <2>2. S \subseteq 1 .. Len(threads)
    BY <1>1
  <2> QED BY <1>1, <2>1, <2>2, FS_Subset
<1> HIDE DEF S
<1>3. /\ Cardinality(S) \in Nat /\ DOMAIN run = 1 .. Cardinality(S)
      /\ \A n \in DOMAIN run : run[n] \in S
      /\ \A m, n \in DOMAIN run : run[m] = run[n] => m = n
  BY <1>2, InOrderIs
<1>4. Snapshot = [n \in DOMAIN run |-> C(run[n])]
  BY DEF Snapshot, S
<1>5. \A i \in S : C(i) \in Copies /\ i \in DOMAIN threads
  BY <1>1, <1>2 DEF Threads, Copies
<1>6. \A i \in S : C(i).index = i /\ C(i).id = threads[i].id /\ C(i).regs = threads[i].regs
  OBVIOUS
<1> HIDE DEF run, C
<1>7. Snapshot \in Seq(Copies)
  <2> DEFINE T == Copies
  <2>1. \A i \in S : C(i) \in T
    BY <1>5
  <2> HIDE DEF T
  <2>2. Snapshot \in [1 .. Cardinality(S) -> T]
    BY <1>3, <1>4, <2>1
  <2>3. Snapshot \in Seq(T)
    BY <1>3, <2>2, SeqDef
  <2> QED BY <2>3 DEF T
<1>8. \A n \in DOMAIN Snapshot : n \in DOMAIN run /\ run[n] \in S /\ Snapshot[n] = C(run[n])
  BY <1>3, <1>4
<1> QED BY <1>3, <1>5, <1>6, <1>7, <1>8

----------------------------------------------------------------------------
(* The stack of the host's calls. *)

LEMMA FrontIs ==
  ASSUME NEW T, NEW s \in Seq(T), s # <<>>
  PROVE  /\ Front(s) \in Seq(T) /\ Len(Front(s)) = Len(s) - 1 /\ Last(s) \in T
         /\ Last(s) = s[Len(s)] /\ Len(s) \in DOMAIN s
         /\ \A i \in DOMAIN Front(s) : i \in DOMAIN s /\ i < Len(s) /\ Front(s)[i] = s[i]
<1>1. Len(s) \in Nat /\ Len(s) # 0 /\ Len(s) \in DOMAIN s /\ DOMAIN s = 1 .. Len(s)
  OBVIOUS
<1>2. Last(s) = s[Len(s)] /\ Last(s) \in T
  BY <1>1 DEF Last
<1>3. Front(s) \in Seq(T) /\ Len(Front(s)) = Len(s) - 1
  BY <1>1 DEF Front
<1>4. \A i \in 1 .. Len(s) - 1 : Front(s)[i] = s[i]
  BY <1>1 DEF Front
<1>5. DOMAIN Front(s) = 1 .. Len(s) - 1
  BY <1>3
<1> QED BY <1>1, <1>2, <1>3, <1>4, <1>5

LEMMA AppendIs ==
  ASSUME NEW T, NEW s \in Seq(T), NEW e \in T
  PROVE  /\ Append(s, e) \in Seq(T) /\ Append(s, e) # <<>> /\ Len(Append(s, e)) = Len(s) + 1
         /\ Last(Append(s, e)) = e
         /\ \A i \in DOMAIN Append(s, e) :
              \/ i \in DOMAIN s /\ i < Len(Append(s, e)) /\ Append(s, e)[i] = s[i]
              \/ i = Len(s) + 1 /\ Append(s, e)[i] = e
BY DEF Last

----------------------------------------------------------------------------
(* The invariants. *)

\* The types, with whatever registers and indices.
Fields ==
  /\ threads \in Seq(Threads) /\ frames \in Seq(Calls)
  /\ \A i \in DOMAIN frames : frames[i].kind = "round" => frames[i].pos \in DOMAIN frames[i].list
  /\ created \subseteq Workers /\ ready \subseteq Tids /\ tls \subseteq Tids
  /\ cpu \in Nat /\ tid \in Tids /\ at \in {"top", "guest", "round"}
  /\ steps \in [Tids -> 0 .. MaxSteps]

\* Every thread that was created and has not been cleaned up is in the list, once, and
\* the stacks are those of the list.
OneEntryEach == Distinct(threads) /\ Ids \subseteq created /\ stacks = Ids

ListInv == Fields /\ OneEntryEach

\* If only the main thread calls procedures, there is one round at a time, on top of the
\* procedures, and its indices name the threads they were taken from.
RoundOf(r) ==
  /\ r.caller = Main /\ tid = r.list[r.pos].id
  /\ \A j \in DOMAIN r.list :
       r.list[j].index \in DOMAIN threads /\ threads[r.list[j].index].id = r.list[j].id
  /\ \A j, k \in DOMAIN r.list : r.list[j].index = r.list[k].index => j = k

OneRound ==
  /\ \A i \in DOMAIN frames : i < Len(frames) => frames[i].kind = "proc"
  /\ at = "top" => frames = <<>>
  /\ ~InRound => tid = Main
  /\ InRound => at = "guest" /\ RoundOf(Top)

\* The registers are those after the last step of their thread.
SavedIn(r) ==
  /\ r.saved = steps[Main]
  /\ \A j \in DOMAIN r.list : j > r.pos => r.list[j].regs = steps[r.list[j].id]

Registers ==
  /\ cpu = steps[tid]
  /\ \A i \in DOMAIN threads :
       /\ threads[i].regs \in 0 .. MaxSteps
       /\ threads[i].id # tid => threads[i].regs = steps[threads[i].id]
  /\ InRound => SavedIn(Top)

\* A thread that was never created has made no step.
Unborn == \A w \in Workers \ created : steps[w] = 0

TurnInv == ListInv /\ OneRound /\ Registers /\ Unborn /\ tls \subseteq Ids \cup {Main}

OnlyMainCalls == Callers \subseteq {Main}

LEMMA TurnIsGood == ASSUME TurnInv PROVE GoesOnWhereItStopped /\ StacksInUse
<1> USE DEF TurnInv, ListInv
<1>1. \A i \in Rounds : i = Len(frames) /\ frames[i] = Top /\ InRound /\ frames # <<>>
  BY DEF Rounds, Fields, OneRound, InRound, Top, Last
<1>2. GoesOnWhereItStopped
  BY <1>1 DEF GoesOnWhereItStopped, Registers, SavedIn, OneRound, RoundOf
<1>3. TypeOK
  <2>1. \A i \in DOMAIN threads :
          threads[i] \in [id : Workers, regs : 0 .. MaxSteps, alive : BOOLEAN, term : BOOLEAN]
    <3>1. \A i \in DOMAIN threads : threads[i] \in Threads
      BY DEF Fields
    <3> QED BY <3>1 DEF Registers, Threads
  <2>2. \A i \in DOMAIN frames :
          \/ frames[i].kind = "proc" /\ frames[i].tid \in Callers
          \/ frames[i].kind = "round" /\ frames[i].pos \in DOMAIN frames[i].list
    <3>1. \A i \in DOMAIN frames : frames[i] \in Calls
      BY DEF Fields
    <3> QED BY <3>1 DEF Fields, Calls
  <2>3. cpu \in 0 .. MaxSteps
    BY DEF Fields, Registers
  <2> QED BY <2>1, <2>2, <2>3 DEF TypeOK, Fields, OneEntryEach, Distinct
<1>4. tid # Main => tid \in Ids
  <2> SUFFICES ASSUME tid # Main PROVE tid \in Ids
    OBVIOUS
  <2>1. InRound /\ RoundOf(Top) /\ Top.pos \in DOMAIN Top.list
    <3>1. InRound
      BY DEF OneRound
    <3>2. Top = frames[Len(frames)] /\ Len(frames) \in DOMAIN frames
      BY <3>1, FrontIs DEF Fields, InRound, Top
    <3> QED BY <3>1, <3>2 DEF Fields, OneRound, InRound
  <2> QED BY <2>1 DEF RoundOf, Ids
<1> QED BY <1>2, <1>3, <1>4 DEF StacksInUse, OneEntryEach

LEMMA Starts == Init => TurnInv
<1> SUFFICES ASSUME Init PROVE TurnInv
  OBVIOUS
<1> USE SchedulerAssumption DEF Init
<1>1. threads = <<>> /\ frames = <<>> /\ ~InRound
  BY DEF InRound
<1>2. Fields
  BY <1>1 DEF Fields, Tids, Main
<1>3. OneEntryEach
  BY <1>1 DEF OneEntryEach, Distinct, Ids
<1>4. OneRound /\ Registers
  BY <1>1 DEF OneRound, Registers, Tids
<1>5. Unborn
  BY DEF Unborn, Tids
<1> QED BY <1>2, <1>3, <1>4, <1>5 DEF TurnInv, ListInv

----------------------------------------------------------------------------
(* The end of a quantum. *)

LEMMA TopIs ==
  ASSUME Fields, InRound
  PROVE  /\ frames # <<>> /\ Len(frames) \in DOMAIN frames /\ Top = frames[Len(frames)]
         /\ Top \in [kind : {"round"}, list : Seq(Copies), pos : Nat, caller : Tids, saved : Nat]
         /\ Top.list \in Seq(Copies) /\ Top.pos \in DOMAIN Top.list
         /\ Top.caller \in Tids /\ Top.saved \in Nat
<1>1. /\ frames # <<>> /\ Len(frames) \in DOMAIN frames /\ Top = frames[Len(frames)]
      /\ Top.kind = "round"
  BY FrontIs DEF Fields, InRound, Top
<1>2. Top.pos \in DOMAIN Top.list
  BY <1>1 DEF Fields
<1>3. Top \in Calls
  <2> DEFINE T == Calls
  <2>1. frames \in Seq(T)
    BY DEF Fields
  <2> HIDE DEF T
  <2>2. frames[Len(frames)] \in T
    BY <1>1, <2>1
  <2> QED BY <1>1, <2>2 DEF T
<1> QED BY <1>1, <1>2, <1>3 DEF Calls

LEMMA WrittenBackIs ==
  ASSUME Fields, NEW list, SameThreads(list, threads), NEW exits \in BOOLEAN,
         NEW r, r.list \in Seq(Copies), r.pos \in DOMAIN r.list
  PROVE  LET back == WrittenBack(list, r, exits)
         IN  /\ SameThreads(back, threads)
             /\ \A i \in DOMAIN threads :
                  IF i = r.list[r.pos].index THEN back[i].regs = cpu
                  ELSE back[i] = list[i]
<1> DEFINE i    == r.list[r.pos].index
           back == WrittenBack(list, r, exits)
<1>1. i \in Nat \ {0}
  <2>1. r.list[r.pos] \in Copies
    OBVIOUS
  <2> QED BY <2>1 DEF Copies
<1>2. list \in Seq(Threads) /\ Len(list) = Len(threads) /\ DOMAIN list = DOMAIN threads
      /\ \A j \in DOMAIN list : list[j].id = threads[j].id
  BY DEF SameThreads, Fields
<1>3. CASE i > Len(list)
  <2>1. back = list /\ i \notin DOMAIN list
    <3>1. back = list
      BY <1>3 DEF WrittenBack
    <3>2. i \notin DOMAIN list
      <4> HIDE DEF i, back
      <4> QED BY <1>1, <1>2, <1>3
    <3> QED BY <3>1, <3>2
  <2> QED BY <1>2, <2>1 DEF SameThreads
<1>4. CASE ~(i > Len(list))
  <2>1. i \in DOMAIN list
    BY <1>1, <1>2, <1>4
  <2> DEFINE e == [list[i] EXCEPT !.regs = cpu, !.alive = ~list[i].term /\ ~exits]
  <2>2. back = [list EXCEPT ![i] = e]
    BY <1>4, <2>1 DEF WrittenBack
  <2>3. list[i] \in Threads
    BY <1>2, <2>1
  <2>4. cpu \in Nat
    BY DEF Fields
  <2>5. e \in Threads /\ e.id = list[i].id /\ e.regs = cpu
    BY <2>3, <2>4 DEF Threads
  <2> HIDE DEF e, i
  <2>6. back \in Seq(Threads) /\ Len(back) = Len(list)
    <3> DEFINE T == Threads
    <3>1. list \in Seq(T) /\ e \in T
      BY <1>2, <2>5
    <3> HIDE DEF T
    <3> HIDE DEF back
    <3>2. back \in Seq(T) /\ Len(back) = Len(list)
      BY <2>1, <2>2, <3>1
    <3> QED BY <3>2 DEF T
  <2>7. \A j \in DOMAIN list : back[j] = IF j = i THEN e ELSE list[j]
    BY <2>1, <2>2
  <2> HIDE DEF back
  <2>8. SameThreads(back, threads)
    BY <1>2, <2>5, <2>6, <2>7 DEF SameThreads
  <2> QED BY <1>2, <2>5, <2>7, <2>8 DEF i, back
<1> QED BY <1>3, <1>4

LEMMA ListChanges ==
  ASSUME ListInv, SameThreads(threads', threads), UNCHANGED <<created, stacks>>
  PROVE  OneEntryEach'
<1>1. threads \in Seq(Threads) /\ Distinct(threads)
  BY DEF ListInv, Fields, OneEntryEach
<1>2. IdsOf(threads') = IdsOf(threads) /\ Distinct(threads')
  BY <1>1, SameIds
<1> QED BY <1>2 DEF ListInv, OneEntryEach, Ids, IdsOf, Distinct

\* The call on top has gone on to its next copy.
LEMMA Advanced ==
  ASSUME Fields, InRound, NEW r, r = [Top EXCEPT !.pos = @ + 1], Top.pos < Len(Top.list),
         frames' = Append(Front(frames), r)
  PROVE  /\ frames' \in Seq(Calls) /\ Len(frames') = Len(frames)
         /\ \A i \in DOMAIN frames' :
              frames'[i].kind = "round" => frames'[i].pos \in DOMAIN frames'[i].list
         /\ \A i \in DOMAIN frames' : i < Len(frames') => i \in DOMAIN frames /\ frames'[i] = frames[i]
         /\ InRound' /\ Top' = r /\ r.list = Top.list /\ r.pos = Top.pos + 1
         /\ r.caller = Top.caller /\ r.saved = Top.saved /\ r.pos \in DOMAIN r.list
<1>1. /\ Top \in [kind : {"round"}, list : Seq(Copies), pos : Nat, caller : Tids, saved : Nat]
      /\ Top.list \in Seq(Copies) /\ Top.pos \in DOMAIN Top.list /\ frames # <<>>
  BY TopIs
<1>2. /\ r.kind = "round" /\ r.list = Top.list /\ r.pos = Top.pos + 1
      /\ r.caller = Top.caller /\ r.saved = Top.saved
  BY <1>1
<1>3. r \in Calls
  BY <1>1, <1>2 DEF Calls
<1>4. r.pos \in DOMAIN r.list
  BY <1>1, <1>2
<1>5. /\ Front(frames) \in Seq(Calls) /\ Len(Front(frames)) = Len(frames) - 1
      /\ \A i \in DOMAIN Front(frames) : i \in DOMAIN frames /\ Front(frames)[i] = frames[i]
  <2> DEFINE T == Calls
  <2>1. frames \in Seq(T)
    BY DEF Fields
  <2> HIDE DEF T
  <2>2. /\ Front(frames) \in Seq(T) /\ Len(Front(frames)) = Len(frames) - 1
        /\ \A i \in DOMAIN Front(frames) : i \in DOMAIN frames /\ Front(frames)[i] = frames[i]
    BY <1>1, <2>1, FrontIs
  <2> QED BY <2>2 DEF T
<1>6. /\ frames' \in Seq(Calls) /\ frames' # <<>> /\ Len(frames') = Len(Front(frames)) + 1
      /\ Last(frames') = r
      /\ \A i \in DOMAIN frames' :
           \/ i \in DOMAIN Front(frames) /\ i < Len(frames') /\ frames'[i] = Front(frames)[i]
           \/ i = Len(Front(frames)) + 1 /\ frames'[i] = r
  BY <1>3, <1>5, AppendIs
<1>7. Len(frames') = Len(frames)
  <2>1. Len(frames) \in Nat
    BY DEF Fields
  <2> QED BY <1>5, <1>6, <2>1
<1>8. InRound' /\ Top' = r
  BY <1>2, <1>6 DEF InRound, Top
<1>9. \A i \in DOMAIN frames' :
        frames'[i].kind = "round" => frames'[i].pos \in DOMAIN frames'[i].list
  BY <1>4, <1>5, <1>6 DEF Fields
<1>10. \A i \in DOMAIN frames' : i < Len(frames') => i \in DOMAIN frames /\ frames'[i] = frames[i]
  BY <1>5, <1>6
<1> QED BY <1>2, <1>4, <1>6, <1>7, <1>8, <1>9, <1>10

\* The call on top has ended.
LEMMA Ended ==
  ASSUME Fields, frames # <<>>, frames' = Front(frames)
  PROVE  /\ frames' \in Seq(Calls) /\ Len(frames') = Len(frames) - 1
         /\ \A i \in DOMAIN frames' :
              frames'[i].kind = "round" => frames'[i].pos \in DOMAIN frames'[i].list
         /\ \A i \in DOMAIN frames' : i \in DOMAIN frames /\ i < Len(frames) /\ frames'[i] = frames[i]
<1> DEFINE T == Calls
<1>1. frames \in Seq(T)
  BY DEF Fields
<1> HIDE DEF T
<1>2. /\ Front(frames) \in Seq(T) /\ Len(Front(frames)) = Len(frames) - 1
      /\ \A i \in DOMAIN Front(frames) :
           i \in DOMAIN frames /\ i < Len(frames) /\ Front(frames)[i] = frames[i]
  BY <1>1, FrontIs
<1> QED BY <1>2 DEF T, Fields

LEMMA NextKeepsList ==
  ASSUME ListInv, InRound, NEW list, SameThreads(list, threads), NEW exits \in BOOLEAN,
         NextInRound(list, Top, exits), UNCHANGED <<created, steps>>, ready' \subseteq Tids
  PROVE  ListInv'
<1>1. Fields
  BY DEF ListInv
<1>2. Top.list \in Seq(Copies) /\ Top.pos \in DOMAIN Top.list
  BY <1>1, TopIs
<1>3. SameThreads(threads', threads)
  BY <1>1, <1>2, WrittenBackIs DEF NextInRound
<1>4. OneEntryEach'
  BY <1>3, ListChanges DEF NextInRound
<1>5. /\ frames' \in Seq(Calls)
      /\ \A i \in DOMAIN frames' :
           frames'[i].kind = "round" => frames'[i].pos \in DOMAIN frames'[i].list
  BY <1>1, Advanced DEF NextInRound
<1>6. tid' \in Tids /\ cpu' \in Nat
  <2>1. Top.list[Top.pos + 1] \in Copies
    BY <1>2 DEF NextInRound
  <2> QED BY <2>1 DEF NextInRound, Copies, Tids
<1> QED BY <1>1, <1>3, <1>4, <1>5, <1>6 DEF ListInv, Fields, NextInRound, SameThreads

LEMMA CleanupDoes ==
  ASSUME ListInv, NEW list, SameThreads(list, threads), Cleanup(list), UNCHANGED created
  PROVE  /\ threads' \in Seq(Threads) /\ OneEntryEach'
         /\ \A n \in DOMAIN threads' : \E i \in DOMAIN list : threads'[n] = list[i]
         /\ Ids' = Ids \ Dead(list)
<1>1. /\ list \in Seq(Threads) /\ Distinct(list) /\ IdsOf(list) = Ids
      /\ threads \in Seq(Threads)
  BY SameIds DEF ListInv, Fields, OneEntryEach, SameThreads, Ids, IdsOf
<1>2. /\ threads' \in Seq(Threads) /\ Distinct(threads')
      /\ \A n \in DOMAIN threads' : \E i \in DOMAIN list : threads'[n] = list[i]
      /\ IdsOf(threads') = Ids \ Dead(list)
  BY <1>1, LivingIs DEF Cleanup
<1>3. Ids' = IdsOf(threads')
  BY DEF Ids, IdsOf
<1> QED BY <1>2, <1>3 DEF ListInv, OneEntryEach, Cleanup, Distinct

LEMMA EndKeepsList ==
  ASSUME ListInv, InRound, NEW list, SameThreads(list, threads), NEW exits \in BOOLEAN,
         EndOfRound(list, Top, exits), UNCHANGED <<created, steps>>, ready' \subseteq Tids
  PROVE  ListInv'
<1>1. Fields
  BY DEF ListInv
<1>2. /\ Top.list \in Seq(Copies) /\ Top.pos \in DOMAIN Top.list /\ frames # <<>>
      /\ Top.caller \in Tids /\ Top.saved \in Nat
  BY <1>1, TopIs
<1>3. SameThreads(WrittenBack(list, Top, exits), threads)
  BY <1>1, <1>2, WrittenBackIs
<1>4. threads' \in Seq(Threads) /\ OneEntryEach'
  BY <1>3, CleanupDoes DEF EndOfRound
<1>5. /\ frames' \in Seq(Calls)
      /\ \A i \in DOMAIN frames' :
           frames'[i].kind = "round" => frames'[i].pos \in DOMAIN frames'[i].list
  BY <1>1, <1>2, Ended DEF EndOfRound
<1>6. tls' \subseteq Tids /\ at' \in {"top", "guest", "round"}
  BY <1>1 DEF EndOfRound, Cleanup, Fields
<1> QED BY <1>1, <1>2, <1>4, <1>5, <1>6 DEF ListInv, Fields, EndOfRound

LEMMA StopKeepsList ==
  ASSUME ListInv, NEW list, SameThreads(list, threads), NEW exits \in BOOLEAN,
         EmuStops(list, exits), UNCHANGED <<created, steps>>, ready' \subseteq Tids
  PROVE  ListInv'
<1>1. CASE InRound
  <2>1. NextInRound(list, Top, exits) \/ EndOfRound(list, Top, exits)
    BY <1>1 DEF EmuStops
  <2> QED BY <1>1, <2>1, NextKeepsList, EndKeepsList
<1>2. CASE ~InRound
  <2>1. SameThreads(threads', threads) /\ OneEntryEach'
    BY <1>2, ListChanges DEF EmuStops
  <2> QED BY <1>2, <2>1 DEF EmuStops, ListInv, Fields, SameThreads
<1> QED BY <1>1, <1>2

\* What the end of a thread's quantum leaves as it is in the list.
SameRegs(list) == \A i \in DOMAIN threads : list[i].regs = threads[i].regs

\* The registers that go back belong to the thread at the index of the copy.
LEMMA BackInPlace ==
  ASSUME TurnInv, InRound, NEW list, SameThreads(list, threads), SameRegs(list),
         NEW exits \in BOOLEAN
  PROVE  LET back == WrittenBack(list, Top, exits)
         IN  /\ SameThreads(back, threads)
             /\ \A i \in DOMAIN threads :
                  back[i].regs \in 0 .. MaxSteps /\ back[i].regs = steps[threads[i].id]
             /\ tid \in Ids /\ tid = Top.list[Top.pos].id
<1> DEFINE back == WrittenBack(list, Top, exits)
           k    == Top.list[Top.pos].index
<1>1. Fields /\ OneRound /\ Registers /\ Distinct(threads) /\ threads \in Seq(Threads)
  BY DEF TurnInv, ListInv, Fields, OneEntryEach
<1>2. /\ Top.list \in Seq(Copies) /\ Top.pos \in DOMAIN Top.list /\ RoundOf(Top)
  BY <1>1, TopIs DEF OneRound
<1>3. k \in DOMAIN threads /\ threads[k].id = tid /\ tid = Top.list[Top.pos].id
  BY <1>2 DEF RoundOf
<1>4. /\ SameThreads(back, threads)
      /\ \A i \in DOMAIN threads :
           IF i = k THEN back[i].regs = cpu ELSE back[i] = list[i]
  BY <1>1, <1>2, WrittenBackIs
<1> HIDE DEF back, k
<1>5. cpu = steps[tid] /\ steps[tid] \in 0 .. MaxSteps
  BY <1>1 DEF Fields, Registers
<1>6. ASSUME NEW i \in DOMAIN threads
      PROVE  back[i].regs \in 0 .. MaxSteps /\ back[i].regs = steps[threads[i].id]
  <2>1. CASE i = k
    BY <1>3, <1>4, <1>5, <2>1
  <2>2. CASE i # k
    <3>1. threads[i].id # tid
      BY <1>1, <1>3, <2>2 DEF Distinct
    <3> QED BY <1>1, <1>4, <2>2, <3>1 DEF SameRegs, Registers
  <2> QED BY <2>1, <2>2
<1>7. tid \in Ids
  BY <1>3 DEF Ids
<1> QED BY <1>3, <1>4, <1>6, <1>7 DEF back

LEMMA NextKeepsTurns ==
  ASSUME TurnInv, InRound, NEW list, SameThreads(list, threads), SameRegs(list),
         NEW exits \in BOOLEAN, NextInRound(list, Top, exits), UNCHANGED steps
  PROVE  OneRound' /\ Registers' /\ tls' \subseteq Ids' \cup {Main}
<1> DEFINE r == [Top EXCEPT !.pos = @ + 1]
<1>1. /\ SameThreads(threads', threads)
      /\ \A i \in DOMAIN threads :
           threads'[i].regs \in 0 .. MaxSteps /\ threads'[i].regs = steps[threads[i].id]
  BY BackInPlace DEF NextInRound
<1>2. Fields /\ OneRound /\ Registers /\ threads \in Seq(Threads)
  BY DEF TurnInv, ListInv, Fields
<1>3. /\ Len(frames') = Len(frames)
      /\ \A i \in DOMAIN frames' : i < Len(frames') => i \in DOMAIN frames /\ frames'[i] = frames[i]
      /\ InRound' /\ Top' = r /\ r.list = Top.list /\ r.pos = Top.pos + 1
      /\ r.caller = Top.caller /\ r.saved = Top.saved /\ r.pos \in DOMAIN r.list
  BY <1>2, Advanced DEF NextInRound
<1> HIDE DEF r
<1>4. /\ DOMAIN threads' = DOMAIN threads
      /\ \A i \in DOMAIN threads : threads'[i].id = threads[i].id
  BY <1>1, <1>2, SameIds DEF SameThreads
<1>5. /\ RoundOf(Top) /\ SavedIn(Top) /\ Top.list \in Seq(Copies) /\ Top.pos \in DOMAIN Top.list
      /\ at = "guest"
  BY <1>2, TopIs DEF OneRound, Registers
<1>6. tid' = r.list[r.pos].id /\ cpu' = r.list[r.pos].regs
  BY <1>3 DEF NextInRound
<1>7. RoundOf(Top)'
  BY <1>3, <1>4, <1>5, <1>6 DEF RoundOf
<1>8. SavedIn(Top)'
  BY <1>3, <1>5 DEF SavedIn
<1>9. cpu' = steps'[tid']
  <2>1. r.pos > Top.pos
    BY <1>3, <1>5
  <2> QED BY <1>3, <1>5, <1>6, <2>1 DEF SavedIn
<1>10. OneRound'
  BY <1>2, <1>3, <1>5, <1>7 DEF OneRound, NextInRound
<1>11. Registers'
  BY <1>1, <1>4, <1>8, <1>9 DEF Registers
<1>12. Ids' = Ids
  BY <1>4 DEF Ids
<1> QED BY <1>10, <1>11, <1>12 DEF TurnInv, NextInRound

LEMMA EndKeepsTurns ==
  ASSUME TurnInv, InRound, NEW list, SameThreads(list, threads), SameRegs(list),
         NEW exits \in BOOLEAN, EndOfRound(list, Top, exits), UNCHANGED <<created, steps>>
  PROVE  OneRound' /\ Registers' /\ tls' \subseteq Ids' \cup {Main}
<1> DEFINE back == WrittenBack(list, Top, exits)
<1>1. /\ SameThreads(back, threads)
      /\ \A i \in DOMAIN threads :
           back[i].regs \in 0 .. MaxSteps /\ back[i].regs = steps[threads[i].id]
  BY BackInPlace
<1>2. Cleanup(back)
  BY DEF EndOfRound
<1> HIDE DEF back
<1>3. ListInv /\ Fields /\ OneRound /\ Registers /\ threads \in Seq(Threads)
      /\ tls \subseteq Ids \cup {Main}
  BY DEF TurnInv, ListInv, Fields
<1>4. /\ \A n \in DOMAIN threads' : \E i \in DOMAIN back : threads'[n] = back[i]
      /\ Ids' = Ids \ Dead(back)
  BY <1>1, <1>2, <1>3, CleanupDoes
<1>5. DOMAIN back = DOMAIN threads /\ \A i \in DOMAIN back : back[i].id = threads[i].id
  BY <1>1, <1>3, SameIds DEF SameThreads
<1>6. \A n \in DOMAIN threads' :
        threads'[n].regs \in 0 .. MaxSteps /\ threads'[n].regs = steps[threads'[n].id]
  BY <1>1, <1>4, <1>5
<1>7. frames # <<>> /\ RoundOf(Top) /\ SavedIn(Top)
  BY <1>3, TopIs DEF OneRound, Registers
<1>8. tid' = Main /\ cpu' = steps[Main]
  BY <1>7 DEF RoundOf, SavedIn, EndOfRound
<1>9. /\ frames' \in Seq(Calls) /\ Len(frames') = Len(frames) - 1
      /\ \A i \in DOMAIN frames' : i \in DOMAIN frames /\ i < Len(frames) /\ frames'[i] = frames[i]
  BY <1>3, <1>7, Ended DEF EndOfRound
<1>10. \A i \in DOMAIN frames' : frames'[i].kind = "proc"
  BY <1>3, <1>9 DEF OneRound
<1>11. ~InRound'
  BY <1>9, <1>10, FrontIs DEF InRound, Top
<1>12. at' = "top" => frames' = <<>>
  BY <1>9 DEF EndOfRound
<1>13. OneRound'
  BY <1>8, <1>10, <1>11, <1>12 DEF OneRound
<1>14. Registers'
  BY <1>6, <1>8, <1>11 DEF Registers
<1>15. tls' \subseteq Ids' \cup {Main}
  BY <1>2, <1>3, <1>4 DEF Cleanup
<1> QED BY <1>13, <1>14, <1>15

LEMMA StopKeepsTurns ==
  ASSUME TurnInv, NEW list, SameThreads(list, threads), SameRegs(list), at = "guest",
         NEW exits \in BOOLEAN, EmuStops(list, exits), UNCHANGED <<created, steps>>
  PROVE  OneRound' /\ Registers' /\ tls' \subseteq Ids' \cup {Main}
<1>1. CASE InRound
  <2>1. NextInRound(list, Top, exits) \/ EndOfRound(list, Top, exits)
    BY <1>1 DEF EmuStops
  <2> QED BY <1>1, <2>1, NextKeepsTurns, EndKeepsTurns
<1>2. CASE ~InRound
  <2>1. /\ at' = "round" /\ threads' = list /\ UNCHANGED <<cpu, tid, frames, stacks, tls>>
    BY <1>2 DEF EmuStops
  <2>2. OneRound /\ Registers /\ tls \subseteq Ids \cup {Main} /\ threads \in Seq(Threads)
    BY DEF TurnInv, ListInv, Fields
  <2>3. DOMAIN threads' = DOMAIN threads /\ \A i \in DOMAIN threads : threads'[i].id = threads[i].id
    BY <2>1, <2>2, SameIds DEF SameThreads
  <2>4. ~InRound' /\ Ids' = Ids
    BY <1>2, <2>1, <2>3 DEF InRound, Top, Ids
  <2>5. OneRound'
    BY <1>2, <2>1, <2>2, <2>4 DEF OneRound
  <2>6. Registers'
    BY <2>1, <2>2, <2>3, <2>4 DEF Registers, SameRegs
  <2> QED BY <2>1, <2>2, <2>4, <2>5, <2>6
<1> QED BY <1>1, <1>2

----------------------------------------------------------------------------
(* Every step keeps the list, with any callers. *)

LEMMA Same == ASSUME threads \in Seq(Threads) PROVE SameThreads(threads, threads) /\ SameRegs(threads)
BY DEF SameThreads, SameRegs

LEMMA AskedIs ==
  ASSUME threads \in Seq(Threads)
  PROVE  LET asked == [i \in DOMAIN threads |->
                     IF threads[i].id = tid THEN [threads[i] EXCEPT !.term = TRUE] ELSE threads[i]]
         IN  SameThreads(asked, threads) /\ SameRegs(asked)
<1> DEFINE e(i)  == IF threads[i].id = tid THEN [threads[i] EXCEPT !.term = TRUE] ELSE threads[i]
           asked == [i \in DOMAIN threads |-> e(i)]
           T     == Threads
<1>1. DOMAIN threads = 1 .. Len(threads) /\ Len(threads) \in Nat
      /\ \A i \in DOMAIN threads : threads[i] \in Threads
  OBVIOUS
<1>2. \A i \in DOMAIN threads :
        e(i) \in Threads /\ e(i).id = threads[i].id /\ e(i).regs = threads[i].regs
  BY <1>1 DEF Threads
<1>3. asked \in Seq(T) /\ Len(asked) = Len(threads)
  <2>1. \A i \in DOMAIN threads : e(i) \in T
    BY <1>2
  <2>2. asked = [i \in 1 .. Len(threads) |-> e(i)]
    BY <1>1
  <2> HIDE DEF T, e, asked
  <2>3. asked \in [1 .. Len(threads) -> T]
    BY <1>1, <2>1, <2>2
  <2> QED BY <1>1, <2>2, <2>3, SeqDef
<1> QED BY <1>2, <1>3 DEF SameThreads, SameRegs

LEMMA CreateDoes ==
  ASSUME ListInv, NEW w \in Workers, CreateThread(w)
  PROVE  /\ threads' \in Seq(Threads) /\ Ids' = Ids \cup {w} /\ OneEntryEach'
         /\ \A i \in DOMAIN threads : i \in DOMAIN threads' /\ threads'[i] = threads[i]
         /\ \A i \in DOMAIN threads' : i \in DOMAIN threads \/ (threads'[i].id = w /\ threads'[i].regs = 0)
<1> DEFINE T == Threads
           e == [id |-> w, regs |-> 0, alive |-> TRUE, term |-> FALSE]
<1>1. threads \in Seq(T) /\ e \in T /\ e.id = w /\ e.regs = 0
  BY DEF ListInv, Fields, Threads
<1>2. threads' = Append(threads, e)
  BY DEF CreateThread
<1> HIDE DEF T, e
<1>3. /\ threads' \in Seq(T) /\ DOMAIN threads' = 1 .. Len(threads) + 1
      /\ \A i \in DOMAIN threads : threads'[i] = threads[i]
      /\ threads'[Len(threads) + 1] = e
      /\ DOMAIN threads = 1 .. Len(threads) /\ Len(threads) \in Nat
  BY <1>1, <1>2
<1>4. Ids' = Ids \cup {w}
  BY <1>1, <1>3 DEF Ids
<1>5. OneEntryEach /\ w \notin Ids
  BY DEF ListInv, OneEntryEach, CreateThread
<1>6. Distinct(threads')
  BY <1>1, <1>3, <1>5 DEF OneEntryEach, Distinct, Ids
<1>7. Distinct(threads)'
  BY <1>6 DEF Distinct
<1>8. OneEntryEach'
  BY <1>4, <1>5, <1>7 DEF OneEntryEach, CreateThread
<1> QED BY <1>1, <1>3, <1>4, <1>8 DEF T

\* A call goes on top of the others.
LEMMA Called ==
  ASSUME Fields, NEW f \in Calls, f.kind = "round" => f.pos \in DOMAIN f.list,
         frames' = Append(frames, f)
  PROVE  /\ frames' \in Seq(Calls) /\ frames' # <<>> /\ Top' = f
         /\ \A i \in DOMAIN frames' :
              frames'[i].kind = "round" => frames'[i].pos \in DOMAIN frames'[i].list
         /\ \A i \in DOMAIN frames' : i < Len(frames') => i \in DOMAIN frames /\ frames'[i] = frames[i]
<1> DEFINE T == Calls
<1>1. frames \in Seq(T) /\ f \in T
  BY DEF Fields
<1> HIDE DEF T
<1>2. /\ frames' \in Seq(T) /\ frames' # <<>> /\ Last(frames') = f /\ Len(frames') = Len(frames) + 1
      /\ \A i \in DOMAIN frames' :
           \/ i \in DOMAIN frames /\ i < Len(frames') /\ frames'[i] = frames[i]
           \/ i = Len(frames) + 1 /\ frames'[i] = f
  BY <1>1, AppendIs
<1>3. Len(frames) \in Nat
  BY DEF Fields
<1> QED BY <1>2, <1>3 DEF T, Fields, Top

LEMMA RoundStarts ==
  ASSUME ListInv, StartRound, Snapshot # <<>>
  PROVE  /\ Snapshot \in Seq(Copies) /\ 1 \in DOMAIN Snapshot
         /\ frames' \in Seq(Calls) /\ frames' # <<>>
         /\ Top' = [kind |-> "round", list |-> Snapshot, pos |-> 1, caller |-> tid, saved |-> cpu]
         /\ \A i \in DOMAIN frames' :
              frames'[i].kind = "round" => frames'[i].pos \in DOMAIN frames'[i].list
         /\ \A i \in DOMAIN frames' : i < Len(frames') => i \in DOMAIN frames /\ frames'[i] = frames[i]
         /\ tid' \in Tids /\ cpu' \in Nat
<1>1. Fields /\ threads \in Seq(Threads)
  BY DEF ListInv, Fields
<1>2. Snapshot \in Seq(Copies)
  BY <1>1, SnapshotIs
<1> DEFINE f == [kind |-> "round", list |-> Snapshot, pos |-> 1, caller |-> tid, saved |-> cpu]
           s == Snapshot
<1>3. 1 \in DOMAIN Snapshot /\ Snapshot[1] \in Copies
  <2>1. s \in Seq(Copies) /\ s # <<>>
    BY <1>2
  <2> HIDE DEF s
  <2>2. 1 \in DOMAIN s /\ s[1] \in Copies
    BY <2>1
  <2> QED BY <2>2 DEF s
<1>4. f \in Calls /\ f.pos \in DOMAIN f.list
  <2>1. cpu \in Nat /\ tid \in Tids
    BY <1>1 DEF Fields
  <2> QED BY <1>2, <1>3, <2>1 DEF Calls
<1>5. frames' = Append(frames, f)
  BY DEF StartRound
<1> HIDE DEF f
<1>6. /\ frames' \in Seq(Calls) /\ frames' # <<>> /\ Top' = f
      /\ \A i \in DOMAIN frames' :
           frames'[i].kind = "round" => frames'[i].pos \in DOMAIN frames'[i].list
      /\ \A i \in DOMAIN frames' : i < Len(frames') => i \in DOMAIN frames /\ frames'[i] = frames[i]
  BY <1>1, <1>4, <1>5, Called
<1>7. tid' \in Tids /\ cpu' \in Nat
  BY <1>3 DEF StartRound, Copies, Tids
<1> QED BY <1>2, <1>3, <1>6, <1>7 DEF f

LEMMA ListKept ==
  ASSUME ListInv, UNCHANGED <<threads, created, stacks>>
  PROVE  OneEntryEach' /\ Ids' = Ids
BY DEF ListInv, OneEntryEach, Distinct, Ids

LEMMA ListSteps == ListInv /\ [Next]_vars => ListInv'
<1> SUFFICES ASSUME ListInv, [Next]_vars PROVE ListInv'
  OBVIOUS
<1>0. Fields /\ threads \in Seq(Threads)
  BY DEF ListInv, Fields
<1>1. CASE Step
  <2>1. cpu' \in Nat /\ steps' \in [Tids -> 0 .. MaxSteps]
    <3>1. MaxSteps \in Nat /\ steps[tid] + 1 \in 0 .. MaxSteps
      BY <1>0, <1>1, SchedulerAssumption DEF Step, Fields
    <3> QED BY <1>0, <1>1, <3>1 DEF Step, Fields
  <2> QED BY <1>0, <1>1, <2>1, ListKept DEF Step, ListInv, Fields
<1>2. CASE TlsSetValue
  BY <1>0, <1>2, ListKept DEF TlsSetValue, ListInv, Fields
<1>3. CASE CallProcedure
  <2> DEFINE f == [kind |-> "proc", tid |-> tid]
  <2>1. f \in Calls /\ f.kind # "round"
    BY <1>3 DEF CallProcedure, Calls
  <2>2. frames' = Append(frames, f)
    BY <1>3 DEF CallProcedure
  <2> HIDE DEF f
  <2>3. /\ frames' \in Seq(Calls)
        /\ \A i \in DOMAIN frames' :
             frames'[i].kind = "round" => frames'[i].pos \in DOMAIN frames'[i].list
    BY <1>0, <2>1, <2>2, Called
  <2> QED BY <1>0, <1>3, <2>3, ListKept DEF CallProcedure, ListInv, Fields
<1>4. CASE ReturnFromProcedure
  BY <1>0, <1>4, Ended, ListKept DEF ReturnFromProcedure, ListInv, Fields
<1>5. CASE \E w \in Workers : CreateThread(w)
  <2>1. PICK w \in Workers : CreateThread(w)
    BY <1>5
  <2>2. threads' \in Seq(Threads) /\ OneEntryEach'
    BY <2>1, CreateDoes
  <2> QED BY <1>0, <2>1, <2>2 DEF CreateThread, ListInv, Fields, Tids
<1>6. CASE QuantumEnds
  <2>1. SameThreads(threads, threads) /\ ready' \subseteq Tids
    BY <1>0, <1>6, Same DEF QuantumEnds, Fields
  <2> QED BY <1>6, <2>1, StopKeepsList DEF QuantumEnds
<1>7. CASE Blocks
  <2>1. SameThreads(threads, threads) /\ ready' \subseteq Tids
    BY <1>0, <1>7, Same DEF Blocks, Fields
  <2> QED BY <1>7, <2>1, StopKeepsList DEF Blocks
<1>8. CASE EndThreadEx
  <2> DEFINE asked == [i \in DOMAIN threads |->
                     IF threads[i].id = tid THEN [threads[i] EXCEPT !.term = TRUE] ELSE threads[i]]
  <2>1. SameThreads(asked, threads) /\ ready' \subseteq Tids
    BY <1>0, <1>8, AskedIs DEF EndThreadEx, Fields
  <2>2. EmuStops(asked, FALSE) /\ UNCHANGED <<created, steps>>
    BY <1>8 DEF EndThreadEx
  <2> HIDE DEF asked
  <2> QED BY <2>1, <2>2, StopKeepsList
<1>9. CASE ThreadEnds
  <2>1. SameThreads(threads, threads) /\ ready' \subseteq Tids
    BY <1>0, <1>9, Same DEF ThreadEnds, Fields
  <2> QED BY <1>9, <2>1, StopKeepsList DEF ThreadEnds
<1>10. CASE StartRound
  <2>1. CASE Snapshot = <<>>
    BY <1>0, <1>10, <2>1, ListKept DEF StartRound, ListInv, Fields
  <2>2. CASE Snapshot # <<>>
    <3>1. /\ frames' \in Seq(Calls) /\ tid' \in Tids /\ cpu' \in Nat
          /\ \A i \in DOMAIN frames' :
               frames'[i].kind = "round" => frames'[i].pos \in DOMAIN frames'[i].list
      BY <1>10, <2>2, RoundStarts
    <3>2. at' = "guest"
      BY <1>10, <2>2 DEF StartRound
    <3> QED BY <1>0, <1>10, <3>1, <3>2, ListKept DEF StartRound, ListInv, Fields
  <2> QED BY <2>1, <2>2
<1>11. CASE RunMain
  BY <1>0, <1>11, ListKept DEF RunMain, ListInv, Fields
<1>12. CASE \E t \in Tids : Wake(t)
  BY <1>0, <1>12, ListKept DEF Wake, ListInv, Fields
<1>13. CASE UNCHANGED vars
  BY <1>0, <1>13, ListKept DEF vars, ListInv, Fields
<1> QED BY <1>1, <1>2, <1>3, <1>4, <1>5, <1>6, <1>7, <1>8, <1>9, <1>10, <1>11, <1>12, <1>13
     DEF Next

----------------------------------------------------------------------------
(* Every step keeps the registers, if only the main thread calls procedures. *)

\* Steps that leave threads, calls and registers alone.
LEMMA TurnsKept ==
  ASSUME TurnInv, UNCHANGED <<threads, cpu, tid, frames, steps>>,
         at' = at \/ (at' = "guest" /\ ~InRound) \/ (at' = "round" /\ frames = <<>>)
           \/ (at' = "top" /\ frames = <<>>)
  PROVE  OneRound' /\ Registers' /\ Ids' = Ids
<1>1. /\ InRound' = InRound /\ Top' = Top /\ Ids' = Ids
  BY DEF InRound, Top, Ids
<1>2. OneRound /\ Registers /\ (InRound => frames # <<>>)
  BY DEF TurnInv, InRound
<1>3. OneRound'
  BY <1>1, <1>2 DEF OneRound, RoundOf
<1>4. Registers'
  BY <1>1, <1>2 DEF Registers, SavedIn
<1> QED BY <1>1, <1>3, <1>4

LEMMA StepKeepsTurns == ASSUME TurnInv, Step PROVE Registers'
<1>1. Fields /\ OneRound /\ Registers /\ Main \in Tids
  BY DEF TurnInv, ListInv, Tids
<1>2. /\ cpu' = steps'[tid'] /\ tid' = tid /\ threads' = threads /\ frames' = frames
      /\ steps' \in [Tids -> Int] /\ \A t \in Tids : t # tid => steps'[t] = steps[t]
      /\ InRound' = InRound /\ Top' = Top
  <2>1. steps' = [steps EXCEPT ![tid] = @ + 1] /\ cpu' = cpu + 1
    BY DEF Step
  <2> QED BY <1>1, <2>1 DEF Step, Fields, Registers, InRound, Top
<1>3. \A i \in DOMAIN threads : threads[i].id \in Tids
  <2>1. \A i \in DOMAIN threads : threads[i] \in Threads
    BY <1>1 DEF Fields
  <2> QED BY <2>1 DEF Threads, Tids
<1>4. ASSUME InRound PROVE SavedIn(Top)'
  <2>1. RoundOf(Top) /\ SavedIn(Top) /\ Top.list \in Seq(Copies) /\ Top.pos \in DOMAIN Top.list
    BY <1>1, <1>4, TopIs DEF OneRound, Registers
  <2>2. \A j \in DOMAIN Top.list : Top.list[j].id \in Workers
    BY <2>1, CopiesAre
  <2>3. tid # Main
    BY <2>1, <2>2, SchedulerAssumption DEF RoundOf
  <2>4. \A j \in DOMAIN Top.list : j # Top.pos => Top.list[j].id # tid
    <3>1. Distinct(threads)
      BY DEF TurnInv, ListInv, OneEntryEach
    <3> QED BY <2>1, <3>1 DEF RoundOf, Distinct
  <2>5. steps'[Main] = steps[Main]
    BY <1>1, <1>2, <2>3
  <2>6. \A j \in DOMAIN Top.list : j > Top.pos => Top.list[j].regs = steps'[Top.list[j].id]
    <3>1. \A j \in DOMAIN Top.list : j > Top.pos => j # Top.pos
      BY <2>1
    <3> QED BY <1>2, <2>1, <2>2, <2>4, <3>1 DEF SavedIn, Tids
  <2> QED BY <1>2, <2>1, <2>5, <2>6 DEF SavedIn
<1> QED BY <1>1, <1>2, <1>3, <1>4 DEF Registers

LEMMA CreateKeepsTurns ==
  ASSUME TurnInv, NEW w \in Workers, CreateThread(w)
  PROVE  OneRound' /\ Registers' /\ tls' \subseteq Ids' \cup {Main}
<1>1. OneRound /\ Registers /\ ListInv /\ tls \subseteq Ids \cup {Main} /\ MaxSteps \in Nat
  BY SchedulerAssumption DEF TurnInv
<1>2. /\ Ids' = Ids \cup {w}
      /\ \A i \in DOMAIN threads : i \in DOMAIN threads' /\ threads'[i] = threads[i]
      /\ \A i \in DOMAIN threads' : i \in DOMAIN threads \/ (threads'[i].id = w /\ threads'[i].regs = 0)
  BY <1>1, CreateDoes
<1>3. UNCHANGED <<cpu, tid, frames, at, tls, steps>> /\ InRound' = InRound /\ Top' = Top
  BY DEF CreateThread, InRound, Top
<1>4. RoundOf(Top) => RoundOf(Top)'
  BY <1>2, <1>3 DEF RoundOf
<1>5. OneRound'
  BY <1>1, <1>3, <1>4 DEF OneRound
<1>6. steps[w] = 0
  BY DEF TurnInv, Unborn, CreateThread
<1>7. Registers'
  BY <1>1, <1>2, <1>3, <1>6 DEF Registers, SavedIn
<1> QED BY <1>1, <1>2, <1>3, <1>5, <1>7

LEMMA CallKeepsTurns ==
  ASSUME TurnInv, OnlyMainCalls, CallProcedure
  PROVE  OneRound' /\ Registers' /\ tls' \subseteq Ids' \cup {Main}
<1>1. Fields /\ OneRound /\ Registers /\ tls \subseteq Ids \cup {Main}
  BY DEF TurnInv, ListInv
<1>2. tid = Main /\ at = "guest"
  BY DEF CallProcedure, OnlyMainCalls, Running
<1>3. ~InRound
  <2> SUFFICES ASSUME InRound PROVE FALSE
    OBVIOUS
  <2>1. RoundOf(Top) /\ Top.list \in Seq(Copies) /\ Top.pos \in DOMAIN Top.list
    BY <1>1, TopIs DEF OneRound
  <2>2. Top.list[Top.pos].id \in Workers
    BY <2>1, CopiesAre
  <2> QED BY <1>2, <2>1, <2>2, SchedulerAssumption DEF RoundOf
<1> DEFINE f == [kind |-> "proc", tid |-> tid]
<1>4. f \in Calls /\ f.kind = "proc"
  BY DEF CallProcedure, Calls
<1>5. frames' = Append(frames, f)
  BY DEF CallProcedure
<1> HIDE DEF f
<1>6. /\ frames' # <<>> /\ Top' = f
      /\ \A i \in DOMAIN frames' : i < Len(frames') => i \in DOMAIN frames /\ frames'[i] = frames[i]
  BY <1>1, <1>4, <1>5, Called
<1>7. ~InRound'
  BY <1>4, <1>6 DEF InRound
<1>8. \A i \in DOMAIN frames : frames[i].kind = "proc"
  <2>1. ASSUME NEW i \in DOMAIN frames, i = Len(frames) PROVE frames[i].kind = "proc"
    <3>1. frames # <<>> /\ Top = frames[i] /\ frames[i] \in Calls
      BY <1>1, <2>1 DEF Fields, Top, Last
    <3> QED BY <1>3, <3>1 DEF InRound, Calls
  <2>2. \A i \in DOMAIN frames : i = Len(frames) \/ i < Len(frames)
    BY <1>1 DEF Fields
  <2> QED BY <1>1, <2>1, <2>2 DEF OneRound
<1>9. OneRound'
  BY <1>2, <1>6, <1>7, <1>8 DEF OneRound, CallProcedure
<1>10. Registers' /\ Ids' = Ids
  BY <1>1, <1>7 DEF Registers, CallProcedure, Ids
<1> QED BY <1>1, <1>9, <1>10 DEF CallProcedure

LEMMA ReturnKeepsTurns ==
  ASSUME TurnInv, ReturnFromProcedure
  PROVE  OneRound' /\ Registers' /\ tls' \subseteq Ids' \cup {Main}
<1>1. Fields /\ OneRound /\ Registers /\ tls \subseteq Ids \cup {Main}
  BY DEF TurnInv, ListInv
<1>2. frames # <<>> /\ Top.kind = "proc" /\ at = "guest"
  BY DEF ReturnFromProcedure, Running
<1>3. ~InRound /\ tid = Main
  BY <1>1, <1>2 DEF InRound, OneRound
<1>4. /\ frames' \in Seq(Calls)
      /\ \A i \in DOMAIN frames' : i \in DOMAIN frames /\ i < Len(frames) /\ frames'[i] = frames[i]
  BY <1>1, <1>2, Ended DEF ReturnFromProcedure
<1>5. \A i \in DOMAIN frames' : frames'[i].kind = "proc"
  BY <1>1, <1>4 DEF OneRound
<1>6. ~InRound'
  BY <1>4, <1>5, FrontIs DEF InRound, Top
<1>7. OneRound'
  BY <1>2, <1>3, <1>5, <1>6 DEF OneRound, ReturnFromProcedure
<1>8. Registers' /\ Ids' = Ids
  BY <1>1, <1>6 DEF Registers, ReturnFromProcedure, Ids
<1> QED BY <1>1, <1>7, <1>8 DEF ReturnFromProcedure

LEMMA RoundKeepsTurns ==
  ASSUME TurnInv, StartRound
  PROVE  OneRound' /\ Registers' /\ tls' \subseteq Ids' \cup {Main}
<1>1. /\ ListInv /\ Fields /\ OneRound /\ Registers /\ tls \subseteq Ids \cup {Main}
      /\ threads \in Seq(Threads)
  BY DEF TurnInv, ListInv, Fields
<1>2. at = "round" /\ ~InRound /\ tid = Main
  BY <1>1 DEF StartRound, OneRound
<1>3. CASE Snapshot = <<>>
  <2>1. UNCHANGED <<threads, cpu, tid, frames, steps, tls>>
    BY <1>3 DEF StartRound
  <2>2. at' = "guest" \/ (at' = "top" /\ frames = <<>>)
    BY <1>3 DEF StartRound
  <2> QED BY <1>1, <1>2, <2>1, <2>2, TurnsKept
<1>4. CASE Snapshot # <<>>
  <2> DEFINE f == [kind |-> "round", list |-> Snapshot, pos |-> 1, caller |-> tid, saved |-> cpu]
  <2>1. /\ Snapshot \in Seq(Copies) /\ 1 \in DOMAIN Snapshot
        /\ frames' # <<>> /\ Top' = f
        /\ \A i \in DOMAIN frames' : i < Len(frames') => i \in DOMAIN frames /\ frames'[i] = frames[i]
    BY <1>1, <1>4, RoundStarts
  <2>2. /\ \A n \in DOMAIN Snapshot :
              /\ Snapshot[n].index \in DOMAIN threads
              /\ Snapshot[n].id = threads[Snapshot[n].index].id
              /\ Snapshot[n].regs = threads[Snapshot[n].index].regs
        /\ \A m, n \in DOMAIN Snapshot : Snapshot[m].index = Snapshot[n].index => m = n
    BY <1>1, SnapshotIs
  <2>3. /\ tid' = Snapshot[1].id /\ cpu' = Snapshot[1].regs /\ at' = "guest"
        /\ UNCHANGED <<threads, tls, steps>>
    BY <1>4 DEF StartRound
  <2>4. /\ f.kind = "round" /\ f.list = Snapshot /\ f.pos = 1 /\ f.caller = Main /\ f.saved = cpu
    BY <1>2
  <2> HIDE DEF f
  <2>5. InRound'
    BY <2>1, <2>4 DEF InRound
  <2>6. \A i \in DOMAIN frames : frames[i].kind = "proc"
    <3>1. ASSUME NEW i \in DOMAIN frames, i = Len(frames) PROVE frames[i].kind = "proc"
      <4>1. frames # <<>> /\ Top = frames[i] /\ frames[i] \in Calls
        BY <1>1, <3>1 DEF Fields, Top, Last
      <4> QED BY <1>2, <4>1 DEF InRound, Calls
    <3>2. \A i \in DOMAIN frames : i = Len(frames) \/ i < Len(frames)
      BY <1>1 DEF Fields
    <3> QED BY <1>1, <3>1, <3>2 DEF OneRound
  <2>7. RoundOf(Top)'
    BY <2>1, <2>2, <2>3, <2>4 DEF RoundOf
  <2>8. OneRound'
    BY <2>1, <2>3, <2>5, <2>6, <2>7 DEF OneRound
  <2>9. \A i \in DOMAIN threads : threads[i].id \in Workers /\ threads[i].regs = steps[threads[i].id]
    <3>1. \A i \in DOMAIN threads : threads[i] \in Threads
      BY <1>1
    <3> QED BY <1>1, <1>2, <3>1, SchedulerAssumption DEF Registers, Threads
  <2>10. \A n \in DOMAIN Snapshot : Snapshot[n].regs = steps[Snapshot[n].id]
    BY <2>2, <2>9
  <2>11. SavedIn(Top)'
    BY <1>1, <1>2, <2>1, <2>3, <2>4, <2>10 DEF SavedIn, Registers
  <2>12. Registers'
    BY <1>1, <2>1, <2>3, <2>9, <2>10, <2>11 DEF Registers
  <2>13. Ids' = Ids
    BY <2>3 DEF Ids
  <2> QED BY <1>1, <2>3, <2>8, <2>12, <2>13
<1> QED BY <1>3, <1>4

LEMMA RunningIsThere == ASSUME TurnInv PROVE tid = Main \/ tid \in Ids
<1>1. GoesOnWhereItStopped /\ StacksInUse
  BY TurnIsGood
<1> QED BY <1>1 DEF StacksInUse

LEMMA UnbornKept ==
  ASSUME TurnInv, created \subseteq created', Step \/ steps' = steps
  PROVE  Unborn'
<1>1. CASE Step
  <2>1. tid = Main \/ tid \in created
    BY RunningIsThere DEF TurnInv, ListInv, OneEntryEach
  <2>2. \A w \in Workers \ created : w # tid
    BY <2>1, SchedulerAssumption
  <2>3. \A w \in Workers \ created : steps'[w] = steps[w]
    BY <1>1, <2>2 DEF Step, TurnInv, ListInv, Fields, Tids
  <2> QED BY <2>3 DEF TurnInv, Unborn
<1>2. CASE steps' = steps
  BY <1>2 DEF TurnInv, Unborn
<1> QED BY <1>1, <1>2

LEMMA TurnSteps == OnlyMainCalls /\ TurnInv /\ [Next]_vars => TurnInv'
<1> SUFFICES ASSUME OnlyMainCalls, TurnInv, [Next]_vars PROVE TurnInv'
  OBVIOUS
<1>0. /\ ListInv /\ Fields /\ OneRound /\ Registers /\ tls \subseteq Ids \cup {Main}
      /\ threads \in Seq(Threads) /\ ListInv'
  BY ListSteps DEF TurnInv, ListInv, Fields
<1>20. Unborn'
  <2>1. created \subseteq created'
    BY DEF Next, vars, Step, TlsSetValue, CallProcedure, ReturnFromProcedure, CreateThread,
           QuantumEnds, Blocks, EndThreadEx, ThreadEnds, StartRound, RunMain, Wake
  <2>2. Step \/ steps' = steps
    BY DEF Next, vars, TlsSetValue, CallProcedure, ReturnFromProcedure, CreateThread,
           QuantumEnds, Blocks, EndThreadEx, ThreadEnds, StartRound, RunMain, Wake
  <2> QED BY <2>1, <2>2, UnbornKept
<1> SUFFICES OneRound' /\ Registers' /\ tls' \subseteq Ids' \cup {Main}
  BY <1>0, <1>20 DEF TurnInv
<1>1. CASE Step
  <2>1. Registers'
    BY <1>1, StepKeepsTurns
  <2>2. UNCHANGED <<threads, tid, frames, at, tls>>
    BY <1>1 DEF Step
  <2>3. Ids' = Ids /\ InRound' = InRound /\ Top' = Top
    BY <2>2 DEF Ids, InRound, Top
  <2>4. OneRound'
    BY <1>0, <2>2, <2>3 DEF OneRound, RoundOf
  <2> QED BY <1>0, <2>1, <2>2, <2>3, <2>4
<1>2. CASE TlsSetValue
  <2>1. OneRound' /\ Registers' /\ Ids' = Ids
    BY <1>2, TurnsKept DEF TlsSetValue
  <2> QED BY <1>0, <1>2, <2>1, RunningIsThere DEF TlsSetValue
<1>3. CASE CallProcedure
  BY <1>3, CallKeepsTurns
<1>4. CASE ReturnFromProcedure
  BY <1>4, ReturnKeepsTurns
<1>5. CASE \E w \in Workers : CreateThread(w)
  BY <1>5, CreateKeepsTurns
<1>6. CASE QuantumEnds
  BY <1>0, <1>6, Same, StopKeepsTurns DEF QuantumEnds, Running
<1>7. CASE Blocks
  BY <1>0, <1>7, Same, StopKeepsTurns DEF Blocks, Running
<1>8. CASE EndThreadEx
  <2> DEFINE asked == [i \in DOMAIN threads |->
                     IF threads[i].id = tid THEN [threads[i] EXCEPT !.term = TRUE] ELSE threads[i]]
  <2>1. SameThreads(asked, threads) /\ SameRegs(asked)
    BY <1>0, AskedIs
  <2>2. EmuStops(asked, FALSE) /\ UNCHANGED <<created, steps>> /\ at = "guest"
    BY <1>8 DEF EndThreadEx, Running
  <2> HIDE DEF asked
  <2> QED BY <2>1, <2>2, StopKeepsTurns
<1>9. CASE ThreadEnds
  BY <1>0, <1>9, Same, StopKeepsTurns DEF ThreadEnds, Running
<1>10. CASE StartRound
  BY <1>10, RoundKeepsTurns
<1>11. CASE RunMain
  <2>1. frames = <<>> /\ ~InRound
    BY <1>0, <1>11 DEF RunMain, OneRound, InRound
  <2>2. UNCHANGED <<threads, cpu, tid, frames, steps, tls>> /\ at' \in {"guest", "round"}
    BY <1>11 DEF RunMain
  <2> QED BY <1>0, <2>1, <2>2, TurnsKept
<1>12. CASE \E t \in Tids : Wake(t)
  <2>1. UNCHANGED <<threads, cpu, tid, frames, at, tls, steps>>
    BY <1>12 DEF Wake
  <2> QED BY <1>0, <2>1, TurnsKept
<1>13. CASE UNCHANGED vars
  <2>1. UNCHANGED <<threads, cpu, tid, frames, at, tls, steps>>
    BY <1>13 DEF vars
  <2> QED BY <1>0, <2>1, TurnsKept
<1> QED BY <1>1, <1>2, <1>3, <1>4, <1>5, <1>6, <1>7, <1>8, <1>9, <1>10, <1>11, <1>12, <1>13
     DEF Next

----------------------------------------------------------------------------

\* Whoever calls procedures, and however rounds nest: a thread that was created and not
\* cleaned up has one entry in ctx.threads, and the stacks taken from the heap are those of
\* the entries.  cleanup_finished_threads frees no stack twice and leaks none.
THEOREM ListHoldsItsStacks == Spec => [](Fields /\ OneEntryEach)
<1>1. Init => ListInv
  BY Starts DEF TurnInv
<1>2. ListInv /\ [Next]_vars => ListInv'
  BY ListSteps
<1> QED BY <1>1, <1>2, PTL DEF Spec, ListInv

\* The inductive invariant of the turns: while only the main thread calls window and timer
\* procedures there is one round at a time.
LEMMA TurnsHold == ASSUME OnlyMainCalls PROVE Spec => []TurnInv
<1>1. Init => TurnInv
  BY Starts
<1>2. TurnInv /\ [Next]_vars => TurnInv'
  BY TurnSteps
<1> QED BY <1>1, <1>2, PTL DEF Spec

\* A thread goes on where it stopped, for any number of threads, steps and procedures within
\* one another, as long as only the main thread calls procedures: the indices of a snapshot
\* name the same threads until the registers are written back.  (With a worker that calls
\* one it is false: the run worker_reenters.)
THEOREM GoesOn == Callers \subseteq {Main} => (Spec => []GoesOnWhereItStopped)
<1>1. TurnInv => GoesOnWhereItStopped
  BY TurnIsGood
<1>2. ASSUME Callers \subseteq {Main} PROVE Spec => []GoesOnWhereItStopped
  <2>1. Spec => []TurnInv
    BY <1>2, TurnsHold DEF OnlyMainCalls
  <2> QED BY <1>1, <2>1, PTL
<1> QED BY <1>2

\* Under the same condition the running thread has its stack, and TLS values are those of
\* threads in the list: nothing a thread owned outlives it.
THEOREM StacksAreInUse == Callers \subseteq {Main} => (Spec => []StacksInUse)
<1>1. TurnInv => StacksInUse
  BY TurnIsGood
<1>2. ASSUME Callers \subseteq {Main} PROVE Spec => []StacksInUse
  <2>1. Spec => []TurnInv
    BY <1>2, TurnsHold DEF OnlyMainCalls
  <2> QED BY <1>1, <2>1, PTL
<1> QED BY <1>2
=============================================================================
