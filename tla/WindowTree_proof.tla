-------------------------- MODULE WindowTree_proof --------------------------
(***************************************************************************)
(* The window tree for every number of windows and calls, the desktop it   *)
(* is a part of, and the regions that clip and shape windows.              *)
(***************************************************************************)
EXTENDS MCDesktop, Regions, FiniteSetTheorems, SequenceTheorems, WellFoundedInduction, TLAPS

----------------------------------------------------------------------------
(* Induction, as the least number of a set: a library theorem with a predicate as its *)
(* parameter cannot be used. *)

LEMMA Least ==
  ASSUME NEW T \in SUBSET Nat, T # {}
  PROVE  \E m \in T : \A k \in T : m <= k
<1> DEFINE R == OpToRel(<, Nat)
<1>1. IsWellFoundedOn(R, Nat)
  BY NatLessThanWellFounded
<1>2. \A x, y \in Nat : x < y => <<x, y>> \in R
  BY DEF OpToRel
<1> HIDE DEF R
<1>3. PICK m \in T : \A y \in T : ~(<<y, m>> \in R)
  BY <1>1, WFMin
<1>4. \A y \in T : ~(y < m)
  BY <1>2, <1>3, Zenon
<1>5. T \subseteq Nat
  OBVIOUS
<1> QED BY <1>3, <1>4, <1>5

LEMMA UpTo ==
  ASSUME NEW n \in Nat, NEW S, 1 \in S, \A i \in 1 .. n : i \in S /\ i + 1 \in 1 .. n => i + 1 \in S
  PROVE  1 .. n \subseteq S
<1> DEFINE T == {i \in 1 .. n : i \notin S}
<1> SUFFICES ASSUME T # {} PROVE FALSE
  OBVIOUS
<1>1. T \in SUBSET Nat
  OBVIOUS
<1> HIDE DEF T
<1>2. PICK m \in T : \A k \in T : m <= k
  BY <1>1, Least
<1>3. m \in 1 .. n /\ m \notin S /\ m # 1
  BY <1>2 DEF T
<1>4. m - 1 \in 1 .. n /\ m - 1 \notin T
  BY <1>2, <1>3
<1>5. m - 1 \in S
  BY <1>4 DEF T
<1> QED BY <1>3, <1>4, <1>5

\* What holds of an element when it holds of those of lower rank holds of all.
LEMMA RankInduction ==
  ASSUME NEW D, NEW rank \in [D -> Nat], NEW S,
         \A h \in D : (\A k \in D : rank[k] < rank[h] => k \in S) => h \in S
  PROVE  D \subseteq S
<1> DEFINE T == {n \in Nat : \E h \in D : rank[h] = n /\ h \notin S}
<1> SUFFICES ASSUME NEW g \in D, g \notin S PROVE FALSE
  OBVIOUS
<1>1. rank[g] \in T /\ T \in SUBSET Nat
  OBVIOUS
<1>2. PICK m \in T : \A n \in T : m <= n
  <2> HIDE DEF T
  <2> QED BY <1>1, Least
<1>3. PICK h \in D : rank[h] = m /\ h \notin S
  OBVIOUS
<1>4. ASSUME NEW k \in D, rank[k] < rank[h], k \notin S PROVE FALSE
  <2>1. rank[k] \in T
    BY <1>4
  <2> QED BY <1>2, <1>3, <1>4, <2>1
<1> QED BY <1>3, <1>4

\* F makes the value of an element of the values of those of lower rank.
FromLower(D, rank, V, F) ==
  /\ F \in [D -> [[D -> V] -> V]]
  /\ \A h \in D : \A f, g \in [D -> V] :
       (\A k \in D : rank[k] < rank[h] => f[k] = g[k]) => F[h][f] = F[h][g]

LEMMA RankRecursion ==
  ASSUME NEW D, NEW N \in Nat, NEW rank \in [D -> 0 .. N], NEW V, NEW v \in V,
         NEW F, FromLower(D, rank, V, F)
  PROVE  \E f \in [D -> V] : \A h \in D : f[h] = F[h][f]
<1> DEFINE Upto(n) == \E f \in [D -> V] : \A x \in D : rank[x] < n => f[x] = F[x][f]
           T       == {n \in Nat : ~Upto(n)}
<1>b. /\ F \in [D -> [[D -> V] -> V]]
      /\ \A h \in D : \A f, g \in [D -> V] :
           (\A k \in D : rank[k] < rank[h] => f[k] = g[k]) => F[h][f] = F[h][g]
  BY DEF FromLower
<1>c. \A x \in D : rank[x] \in Nat
  OBVIOUS
<1>1. Upto(0)
  <2>1. [x \in D |-> v] \in [D -> V] /\ \A x \in D : ~(rank[x] < 0)
    BY <1>c
  <2> QED BY <2>1
<1>2. ASSUME NEW n \in Nat, Upto(n) PROVE Upto(n + 1)
  <2>1. PICK f \in [D -> V] : \A x \in D : rank[x] < n => f[x] = F[x][f]
    BY <1>2
  <2> DEFINE g == [x \in D |-> IF rank[x] = n THEN F[x][f] ELSE f[x]]
  <2>2. /\ g \in [D -> V]
        /\ \A x \in D : rank[x] = n => g[x] = F[x][f]
        /\ \A x \in D : rank[x] < n => g[x] = f[x]
    BY <1>b, <1>c
  <2> HIDE DEF g
  <2>3. ASSUME NEW x \in D, rank[x] < n + 1 PROVE g[x] = F[x][g]
    <3>1. F[x][g] = F[x][f]
      <4>1. \A k \in D : rank[k] < rank[x] => g[k] = f[k]
        BY <1>c, <2>2, <2>3
      <4> QED BY <1>b, <2>2, <4>1
    <3>2. rank[x] = n \/ rank[x] < n
      BY <1>c, <2>3
    <3> QED BY <2>1, <2>2, <3>1, <3>2
  <2> QED BY <2>2, <2>3
<1> HIDE DEF Upto
<1>3. T = {}
  <2> SUFFICES ASSUME T # {} PROVE FALSE
    OBVIOUS
  <2>1. T \in SUBSET Nat
    OBVIOUS
  <2> HIDE DEF T
  <2>2. PICK m \in T : \A n \in T : m <= n
    BY <2>1, Least
  <2>3. m \in Nat /\ ~Upto(m) /\ m # 0
    BY <1>1, <2>2 DEF T
  <2>4. m - 1 \in Nat /\ ~(m <= m - 1) /\ (m - 1) + 1 = m
    BY <2>3
  <2>5. Upto(m - 1)
    BY <2>2, <2>4 DEF T
  <2> QED BY <1>2, <2>3, <2>4, <2>5
<1>4. Upto(N + 1)
  BY <1>3
<1>5. \A x \in D : rank[x] < N + 1
  OBVIOUS
<1> QED BY <1>4, <1>5 DEF Upto

\* From the largest handle down to the smallest, and up from there: a parent has a
\* smaller handle than its children.
Depth  == [h \in Handles |-> MaxHwnd - h]
Height == [h \in Handles |-> h]

LEMMA RanksAre ==
  /\ MaxHwnd \in Nat /\ Handles \subseteq Nat
  /\ Depth \in [Handles -> 0 .. MaxHwnd] /\ Height \in [Handles -> 0 .. MaxHwnd]
  /\ \A h, k \in Handles : (Depth[k] < Depth[h] <=> h < k) /\ (Height[k] < Height[h] <=> k < h)
BY WindowTreeAssumption DEF Depth, Height, Handles

LEMMA Downward ==
  ASSUME NEW S, \A h \in Handles : (\A k \in Handles : h < k => k \in S) => h \in S
  PROVE  Handles \subseteq S
<1>1. Depth \in [Handles -> Nat]
  BY RanksAre
<1>2. \A h \in Handles : (\A k \in Handles : Depth[k] < Depth[h] => k \in S) => h \in S
  BY RanksAre
<1> QED BY <1>1, <1>2, RankInduction

----------------------------------------------------------------------------
(* Sorting: every window of a set has a place of its own. *)

LEMMA SortedIs ==
  ASSUME NEW w, NEW S \in SUBSET Handles, \A h \in S : w[h].z \in Nat
  PROVE  /\ Cardinality(S) \in Nat /\ DOMAIN Sorted(w, S) = 1 .. Cardinality(S)
         /\ \A i \in 1 .. Cardinality(S) : Sorted(w, S)[i] \in S
         /\ \A h \in S : \E i \in 1 .. Cardinality(S) : Sorted(w, S)[i] = h
         /\ \A i, j \in 1 .. Cardinality(S) :
              i < j <=> Below(w, Sorted(w, S)[i], Sorted(w, S)[j])
<1> DEFINE n         == Cardinality(S)
           before(h) == {k \in S : Below(w, k, h)}
           rank      == [h \in S |-> Cardinality(before(h))]
<1>1. IsFiniteSet(S) /\ n \in Nat /\ S \subseteq Nat
  <2>1. IsFiniteSet(Handles)
    <3>1. 0 \in Int /\ MaxHwnd \in Int
      BY WindowTreeAssumption
    <3>2. IsFiniteSet(0 .. MaxHwnd)
      BY <3>1, FS_Interval, Zenon
    <3> QED BY <3>2, Zenon DEF Handles
  <2>2. IsFiniteSet(S)
    BY <2>1, FS_Subset
  <2> QED BY <2>2, FS_CardinalityType DEF Handles
<1>2. ASSUME NEW h \in S
      PROVE  IsFiniteSet(before(h)) /\ rank[h] \in Nat /\ before(h) \subseteq S
  BY <1>1, FS_Subset, FS_CardinalityType
<1>3. ASSUME NEW a \in S, NEW b \in S, Below(w, a, b) PROVE rank[a] < rank[b]
  <2>1. \A k \in S : Below(w, k, a) => Below(w, k, b)
    BY <1>1, <1>3 DEF Below
  <2>3. ~Below(w, a, a)
    BY <1>1 DEF Below
  <2>4. before(a) \subseteq before(b) /\ a \in before(b) /\ a \notin before(a)
    BY <1>3, <2>1, <2>3
  <2>2. Cardinality(before(a)) <= Cardinality(before(b))
        /\ Cardinality(before(b)) # Cardinality(before(a))
    BY <1>2, <2>4, FS_Subset
  <2> QED BY <1>2, <2>2
<1>4. ASSUME NEW a \in S, NEW b \in S, a # b PROVE Below(w, a, b) \/ Below(w, b, a)
  <2>1. a \in Nat /\ b \in Nat /\ w[a].z \in Nat /\ w[b].z \in Nat
    BY <1>1
  <2> QED BY <1>4, <2>1 DEF Below
<1>11. /\ \A h \in S : rank[h] \in Nat
       /\ \A a, b \in S : Below(w, a, b) <=> rank[a] < rank[b]
  <2>1. \A h \in S : rank[h] \in Nat
    BY <1>2
  <2>2. \A a, b \in S : Below(w, a, b) => rank[a] < rank[b]
    BY <1>3
  <2> HIDE DEF rank
  <2> QED BY <1>4, <2>1, <2>2
<1>5. ASSUME NEW h \in S PROVE rank[h] \in 0 .. n - 1
  <2>1. h \notin before(h)
    BY <1>1 DEF Below
  <2>2. rank[h] <= n /\ rank[h] # n
    BY <1>1, <1>2, <2>1, FS_Subset
  <2> QED BY <1>1, <1>2, <2>2
<1>6. \A i \in 0 .. n - 1 : \E h \in S : rank[h] = i
  <2>1. rank \in Injection(S, 0 .. n - 1)
    <3>1. \A a, b \in S : rank[a] = rank[b] => a = b
      <4> HIDE DEF rank
      <4> QED BY <1>4, <1>11
    <3>2. rank \in [S -> 0 .. n - 1]
      BY <1>5
    <3> HIDE DEF rank
    <3> QED BY <3>1, <3>2 DEF Injection, IsInjective
  <2>2. IsFiniteSet(0 .. n - 1) /\ Cardinality(0 .. n - 1) = n
    BY <1>1, FS_Interval
  <2>3. rank \in Surjection(S, 0 .. n - 1)
    <3> HIDE DEF rank
    <3> QED BY <1>1, <2>1, <2>2, FS_Injection
  <2> QED BY <2>3 DEF Surjection
<1>7. ASSUME NEW i \in 1 .. n
      PROVE  Sorted(w, S)[i] \in S /\ rank[Sorted(w, S)[i]] = i - 1
  <2>1. Sorted(w, S)[i] = CHOOSE h \in S : Cardinality(before(h)) = i - 1
    BY DEF Sorted
  <2>2. \E h \in S : Cardinality(before(h)) = i - 1
    BY <1>1, <1>6
  <2> QED BY <2>1, <2>2
<1>8. DOMAIN Sorted(w, S) = 1 .. n
  BY DEF Sorted
<1> HIDE DEF rank
<1>9. \A h \in S : \E i \in 1 .. n : Sorted(w, S)[i] = h
  <2> SUFFICES ASSUME NEW h \in S PROVE \E i \in 1 .. n : Sorted(w, S)[i] = h
    OBVIOUS
  <2>1. rank[h] + 1 \in 1 .. n /\ rank[h] \in Nat
    BY <1>1, <1>2, <1>5
  <2>2. Sorted(w, S)[rank[h] + 1] \in S /\ rank[Sorted(w, S)[rank[h] + 1]] = rank[h]
    BY <1>7, <2>1
  <2>3. Sorted(w, S)[rank[h] + 1] = h
    BY <1>4, <1>11, <2>2
  <2> QED BY <2>1, <2>3
<1>10. \A i, j \in 1 .. n : i < j <=> Below(w, Sorted(w, S)[i], Sorted(w, S)[j])
  <2> SUFFICES ASSUME NEW i \in 1 .. n, NEW j \in 1 .. n
               PROVE  i < j <=> Below(w, Sorted(w, S)[i], Sorted(w, S)[j])
    OBVIOUS
  <2> DEFINE a == Sorted(w, S)[i]
             b == Sorted(w, S)[j]
  <2>1. a \in S /\ b \in S /\ rank[a] = i - 1 /\ rank[b] = j - 1
    BY <1>7
  <2> HIDE DEF a, b
  <2>2. i < j <=> Below(w, a, b)
    BY <1>1, <1>11, <2>1
  <2> QED BY <2>2 DEF a, b
<1> QED BY <1>1, <1>7, <1>8, <1>9, <1>10

----------------------------------------------------------------------------
(* The sequences of several windows, one after the other. *)

\* The function FlattenSeq defines.
Joined(ss, f, n) == f = [i \in 1 .. n |-> IF i = 1 THEN ss[i] ELSE f[i - 1] \o ss[i]]

LEMMA JoinedExists ==
  ASSUME NEW ss, NEW n \in Nat, n # 0
  PROVE  \E f : Joined(ss, f, n)
<1> DEFINE S == {m \in 1 .. n : \E f : Joined(ss, f, m)}
<1>1. 1 \in S
  <2>1. Joined(ss, [i \in 1 .. 1 |-> ss[i]], 1)
    BY DEF Joined
  <2> QED BY <2>1
<1>2. ASSUME NEW m \in 1 .. n, m \in S, m + 1 \in 1 .. n PROVE m + 1 \in S
  <2>1. PICK f : Joined(ss, f, m)
    BY <1>2
  <2> DEFINE g == [i \in 1 .. m + 1 |-> IF i = m + 1 THEN f[m] \o ss[i] ELSE f[i]]
  <2>2. ASSUME NEW i \in 1 .. m + 1
        PROVE  g[i] = IF i = 1 THEN ss[i] ELSE g[i - 1] \o ss[i]
    <3>1. CASE i = m + 1
      <4>1. i # 1 /\ i - 1 = m /\ i - 1 # m + 1 /\ i - 1 \in 1 .. m + 1
        BY <3>1
      <4> QED BY <3>1, <4>1
    <3>2. CASE i # m + 1
      <4>1. i \in 1 .. m /\ (i # 1 => i - 1 \in 1 .. m + 1 /\ i - 1 # m + 1)
        BY <3>2
      <4>2. f[i] = IF i = 1 THEN ss[i] ELSE f[i - 1] \o ss[i]
        BY <2>1, <4>1 DEF Joined
      <4> QED BY <3>2, <4>1, <4>2
    <3> QED BY <3>1, <3>2
  <2>3. g = [i \in 1 .. m + 1 |-> g[i]]
    OBVIOUS
  <2> HIDE DEF g
  <2>4. Joined(ss, g, m + 1)
    BY <2>2, <2>3 DEF Joined
  <2> QED BY <1>2, <2>4
<1> HIDE DEF S
<1>3. n \in S
  BY <1>1, <1>2, UpTo
<1> QED BY <1>3 DEF S

LEMMA FlattenUnfolds ==
  ASSUME NEW ss, Len(ss) \in Nat, Len(ss) # 0
  PROVE  \E f : Joined(ss, f, Len(ss)) /\ FlattenSeq(ss) = f[Len(ss)]
<1> DEFINE f == CHOOSE f : Joined(ss, f, Len(ss))
<1>1. Joined(ss, f, Len(ss))
  BY JoinedExists
<1>2. FlattenSeq(ss) = f[Len(ss)]
  BY DEF FlattenSeq, Joined
<1> QED BY <1>1, <1>2

\* The sequence "piece" lies in the sequence "all" from the place "at" on.
Lies(piece, all, at) ==
  \A i \in 1 .. Len(piece) : at + i \in 1 .. Len(all) /\ all[at + i] = piece[i]

\* What FlattenSeq returns is made of the parts and of nothing else.
Covers(ss, all, m) ==
  /\ \A k \in 1 .. m : \E at \in Nat : Lies(ss[k], all, at)
  /\ \A j \in 1 .. Len(all) : \E k \in 1 .. m, at \in Nat :
       Lies(ss[k], all, at) /\ j - at \in 1 .. Len(ss[k])

LEMMA LiesOn ==
  ASSUME NEW S, NEW piece \in Seq(S), NEW all \in Seq(S), NEW more \in Seq(S), NEW at \in Nat
  PROVE  /\ Lies(piece, all, at) => Lies(piece, all \o more, at)
         /\ Lies(more, all \o more, Len(all))
<1>1. /\ Len(all \o more) = Len(all) + Len(more) /\ Len(all) \in Nat /\ Len(more) \in Nat
      /\ \A i \in 1 .. Len(all) : (all \o more)[i] = all[i]
      /\ \A i \in 1 .. Len(more) : (all \o more)[Len(all) + i] = more[i]
  OBVIOUS
<1> DEFINE both == all \o more
<1> HIDE DEF both
<1> QED BY <1>1 DEF Lies, both

LEMMA FlattenIs ==
  ASSUME NEW S, NEW ss \in Seq(Seq(S))
  PROVE  FlattenSeq(ss) \in Seq(S) /\ Covers(ss, FlattenSeq(ss), Len(ss))
<1>1. CASE ss = <<>>
  <2>1. FlattenSeq(ss) = <<>> /\ Len(ss) = 0
    BY <1>1 DEF FlattenSeq
  <2> QED BY <2>1 DEF Covers
<1>2. CASE ss # <<>>
  <2>1. Len(ss) \in Nat /\ Len(ss) # 0 /\ \A i \in 1 .. Len(ss) : ss[i] \in Seq(S)
    BY <1>2, EmptySeq
  <2>2. PICK f : Joined(ss, f, Len(ss)) /\ FlattenSeq(ss) = f[Len(ss)]
    BY <2>1, FlattenUnfolds
  <2>3. \A i \in 1 .. Len(ss) : f[i] = IF i = 1 THEN ss[i] ELSE f[i - 1] \o ss[i]
    BY <2>2 DEF Joined
  <2> DEFINE T == {m \in 1 .. Len(ss) : f[m] \in Seq(S) /\ Covers(ss, f[m], m)}
  <2>4. 1 \in T
    <3>1. f[1] = ss[1] /\ f[1] \in Seq(S)
      BY <2>1, <2>3
    <3>2. Lies(ss[1], f[1], 0)
      BY <3>1 DEF Lies
    <3>3. Covers(ss, f[1], 1)
      BY <3>1, <3>2 DEF Covers
    <3> QED BY <2>1, <3>1, <3>3
  <2>5. ASSUME NEW m \in 1 .. Len(ss), m \in T, m + 1 \in 1 .. Len(ss) PROVE m + 1 \in T
    <3>1. f[m] \in Seq(S) /\ Covers(ss, f[m], m) /\ ss[m + 1] \in Seq(S) /\ m + 1 # 1
      BY <2>1, <2>5
    <3>2. f[m + 1] = f[m] \o ss[m + 1]
      <4>1. (m + 1) - 1 = m
        OBVIOUS
      <4>2. f[m + 1] = f[(m + 1) - 1] \o ss[m + 1]
        BY <2>3, <2>5, <3>1
      <4> QED BY <4>1, <4>2
    <3>3. f[m + 1] \in Seq(S) /\ Len(f[m + 1]) = Len(f[m]) + Len(ss[m + 1])
      BY <3>1, <3>2
    <3>4. \A k \in 1 .. m, at \in Nat : Lies(ss[k], f[m], at) => Lies(ss[k], f[m + 1], at)
      BY <2>1, <2>5, <3>1, <3>2, LiesOn
    <3>5. Lies(ss[m + 1], f[m + 1], Len(f[m])) /\ Len(f[m]) \in Nat
      BY <3>1, <3>2, LiesOn
    <3>6. \A k \in 1 .. m + 1 : \E at \in Nat : Lies(ss[k], f[m + 1], at)
      BY <3>1, <3>4, <3>5 DEF Covers
    <3>7. ASSUME NEW j \in 1 .. Len(f[m + 1])
          PROVE  \E k \in 1 .. m + 1, at \in Nat :
                   Lies(ss[k], f[m + 1], at) /\ j - at \in 1 .. Len(ss[k])
      <4>1. CASE j \in 1 .. Len(f[m])
        <5>1. PICK k \in 1 .. m, at \in Nat :
                Lies(ss[k], f[m], at) /\ j - at \in 1 .. Len(ss[k])
          BY <3>1, <4>1 DEF Covers
        <5> QED BY <3>4, <5>1
      <4>2. CASE j \notin 1 .. Len(f[m])
        <5>1. Len(f[m]) \in Nat /\ Len(ss[m + 1]) \in Nat
          BY <3>1
        <5>3. j \in 1 .. Len(f[m]) + Len(ss[m + 1])
          BY <3>3
        <5>2. j - Len(f[m]) \in 1 .. Len(ss[m + 1])
          <6>1. \A a, b \in Nat : \A i \in 1 .. a + b : i \notin 1 .. a => i - a \in 1 .. b
            OBVIOUS
          <6> QED BY <4>2, <5>1, <5>3, <6>1
        <5> QED BY <3>5, <5>2
      <4> QED BY <4>1, <4>2
    <3>8. Covers(ss, f[m + 1], m + 1)
      BY <3>6, <3>7 DEF Covers
    <3> QED BY <2>5, <3>3, <3>8
  <2> HIDE DEF T
  <2>6. Len(ss) \in T
    <3>1. \A i \in 1 .. Len(ss) : i \in T /\ i + 1 \in 1 .. Len(ss) => i + 1 \in T
      BY <2>5
    <3>2. 1 .. Len(ss) \subseteq T
      BY <2>1, <2>4, <3>1, UpTo
    <3>3. \A n \in Nat : n # 0 => n \in 1 .. n
      OBVIOUS
    <3>4. Len(ss) \in 1 .. Len(ss)
      BY <2>1, <3>3, Zenon
    <3> QED BY <3>2, <3>4, Zenon
  <2> QED BY <2>2, <2>6 DEF T
<1> QED BY <1>1, <1>2

----------------------------------------------------------------------------
(* The order in which a subtree is destroyed. *)

\* Every window has a smaller handle than its children.
Tree(w) ==
  /\ DOMAIN w \subseteq Handles
  /\ \A h \in DOMAIN w : w[h].parent \in Handles /\ w[h].parent < h /\ w[h].z \in Nat

LEMMA KidsAre ==
  ASSUME NEW w, Tree(w), NEW p
  PROVE  /\ Kids(w, p) \in Seq(Handles)
         /\ \A i \in DOMAIN Kids(w, p) :
              Kids(w, p)[i] \in DOMAIN w /\ w[Kids(w, p)[i]].parent = p
         /\ \A h \in DOMAIN w : w[h].parent = p =>
              \E i \in DOMAIN Kids(w, p) : Kids(w, p)[i] = h
<1> DEFINE S == Children(w, p)
<1>1. S \in SUBSET Handles /\ \A h \in S : h \in DOMAIN w /\ w[h].z \in Nat /\ w[h].parent = p
  BY DEF Children, Tree
<1>2. \A h \in DOMAIN w : w[h].parent = p => h \in S
  BY DEF Children
<1> HIDE DEF S
<1> DEFINE s == Sorted(w, S)
<1>3. /\ Cardinality(S) \in Nat /\ DOMAIN s = 1 .. Cardinality(S)
      /\ \A i \in 1 .. Cardinality(S) : s[i] \in S
      /\ \A h \in S : \E i \in 1 .. Cardinality(S) : s[i] = h
  BY <1>1, SortedIs
<1>4. s = [i \in 1 .. Cardinality(S) |-> s[i]]
  <2> DEFINE place(i) == CHOOSE h \in S : Cardinality({k \in S : Below(w, k, h)}) = i - 1
  <2>1. s = [i \in 1 .. Cardinality(S) |-> place(i)]
    BY DEF Sorted
  <2> HIDE DEF place, s
  <2> QED BY <2>1
<1>5. Kids(w, p) = s
  BY DEF Kids, S
<1> HIDE DEF s
<1>6. s \in Seq(Handles)
  BY <1>1, <1>3, <1>4
<1> QED BY <1>1, <1>2, <1>3, <1>5, <1>6

\* What the recursive function of Postorder makes of the values above a handle.
Below1(w, f, h) == [i \in DOMAIN Kids(w, h) |-> f[Kids(w, h)[i]]]
OrderOf(w, f, h) == FlattenSeq(Below1(w, f, h)) \o (IF h \in DOMAIN w THEN <<h>> ELSE <<>>)

LEMMA OrderType ==
  ASSUME NEW w, Tree(w), NEW h \in Handles, NEW f,
         \A k \in Handles : h < k => f[k] \in Seq(Handles)
  PROVE  /\ Below1(w, f, h) \in Seq(Seq(Handles))
         /\ Len(Below1(w, f, h)) = Len(Kids(w, h))
         /\ OrderOf(w, f, h) \in Seq(Handles)
<1> DEFINE n == Len(Kids(w, h))
<1>1. /\ Kids(w, h) \in Seq(Handles) /\ n \in Nat /\ DOMAIN Kids(w, h) = 1 .. n
      /\ \A i \in 1 .. n : Kids(w, h)[i] \in Handles /\ h < Kids(w, h)[i]
  BY KidsAre DEF Tree
<1>2. \A i \in 1 .. n : f[Kids(w, h)[i]] \in Seq(Handles)
  BY <1>1
<1>3. Below1(w, f, h) = [i \in 1 .. n |-> f[Kids(w, h)[i]]]
  BY <1>1 DEF Below1
<1> HIDE DEF n
<1>4. Below1(w, f, h) \in Seq(Seq(Handles)) /\ Len(Below1(w, f, h)) = n
  BY <1>1, <1>2, <1>3
<1>5. FlattenSeq(Below1(w, f, h)) \in Seq(Handles)
  BY <1>4, FlattenIs
<1>6. (IF h \in DOMAIN w THEN <<h>> ELSE <<>>) \in Seq(Handles)
  OBVIOUS
<1> QED BY <1>4, <1>5, <1>6 DEF OrderOf, n

LEMMA PostorderUnfolds ==
  ASSUME NEW w, Tree(w)
  PROVE  \E f : \A h \in Handles : f[h] = OrderOf(w, f, h) /\ Postorder(w, h) = f[h]
<1> DEFINE V      == Seq(Handles)
           IsOrder(f) == f = [h \in Handles |-> OrderOf(w, f, h)]
           F      == [h \in Handles |-> [f \in [Handles -> V] |-> OrderOf(w, f, h)]]
<1>1. <<>> \in V
  OBVIOUS
<1>2. F \in [Handles -> [[Handles -> V] -> V]]
  <2>1. ASSUME NEW h \in Handles, NEW f \in [Handles -> V] PROVE OrderOf(w, f, h) \in V
    BY OrderType
  <2> QED BY <2>1
<1>3. ASSUME NEW h \in Handles, NEW f \in [Handles -> V], NEW g \in [Handles -> V],
             \A k \in Handles : h < k => f[k] = g[k]
      PROVE  F[h][f] = F[h][g]
  <2>1. ASSUME NEW i \in DOMAIN Kids(w, h) PROVE Kids(w, h)[i] \in Handles /\ h < Kids(w, h)[i]
    <3>1. Kids(w, h)[i] \in DOMAIN w /\ w[Kids(w, h)[i]].parent = h
      BY KidsAre
    <3> QED BY <3>1 DEF Tree
  <2>2. Below1(w, f, h) = Below1(w, g, h)
    BY <1>3, <2>1 DEF Below1
  <2> QED BY <2>2 DEF OrderOf
<1>4. \A h \in Handles, f \in [Handles -> V] : F[h][f] = OrderOf(w, f, h)
  OBVIOUS
<1> HIDE DEF F, V
<1>10. FromLower(Handles, Depth, V, F)
  BY <1>2, <1>3, RanksAre DEF FromLower
<1>5. PICK f \in [Handles -> V] : \A h \in Handles : f[h] = F[h][f]
  <2>1. MaxHwnd \in Nat /\ Depth \in [Handles -> 0 .. MaxHwnd]
    BY RanksAre
  <2> QED BY <1>1, <1>10, <2>1, RankRecursion
<1>6. IsOrder(f)
  <2>1. \A h \in Handles : f[h] = OrderOf(w, f, h)
    BY <1>4, <1>5
  <2>2. f = [h \in Handles |-> f[h]]
    BY <1>5
  <2> QED BY <2>1, <2>2
<1> DEFINE g == CHOOSE x : IsOrder(x)
<1>7. IsOrder(g)
  BY <1>6
<1>8. \A h \in Handles : Postorder(w, h) = g[h]
  BY DEF Postorder, OrderOf, Below1
<1> HIDE DEF g
<1>9. \A h \in Handles : g[h] = OrderOf(w, g, h)
  BY <1>7
<1> QED BY <1>8, <1>9

\* A sequence of windows that has all children of each of its windows, and before it.
ChildrenFirst(w, s) ==
  /\ s \in Seq(Handles)
  /\ \A j \in 1 .. Len(s) : s[j] \in DOMAIN w
  /\ \A j \in 1 .. Len(s) : \A k \in DOMAIN w :
       w[k].parent = s[j] => \E i \in 1 .. Len(s) : i < j /\ s[i] = k
HasChildren(w, s, h) ==
  \A k \in DOMAIN w : w[k].parent = h => \E i \in 1 .. Len(s) : s[i] = k

LEMMA SubtreesJoined ==
  ASSUME NEW w, Tree(w), NEW h \in Handles, NEW f,
         \A k \in Handles : h < k =>
           ChildrenFirst(w, f[k]) /\ (k \in DOMAIN w => \E i \in 1 .. Len(f[k]) : f[k][i] = k)
  PROVE  LET flat == FlattenSeq(Below1(w, f, h)) IN
           ChildrenFirst(w, flat) /\ HasChildren(w, flat, h)
<1> DEFINE parts == Below1(w, f, h)
           flat  == FlattenSeq(parts)
           n     == Len(Kids(w, h))
<1>1. /\ Kids(w, h) \in Seq(Handles) /\ n \in Nat /\ DOMAIN Kids(w, h) = 1 .. n
      /\ \A i \in 1 .. n : Kids(w, h)[i] \in DOMAIN w /\ w[Kids(w, h)[i]].parent = h
      /\ \A k \in DOMAIN w : w[k].parent = h => \E i \in 1 .. n : Kids(w, h)[i] = k
  BY KidsAre
<1>2. \A i \in 1 .. n : Kids(w, h)[i] \in Handles /\ h < Kids(w, h)[i]
  BY <1>1 DEF Tree
<1>3. parts \in Seq(Seq(Handles)) /\ Len(parts) = n
  BY OrderType DEF ChildrenFirst
<1>4. flat \in Seq(Handles) /\ Covers(parts, flat, n)
  BY <1>3, FlattenIs
<1>5. ASSUME NEW i \in 1 .. n
      PROVE  /\ ChildrenFirst(w, parts[i]) /\ Len(parts[i]) \in Nat
             /\ \E q \in 1 .. Len(parts[i]) : parts[i][q] = Kids(w, h)[i]
  <2>1. PICK k \in Handles : k = Kids(w, h)[i] /\ h < k /\ k \in DOMAIN w
    BY <1>1, <1>2
  <2>2. parts[i] = f[k]
    BY <1>1, <2>1 DEF Below1
  <2>3. ChildrenFirst(w, f[k]) /\ \E q \in 1 .. Len(f[k]) : f[k][q] = k
    BY <2>1
  <2>4. Len(f[k]) \in Nat
    BY <2>3 DEF ChildrenFirst
  <2> HIDE DEF parts
  <2> QED BY <2>1, <2>2, <2>3, <2>4
<1> HIDE DEF parts, flat, n
<1>6. HasChildren(w, flat, h)
  <2> SUFFICES ASSUME NEW k \in DOMAIN w, w[k].parent = h
               PROVE  \E i \in 1 .. Len(flat) : flat[i] = k
    BY DEF HasChildren
  <2>1. PICK i \in 1 .. n : Kids(w, h)[i] = k
    BY <1>1
  <2>2. PICK q \in 1 .. Len(parts[i]) : parts[i][q] = k
    BY <1>5, <2>1
  <2>3. PICK at \in Nat : Lies(parts[i], flat, at)
    BY <1>4 DEF Covers
  <2> QED BY <2>2, <2>3 DEF Lies
<1>7. ASSUME NEW j \in 1 .. Len(flat)
      PROVE  /\ flat[j] \in DOMAIN w
             /\ \A k \in DOMAIN w :
                  w[k].parent = flat[j] => \E i \in 1 .. Len(flat) : i < j /\ flat[i] = k
  <2>1. PICK i \in 1 .. n, at \in Nat : Lies(parts[i], flat, at) /\ j - at \in 1 .. Len(parts[i])
    BY <1>4 DEF Covers
  <2>2. at + (j - at) = j /\ Len(flat) \in Nat
    BY <1>4
  <2>3. flat[j] = parts[i][j - at]
    BY <2>1, <2>2 DEF Lies
  <2>4. flat[j] \in DOMAIN w
    BY <1>5, <2>1, <2>3 DEF ChildrenFirst
  <2>5. ASSUME NEW k \in DOMAIN w, w[k].parent = flat[j]
        PROVE  \E x \in 1 .. Len(flat) : x < j /\ flat[x] = k
    <3>1. PICK q \in 1 .. Len(parts[i]) : q < j - at /\ parts[i][q] = k
      BY <1>5, <2>1, <2>3, <2>5 DEF ChildrenFirst
    <3>2. at + q \in 1 .. Len(flat) /\ flat[at + q] = k
      BY <2>1, <3>1 DEF Lies
    <3>3. at + q < j
      BY <1>5, <3>1
    <3> QED BY <3>2, <3>3
  <2> QED BY <2>4, <2>5
<1>8. ChildrenFirst(w, flat)
  BY <1>4, <1>7 DEF ChildrenFirst
<1> QED BY <1>6, <1>8 DEF flat, parts

\* DestroyOrder has the window, if it is there, and all of its subtree, children first.
LEMMA DestroyOrderIs ==
  ASSUME NEW w, Tree(w), NEW root \in Handles
  PROVE  /\ ChildrenFirst(w, DestroyOrder(w, root)) /\ HasChildren(w, DestroyOrder(w, root), root)
         /\ root \in DOMAIN w => root \in ToSet(DestroyOrder(w, root))
<1>1. PICK f : \A h \in Handles : f[h] = OrderOf(w, f, h) /\ Postorder(w, h) = f[h]
  BY PostorderUnfolds
<1> DEFINE Good(h) == /\ ChildrenFirst(w, f[h]) /\ HasChildren(w, f[h], h)
                      /\ h \in DOMAIN w => \E i \in 1 .. Len(f[h]) : f[h][i] = h
           S       == {h \in Handles : Good(h)}
<1>2. ASSUME NEW h \in Handles, \A k \in Handles : h < k => k \in S
      PROVE  h \in S
  <2> DEFINE flat == FlattenSeq(Below1(w, f, h))
  <2>1. ChildrenFirst(w, flat) /\ HasChildren(w, flat, h)
    BY <1>2, SubtreesJoined
  <2>2. f[h] = flat \o (IF h \in DOMAIN w THEN <<h>> ELSE <<>>)
    BY <1>1 DEF OrderOf
  <2> HIDE DEF flat
  <2>3. flat \in Seq(Handles) /\ Len(flat) \in Nat
    BY <2>1 DEF ChildrenFirst
  <2>4. CASE h \notin DOMAIN w
    <3>1. f[h] = flat
      BY <2>2, <2>3, <2>4
    <3> QED BY <2>1, <2>4, <3>1
  <2>5. CASE h \in DOMAIN w
    <3>1. /\ f[h] \in Seq(Handles) /\ Len(f[h]) = Len(flat) + 1 /\ f[h][Len(flat) + 1] = h
          /\ \A i \in 1 .. Len(flat) : f[h][i] = flat[i]
      BY <2>2, <2>3, <2>5
    <3>2. HasChildren(w, f[h], h)
      BY <2>1, <2>3, <3>1 DEF HasChildren
    <3>3. ASSUME NEW j \in 1 .. Len(f[h])
          PROVE  /\ f[h][j] \in DOMAIN w
                 /\ \A k \in DOMAIN w : w[k].parent = f[h][j] =>
                      \E i \in 1 .. Len(f[h]) : i < j /\ f[h][i] = k
      <4>1. CASE j \in 1 .. Len(flat)
        <5>1. f[h][j] = flat[j] /\ flat[j] \in DOMAIN w
          BY <2>1, <3>1, <4>1 DEF ChildrenFirst
        <5>2. ASSUME NEW k \in DOMAIN w, w[k].parent = flat[j]
              PROVE  \E i \in 1 .. Len(f[h]) : i < j /\ f[h][i] = k
          <6>1. PICK i \in 1 .. Len(flat) : i < j /\ flat[i] = k
            BY <2>1, <4>1, <5>2 DEF ChildrenFirst
          <6> QED BY <2>3, <3>1, <6>1
        <5> QED BY <5>1, <5>2
      <4>2. CASE j \notin 1 .. Len(flat)
        <5>1. j = Len(flat) + 1
          BY <2>3, <3>1, <4>2
        <5>2. ASSUME NEW k \in DOMAIN w, w[k].parent = h
              PROVE  \E i \in 1 .. Len(f[h]) : i < j /\ f[h][i] = k
          <6>1. PICK i \in 1 .. Len(flat) : flat[i] = k
            BY <2>1, <5>2 DEF HasChildren
          <6> QED BY <2>3, <3>1, <5>1, <6>1
        <5> QED BY <2>5, <3>1, <5>1, <5>2
      <4> QED BY <4>1, <4>2
    <3>4. ChildrenFirst(w, f[h])
      BY <3>1, <3>3 DEF ChildrenFirst
    <3>5. \E i \in 1 .. Len(f[h]) : f[h][i] = h
      BY <2>3, <3>1
    <3> QED BY <3>2, <3>4, <3>5
  <2> QED BY <2>4, <2>5
<1> HIDE DEF S
<1>3. root \in S
  BY <1>2, Downward
<1>4. Good(root) /\ DestroyOrder(w, root) = f[root]
  BY <1>1, <1>3 DEF S, DestroyOrder
<1>5. root \in DOMAIN w => root \in ToSet(f[root])
  BY <1>4 DEF ChildrenFirst, ToSet
<1> QED BY <1>4, <1>5

----------------------------------------------------------------------------
(* Visibility, from the top of the tree down. *)

\* A tree of windows as the guest's calls build it.
Windows(w) == Tree(w) /\ \A h \in DOMAIN w : w[h].visible \in BOOLEAN /\ w[h].child \in BOOLEAN

LEMMA ShownIs ==
  ASSUME NEW w, Windows(w), NEW h \in Handles
  PROVE  /\ Shown(w, h) \in BOOLEAN
         /\ Shown(w, h) <=> /\ h \in DOMAIN w
                            /\ w[h].visible
                            /\ InParent(w, h) => Shown(w, w[h].parent)
<1> DEFINE Seen(f, k) == /\ k \in DOMAIN w
                         /\ w[k].visible
                         /\ InParent(w, k) => f[w[k].parent]
           IsSeen(f) == f = [k \in Handles |-> Seen(f, k)]
           F == [k \in Handles |-> [f \in [Handles -> BOOLEAN] |-> Seen(f, k)]]
<1>1. F \in [Handles -> [[Handles -> BOOLEAN] -> BOOLEAN]]
  BY DEF Windows, Tree, InParent
<1>2. ASSUME NEW k \in Handles, NEW f \in [Handles -> BOOLEAN], NEW g \in [Handles -> BOOLEAN],
             \A x \in Handles : Height[x] < Height[k] => f[x] = g[x]
      PROVE  F[k][f] = F[k][g]
  <2>1. k \in DOMAIN w => f[w[k].parent] = g[w[k].parent]
    BY <1>2, RanksAre DEF Windows, Tree
  <2> QED BY <2>1 DEF InParent
<1>3. \A k \in Handles, f \in [Handles -> BOOLEAN] : F[k][f] = Seen(f, k)
  OBVIOUS
<1> HIDE DEF F
<1>4. FromLower(Handles, Height, BOOLEAN, F)
  BY <1>1, <1>2 DEF FromLower
<1>5. PICK f \in [Handles -> BOOLEAN] : \A k \in Handles : f[k] = F[k][f]
  <2>1. MaxHwnd \in Nat /\ Height \in [Handles -> 0 .. MaxHwnd]
    BY RanksAre
  <2> DEFINE V == BOOLEAN
  <2>4. PICK v : v \in V
    OBVIOUS
  <2>2. FromLower(Handles, Height, V, F)
    BY <1>4
  <2> HIDE DEF V
  <2>3. \E x \in [Handles -> V] : \A k \in Handles : x[k] = F[k][x]
    BY <2>1, <2>2, <2>4, RankRecursion
  <2> QED BY <2>3 DEF V
<1>6. IsSeen(f)
  <2>1. \A k \in Handles : f[k] = Seen(f, k)
    BY <1>3, <1>5
  <2>2. f = [k \in Handles |-> f[k]]
    BY <1>5
  <2> HIDE DEF Seen
  <2> QED BY <2>1, <2>2
<1> DEFINE g == CHOOSE x : IsSeen(x)
<1>7. IsSeen(g)
  BY <1>6
<1>8. \A k \in Handles : Shown(w, k) = g[k]
  BY DEF Shown
<1> HIDE DEF g
<1>9. \A k \in Handles : g[k] = Seen(g, k)
  BY <1>7
<1>10. Seen(g, h) \in BOOLEAN
  OBVIOUS
<1>11. h \in DOMAIN w => w[h].parent \in Handles
  BY DEF Windows, Tree
<1> QED BY <1>8, <1>9, <1>10, <1>11

----------------------------------------------------------------------------
(* The subtree of a window. *)

\* The window, if it is there, and whoever has a parent among them.
Family(w, h, s) ==
  /\ s \in Seq(Handles)
  /\ ToSet(s) \subseteq DOMAIN w
  /\ \A k \in DOMAIN w : k \in ToSet(s) <=> k = h \/ w[k].parent \in ToSet(s)

LEMMA ElementOf ==
  ASSUME NEW S, NEW s \in Seq(S)
  PROVE  \A x : x \in ToSet(s) <=> \E i \in 1 .. Len(s) : s[i] = x
BY DEF ToSet

\* What is in a sequence of sequences.
LEMMA FlattenElements ==
  ASSUME NEW S, NEW ss \in Seq(Seq(S))
  PROVE  \A x : x \in ToSet(FlattenSeq(ss)) <=> \E k \in 1 .. Len(ss) : x \in ToSet(ss[k])
<1> DEFINE flat == FlattenSeq(ss)
<1>1. flat \in Seq(S) /\ Covers(ss, flat, Len(ss)) /\ Len(ss) \in Nat
  BY FlattenIs
<1>2. \A k \in 1 .. Len(ss) : ss[k] \in Seq(S)
  OBVIOUS
<1> HIDE DEF flat
<1>3. ASSUME NEW x, x \in ToSet(flat) PROVE \E k \in 1 .. Len(ss) : x \in ToSet(ss[k])
  <2>1. PICK j \in 1 .. Len(flat) : flat[j] = x
    BY <1>1, <1>3, ElementOf
  <2>2. PICK k \in 1 .. Len(ss), at \in Nat : Lies(ss[k], flat, at) /\ j - at \in 1 .. Len(ss[k])
    BY <1>1 DEF Covers
  <2>3. at + (j - at) = j
    OBVIOUS
  <2>4. ss[k][j - at] = x
    BY <2>1, <2>2, <2>3 DEF Lies
  <2> QED BY <1>2, <2>2, <2>4, ElementOf
<1>4. ASSUME NEW x, NEW k \in 1 .. Len(ss), x \in ToSet(ss[k]) PROVE x \in ToSet(flat)
  <2>1. PICK i \in 1 .. Len(ss[k]) : ss[k][i] = x
    BY <1>2, <1>4, ElementOf
  <2>2. PICK at \in Nat : Lies(ss[k], flat, at)
    BY <1>1 DEF Covers
  <2>3. at + i \in 1 .. Len(flat) /\ flat[at + i] = x
    BY <2>1, <2>2 DEF Lies
  <2> QED BY <1>1, <2>3, ElementOf
<1> QED BY <1>3, <1>4 DEF flat

FamilyOf(w, f, h) == IF h \notin DOMAIN w THEN <<>> ELSE <<h>> \o FlattenSeq(Below1(w, f, h))

LEMMA PreorderUnfolds ==
  ASSUME NEW w, Tree(w)
  PROVE  \E f : \A h \in Handles : f[h] = FamilyOf(w, f, h) /\ Preorder(w, h) = f[h]
<1> DEFINE V           == Seq(Handles)
           IsFamily(f) == f = [h \in Handles |-> FamilyOf(w, f, h)]
           F           == [h \in Handles |-> [f \in [Handles -> V] |-> FamilyOf(w, f, h)]]
<1>1. <<>> \in V
  OBVIOUS
<1>2. F \in [Handles -> [[Handles -> V] -> V]]
  <2>1. ASSUME NEW h \in Handles, NEW f \in [Handles -> V] PROVE FamilyOf(w, f, h) \in V
    <3>1. FlattenSeq(Below1(w, f, h)) \in V
      BY OrderType, FlattenIs
    <3>2. <<h>> \o FlattenSeq(Below1(w, f, h)) \in V
      BY <3>1
    <3> QED BY <1>1, <3>2 DEF FamilyOf
  <2> QED BY <2>1
<1>3. ASSUME NEW h \in Handles, NEW f \in [Handles -> V], NEW g \in [Handles -> V],
             \A k \in Handles : h < k => f[k] = g[k]
      PROVE  F[h][f] = F[h][g]
  <2>1. ASSUME NEW i \in DOMAIN Kids(w, h) PROVE Kids(w, h)[i] \in Handles /\ h < Kids(w, h)[i]
    <3>1. Kids(w, h)[i] \in DOMAIN w /\ w[Kids(w, h)[i]].parent = h
      BY KidsAre
    <3> QED BY <3>1 DEF Tree
  <2>2. Below1(w, f, h) = Below1(w, g, h)
    BY <1>3, <2>1 DEF Below1
  <2> QED BY <2>2 DEF FamilyOf
<1>4. \A h \in Handles, f \in [Handles -> V] : F[h][f] = FamilyOf(w, f, h)
  OBVIOUS
<1> HIDE DEF F, V
<1>5. FromLower(Handles, Depth, V, F)
  BY <1>2, <1>3, RanksAre DEF FromLower
<1>6. PICK f \in [Handles -> V] : \A h \in Handles : f[h] = F[h][f]
  <2>1. MaxHwnd \in Nat /\ Depth \in [Handles -> 0 .. MaxHwnd]
    BY RanksAre
  <2> QED BY <1>1, <1>5, <2>1, RankRecursion
<1>7. IsFamily(f)
  <2>1. \A h \in Handles : f[h] = FamilyOf(w, f, h)
    BY <1>4, <1>6
  <2>2. f = [h \in Handles |-> f[h]]
    BY <1>6
  <2> QED BY <2>1, <2>2
<1> DEFINE g == CHOOSE x : IsFamily(x)
<1>8. IsFamily(g)
  BY <1>7
<1>9. \A h \in Handles : Preorder(w, h) = g[h]
  BY DEF Preorder, FamilyOf, Below1
<1> HIDE DEF g
<1>10. \A h \in Handles : g[h] = FamilyOf(w, g, h)
  BY <1>8
<1> QED BY <1>9, <1>10

LEMMA PreorderIs ==
  ASSUME NEW w, Tree(w), NEW root \in Handles
  PROVE  Family(w, root, Preorder(w, root))
<1>1. PICK f : \A h \in Handles : f[h] = FamilyOf(w, f, h) /\ Preorder(w, h) = f[h]
  BY PreorderUnfolds
<1> DEFINE S == {h \in Handles : Family(w, h, f[h])}
<1>2. ASSUME NEW h \in Handles, \A k \in Handles : h < k => k \in S
      PROVE  h \in S
  <2>1. CASE h \notin DOMAIN w
    <3>1. f[h] = <<>>
      BY <1>1, <2>1 DEF FamilyOf
    <3>2. ToSet(<<>>) = {} /\ <<>> \in Seq(Handles)
      BY DEF ToSet
    <3>3. Family(w, h, <<>>)
      BY <2>1, <3>2 DEF Family
    <3> QED BY <3>1, <3>3
  <2>2. CASE h \in DOMAIN w
    <3> DEFINE parts == Below1(w, f, h)
               flat  == FlattenSeq(parts)
    <3>1. /\ \A i \in 1 .. Len(Kids(w, h)) :
               Kids(w, h)[i] \in DOMAIN w /\ w[Kids(w, h)[i]].parent = h
          /\ \A k \in DOMAIN w : w[k].parent = h => \E i \in 1 .. Len(Kids(w, h)) : Kids(w, h)[i] = k
          /\ DOMAIN Kids(w, h) = 1 .. Len(Kids(w, h))
      BY KidsAre
    <3>2. parts \in Seq(Seq(Handles)) /\ Len(parts) = Len(Kids(w, h))
      BY <1>2, OrderType DEF Family
    <3>3. flat \in Seq(Handles)
      BY <3>2, FlattenIs
    <3>4. \A x : x \in ToSet(flat) <=> \E i \in 1 .. Len(Kids(w, h)) : x \in ToSet(parts[i])
      BY <3>2, FlattenElements
    <3>5. \A i \in 1 .. Len(Kids(w, h)) : parts[i] = f[Kids(w, h)[i]]
      BY <3>1 DEF Below1
    <3>6. ASSUME NEW i \in 1 .. Len(Kids(w, h)) PROVE Family(w, Kids(w, h)[i], parts[i])
      <4>1. PICK k \in Handles : k = Kids(w, h)[i] /\ h < k
        BY <3>1 DEF Tree
      <4> HIDE DEF parts
      <4> QED BY <1>2, <3>5, <4>1
    <3> HIDE DEF parts, flat
    <3>7. ToSet(flat) \subseteq DOMAIN w
      BY <3>4, <3>6 DEF Family
    <3>8. ASSUME NEW k \in DOMAIN w
          PROVE  k \in ToSet(flat) <=> w[k].parent = h \/ w[k].parent \in ToSet(flat)
      <4>1. ASSUME k \in ToSet(flat) PROVE w[k].parent = h \/ w[k].parent \in ToSet(flat)
        <5>1. PICK i \in 1 .. Len(Kids(w, h)) : k \in ToSet(parts[i])
          BY <3>4, <4>1
        <5>2. k = Kids(w, h)[i] \/ w[k].parent \in ToSet(parts[i])
          BY <3>6, <5>1 DEF Family
        <5> QED BY <3>1, <3>4, <5>2
      <4>2. ASSUME w[k].parent = h PROVE k \in ToSet(flat)
        <5>1. PICK i \in 1 .. Len(Kids(w, h)) : Kids(w, h)[i] = k
          BY <3>1, <4>2
        <5>2. k \in ToSet(parts[i])
          BY <3>6, <5>1 DEF Family
        <5> QED BY <3>4, <5>2
      <4>3. ASSUME w[k].parent \in ToSet(flat) PROVE k \in ToSet(flat)
        <5>1. PICK i \in 1 .. Len(Kids(w, h)) : w[k].parent \in ToSet(parts[i])
          BY <3>4, <4>3
        <5>2. k \in ToSet(parts[i])
          BY <3>6, <5>1 DEF Family
        <5> QED BY <3>4, <5>2
      <4> QED BY <4>1, <4>2, <4>3
    <3>9. f[h] = <<h>> \o flat
      BY <1>1, <2>2 DEF FamilyOf, flat, parts
    <3>10. f[h] \in Seq(Handles) /\ \A x : x \in ToSet(f[h]) <=> x = h \/ x \in ToSet(flat)
      <4>1. /\ f[h] \in Seq(Handles) /\ Len(f[h]) = Len(flat) + 1 /\ f[h][1] = h
            /\ \A i \in 1 .. Len(flat) : f[h][i + 1] = flat[i]
            /\ Len(flat) \in Nat
        BY <3>3, <3>9
      <4>2. ASSUME NEW i \in 1 .. Len(f[h]), i # 1
            PROVE  i - 1 \in 1 .. Len(flat) /\ f[h][i] = flat[i - 1]
        <5>1. i - 1 \in 1 .. Len(flat) /\ (i - 1) + 1 = i
          BY <4>1, <4>2
        <5> QED BY <4>1, <5>1
      <4>3. ASSUME NEW x, x \in ToSet(f[h]) PROVE x = h \/ x \in ToSet(flat)
        <5>1. PICK i \in 1 .. Len(f[h]) : f[h][i] = x
          BY <4>1, <4>3, ElementOf
        <5>2. CASE i # 1
          BY <3>3, <4>2, <5>1, <5>2, ElementOf
        <5> QED BY <4>1, <5>1, <5>2
      <4>4. h \in ToSet(f[h])
        BY <4>1, ElementOf
      <4>5. ASSUME NEW x, x \in ToSet(flat) PROVE x \in ToSet(f[h])
        <5>1. PICK i \in 1 .. Len(flat) : flat[i] = x
          BY <3>3, <4>5, ElementOf
        <5>2. i + 1 \in 1 .. Len(f[h]) /\ f[h][i + 1] = x
          BY <4>1, <5>1
        <5> QED BY <4>1, <5>2, ElementOf
      <4> QED BY <4>1, <4>3, <4>4, <4>5
    <3>11. Family(w, h, f[h])
      BY <2>2, <3>7, <3>8, <3>10 DEF Family
    <3> QED BY <3>11
  <2> QED BY <2>1, <2>2
<1> HIDE DEF S
<1>3. root \in S
  BY <1>2, Downward
<1> QED BY <1>1, <1>3 DEF S

----------------------------------------------------------------------------
(* Types. *)

LEMMA KnownAre == ASSUME TypeOK PROVE Known \subseteq Handles /\ 0 \in Handles /\ 0 \notin Known
BY WindowTreeAssumption DEF TypeOK, Known, Handles

LEMMA GuestsTree == ASSUME TypeOK PROVE Windows(win)
BY KnownAre DEF TypeOK, Windows, Tree, Window, Handles

\* What goes over the channel.
LEMMA CommandTypes ==
  ASSUME NEW w, Windows(w), \A h \in DOMAIN w : w[h].pos \in Places
  PROVE  /\ \A h \in DOMAIN w : CreateCmd(w, h) \in Commands /\ MoveCmd(w, h) \in Commands
         /\ \A h \in Handles : DestroyCmd(h) \in Commands
         /\ \A h \in Handles : \A v \in BOOLEAN : ShowCmd(h, v) \in Commands
         /\ \A h \in Handles : Effective(w, h) \in BOOLEAN
         /\ BoxCmd \in Commands
<1>1. \A h \in Handles : Effective(w, h) \in BOOLEAN
  BY ShownIs DEF Effective
<1>2. \A h \in DOMAIN w : h \in Handles /\ w[h].parent \in Handles /\ w[h].child \in BOOLEAN
  BY DEF Windows, Tree
<1>3. \A h \in DOMAIN w : CreateCmd(w, h) \in Commands
  BY <1>1, <1>2 DEF CreateCmd, Commands
<1>4. \A h \in DOMAIN w : MoveCmd(w, h) \in Commands
  BY <1>2 DEF MoveCmd, Commands
<1> QED BY <1>1, <1>3, <1>4 DEF DestroyCmd, ShowCmd, BoxCmd, Commands

LEMMA ShowTreeIs ==
  ASSUME NEW w, Windows(w), NEW h \in Handles
  PROVE  /\ ShowTree(w, h) \in Seq(Commands)
         /\ \A i \in DOMAIN ShowTree(w, h) :
              /\ ShowTree(w, h)[i].op = "show"
              /\ ShowTree(w, h)[i].hwnd \in SubtreeOf(w, h)
              /\ ShowTree(w, h)[i].visible = Effective(w, ShowTree(w, h)[i].hwnd)
         /\ \A x \in SubtreeOf(w, h) : \E i \in DOMAIN ShowTree(w, h) : ShowTree(w, h)[i].hwnd = x
<1> DEFINE s == Preorder(w, h)
<1>1. s \in Seq(Handles)
  BY PreorderIs DEF Family, Windows
<1>2. SubtreeOf(w, h) = ToSet(s)
  BY DEF SubtreeOf
<1>3. ShowTree(w, h) = [i \in DOMAIN s |-> ShowCmd(s[i], Effective(w, s[i]))]
  BY DEF ShowTree
<1> HIDE DEF s
<1>4. \A i \in DOMAIN s : s[i] \in Handles /\ s[i] \in ToSet(s) /\ Effective(w, s[i]) \in BOOLEAN
  BY <1>1, ShownIs DEF Effective, ToSet
<1>5. \A i \in DOMAIN s : ShowCmd(s[i], Effective(w, s[i])) \in Commands
  BY <1>4 DEF ShowCmd, Commands
<1>6. ShowTree(w, h) \in Seq(Commands)
  BY <1>1, <1>3, <1>5
<1> QED BY <1>2, <1>3, <1>4, <1>6 DEF ShowCmd, ToSet

----------------------------------------------------------------------------
(* The order of siblings. *)

Others(w, h) == Sorted(w, Children(w, w[h].parent) \ {h})

\* The place SetWindowPos finds for a window among the others.
IsPlace(w, h, after, at) ==
  LET others == Others(w, h) IN
    /\ after = Bottom => at = 0
    /\ after # Bottom /\ after \in ToSet(others) => at \in DOMAIN others /\ others[at] = after
    /\ after # Bottom /\ after \notin ToSet(others) => at = Len(others)

LEMMA OthersAre ==
  ASSUME NEW w, Tree(w), NEW h \in DOMAIN w
  PROVE  LET others == Others(w, h)
             S      == Children(w, w[h].parent) \ {h}
         IN /\ others \in Seq(Handles) /\ Len(others) <= MaxHwnd /\ ToSet(others) = S
            /\ \A i, j \in 1 .. Len(others) : i < j <=> Below(w, others[i], others[j])
<1> DEFINE S == Children(w, w[h].parent) \ {h}
           s == Sorted(w, S)
           n == Cardinality(S)
<1>1. S \in SUBSET Handles /\ \A x \in S : x \in DOMAIN w /\ w[x].z \in Nat /\ x \in 1 .. MaxHwnd
  <2> SUFFICES ASSUME NEW x \in S
               PROVE  x \in Handles /\ x \in DOMAIN w /\ w[x].z \in Nat /\ x \in 1 .. MaxHwnd
    OBVIOUS
  <2>1. x \in DOMAIN w
    BY DEF Children
  <2>2. x \in Handles /\ w[x].parent \in Handles /\ w[x].parent < x /\ w[x].z \in Nat
    BY <2>1 DEF Tree
  <2>3. MaxHwnd \in Nat
    BY RanksAre
  <2> QED BY <2>1, <2>2, <2>3 DEF Handles
<1>2. /\ n \in Nat /\ DOMAIN s = 1 .. n
      /\ \A i \in 1 .. n : s[i] \in S
      /\ \A x \in S : \E i \in 1 .. n : s[i] = x
      /\ \A i, j \in 1 .. n : i < j <=> Below(w, s[i], s[j])
  <2> HIDE DEF S
  <2> QED BY <1>1, SortedIs
<1>3. s = [i \in 1 .. n |-> s[i]]
  <2> DEFINE place(i) == CHOOSE x \in S : Cardinality({k \in S : Below(w, k, x)}) = i - 1
  <2>1. s = [i \in 1 .. n |-> place(i)]
    BY DEF Sorted
  <2> HIDE DEF place, s, S
  <2> QED BY <2>1
<1>4. n <= MaxHwnd
  <2>1. S \subseteq 1 .. MaxHwnd
    BY <1>1
  <2>2. MaxHwnd \in Nat /\ IsFiniteSet(1 .. MaxHwnd) /\ Cardinality(1 .. MaxHwnd) = MaxHwnd
    BY RanksAre, FS_Interval
  <2> HIDE DEF S
  <2> QED BY <2>1, <2>2, FS_Subset
<1>5. Others(w, h) = s
  BY DEF Others
<1> HIDE DEF s, n, S
<1>6. s \in Seq(Handles) /\ Len(s) = n
  BY <1>1, <1>2, <1>3
<1>7. ToSet(s) = S
  BY <1>2 DEF ToSet
<1> QED BY <1>2, <1>4, <1>5, <1>6, <1>7 DEF S

LEMMA WithOneMore ==
  ASSUME NEW S, NEW s \in Seq(S), NEW h \in S
  PROVE  /\ s \o <<h>> \in Seq(S) /\ Len(s \o <<h>>) = Len(s) + 1
         /\ (s \o <<h>>)[Len(s) + 1] = h
         /\ \A i \in 1 .. Len(s) : (s \o <<h>>)[i] = s[i]
  OBVIOUS

\* The sequence with h put in at a place, and who is where in it.
HasIn(all, s, at, h) ==
  /\ Len(all) = Len(s) + 1 /\ all[at + 1] = h
  /\ \A i \in 1 .. Len(s) : i <= at => all[i] = s[i]
  /\ \A i \in 1 .. Len(s) : ~(i <= at) => all[i + 1] = s[i]

LEMMA InsertedIs ==
  ASSUME NEW S, NEW s \in Seq(S), NEW h \in S, NEW at \in 0 .. Len(s),
         NEW all, all = InsertAt(s, at + 1, h)
  PROVE  all \in Seq(S) /\ HasIn(all, s, at, h)
<1> DEFINE front == SubSeq(s, 1, at)
           back  == SubSeq(s, at + 1, Len(s))
           new   == front \o <<h>> \o back
<1>1. Len(s) \in Nat /\ at \in Nat /\ (at + 1) - 1 = at
  OBVIOUS
<1>2. /\ front \in Seq(S) /\ Len(front) = at
      /\ \A i \in 1 .. at : front[i] = s[i]
  BY <1>1
<1>3. /\ back \in Seq(S) /\ Len(back) = Len(s) - at
      /\ \A i \in 1 .. Len(s) - at : back[i] = s[at + i]
  BY <1>1
<1>4. all = new
  BY <1>1 DEF InsertAt
<1> HIDE DEF front, back
<1>5. /\ new \in Seq(S) /\ Len(new) = Len(s) + 1 /\ new[at + 1] = h
      /\ \A i \in 1 .. at : new[i] = front[i]
      /\ \A i \in 1 .. Len(s) - at : new[at + 1 + i] = back[i]
  <2> DEFINE first == front \o <<h>>
  <2>1. /\ first \in Seq(S) /\ Len(first) = at + 1 /\ first[at + 1] = h
        /\ \A i \in 1 .. at : first[i] = front[i]
    <3>1. /\ first \in Seq(S) /\ Len(first) = Len(front) + 1 /\ first[Len(front) + 1] = h
          /\ \A i \in 1 .. Len(front) : first[i] = front[i]
      BY <1>2, WithOneMore
    <3> QED BY <1>2, <3>1
  <2>2. new = first \o back
    OBVIOUS
  <2> HIDE DEF first, new
  <2>3. new \in Seq(S) /\ Len(new) = Len(s) + 1
    <3>1. new \in Seq(S)
      BY <1>3, <2>1, <2>2, ConcatProperties
    <3>2. Len(new) = Len(first) + Len(back)
      BY <1>3, <2>1, <2>2, ConcatProperties
    <3> QED BY <1>1, <1>3, <2>1, <3>1, <3>2
  <2>4. \A i \in 1 .. at + 1 : new[i] = first[i]
    BY <1>3, <2>1, <2>2, ConcatProperties
  <2>5. ASSUME NEW i \in 1 .. Len(s) - at PROVE new[at + 1 + i] = back[i]
    <3>1. i \in 1 .. Len(back) /\ Len(first) + i = at + 1 + i
      BY <1>1, <1>3, <2>1
    <3>2. new[Len(first) + i] = back[i]
      BY <1>3, <2>1, <2>2, <3>1, ConcatProperties
    <3> QED BY <3>1, <3>2
  <2> QED BY <1>1, <2>1, <2>3, <2>4, <2>5
<1> HIDE DEF new
<1>6. ASSUME NEW i \in 1 .. Len(s), i <= at PROVE new[i] = s[i]
  BY <1>1, <1>2, <1>5, <1>6
<1>7. ASSUME NEW i \in 1 .. Len(s), ~(i <= at) PROVE new[i + 1] = s[i]
  <2>1. i - at \in 1 .. Len(s) - at /\ at + (i - at) = i /\ at + 1 + (i - at) = i + 1
    BY <1>1, <1>7
  <2>2. back[i - at] = s[at + (i - at)] /\ new[at + 1 + (i - at)] = back[i - at]
    BY <1>3, <1>5, <2>1
  <2> QED BY <2>1, <2>2
<1> QED BY <1>4, <1>5, <1>6, <1>7 DEF HasIn

\* The windows after h was put at a place among its siblings.
PutAt(w, h, at, now) ==
  LET others == Others(w, h) IN
    /\ DOMAIN now = DOMAIN w
    /\ now[h] = [w[h] EXCEPT !.z = at]
    /\ \A i \in 1 .. Len(others) :
         now[others[i]] = [w[others[i]] EXCEPT !.z = IF i <= at THEN i - 1 ELSE i]
    /\ \A x \in DOMAIN w : x # h /\ x \notin ToSet(others) => now[x] = w[x]

LEMMA RestackedIs ==
  ASSUME NEW w, Tree(w), NEW h \in DOMAIN w, NEW after
  PROVE  \E at \in 0 .. Len(Others(w, h)) :
           IsPlace(w, h, after, at) /\ PutAt(w, h, at, Restacked(w, h, after))
<1> DEFINE others == Others(w, h)
           now    == Restacked(w, h, after)
           order  == Reordered(w, h, after)
<1>1. /\ others \in Seq(Handles) /\ Len(others) \in Nat /\ h \notin ToSet(others)
      /\ ToSet(others) \subseteq DOMAIN w /\ h \in Handles
      /\ \A i, j \in 1 .. Len(others) : others[i] = others[j] => i = j
  <2>1. \A i, j \in 1 .. Len(others) : i < j => Below(w, others[i], others[j])
    BY OthersAre
  <2>2. ASSUME NEW x \in DOMAIN w PROVE ~Below(w, x, x)
    <3>1. x \in Nat /\ w[x].z \in Nat
      BY RanksAre DEF Tree
    <3> QED BY <3>1 DEF Below
  <2>3. others \in Seq(Handles) /\ ToSet(others) = Children(w, w[h].parent) \ {h}
    BY OthersAre
  <2>4. \A i \in 1 .. Len(others) : others[i] \in DOMAIN w
    BY <2>3 DEF ToSet, Children
  <2> HIDE DEF others
  <2> QED BY <2>1, <2>2, <2>3, <2>4 DEF Children, Tree
<1>2. PICK at \in 0 .. Len(others) :
        IsPlace(w, h, after, at) /\ order = InsertAt(others, at + 1, h)
  <2> DEFINE place == CASE after = Bottom -> 0
                        [] after \in ToSet(others) -> CHOOSE i \in DOMAIN others : others[i] = after
                        [] OTHER -> Len(others)
  <2>1. order = InsertAt(others, place + 1, h)
    BY DEF Reordered, Others
  <2>2. after \in ToSet(others) => \E i \in DOMAIN others : others[i] = after
    BY DEF ToSet
  <2> HIDE DEF others, order
  <2>3. DOMAIN others = 1 .. Len(others)
    BY <1>1
  <2>4. after = Bottom => after \notin ToSet(others)
    <3>1. Bottom \notin Handles
      BY DEF Bottom, Handles
    <3>2. ToSet(others) \subseteq Handles
      BY <1>1 DEF Tree
    <3> QED BY <3>1, <3>2
  <2>5. place \in 0 .. Len(others)
    BY <1>1, <2>2, <2>3, <2>4
  <2>6. IsPlace(w, h, after, place)
    BY <2>2, <2>4 DEF IsPlace, others
  <2> QED BY <2>1, <2>5, <2>6
<1> DEFINE pos(i) == IF i <= at THEN i ELSE i + 1
<1>3. /\ order \in Seq(Handles) /\ Len(order) = Len(others) + 1 /\ order[at + 1] = h
      /\ \A i \in 1 .. Len(others) : order[pos(i)] = others[i]
  <2> HIDE DEF others, order, pos
  <2>1. /\ order \in Seq(Handles) /\ Len(order) = Len(others) + 1 /\ order[at + 1] = h
        /\ \A i \in 1 .. Len(others) : order[IF i <= at THEN i ELSE i + 1] = others[i]
    <3>1. others \in Seq(Handles) /\ h \in Handles /\ at \in 0 .. Len(others)
      BY <1>1
    <3>2. order = InsertAt(others, at + 1, h)
      BY <1>2
    <3>3. order \in Seq(Handles) /\ HasIn(order, others, at, h)
      BY <3>1, <3>2, InsertedIs
    <3> QED BY <3>3 DEF HasIn
  <2> QED BY <2>1 DEF pos
<1>4. \A j \in 1 .. Len(order) : j = at + 1 \/ \E i \in 1 .. Len(others) : j = pos(i)
  <2> SUFFICES ASSUME NEW j \in 1 .. Len(order), j # at + 1
               PROVE  \E i \in 1 .. Len(others) : j = pos(i)
    OBVIOUS
  <2> HIDE DEF others, order
  <2>1. CASE j <= at
    <3>1. j \in 1 .. Len(others) /\ j = pos(j)
      BY <1>1, <1>3, <2>1
    <3> QED BY <3>1
  <2>2. CASE ~(j <= at)
    <3>1. j - 1 \in 1 .. Len(others) /\ j = pos(j - 1)
      BY <1>1, <1>3, <2>2
    <3> QED BY <3>1
  <2> QED BY <2>1, <2>2
<1>5. now = [x \in DOMAIN w |->
               IF x \in ToSet(order)
               THEN [w[x] EXCEPT !.z = (CHOOSE i \in DOMAIN order : order[i] = x) - 1]
               ELSE w[x]]
  BY DEF Restacked
<1> HIDE DEF others, order, now
<1>6. \A i \in 1 .. Len(others) : others[i] \in ToSet(others) /\ others[i] # h
  BY <1>1 DEF ToSet
<1>7. \A i, j \in DOMAIN order : order[i] = order[j] => i = j
  <2>1. DOMAIN order = 1 .. Len(order)
    BY <1>3
  <2> SUFFICES ASSUME NEW i \in 1 .. Len(order), NEW j \in 1 .. Len(order), order[i] = order[j]
               PROVE  i = j
    BY <2>1
  <2>2. (i = at + 1 \/ \E a \in 1 .. Len(others) : i = pos(a))
        /\ (j = at + 1 \/ \E b \in 1 .. Len(others) : j = pos(b))
    BY <1>4
  <2>3. CASE i = at + 1 \/ j = at + 1
    <3> HIDE DEF pos
    <3> QED BY <1>3, <1>6, <2>2, <2>3
  <2>4. CASE i # at + 1 /\ j # at + 1
    <3>1. PICK a \in 1 .. Len(others), b \in 1 .. Len(others) : i = pos(a) /\ j = pos(b)
      BY <2>2, <2>4
    <3> HIDE DEF pos
    <3>2. others[a] = others[b]
      BY <1>3, <3>1
    <3> QED BY <1>1, <3>1, <3>2
  <2> QED BY <2>3, <2>4
<1>8. ASSUME NEW j \in 1 .. Len(order), order[j] \in DOMAIN w
      PROVE  now[order[j]] = [w[order[j]] EXCEPT !.z = j - 1]
  <2>1. j \in DOMAIN order
    BY <1>3
  <2>2. (CHOOSE i \in DOMAIN order : order[i] = order[j]) = j
    BY <1>7, <2>1
  <2>3. order[j] \in ToSet(order)
    BY <2>1 DEF ToSet
  <2> QED BY <1>5, <1>8, <2>2, <2>3
<1>9. now[h] = [w[h] EXCEPT !.z = at]
  <2>1. at + 1 \in 1 .. Len(order) /\ (at + 1) - 1 = at
    BY <1>1, <1>3
  <2> QED BY <1>3, <1>8, <2>1
<1>10. ASSUME NEW i \in 1 .. Len(others)
       PROVE  now[others[i]] = [w[others[i]] EXCEPT !.z = IF i <= at THEN i - 1 ELSE i]
  <2>1. pos(i) \in 1 .. Len(order) /\ pos(i) - 1 = IF i <= at THEN i - 1 ELSE i
    BY <1>1, <1>3
  <2>2. order[pos(i)] = others[i] /\ others[i] \in DOMAIN w
    BY <1>1, <1>3, <1>6
  <2> HIDE DEF pos
  <2>3. now[others[i]] = [w[others[i]] EXCEPT !.z = pos(i) - 1]
    BY <1>8, <2>1, <2>2
  <2> QED BY <2>1, <2>3
<1>11. ASSUME NEW x \in DOMAIN w, x # h, x \notin ToSet(others) PROVE now[x] = w[x]
  <2>1. x \notin ToSet(order)
    <3> SUFFICES ASSUME NEW j \in DOMAIN order, order[j] = x PROVE FALSE
      BY DEF ToSet
    <3>1. j \in 1 .. Len(order)
      BY <1>3
    <3> HIDE DEF pos
    <3> QED BY <1>3, <1>4, <1>6, <1>11, <3>1
  <2> QED BY <1>5, <2>1
<1>12. DOMAIN now = DOMAIN w
  BY <1>5
<1> QED BY <1>2, <1>9, <1>10, <1>11, <1>12 DEF others, now, PutAt

\* What SetWindowPos does to the order of the siblings, for one window.
KeepsOrder(w, h, after) ==
  LET now    == Stacked(w, h, after)
      others == Children(w, w[h].parent) \ {h}
  IN /\ \A a, b \in others : Below(now, a, b) <=> Below(w, a, b)
     /\ \A a \in others : Below(now, a, h) <=>
          CASE after = Bottom   -> FALSE
            [] after \in others -> a = after \/ Below(w, a, after)
            [] OTHER            -> TRUE

LEMMA RestackOrder ==
  ASSUME NEW w, Tree(w), \A x \in DOMAIN w : w[x] \in Window, NEW h \in DOMAIN w, NEW after \in Handles \cup {Bottom}
  PROVE  KeepsOrder(w, h, after)
<1> DEFINE now    == Stacked(w, h, after)
           others == Others(w, h)
           S      == Children(w, w[h].parent) \ {h}
<1>1. /\ others \in Seq(Handles) /\ Len(others) \in Nat /\ ToSet(others) = S
      /\ \A i, j \in 1 .. Len(others) : i < j <=> Below(w, others[i], others[j])
  BY OthersAre
<1>2. PICK at \in 0 .. Len(others) :
        IsPlace(w, h, after, at) /\ PutAt(w, h, at, Restacked(w, h, after))
  BY RestackedIs
<1>2a. /\ now[h] = [w[h] EXCEPT !.z = at]
       /\ \A i \in 1 .. Len(others) :
            now[others[i]] = [w[others[i]] EXCEPT !.z = IF i <= at THEN i - 1 ELSE i]
  BY <1>2 DEF PutAt, Stacked
<1>3. \A x \in S : x \in DOMAIN w /\ x \in Nat /\ w[x].z \in Nat
  BY RanksAre DEF Children, Tree, Handles
<1> HIDE DEF others, now, S
<1>4. \A a \in S : \E i \in 1 .. Len(others) : others[i] = a
  BY <1>1, ElementOf
<1>5. \A i \in 1 .. Len(others) : others[i] \in S
  BY <1>1, ElementOf
<1>6. now[h].z = at
  BY <1>2a DEF Window
<1>7. \A i \in 1 .. Len(others) : now[others[i]].z = IF i <= at THEN i - 1 ELSE i
  <2> SUFFICES ASSUME NEW i \in 1 .. Len(others)
               PROVE  now[others[i]].z = IF i <= at THEN i - 1 ELSE i
    OBVIOUS
  <2>1. others[i] \in DOMAIN w /\ w[others[i]] \in Window
    BY <1>3, <1>5
  <2> QED BY <1>2a, <2>1 DEF Window
<1>8. ASSUME NEW a \in S, NEW b \in S PROVE Below(now, a, b) <=> Below(w, a, b)
  <2>1. PICK i \in 1 .. Len(others), j \in 1 .. Len(others) : a = others[i] /\ b = others[j]
    BY <1>4
  <2>2. Below(w, a, b) <=> i < j
    BY <1>1, <2>1
  <2>3. a = b <=> i = j
    <3>1. ~(i < j) /\ ~(j < i) => i = j
      BY <1>1
    <3>2. a \in Nat /\ w[a].z \in Nat /\ ~Below(w, a, a)
      BY <1>3 DEF Below
    <3> QED BY <1>1, <2>1, <3>1, <3>2
  <2>4. now[a].z = (IF i <= at THEN i - 1 ELSE i) /\ now[b].z = (IF j <= at THEN j - 1 ELSE j)
    BY <1>7, <2>1
  <2>5. i \in Nat /\ j \in Nat /\ at \in Nat /\ a \in Nat /\ b \in Nat
    BY <1>1, <1>3
  <2>6. Below(now, a, b) <=> i < j
    BY <2>3, <2>4, <2>5 DEF Below
  <2> QED BY <2>2, <2>6
<1>9. ASSUME NEW a \in S, NEW i \in 1 .. Len(others), a = others[i]
      PROVE  Below(now, a, h) <=> i <= at
  <2>1. now[a].z = IF i <= at THEN i - 1 ELSE i
    BY <1>7, <1>9
  <2>2. i \in Nat /\ at \in Nat
    BY <1>1
  <2> QED BY <1>6, <2>1, <2>2 DEF Below
<1>10. after = Bottom => after \notin S
  <2>1. Bottom \notin Handles
    BY DEF Bottom, Handles
  <2> QED BY <1>3, <2>1 DEF Tree
<1>11. ASSUME NEW a \in S
       PROVE  Below(now, a, h) <=> CASE after = Bottom -> FALSE
                                     [] after \in S    -> a = after \/ Below(w, a, after)
                                     [] OTHER          -> TRUE
  <2>1. PICK i \in 1 .. Len(others) : a = others[i]
    BY <1>4
  <2>2. Below(now, a, h) <=> i <= at
    BY <1>9, <2>1
  <2>3. i \in Nat /\ at \in Nat /\ i <= Len(others)
    BY <1>1
  <2>4. CASE after = Bottom
    BY <1>2, <1>10, <2>2, <2>3, <2>4 DEF IsPlace
  <2>5. CASE after # Bottom /\ after \in S
    <3>1. at \in 1 .. Len(others) /\ others[at] = after
      BY <1>1, <1>2, <2>5 DEF IsPlace, others
    <3>2. Below(w, a, after) <=> i < at
      BY <1>1, <2>1, <3>1
    <3>3. a = after => ~(i < at) /\ ~(at < i)
      <4>1. w[a].z \in Nat /\ a \in Nat /\ ~Below(w, a, a)
        BY <1>3 DEF Below
      <4> QED BY <1>1, <2>1, <3>1, <4>1
    <3>4. i <= at <=> a = after \/ Below(w, a, after)
      BY <2>1, <2>3, <3>1, <3>2, <3>3
    <3> QED BY <2>2, <2>5, <3>4
  <2>6. CASE after # Bottom /\ after \notin S
    <3>1. at = Len(others)
      BY <1>1, <1>2, <2>6 DEF IsPlace, others
    <3> QED BY <2>2, <2>3, <2>6, <3>1
  <2> QED BY <2>4, <2>5, <2>6
<1> QED BY <1>8, <1>11 DEF KeepsOrder, now, S

----------------------------------------------------------------------------
(* The commands under way. *)

IsCreate(c, h)  == c.op = "create" /\ c.hwnd = h
IsDestroy(c, h) == c.op = "destroy" /\ c.hwnd = h
Doomed(s, h, i) == \E j \in DOMAIN s : i < j /\ IsDestroy(s[j], h)

\* One command: no window the guest has is destroyed, and one it has no more is destroyed
\* after every creation.
CommandFits(w, known, s, i) ==
  /\ s[i].op \in {"create", "destroy"} => s[i].hwnd \in known
  /\ s[i].op = "create" => s[i].parent < s[i].hwnd
  /\ \A h \in DOMAIN w : ~IsDestroy(s[i], h)
  /\ \A h \in known \ DOMAIN w : IsCreate(s[i], h) => Doomed(s, h, i)
  /\ \A h \in DOMAIN w : IsCreate(s[i], h) => s[i].parent = w[h].parent

HostFits(w, hs, s, h) ==
  IF h \in DOMAIN w THEN hs[h].link \in {NoWindow, w[h].parent} ELSE Doomed(s, h, 0)

\* A parent lives as long as its children, and the commands s and the host windows hs fit
\* the windows w.
TreeOf(w, known, hs, s) ==
  /\ \A h \in DOMAIN w : w[h].parent \in DOMAIN w \cup {NoWindow}
  /\ \A i \in DOMAIN s : CommandFits(w, known, s, i)
  /\ \A h \in DOMAIN hs : HostFits(w, hs, s, h)

LinksLive(hs) == \A h \in DOMAIN hs : hs[h].link # NoWindow => hs[h].link \in DOMAIN hs

\* Whoever is or will be linked to a window is destroyed before that window.
FreeBefore(known, hs, s, j, p) ==
  /\ \A h \in DOMAIN hs : hs[h].link = p => \E i \in DOMAIN s : i < j /\ IsDestroy(s[i], h)
  /\ \A i \in DOMAIN s : \A h \in known :
       i < j /\ IsCreate(s[i], h) /\ s[i].parent = p =>
         \E k \in DOMAIN s : i < k /\ k < j /\ IsDestroy(s[k], h)

LinkOf(known, hs, s) ==
  /\ LinksLive(hs)
  /\ \A j \in DOMAIN s : \A p \in known :
       IsDestroy(s[j], p) => FreeBefore(known, hs, s, j, p)

TreeInv == TreeOf(win, Known, host, cmds)
LinkInv == LinkOf(Known, host, cmds)

\* The event that wakes the UI thread is there while the flag says so.
WakeInv ==
  /\ wake.pending /\ ui # "woken" => wake.event
  /\ NoCommandStranded

TreeHolds == TypeOK /\ TreeInv /\ LinkInv /\ WakeInv

----------------------------------------------------------------------------
(* What a step of the guest does: it sends commands s, and the tree grows or loses *)
(* whole subtrees. *)

Typed(w, known) ==
  /\ DOMAIN w \subseteq known
  /\ \A h \in DOMAIN w : w[h] \in Window /\ w[h].parent < h

SameTree(w, now) ==
  DOMAIN now = DOMAIN w /\ \A h \in DOMAIN w : now[h].parent = w[h].parent

GuestTypes ==
  /\ next \in 1 .. MaxHwnd + 1 /\ Typed(win, Known)
  /\ making \in Seq(Known) /\ Len(making) <= MaxDepth
  /\ boxed \in BOOLEAN /\ mainSeen \in BOOLEAN /\ calls \in 0 .. MaxCalls
  /\ main \in Known \cup {NoWindow} /\ untold \subseteq Known

HostTypes ==
  /\ uiSeen \in BOOLEAN /\ forced \in BOOLEAN /\ uiMain \in DOMAIN host \cup {NoWindow}
  /\ DOMAIN host \subseteq Known
  /\ \A h \in DOMAIN host :
       host[h] \in [visible : BOOLEAN, pos : Places, link : Handles] /\ host[h].link < h
  /\ moved \in Seq([hwnd : Handles, pos : Places])
  /\ ui \in {"asleep", "woken", "draining"} /\ dialog \in {"none", "open", "answered"}
  /\ over \in {"no", "closed", "destroyed"}

ChannelTypes == cmds \in Seq(Commands) /\ wake \in [pending : BOOLEAN, event : BOOLEAN]

LEMMA TypesAre == TypeOK <=> GuestTypes /\ HostTypes /\ ChannelTypes
BY DEF TypeOK, GuestTypes, HostTypes, ChannelTypes, Typed

\* Commands of the guest, and the UI thread untouched.
Sends(s) ==
  /\ s \in Seq(Commands) /\ Tell(s)
  /\ UNCHANGED <<hosts, ui, moved, dialog>>
  /\ over = "no"
  /\ boxed' => boxed \/ \E i \in DOMAIN s : s[i].op = "box"

\* The tree keeps what it has; a new window has the next handle and a parent that lives.
Grows(s) ==
  /\ next' \in {next, next + 1}
  /\ DOMAIN win \subseteq DOMAIN win'
  /\ \A h \in DOMAIN win : win'[h].parent = win[h].parent
  /\ \A h \in DOMAIN win' \ DOMAIN win : h = next /\ win'[h].parent \in DOMAIN win \cup {NoWindow}
  /\ \A i \in DOMAIN s :
       /\ s[i].op # "destroy"
       /\ s[i].op = "create" =>
            s[i].hwnd \in DOMAIN win' /\ s[i].parent = win'[s[i].hwnd].parent

\* Every window in s goes, with all that have it as their parent and before it.
Shrinks(s) ==
  /\ next' = next
  /\ \A h : h \in DOMAIN win' <=> h \in DOMAIN win /\ \A i \in DOMAIN s : s[i].hwnd # h
  /\ \A h \in DOMAIN win' : win'[h] = win[h]
  /\ \A i \in DOMAIN s : s[i].op = "destroy" /\ s[i].hwnd \in DOMAIN win
  /\ \A j \in DOMAIN s : \A k \in DOMAIN win :
       win[k].parent = s[j].hwnd => \E i \in DOMAIN s : i < j /\ s[i].hwnd = k

GuestDoes == GuestTypes' /\ \E s : Sends(s) /\ (Grows(s) \/ Shrinks(s))

LEMMA TypedTree ==
  ASSUME NEW known, known \subseteq Handles, NEW w, Typed(w, known)
  PROVE  Windows(w) /\ \A h \in DOMAIN w : w[h].pos \in Places /\ h \in Handles
<1>1. \A x \in Handles : x \in Nat
  BY RanksAre DEF Handles
<1>2. \A h \in DOMAIN w : h \in Handles /\ w[h] \in Window /\ w[h].parent < h
  BY DEF Typed
<1>3. \A h \in DOMAIN w :
        /\ w[h].parent \in Handles /\ w[h].z \in Nat /\ w[h].pos \in Places
        /\ w[h].visible \in BOOLEAN /\ w[h].child \in BOOLEAN
  BY <1>1, <1>2 DEF Window
<1> QED BY <1>2, <1>3 DEF Windows, Tree

LEMMA NoCommands == <<>> \in Seq(Commands) /\ DOMAIN <<>> = {}
OBVIOUS

LEMMA OneCommand ==
  ASSUME NEW c \in Commands
  PROVE  <<c>> \in Seq(Commands) /\ DOMAIN <<c>> = {1} /\ <<c>>[1] = c
OBVIOUS

\* Nothing said is a command said to nobody.
LEMMA Silence == ASSUME TypeOK, UNCHANGED <<cmds, wake>> PROVE Tell(<<>>)
BY DEF TypeOK, Tell

LEMMA ChannelTyped ==
  ASSUME TypeOK, NEW s \in Seq(Commands), Tell(s)
  PROVE  ChannelTypes'
<1>1. cmds \in Seq(Commands) /\ wake \in [pending : BOOLEAN, event : BOOLEAN]
  BY DEF TypeOK
<1>2. cmds' \in Seq(Commands)
  BY <1>1 DEF Tell
<1>3. wake' \in [pending : BOOLEAN, event : BOOLEAN]
  BY <1>1 DEF Tell, Woken
<1> QED BY <1>2, <1>3 DEF ChannelTypes

LEMMA KnownGrows ==
  ASSUME next \in Int, NEW n \in Int, next <= n, next' = n
  PROVE  Known \subseteq Known'
<1>1. 1 .. next - 1 \subseteq 1 .. n - 1
  OBVIOUS
<1> QED BY <1>1 DEF Known

LEMMA HostKept ==
  ASSUME TypeOK, next' \in {next, next + 1}, UNCHANGED <<hosts, ui, moved, dialog>>
  PROVE  HostTypes'
<1>1. Known \subseteq Known'
  <2>1. next \in Int /\ \E n \in Int : next <= n /\ next' = n
    BY RanksAre DEF TypeOK
  <2> QED BY <2>1, KnownGrows
<1>2. HostTypes
  BY TypesAre
<1> QED BY <1>1, <1>2 DEF HostTypes, hosts

LEMMA GuestTyped ==
  ASSUME TypeOK, GuestDoes
  PROVE  TypeOK'
<1>1. PICK s : Sends(s) /\ (Grows(s) \/ Shrinks(s))
  BY DEF GuestDoes
<1>2. next' \in {next, next + 1}
  BY <1>1 DEF Grows, Shrinks
<1>3. HostTypes'
  BY <1>1, <1>2, HostKept DEF Sends
<1>4. ChannelTypes'
  BY <1>1, ChannelTyped DEF Sends
<1>5. GuestTypes'
  BY DEF GuestDoes
<1> QED BY <1>3, <1>4, <1>5, TypesAre, PTL

----------------------------------------------------------------------------
(* The actions of the guest. *)

\* A new window, and nothing else in the tree.
Registers(p, c, v) ==
  /\ next' = next + 1 /\ next \in Known' /\ Known \subseteq Known' /\ next' \in 1 .. MaxHwnd + 1
  /\ Typed(win', Known') /\ DOMAIN win' = DOMAIN win \cup {next} /\ next \notin DOMAIN win
  /\ \A h \in DOMAIN win : win'[h] = win[h]
  /\ win'[next] = NewState(p, c, v, Home)
  /\ main' \in Known' \cup {NoWindow} /\ mainSeen' \in BOOLEAN

LEMMA Registered ==
  ASSUME TypeOK, NEW p \in DOMAIN win \cup {NoWindow}, NEW c \in BOOLEAN, NEW v \in BOOLEAN,
         next <= MaxHwnd, next' = next + 1, Register(next, NewState(p, c, v, Home))
  PROVE  Registers(p, c, v)
<1>1. /\ next \in 1 .. MaxHwnd + 1 /\ MaxHwnd \in Nat
      /\ DOMAIN win \subseteq Known
      /\ \A h \in DOMAIN win : win[h] \in Window /\ win[h].parent < h
      /\ main \in Known \cup {NoWindow} /\ mainSeen \in BOOLEAN
  BY WindowTreeAssumption DEF TypeOK
<1>2. next \in Known' /\ Known \subseteq Known' /\ next \notin Known /\ next' \in 1 .. MaxHwnd + 1
  BY <1>1 DEF Known
<1>3. /\ win' = [x \in DOMAIN win \cup {next} |->
                   IF x = next THEN NewState(p, c, v, Home) ELSE win[x]]
      /\ main' \in {main, next} /\ mainSeen' \in BOOLEAN
  BY <1>1 DEF Register, NewState
<1>4. /\ DOMAIN win' = DOMAIN win \cup {next} /\ next \notin DOMAIN win
      /\ \A h \in DOMAIN win : win'[h] = win[h]
      /\ win'[next] = NewState(p, c, v, Home)
  BY <1>1, <1>2, <1>3
<1>5. NewState(p, c, v, Home) \in Window /\ NewState(p, c, v, Home).parent < next
  <2>1. Home \in Places
    BY WindowTreeAssumption DEF Home
  <2>2. p \in Handles /\ p < next /\ 0 \in Handles
    BY <1>1 DEF Known, Handles, NoWindow
  <2> QED BY <2>1, <2>2 DEF NewState, Window
<1>6. Typed(win', Known')
  BY <1>1, <1>2, <1>4, <1>5 DEF Typed
<1> QED BY <1>1, <1>2, <1>3, <1>4, <1>6 DEF Registers

LEMMA CreateBeginDoes ==
  ASSUME TypeOK, NEW p \in DOMAIN win \cup {NoWindow}, NEW c \in BOOLEAN, NEW v \in BOOLEAN,
         CreateBegin(p, c, v, Home)
  PROVE  GuestDoes
<1>1. Sends(<<>>)
  BY NoCommands, Silence DEF CreateBegin, GuestCalls, GuestRuns, Sends
<1>2. Registers(p, c, v)
  BY Registered DEF CreateBegin
<1>3. making' \in Seq(Known') /\ Len(making') <= MaxDepth
  <2>1. making \in Seq(Known) /\ Len(making) < MaxDepth /\ MaxDepth \in Nat
    BY WindowTreeAssumption DEF CreateBegin, TypeOK
  <2>2. making' = Append(making, next) /\ next \in Known' /\ Known \subseteq Known'
    BY <1>2 DEF CreateBegin, Registers
  <2> QED BY <2>1, <2>2
<1>4. calls' \in 0 .. MaxCalls
  BY WindowTreeAssumption DEF CreateBegin, GuestCalls, TypeOK
<1>5. untold' \subseteq Known' /\ boxed' \in BOOLEAN
  BY <1>2 DEF CreateBegin, TypeOK, Registers
<1>6. GuestTypes'
  BY <1>2, <1>3, <1>4, <1>5 DEF GuestTypes, Registers
<1>7. Grows(<<>>)
  BY <1>2, NoCommands DEF Registers, Grows, NewState
<1> QED BY <1>1, <1>6, <1>7 DEF GuestDoes

LEMMA CreatePlainDoes ==
  ASSUME TypeOK, NEW p \in DOMAIN win \cup {NoWindow}, NEW c \in BOOLEAN, NEW v \in BOOLEAN,
         CreatePlain(p, c, v, Home)
  PROVE  GuestDoes
<1> DEFINE cmd == CreateCmd(win', next)
<1>1. Registers(p, c, v)
  BY Registered DEF CreatePlain
<1>2. Known' \subseteq Handles
  BY <1>1, RanksAre DEF Registers, Known, Handles
<1>3. cmd \in Commands
  <2>1. Windows(win') /\ \A h \in DOMAIN win' : win'[h].pos \in Places
    BY <1>1, <1>2, TypedTree DEF Registers
  <2> QED BY <1>1, <2>1, CommandTypes DEF Registers
<1>4. cmd.op = "create" /\ cmd.hwnd = next /\ cmd.parent = win'[next].parent
  BY DEF CreateCmd
<1> HIDE DEF cmd
<1>5. <<cmd>> \in Seq(Commands) /\ DOMAIN <<cmd>> = {1} /\ <<cmd>>[1] = cmd
  BY <1>3, OneCommand
<1>6. Tell(<<cmd>>) /\ untold' = (untold \ {next}) \cup Untold(win', next)
  BY DEF CreatePlain, Realize, cmd
<1>7. Sends(<<cmd>>)
  BY <1>5, <1>6 DEF CreatePlain, GuestCalls, GuestRuns, Sends
<1>8. untold' \subseteq Known' /\ making' \in Seq(Known') /\ Len(making') <= MaxDepth
  <2>1. untold \subseteq Known /\ making \in Seq(Known) /\ Len(making) <= MaxDepth
    BY DEF TypeOK
  <2> QED BY <1>1, <1>6, <2>1 DEF Registers, Untold, CreatePlain
<1>9. calls' \in 0 .. MaxCalls /\ boxed' \in BOOLEAN
  BY WindowTreeAssumption DEF CreatePlain, GuestCalls, TypeOK
<1>10. GuestTypes'
  BY <1>1, <1>8, <1>9 DEF GuestTypes, Registers
<1>11. Grows(<<cmd>>)
  BY <1>1, <1>4, <1>5 DEF Registers, Grows, NewState
<1> QED BY <1>7, <1>10, <1>11 DEF GuestDoes

\* The window whose creation ends.
LEMMA MadeIs ==
  ASSUME TypeOK, making # <<>>
  PROVE  /\ Last(making) \in Known
         /\ Front(making) \in Seq(Known) /\ Len(Front(making)) <= MaxDepth
<1>1. making \in Seq(Known) /\ Len(making) \in Nat /\ Len(making) # 0 /\ Len(making) <= MaxDepth
      /\ MaxDepth \in Nat
  BY WindowTreeAssumption DEF TypeOK
<1> QED BY <1>1 DEF Front, Last

LEMMA CreateEndDoes ==
  ASSUME TypeOK, CreateEnd
  PROVE  GuestDoes
<1> DEFINE h   == Last(making)
           cmd == CreateCmd(win, h)
<1>1. h \in Known /\ making' \in Seq(Known) /\ Len(making') <= MaxDepth
  BY MadeIs DEF CreateEnd
<1>2. UNCHANGED <<win, next, main, mainSeen, boxed, calls, hosts, ui, moved, dialog>>
      /\ over = "no"
  BY DEF CreateEnd, GuestRuns
<1>3. GuestTypes
  BY TypesAre
<1> HIDE DEF h
<1>4. CASE h \in DOMAIN win
  <2>1. Tell(<<cmd>>) /\ untold' = (untold \ {h}) \cup Untold(win, h)
    BY <1>4 DEF CreateEnd, Realize, h
  <2>2. cmd \in Commands
    <3>1. Windows(win) /\ \A k \in DOMAIN win : win[k].pos \in Places
      BY <1>3, KnownAre, TypedTree DEF GuestTypes
    <3> QED BY <1>4, <3>1, CommandTypes
  <2>3. cmd.op = "create" /\ cmd.hwnd = h /\ cmd.parent = win[h].parent
    BY DEF CreateCmd
  <2> HIDE DEF cmd
  <2>4. <<cmd>> \in Seq(Commands) /\ DOMAIN <<cmd>> = {1} /\ <<cmd>>[1] = cmd
    BY <2>2, OneCommand
  <2>5. Sends(<<cmd>>)
    BY <1>2, <2>1, <2>4 DEF Sends
  <2>6. Grows(<<cmd>>)
    BY <1>2, <1>4, <2>3, <2>4 DEF Grows
  <2>7. untold' \subseteq Known'
    BY <1>1, <1>2, <1>3, <2>1 DEF GuestTypes, Untold, Known
  <2>8. GuestTypes'
    BY <1>1, <1>2, <1>3, <2>7 DEF GuestTypes, Known, Typed
  <2> QED BY <2>5, <2>6, <2>8 DEF GuestDoes
<1>5. CASE h \notin DOMAIN win
  <2>1. UNCHANGED <<cmds, wake, untold>>
    BY <1>5 DEF CreateEnd, h
  <2>2. Sends(<<>>)
    BY <1>2, <2>1, NoCommands, Silence DEF Sends
  <2>3. Grows(<<>>)
    BY <1>2, NoCommands DEF Grows
  <2>4. GuestTypes'
    BY <1>1, <1>2, <1>3, <2>1 DEF GuestTypes, Known, Typed
  <2> QED BY <2>2, <2>3, <2>4 DEF GuestDoes
<1> QED BY <1>4, <1>5

\* The commands of destroy_window, and who is left.
LEMMA DestroyTreeDoes ==
  ASSUME TypeOK, NEW h \in Handles, DestroyTree(h), next' = next
  PROVE  /\ \E s \in Seq(Commands) : Tell(s) /\ Shrinks(s)
         /\ Typed(win', Known) /\ main' \in Known \cup {NoWindow} /\ untold' \subseteq Known
<1> DEFINE doomed == DestroyOrder(win, h)
           s      == [i \in DOMAIN doomed |-> DestroyCmd(doomed[i])]
<1>1. /\ GuestTypes /\ Windows(win) /\ Tree(win)
      /\ \A k \in DOMAIN win : win[k].pos \in Places
  BY TypesAre, GuestsTree, KnownAre, TypedTree DEF GuestTypes, Windows
<1>2. ChildrenFirst(win, doomed)
  BY <1>1, DestroyOrderIs
<1>3. /\ win' = [x \in DOMAIN win \ ToSet(doomed) |-> win[x]]
      /\ main' \in {main, NoWindow}
      /\ Tell(s)
      /\ untold' = untold \ ToSet(doomed)
  BY DEF DestroyTree
<1> HIDE DEF doomed
<1>4. doomed \in Seq(Handles) /\ DOMAIN doomed = 1 .. Len(doomed)
      /\ \A i \in DOMAIN doomed : doomed[i] \in DOMAIN win
  BY <1>2 DEF ChildrenFirst
<1>5. s \in Seq(Commands) /\ DOMAIN s = DOMAIN doomed
      /\ \A i \in DOMAIN s : s[i].op = "destroy" /\ s[i].hwnd = doomed[i]
  <2>1. \A i \in DOMAIN doomed : DestroyCmd(doomed[i]) \in Commands
    BY <1>1, <1>4, CommandTypes
  <2>2. s \in Seq(Commands)
    BY <1>4, <2>1
  <2> QED BY <2>2 DEF DestroyCmd
<1> HIDE DEF s
<1>6. \A x : x \in ToSet(doomed) <=> \E i \in DOMAIN s : s[i].hwnd = x
  BY <1>4, <1>5, ElementOf
<1>7. Shrinks(s)
  <2>1. \A x : x \in DOMAIN win' <=> x \in DOMAIN win /\ \A i \in DOMAIN s : s[i].hwnd # x
    BY <1>3, <1>6
  <2>2. \A x \in DOMAIN win' : win'[x] = win[x]
    BY <1>3
  <2>3. \A i \in DOMAIN s : s[i].op = "destroy" /\ s[i].hwnd \in DOMAIN win
    BY <1>4, <1>5
  <2>4. ASSUME NEW j \in DOMAIN s, NEW k \in DOMAIN win, win[k].parent = s[j].hwnd
        PROVE  \E i \in DOMAIN s : i < j /\ s[i].hwnd = k
    BY <1>2, <1>4, <1>5, <2>4 DEF ChildrenFirst
  <2> QED BY <2>1, <2>2, <2>3, <2>4 DEF Shrinks
<1>8. Typed(win', Known)
  BY <1>1, <1>3 DEF GuestTypes, Typed
<1> QED BY <1>1, <1>3, <1>5, <1>7, <1>8 DEF GuestTypes

LEMMA DestroyWindowDoes ==
  ASSUME TypeOK, NEW h \in Known \cup {NoWindow}, DestroyWindow(h)
  PROVE  GuestDoes
<1>1. h \in Handles
  BY KnownAre DEF NoWindow
<1>2. DestroyTree(h) /\ next' = next
  BY DEF DestroyWindow
<1>3. PICK s \in Seq(Commands) : Tell(s) /\ Shrinks(s)
  BY <1>1, <1>2, DestroyTreeDoes
<1>4. Typed(win', Known) /\ main' \in Known \cup {NoWindow} /\ untold' \subseteq Known
  BY <1>1, <1>2, DestroyTreeDoes
<1>5. Sends(s)
  BY <1>3 DEF DestroyWindow, GuestCalls, GuestRuns, Sends
<1>6. GuestTypes /\ Known' = Known
  BY <1>2, TypesAre DEF Known
<1>7. calls' \in 0 .. MaxCalls
  BY <1>6, WindowTreeAssumption DEF DestroyWindow, GuestCalls, GuestTypes
<1>8. GuestTypes'
  BY <1>4, <1>6, <1>7 DEF GuestTypes, DestroyWindow
<1> QED BY <1>3, <1>5, <1>8 DEF GuestDoes

LEMMA CreateRejectedDoes ==
  ASSUME TypeOK, CreateRejected
  PROVE  GuestDoes
<1> DEFINE h == Last(making)
<1>1. h \in Known /\ h \in Handles /\ making' \in Seq(Known) /\ Len(making') <= MaxDepth
  BY MadeIs, KnownAre DEF CreateRejected
<1>2. DestroyTree(h) /\ next' = next
  BY DEF CreateRejected
<1> HIDE DEF h
<1>3. PICK s \in Seq(Commands) : Tell(s) /\ Shrinks(s)
  BY <1>1, <1>2, DestroyTreeDoes
<1>4. Typed(win', Known) /\ main' \in Known \cup {NoWindow} /\ untold' \subseteq Known
  BY <1>1, <1>2, DestroyTreeDoes
<1>5. Sends(s)
  BY <1>3 DEF CreateRejected, GuestRuns, Sends
<1>6. GuestTypes /\ Known' = Known
  BY <1>2, TypesAre DEF Known
<1>7. GuestTypes'
  BY <1>1, <1>4, <1>6 DEF GuestTypes, CreateRejected
<1> QED BY <1>3, <1>5, <1>7 DEF GuestDoes

\* A call that leaves the tree alone and neither creates nor destroys.
Mild(s) == \A i \in DOMAIN s : s[i].op \notin {"create", "destroy"}

LEMMA SameTreeDoes ==
  ASSUME TypeOK, GuestCalls, UNCHANGED Unmoved, Typed(win', Known), SameTree(win, win'),
         untold' \subseteq Known, NEW s \in Seq(Commands), Tell(s), Mild(s)
  PROVE  GuestDoes
<1>1. UNCHANGED <<next, making, main, mainSeen, boxed>> /\ UNCHANGED <<hosts, ui, moved, dialog>>
  BY DEF Unmoved
<1>2. over = "no" /\ calls' \in 0 .. MaxCalls
  BY WindowTreeAssumption DEF GuestCalls, GuestRuns, TypeOK
<1>3. Sends(s)
  BY <1>1, <1>2 DEF Sends
<1>4. Grows(s)
  BY <1>1 DEF Grows, SameTree, Mild
<1>5. GuestTypes /\ Known' = Known
  BY <1>1, TypesAre DEF Known
<1>6. GuestTypes'
  BY <1>1, <1>2, <1>5 DEF GuestTypes
<1> QED BY <1>3, <1>4, <1>6 DEF GuestDoes

LEMMA Reshown ==
  ASSUME NEW known, NEW w, Typed(w, known), NEW h \in DOMAIN w, NEW v \in BOOLEAN
  PROVE  LET now == [w EXCEPT ![h].visible = v] IN
           Typed(now, known) /\ SameTree(w, now)
BY DEF Typed, SameTree, Window

LEMMA ShowWindowDoes ==
  ASSUME TypeOK, NEW h \in Known, NEW v \in BOOLEAN, ShowWindow(h, v)
  PROVE  GuestDoes
<1>1. Typed(win, Known) /\ Known \subseteq Handles /\ Windows(win) /\ untold \subseteq Known
  BY TypesAre, KnownAre, TypedTree DEF GuestTypes
<1>2. Typed(win', Known) /\ SameTree(win, win')
  <2>1. CASE h \in DOMAIN win
    BY <1>1, <2>1, Reshown DEF ShowWindow
  <2>2. CASE h \notin DOMAIN win
    BY <1>1, <2>2 DEF ShowWindow, SameTree
  <2> QED BY <2>1, <2>2
<1>3. Windows(win')
  BY <1>1, <1>2, TypedTree
<1>4. ShowTree(win', h) \in Seq(Commands) /\ Mild(ShowTree(win', h))
  <2>1. h \in Handles
    BY <1>1
  <2> QED BY <1>3, <2>1, ShowTreeIs DEF Mild
<1>5. /\ GuestCalls /\ UNCHANGED Unmoved /\ Tell(ShowTree(win', h))
      /\ untold' = untold \ SubtreeOf(win, h)
  BY DEF ShowWindow
<1> QED BY <1>1, <1>2, <1>4, <1>5, SameTreeDoes

LEMMA SetStyleDoes ==
  ASSUME TypeOK, NEW h \in Known, NEW v \in BOOLEAN, SetStyle(h, v)
  PROVE  GuestDoes
<1> DEFINE changes == win[h].visible # v /\ (win[h].child => v)
           differ  == {x \in DOMAIN win : Shown(win', x) # Shown(win, x)}
           s       == IF changes /\ ~win[h].child THEN <<ShowCmd(h, v)>> ELSE <<>>
<1>1. /\ Typed(win, Known) /\ Known \subseteq Handles /\ Windows(win) /\ untold \subseteq Known
      /\ \A x \in DOMAIN win : win[x].pos \in Places
  BY TypesAre, KnownAre, TypedTree DEF GuestTypes
<1>2. GuestCalls /\ UNCHANGED Unmoved /\ h \in DOMAIN win /\ Tell(s)
  BY DEF SetStyle
<1>3. win' = IF changes THEN [win EXCEPT ![h].visible = v] ELSE win
  BY DEF SetStyle
<1>4. untold' \subseteq untold \cup differ
  BY DEF SetStyle
<1>5. s \in Seq(Commands) /\ Mild(s)
  <2>1. ShowCmd(h, v) \in Commands /\ ShowCmd(h, v).op = "show"
    BY <1>1, CommandTypes DEF ShowCmd
  <2> QED BY <2>1, NoCommands, OneCommand DEF Mild
<1>6. Typed(win', Known) /\ SameTree(win, win')
  <2>1. CASE changes
    BY <1>1, <1>2, <1>3, <2>1, Reshown
  <2>2. CASE ~changes
    BY <1>1, <1>3, <2>2 DEF SameTree
  <2> QED BY <2>1, <2>2
<1>7. untold' \subseteq Known
  BY <1>1, <1>4 DEF Typed
<1> QED BY <1>2, <1>5, <1>6, <1>7, SameTreeDoes

LEMMA MoveWindowDoes ==
  ASSUME TypeOK, NEW h \in Known, NEW pos \in Places, MoveWindow(h, pos)
  PROVE  GuestDoes
<1>1. Typed(win, Known) /\ Known \subseteq Handles /\ untold \subseteq Known
  BY TypesAre, KnownAre DEF GuestTypes
<1>2. /\ GuestCalls /\ UNCHANGED Unmoved /\ UNCHANGED untold /\ h \in DOMAIN win
      /\ win' = [win EXCEPT ![h].pos = pos] /\ Tell(<<MoveCmd(win', h)>>)
  BY DEF MoveWindow
<1>3. Typed(win', Known) /\ SameTree(win, win') /\ h \in DOMAIN win'
  BY <1>1, <1>2 DEF Typed, SameTree, Window
<1>4. MoveCmd(win', h) \in Commands /\ MoveCmd(win', h).op = "move"
  <2>1. Windows(win') /\ \A x \in DOMAIN win' : win'[x].pos \in Places
    BY <1>1, <1>3, TypedTree
  <2> QED BY <1>3, <2>1, CommandTypes DEF MoveCmd
<1>5. <<MoveCmd(win', h)>> \in Seq(Commands) /\ Mild(<<MoveCmd(win', h)>>)
  BY <1>4, OneCommand DEF Mild
<1> QED BY <1>1, <1>2, <1>3, <1>5, SameTreeDoes

LEMMA MessageBoxDoes ==
  ASSUME TypeOK, MessageBox
  PROVE  GuestDoes
<1>1. BoxCmd \in Commands /\ BoxCmd.op = "box"
  BY DEF BoxCmd, Commands
<1>2. /\ UNCHANGED <<win, next, making, main, mainSeen, hosts, ui, moved, dialog, untold>>
      /\ over = "no" /\ calls' \in 0 .. MaxCalls /\ boxed' = TRUE /\ Tell(<<BoxCmd>>)
  BY WindowTreeAssumption DEF MessageBox, GuestCalls, GuestRuns, TypeOK
<1> DEFINE s == <<BoxCmd>>
<1>3. s \in Seq(Commands) /\ DOMAIN s = {1} /\ s[1].op = "box"
  BY <1>1, OneCommand
<1>4. Tell(s)
  BY <1>2
<1> HIDE DEF s
<1>5. Sends(s)
  BY <1>2, <1>3, <1>4 DEF Sends
<1>6. Grows(s)
  BY <1>2, <1>3 DEF Grows
<1>7. GuestTypes'
  BY <1>2, TypesAre DEF GuestTypes, Known
<1> QED BY <1>5, <1>6, <1>7 DEF GuestDoes

SameLook(a, b) == b.child = a.child /\ b.visible = a.visible /\ b.pos = a.pos

\* Only the numbers of the order change.
LEMMA RestackedTypes ==
  ASSUME NEW known, known \subseteq Handles, NEW w, Typed(w, known), NEW h \in DOMAIN w, NEW after
  PROVE  /\ Typed(Stacked(w, h, after), known) /\ SameTree(w, Stacked(w, h, after))
         /\ \A x \in DOMAIN w : SameLook(w[x], Stacked(w, h, after)[x])
<1> DEFINE now    == Stacked(w, h, after)
           others == Others(w, h)
<1>1. Windows(w) /\ Tree(w) /\ \A x \in DOMAIN w : w[x] \in Window /\ w[x].parent < x
  BY TypedTree DEF Windows, Typed
<1>2. others \in Seq(Handles) /\ Len(others) \in Nat /\ Len(others) <= MaxHwnd
  BY <1>1, OthersAre
<1>3. PICK at \in 0 .. Len(others) : PutAt(w, h, at, now)
  BY <1>1, RestackedIs DEF Stacked
<1> HIDE DEF now, others
<1>4. /\ DOMAIN now = DOMAIN w
      /\ now[h] = [w[h] EXCEPT !.z = at]
      /\ \A i \in 1 .. Len(others) :
           now[others[i]] = [w[others[i]] EXCEPT !.z = IF i <= at THEN i - 1 ELSE i]
      /\ \A x \in DOMAIN w : x # h /\ x \notin ToSet(others) => now[x] = w[x]
  BY <1>3 DEF PutAt, others
<1>5. MaxHwnd \in Nat
  BY RanksAre
<1>6. ASSUME NEW x \in DOMAIN w
      PROVE  now[x] = w[x] \/ \E z \in Handles : now[x] = [w[x] EXCEPT !.z = z]
  <2>1. CASE x = h
    <3>1. at \in Handles
      BY <1>2, <1>5 DEF Handles
    <3> QED BY <1>4, <2>1, <3>1
  <2>2. CASE x \in ToSet(others)
    <3>1. PICK i \in 1 .. Len(others) : others[i] = x
      BY <1>2, <2>2, ElementOf
    <3>2. PICK z : z = IF i <= at THEN i - 1 ELSE i
      OBVIOUS
    <3>3. z \in Handles
      BY <1>2, <1>5, <3>2 DEF Handles
    <3> QED BY <1>4, <3>1, <3>2, <3>3
  <2>3. CASE x # h /\ x \notin ToSet(others)
    BY <1>4, <2>3
  <2> QED BY <2>1, <2>2, <2>3
<1>7. ASSUME NEW x \in DOMAIN w
      PROVE  now[x] \in Window /\ now[x].parent = w[x].parent /\ SameLook(w[x], now[x])
  BY <1>1, <1>6 DEF Window, SameLook
<1> QED BY <1>1, <1>4, <1>7 DEF Typed, SameTree, now

LEMMA SetWindowPosDoes ==
  ASSUME TypeOK, NEW h \in Known, NEW after, NEW pos \in Places, NEW show \in BOOLEAN,
         after = Keep \/ h \in DOMAIN win, SetWindowPos(h, after, pos, show)
  PROVE  GuestDoes
<1> DEFINE stacked == IF after = Keep THEN win ELSE Stacked(win, h, after)
           reveals == h \in DOMAIN win /\ show /\ ~win[h].visible
           s == IF h \notin DOMAIN win THEN <<>>
                ELSE (IF reveals THEN ShowTree(win', h) ELSE <<>>) \o <<MoveCmd(win', h)>>
<1>1. Typed(win, Known) /\ Known \subseteq Handles /\ untold \subseteq Known
  BY TypesAre, KnownAre DEF GuestTypes
<1>2. Typed(stacked, Known) /\ SameTree(win, stacked)
  <2>1. CASE after = Keep
    BY <1>1, <2>1 DEF SameTree
  <2>2. CASE after # Keep
    <3>1. h \in DOMAIN win
      BY <2>2
    <3> QED BY <1>1, <2>2, <3>1, RestackedTypes
  <2> QED BY <2>1, <2>2
<1>3. /\ GuestCalls /\ UNCHANGED Unmoved /\ Tell(s)
      /\ untold' = IF reveals THEN untold \ SubtreeOf(win, h) ELSE untold
  BY DEF SetWindowPos
<1>4. win' = IF h \in DOMAIN win
             THEN [stacked EXCEPT ![h].pos = pos, ![h].visible = @ \/ show]
             ELSE stacked
  BY DEF SetWindowPos
<1> HIDE DEF stacked
<1>5. Typed(win', Known) /\ SameTree(win, win')
  <2>1. CASE h \in DOMAIN win
    <3> DEFINE r == stacked[h]
    <3>1. h \in DOMAIN stacked /\ r \in Window /\ r.parent < h /\ r.parent = win[h].parent
      BY <1>2, <2>1 DEF Typed, SameTree
    <3>2. /\ DOMAIN win' = DOMAIN stacked
          /\ win'[h] = [r EXCEPT !.pos = pos, !.visible = r.visible \/ show]
          /\ \A x \in DOMAIN stacked \ {h} : win'[x] = stacked[x]
      BY <1>4, <2>1, <3>1
    <3> HIDE DEF r
    <3>3. win'[h] \in Window /\ win'[h].parent = r.parent
      <4>1. r.visible \/ show \in BOOLEAN
        OBVIOUS
      <4> QED BY <3>1, <3>2, <4>1 DEF Window
    <3> QED BY <1>2, <3>1, <3>2, <3>3 DEF Typed, SameTree
  <2>2. CASE h \notin DOMAIN win
    BY <1>2, <1>4, <2>2
  <2> QED BY <2>1, <2>2
<1>6. s \in Seq(Commands) /\ Mild(s)
  <2>1. Windows(win') /\ \A x \in DOMAIN win' : win'[x].pos \in Places
    BY <1>1, <1>5, TypedTree
  <2>2. CASE h \in DOMAIN win
    <3> DEFINE shows == IF reveals THEN ShowTree(win', h) ELSE <<>>
               c     == MoveCmd(win', h)
    <3>1. shows \in Seq(Commands) /\ \A i \in DOMAIN shows : shows[i].op \notin {"create", "destroy"}
      <4>1. h \in Handles
        BY <1>1
      <4> QED BY <2>1, <4>1, ShowTreeIs
    <3>2. c \in Commands /\ c.op = "move"
      <4>1. h \in DOMAIN win'
        BY <1>5, <2>2 DEF SameTree
      <4> QED BY <2>1, <4>1, CommandTypes DEF MoveCmd
    <3>3. s = shows \o <<c>>
      BY <2>2
    <3> HIDE DEF shows, c, s
    <3> QED BY <3>1, <3>2, <3>3 DEF Mild
  <2>3. CASE h \notin DOMAIN win
    BY <2>3, NoCommands DEF Mild
  <2> QED BY <2>2, <2>3
<1>7. untold' \subseteq Known
  BY <1>1, <1>3
<1> HIDE DEF s
<1> QED BY <1>3, <1>5, <1>6, <1>7, SameTreeDoes

LEMMA GuestStepDoes ==
  ASSUME TypeOK, GuestStep
  PROVE  GuestDoes
<1>1. CASE \E p \in DOMAIN win \cup {NoWindow}, c, v \in BOOLEAN :
             (c => p # NoWindow) /\ (CreateBegin(p, c, v, Home) \/ CreatePlain(p, c, v, Home))
  BY <1>1, CreateBeginDoes, CreatePlainDoes
<1>2. CASE CreateEnd \/ CreateRejected \/ MessageBox
  BY <1>2, CreateEndDoes, CreateRejectedDoes, MessageBoxDoes
<1>3. CASE \E h \in Known \cup {NoWindow} : DestroyWindow(h)
  BY <1>3, DestroyWindowDoes
<1>4. CASE \E h \in Known, v \in BOOLEAN : ShowWindow(h, v) \/ SetStyle(h, v)
  BY <1>4, ShowWindowDoes, SetStyleDoes
<1>5. CASE \E h \in Known, pos \in Places : MoveWindow(h, pos)
  BY <1>5, MoveWindowDoes
<1>6. CASE \E h \in Known, show \in BOOLEAN, pos \in Places : SetWindowPos(h, Keep, pos, show)
  BY <1>6, SetWindowPosDoes
<1>7. CASE \E h \in Known, show \in BOOLEAN, after \in Known \cup {Top, Bottom} :
             h \in DOMAIN win /\ SetWindowPos(h, after, win[h].pos, show)
  <2>1. PICK h \in Known, show \in BOOLEAN, after \in Known \cup {Top, Bottom} :
          h \in DOMAIN win /\ SetWindowPos(h, after, win[h].pos, show)
    BY <1>7
  <2>2. win[h].pos \in Places
    BY <2>1 DEF TypeOK, Window
  <2> QED BY <2>1, <2>2, SetWindowPosDoes
<1> QED BY <1>1, <1>2, <1>3, <1>4, <1>5, <1>6, <1>7 DEF GuestStep

----------------------------------------------------------------------------
(* Commands sent. *)

\* Where the elements of two sequences are in their concatenation.
Extends(s, new, all) ==
  /\ \A i \in DOMAIN s : i \in DOMAIN all /\ all[i] = s[i]
  /\ \A i \in DOMAIN new : \E m \in DOMAIN all : m = Len(s) + i /\ all[m] = new[i]
  /\ \A m \in DOMAIN all : m \in DOMAIN s \/ \E i \in DOMAIN new : m = Len(s) + i /\ all[m] = new[i]
  /\ \A i \in DOMAIN s : i \in Nat /\ i <= Len(s)
  /\ \A i \in DOMAIN new : i \in Nat /\ i > 0
  /\ Len(s) \in Nat

LEMMA ExtendsIs ==
  ASSUME NEW S, NEW s \in Seq(S), NEW new \in Seq(S)
  PROVE  Extends(s, new, s \o new)
<1> DEFINE all == s \o new
<1>1. /\ all \in Seq(S) /\ Len(all) = Len(s) + Len(new) /\ Len(s) \in Nat /\ Len(new) \in Nat
      /\ \A i \in 1 .. Len(s) : all[i] = s[i]
      /\ \A i \in 1 .. Len(new) : all[Len(s) + i] = new[i]
      /\ DOMAIN all = 1 .. Len(all) /\ DOMAIN s = 1 .. Len(s) /\ DOMAIN new = 1 .. Len(new)
  BY ConcatProperties
<1> HIDE DEF all
<1>2. \A i \in DOMAIN s : i \in DOMAIN all /\ all[i] = s[i] /\ i \in Nat /\ i <= Len(s)
  BY <1>1
<1>3. \A i \in DOMAIN new : \E m \in DOMAIN all : m = Len(s) + i /\ all[m] = new[i]
  BY <1>1
<1>4. ASSUME NEW m \in DOMAIN all, m \notin DOMAIN s
      PROVE  \E i \in DOMAIN new : m = Len(s) + i /\ all[m] = new[i]
  <2>1. m - Len(s) \in DOMAIN new /\ m = Len(s) + (m - Len(s))
    BY <1>1, <1>4
  <2>2. all[Len(s) + (m - Len(s))] = new[m - Len(s)]
    BY <1>1, <2>1
  <2> QED BY <2>1, <2>2
<1>5. \A i \in DOMAIN new : i \in Nat /\ i > 0
  BY <1>1
<1> QED BY <1>1, <1>2, <1>3, <1>4, <1>5 DEF Extends, all

\* What is destroyed stays destroyed.
LEMMA StaysDoomed ==
  ASSUME NEW s, NEW new, NEW all, Extends(s, new, all), NEW h, NEW i, Doomed(s, h, i)
  PROVE  Doomed(all, h, i)
BY DEF Doomed, Extends

GrowsTo(w, known, now, knownNow, new) ==
  /\ known \subseteq knownNow /\ DOMAIN w \subseteq known /\ DOMAIN now \subseteq knownNow
  /\ DOMAIN w \subseteq DOMAIN now
  /\ \A h \in DOMAIN w : now[h].parent = w[h].parent
  /\ \A h \in DOMAIN now \ DOMAIN w : h \notin known /\ now[h].parent \in DOMAIN w \cup {NoWindow}
  /\ \A i \in DOMAIN new :
       /\ new[i].op # "destroy"
       /\ new[i].op = "create" =>
            /\ new[i].hwnd \in DOMAIN now /\ new[i].parent = now[new[i].hwnd].parent
            /\ new[i].parent < new[i].hwnd

LEMMA GrownTree ==
  ASSUME NEW w, NEW known, NEW now, NEW knownNow, NEW hs, DOMAIN hs \subseteq known,
         NEW s, NEW new, NEW all, Extends(s, new, all),
         GrowsTo(w, known, now, knownNow, new), TreeOf(w, known, hs, s)
  PROVE  TreeOf(now, knownNow, hs, all)
<1>1. \A h \in DOMAIN now : now[h].parent \in DOMAIN now \cup {NoWindow}
  BY DEF GrowsTo, TreeOf
<1>2. ASSUME NEW i \in DOMAIN s PROVE CommandFits(now, knownNow, all, i)
  <2>1. CommandFits(w, known, s, i) /\ all[i] = s[i]
    BY DEF TreeOf, Extends
  <2>2. \A h \in knownNow \ DOMAIN now : IsCreate(s[i], h) => Doomed(all, h, i)
    <3> SUFFICES ASSUME NEW h \in knownNow \ DOMAIN now, IsCreate(s[i], h) PROVE Doomed(all, h, i)
      OBVIOUS
    <3>1. h \in known \ DOMAIN w
      BY <2>1 DEF CommandFits, IsCreate, GrowsTo
    <3> QED BY <2>1, <3>1, StaysDoomed DEF CommandFits
  <2>3. \A h \in DOMAIN now : ~IsDestroy(s[i], h)
    BY <2>1 DEF CommandFits, IsDestroy, GrowsTo
  <2>4. \A h \in DOMAIN now : IsCreate(s[i], h) => s[i].parent = now[h].parent
    BY <2>1 DEF CommandFits, IsCreate, GrowsTo
  <2>5. s[i].op \in {"create", "destroy"} => s[i].hwnd \in knownNow
    BY <2>1 DEF CommandFits, GrowsTo
  <2> QED BY <2>1, <2>2, <2>3, <2>4, <2>5 DEF CommandFits
<1>3. ASSUME NEW m \in DOMAIN all, NEW i \in DOMAIN new, all[m] = new[i]
      PROVE  CommandFits(now, knownNow, all, m)
  BY <1>3 DEF GrowsTo, CommandFits, IsCreate, IsDestroy
<1>4. ASSUME NEW h \in DOMAIN hs PROVE HostFits(now, hs, all, h)
  <2>1. h \in DOMAIN now <=> h \in DOMAIN w
    BY DEF GrowsTo
  <2>2. h \in DOMAIN w => now[h].parent = w[h].parent
    BY DEF GrowsTo
  <2>3. HostFits(w, hs, s, h)
    BY DEF TreeOf
  <2> QED BY <2>1, <2>2, <2>3, StaysDoomed DEF HostFits
<1>5. \A m \in DOMAIN all : m \in DOMAIN s \/ \E i \in DOMAIN new : all[m] = new[i]
  BY DEF Extends
<1> QED BY <1>1, <1>2, <1>3, <1>4, <1>5 DEF TreeOf

LEMMA StaysFree ==
  ASSUME NEW known, NEW hs, NEW s, NEW new, NEW all, Extends(s, new, all),
         NEW j \in DOMAIN s, NEW p, NEW knownNow,
         \A i \in DOMAIN s : s[i].op = "create" => s[i].hwnd \in known,
         FreeBefore(known, hs, s, j, p)
  PROVE  FreeBefore(knownNow, hs, all, j, p)
<1>1. ASSUME NEW h \in DOMAIN hs, hs[h].link = p
      PROVE  \E i \in DOMAIN all : i < j /\ IsDestroy(all[i], h)
  BY <1>1 DEF FreeBefore, Extends
<1>2. ASSUME NEW i \in DOMAIN all, NEW h \in knownNow, i < j, IsCreate(all[i], h), all[i].parent = p
      PROVE  \E k \in DOMAIN all : i < k /\ k < j /\ IsDestroy(all[k], h)
  <2>1. i \in DOMAIN s /\ all[i] = s[i]
    BY <1>2 DEF Extends
  <2>2. h \in known
    BY <1>2, <2>1 DEF IsCreate
  <2>3. \E k \in DOMAIN s : i < k /\ k < j /\ IsDestroy(s[k], h)
    BY <1>2, <2>1, <2>2 DEF FreeBefore
  <2> QED BY <2>3 DEF Extends
<1> QED BY <1>1, <1>2 DEF FreeBefore

LEMMA GrownLinks ==
  ASSUME NEW w, NEW known, NEW now, NEW knownNow, NEW hs,
         NEW s, NEW new, NEW all, Extends(s, new, all),
         GrowsTo(w, known, now, knownNow, new), TreeOf(w, known, hs, s), LinkOf(known, hs, s)
  PROVE  LinkOf(knownNow, hs, all)
<1>1. ASSUME NEW j \in DOMAIN all, NEW p \in knownNow, IsDestroy(all[j], p)
      PROVE  FreeBefore(knownNow, hs, all, j, p)
  <2>1. j \in DOMAIN s /\ all[j] = s[j]
    BY <1>1 DEF Extends, GrowsTo, IsDestroy
  <2>2. \A i \in DOMAIN s : s[i].op \in {"create", "destroy"} => s[i].hwnd \in known
    BY DEF TreeOf, CommandFits
  <2>3. p \in known
    BY <1>1, <2>1, <2>2 DEF IsDestroy
  <2>4. FreeBefore(known, hs, s, j, p)
    BY <1>1, <2>1, <2>3 DEF LinkOf
  <2> QED BY <2>1, <2>2, <2>4, StaysFree
<1> QED BY <1>1 DEF LinkOf

ShrinksTo(w, now, new) ==
  /\ \A h : h \in DOMAIN now <=> h \in DOMAIN w /\ \A i \in DOMAIN new : new[i].hwnd # h
  /\ \A h \in DOMAIN now : now[h] = w[h]
  /\ \A i \in DOMAIN new : new[i].op = "destroy" /\ new[i].hwnd \in DOMAIN w
  /\ \A j \in DOMAIN new : \A k \in DOMAIN w :
       w[k].parent = new[j].hwnd => \E i \in DOMAIN new : i < j /\ new[i].hwnd = k

\* A window that goes is doomed from any of the older commands on.
LEMMA GoneDoomed ==
  ASSUME NEW w, NEW now, NEW s, NEW new, NEW all, Extends(s, new, all), ShrinksTo(w, now, new),
         NEW h \in DOMAIN w \ DOMAIN now, NEW i \in Nat, i <= Len(s)
  PROVE  Doomed(all, h, i)
<1>1. PICK k \in DOMAIN new : new[k].hwnd = h
  BY DEF ShrinksTo
<1>2. PICK m \in DOMAIN all : m = Len(s) + k /\ all[m] = new[k]
  BY DEF Extends
<1>3. i < m
  BY <1>2 DEF Extends
<1>4. IsDestroy(all[m], h)
  BY <1>1, <1>2 DEF ShrinksTo, IsDestroy
<1> QED BY <1>3, <1>4 DEF Doomed

LEMMA ShrunkTree ==
  ASSUME NEW w, NEW known, DOMAIN w \subseteq known, NEW now, NEW hs,
         NEW s, NEW new, NEW all, Extends(s, new, all),
         ShrinksTo(w, now, new), TreeOf(w, known, hs, s)
  PROVE  TreeOf(now, known, hs, all)
<1>1. ASSUME NEW h \in DOMAIN now PROVE now[h].parent \in DOMAIN now \cup {NoWindow}
  <2>1. h \in DOMAIN w /\ now[h] = w[h] /\ w[h].parent \in DOMAIN w \cup {NoWindow}
    BY DEF ShrinksTo, TreeOf
  <2>2. ASSUME NEW j \in DOMAIN new, new[j].hwnd = w[h].parent PROVE FALSE
    BY <2>1, <2>2 DEF ShrinksTo
  <2> QED BY <2>1, <2>2 DEF ShrinksTo
<1>2. ASSUME NEW i \in DOMAIN s PROVE CommandFits(now, known, all, i)
  <2>1. CommandFits(w, known, s, i) /\ all[i] = s[i] /\ i \in Nat /\ i <= Len(s)
    BY DEF TreeOf, Extends
  <2>2. \A h \in known \ DOMAIN now : IsCreate(s[i], h) => Doomed(all, h, i)
    <3> SUFFICES ASSUME NEW h \in known \ DOMAIN now, IsCreate(s[i], h) PROVE Doomed(all, h, i)
      OBVIOUS
    <3>1. CASE h \in DOMAIN w
      BY <2>1, <3>1, GoneDoomed
    <3>2. CASE h \notin DOMAIN w
      BY <2>1, <3>2, StaysDoomed DEF CommandFits
    <3> QED BY <3>1, <3>2
  <2>3. \A h \in DOMAIN now : ~IsDestroy(s[i], h)
    BY <2>1 DEF CommandFits, ShrinksTo
  <2>4. \A h \in DOMAIN now : IsCreate(s[i], h) => s[i].parent = now[h].parent
    BY <2>1 DEF CommandFits, ShrinksTo
  <2> QED BY <2>1, <2>2, <2>3, <2>4 DEF CommandFits
<1>3. ASSUME NEW m \in DOMAIN all, NEW i \in DOMAIN new, all[m] = new[i]
      PROVE  CommandFits(now, known, all, m)
  <2>1. new[i].op = "destroy" /\ new[i].hwnd \in known
    BY DEF ShrinksTo
  <2>2. \A h \in DOMAIN now : new[i].hwnd # h
    BY DEF ShrinksTo
  <2> QED BY <1>3, <2>1, <2>2 DEF CommandFits, IsCreate, IsDestroy
<1>4. ASSUME NEW h \in DOMAIN hs PROVE HostFits(now, hs, all, h)
  <2>1. HostFits(w, hs, s, h)
    BY DEF TreeOf
  <2>2. CASE h \in DOMAIN now
    BY <2>1, <2>2 DEF ShrinksTo, HostFits
  <2>3. CASE h \notin DOMAIN now /\ h \in DOMAIN w
    <3>1. 0 \in Nat /\ 0 <= Len(s)
      BY DEF Extends
    <3>2. Doomed(all, h, 0)
      BY <2>3, <3>1, GoneDoomed
    <3> QED BY <2>3, <3>2 DEF HostFits
  <2>4. CASE h \notin DOMAIN now /\ h \notin DOMAIN w
    BY <2>1, <2>4, StaysDoomed DEF HostFits
  <2> QED BY <2>2, <2>3, <2>4
<1>5. \A m \in DOMAIN all : m \in DOMAIN s \/ \E i \in DOMAIN new : all[m] = new[i]
  BY DEF Extends
<1> QED BY <1>1, <1>2, <1>3, <1>4, <1>5 DEF TreeOf

LEMMA ShrunkLinks ==
  ASSUME NEW w, NEW known, DOMAIN w \subseteq known, NoWindow \notin known, NEW now, NEW hs,
         NEW s, NEW new, NEW all, Extends(s, new, all),
         ShrinksTo(w, now, new), TreeOf(w, known, hs, s), LinkOf(known, hs, s)
  PROVE  LinkOf(known, hs, all)
<1>1. ASSUME NEW j \in DOMAIN s, NEW p \in known, IsDestroy(all[j], p)
      PROVE  FreeBefore(known, hs, all, j, p)
  <2>1. all[j] = s[j]
    BY DEF Extends
  <2>2. \A i \in DOMAIN s : s[i].op \in {"create", "destroy"} => s[i].hwnd \in known
    BY DEF TreeOf, CommandFits
  <2>3. FreeBefore(known, hs, s, j, p)
    BY <1>1, <2>1 DEF LinkOf
  <2> QED BY <2>2, <2>3, StaysFree
<1>2. ASSUME NEW m \in DOMAIN all, NEW j \in DOMAIN new, m = Len(s) + j, all[m] = new[j],
             NEW p \in known, IsDestroy(all[m], p)
      PROVE  FreeBefore(known, hs, all, m, p)
  <2>1. new[j].hwnd = p /\ Len(s) \in Nat /\ j \in Nat /\ j > 0 /\ p # NoWindow
    BY <1>2 DEF IsDestroy, Extends
  \* A child of p in the tree goes before p.
  <2>2. ASSUME NEW h \in DOMAIN w, w[h].parent = p
        PROVE  \E k \in DOMAIN all : k > Len(s) /\ k < m /\ IsDestroy(all[k], h)
    <3>1. PICK i \in DOMAIN new : i < j /\ new[i].hwnd = h
      BY <2>1, <2>2 DEF ShrinksTo
    <3>2. PICK k \in DOMAIN all : k = Len(s) + i /\ all[k] = new[i]
      BY DEF Extends
    <3>3. k > Len(s) /\ k < m
      BY <1>2, <2>1, <3>1, <3>2 DEF Extends
    <3>4. IsDestroy(all[k], h)
      BY <3>1, <3>2 DEF ShrinksTo, IsDestroy
    <3> QED BY <3>3, <3>4
  <2>3. ASSUME NEW h \in DOMAIN hs, hs[h].link = p
        PROVE  \E i \in DOMAIN all : i < m /\ IsDestroy(all[i], h)
    <3>1. HostFits(w, hs, s, h)
      BY DEF TreeOf
    <3>2. CASE h \in DOMAIN w
      BY <2>1, <2>2, <2>3, <3>1, <3>2 DEF HostFits
    <3>3. CASE h \notin DOMAIN w
      <4>1. PICK i \in DOMAIN s : IsDestroy(s[i], h)
        BY <3>1, <3>3 DEF HostFits, Doomed
      <4>2. i \in DOMAIN all /\ all[i] = s[i] /\ i < m
        BY <1>2, <2>1 DEF Extends
      <4> QED BY <4>1, <4>2
    <3> QED BY <3>2, <3>3
  <2>4. ASSUME NEW i \in DOMAIN all, NEW h \in known,
               i < m, IsCreate(all[i], h), all[i].parent = p
        PROVE  \E k \in DOMAIN all : i < k /\ k < m /\ IsDestroy(all[k], h)
    <3>1. i \in DOMAIN s /\ all[i] = s[i] /\ i \in Nat /\ i <= Len(s)
      BY <2>4 DEF Extends, ShrinksTo, IsCreate
    <3>2. CommandFits(w, known, s, i)
      BY <3>1 DEF TreeOf
    <3>3. CASE h \in DOMAIN w
      <4>1. w[h].parent = p
        BY <2>4, <3>1, <3>2, <3>3 DEF CommandFits
      <4>2. PICK k \in DOMAIN all : k > Len(s) /\ k < m /\ IsDestroy(all[k], h)
        BY <2>2, <3>3, <4>1
      <4>3. \A x \in DOMAIN all : x \in Nat
        BY DEF Extends
      <4> QED BY <2>1, <3>1, <4>2, <4>3
    <3>4. CASE h \notin DOMAIN w
      <4>1. PICK k \in DOMAIN s : i < k /\ IsDestroy(s[k], h)
        BY <2>4, <3>1, <3>2, <3>4 DEF CommandFits, Doomed
      <4>2. k \in DOMAIN all /\ all[k] = s[k] /\ k < m
        BY <1>2, <2>1 DEF Extends
      <4> QED BY <4>1, <4>2
    <3> QED BY <3>3, <3>4
  <2> QED BY <2>3, <2>4 DEF FreeBefore
<1>3. \A m \in DOMAIN all :
        m \in DOMAIN s \/ \E j \in DOMAIN new : m = Len(s) + j /\ all[m] = new[j]
  BY DEF Extends
<1> QED BY <1>1, <1>2, <1>3 DEF LinkOf

----------------------------------------------------------------------------
(* Commands taken. *)

\* t is s without its first element.
Follows(s, t) ==
  /\ \A i \in DOMAIN t : i \in Nat /\ i > 0 /\ \E m \in DOMAIN s : m = i + 1 /\ t[i] = s[m]
  /\ \A m \in DOMAIN s : m \in Nat /\ m > 0 /\ (m # 1 => \E i \in DOMAIN t : m = i + 1 /\ t[i] = s[m])
  /\ 1 \in DOMAIN s

LEMMA FollowsIs ==
  ASSUME NEW S, NEW s \in Seq(S), s # <<>>
  PROVE  Follows(s, Tail(s)) /\ Head(s) = s[1] /\ Tail(s) \in Seq(S)
<1> DEFINE t == Tail(s)
<1>1. /\ t \in Seq(S) /\ Len(t) = Len(s) - 1 /\ Len(s) \in Nat /\ Len(s) # 0
      /\ DOMAIN t = 1 .. Len(t) /\ DOMAIN s = 1 .. Len(s)
      /\ \A i \in 1 .. Len(t) : t[i] = s[i + 1]
      /\ Head(s) = s[1]
  OBVIOUS
<1> HIDE DEF t
<1>2. \A i \in DOMAIN t : i \in Nat /\ i > 0 /\ i + 1 \in DOMAIN s
  BY <1>1
<1>3. ASSUME NEW m \in DOMAIN s, m # 1 PROVE \E i \in DOMAIN t : m = i + 1 /\ t[i] = s[m]
  <2>1. m - 1 \in DOMAIN t /\ m = (m - 1) + 1
    BY <1>1, <1>3
  <2> QED BY <1>1, <2>1
<1> QED BY <1>1, <1>2, <1>3 DEF Follows, t

\* What a later command destroys is still to be destroyed.
LEMMA StillDoomed ==
  ASSUME NEW s, NEW t, Follows(s, t), NEW h, NEW m \in DOMAIN s, NEW i \in Nat,
         m = i + 1, Doomed(s, h, m)
  PROVE  Doomed(t, h, i)
<1>1. PICK j \in DOMAIN s : m < j /\ IsDestroy(s[j], h)
  BY DEF Doomed
<1>2. PICK k \in DOMAIN t : j = k + 1 /\ t[k] = s[j]
  BY <1>1 DEF Follows
<1>3. i < k
  BY <1>1, <1>2 DEF Follows
<1> QED BY <1>1, <1>2, <1>3 DEF Doomed

LEMMA StillToGo ==
  ASSUME NEW s, NEW t, Follows(s, t), NEW h, Doomed(s, h, 0), ~IsDestroy(s[1], h)
  PROVE  Doomed(t, h, 0)
<1>1. PICK j \in DOMAIN s : j # 1 /\ IsDestroy(s[j], h)
  BY DEF Doomed
<1>2. PICK k \in DOMAIN t : j = k + 1 /\ t[k] = s[j]
  BY <1>1 DEF Follows
<1>3. 0 < k
  BY <1>1, <1>2 DEF Follows
<1> QED BY <1>1, <1>2, <1>3 DEF Doomed

LEMMA TakenCommands ==
  ASSUME NEW w, NEW known, NEW hs, NEW s, NEW t, Follows(s, t), TreeOf(w, known, hs, s)
  PROVE  \A i \in DOMAIN t : CommandFits(w, known, t, i)
<1> SUFFICES ASSUME NEW i \in DOMAIN t PROVE CommandFits(w, known, t, i)
  OBVIOUS
<1>1. PICK m \in DOMAIN s : m = i + 1 /\ t[i] = s[m] /\ i \in Nat
  BY DEF Follows
<1>2. CommandFits(w, known, s, m)
  BY DEF TreeOf
<1>3. \A h : Doomed(s, h, m) => Doomed(t, h, i)
  BY <1>1, StillDoomed
<1> QED BY <1>1, <1>2, <1>3 DEF CommandFits

\* The commands before the destruction of p, when the first is gone.
LEMMA TakenCreations ==
  ASSUME NEW known, NEW hs, NEW s, NEW t, Follows(s, t), NEW j \in DOMAIN t, NEW n \in DOMAIN s,
         n = j + 1, NEW p, FreeBefore(known, hs, s, n, p)
  PROVE  \A i \in DOMAIN t : \A h \in known :
           i < j /\ IsCreate(t[i], h) /\ t[i].parent = p =>
             \E k \in DOMAIN t : i < k /\ k < j /\ IsDestroy(t[k], h)
<1> SUFFICES ASSUME NEW i \in DOMAIN t, NEW h \in known,
                    i < j, IsCreate(t[i], h), t[i].parent = p
             PROVE  \E k \in DOMAIN t : i < k /\ k < j /\ IsDestroy(t[k], h)
  OBVIOUS
<1>1. PICK m \in DOMAIN s : m = i + 1 /\ t[i] = s[m] /\ i \in Nat /\ j \in Nat
  BY DEF Follows
<1>2. m < n
  BY <1>1
<1>3. PICK x \in DOMAIN s : m < x /\ x < n /\ IsDestroy(s[x], h)
  BY <1>1, <1>2 DEF FreeBefore
<1>4. PICK k \in DOMAIN t : x = k + 1 /\ t[k] = s[x] /\ k \in Nat
  BY <1>1, <1>3 DEF Follows
<1> QED BY <1>1, <1>3, <1>4

SameHosts(hs, now) == DOMAIN now = DOMAIN hs /\ \A h \in DOMAIN hs : now[h].link = hs[h].link

\* A command that neither creates nor destroys.
LEMMA MildTaken ==
  ASSUME NEW w, NEW known, NEW hs, NEW now, SameHosts(hs, now), NEW s, NEW t, Follows(s, t),
         s[1].op \notin {"create", "destroy"}, TreeOf(w, known, hs, s), LinkOf(known, hs, s)
  PROVE  TreeOf(w, known, now, t) /\ LinkOf(known, now, t)
<1>1. \A h : ~IsDestroy(s[1], h)
  BY DEF IsDestroy
<1>2. \A i \in DOMAIN t : CommandFits(w, known, t, i)
  BY TakenCommands
<1>3. \A h : Doomed(s, h, 0) => Doomed(t, h, 0)
  BY <1>1, StillToGo
<1>4. \A h \in DOMAIN now : HostFits(w, now, t, h)
  BY <1>3 DEF TreeOf, HostFits, SameHosts
<1>5. LinksLive(now)
  BY DEF LinkOf, LinksLive, SameHosts
<1>6. ASSUME NEW j \in DOMAIN t, NEW p \in known, IsDestroy(t[j], p)
      PROVE  FreeBefore(known, now, t, j, p)
  <2>1. PICK n \in DOMAIN s : n = j + 1 /\ t[j] = s[n]
    BY DEF Follows
  <2>2. FreeBefore(known, hs, s, n, p)
    BY <1>6, <2>1 DEF LinkOf
  <2>3. ASSUME NEW h \in DOMAIN now, now[h].link = p
        PROVE  \E i \in DOMAIN t : i < j /\ IsDestroy(t[i], h)
    <3>1. PICK m \in DOMAIN s : m < n /\ IsDestroy(s[m], h)
      BY <2>2, <2>3 DEF FreeBefore, SameHosts
    <3>2. PICK i \in DOMAIN t : m = i + 1 /\ t[i] = s[m] /\ i \in Nat /\ j \in Nat
      BY <1>1, <3>1 DEF Follows
    <3> QED BY <2>1, <3>1, <3>2
  <2>4. \A i \in DOMAIN t : \A h \in known :
          i < j /\ IsCreate(t[i], h) /\ t[i].parent = p =>
            \E k \in DOMAIN t : i < k /\ k < j /\ IsDestroy(t[k], h)
    BY <2>1, <2>2, TakenCreations
  <2> QED BY <2>3, <2>4 DEF FreeBefore
<1> QED BY <1>2, <1>4, <1>5, <1>6 DEF TreeOf, LinkOf

\* A host window made by a command, linked to its parent if that exists.
MadeBy(hs, now, c) ==
  /\ DOMAIN now = DOMAIN hs \cup {c.hwnd}
  /\ \A h \in DOMAIN hs : h # c.hwnd => now[h] = hs[h]
  /\ now[c.hwnd].link = IF c.parent \in DOMAIN hs THEN c.parent ELSE NoWindow

LEMMA CreateTaken ==
  ASSUME NEW w, NEW known, NoWindow \notin known, NEW hs, NEW now, NEW s, NEW t, Follows(s, t),
         s[1].op = "create", MadeBy(hs, now, s[1]), TreeOf(w, known, hs, s), LinkOf(known, hs, s)
  PROVE  TreeOf(w, known, now, t) /\ LinkOf(known, now, t)
<1> DEFINE c == s[1]
           x == c.hwnd
<1>1. \A h : ~IsDestroy(c, h)
  BY DEF IsDestroy
<1>2. \A i \in DOMAIN t : CommandFits(w, known, t, i)
  BY TakenCommands
<1>3. \A h : Doomed(s, h, 0) => Doomed(t, h, 0)
  BY <1>1, StillToGo
<1>4. 1 \in DOMAIN s /\ CommandFits(w, known, s, 1) /\ x \in known /\ IsCreate(c, x)
  BY DEF Follows, TreeOf, CommandFits, IsCreate
<1>5. HostFits(w, now, t, x)
  <2>1. CASE x \in DOMAIN w
    BY <1>4, <2>1 DEF HostFits, MadeBy, CommandFits
  <2>2. CASE x \notin DOMAIN w
    <3>1. Doomed(s, x, 1)
      BY <1>4, <2>2 DEF CommandFits
    <3>2. Doomed(t, x, 0)
      BY <1>4, <3>1, StillDoomed
    <3> QED BY <2>2, <3>2 DEF HostFits
  <2> QED BY <2>1, <2>2
<1>6. \A h \in DOMAIN now : h # x => HostFits(w, now, t, h)
  BY <1>3 DEF TreeOf, HostFits, MadeBy
<1>7. LinksLive(now)
  BY DEF LinkOf, LinksLive, MadeBy
<1>8. ASSUME NEW j \in DOMAIN t, NEW p \in known, IsDestroy(t[j], p)
      PROVE  FreeBefore(known, now, t, j, p)
  <2>1. PICK n \in DOMAIN s : n = j + 1 /\ t[j] = s[n]
    BY DEF Follows
  <2>2. FreeBefore(known, hs, s, n, p)
    BY <1>8, <2>1 DEF LinkOf
  <2>3. ASSUME NEW h \in DOMAIN now, now[h].link = p
        PROVE  \E i \in DOMAIN t : i < j /\ IsDestroy(t[i], h)
    <3>1. n > 1
      BY <2>1 DEF Follows
    <3>2. \E m \in DOMAIN s : m < n /\ IsDestroy(s[m], h)
      <4>1. CASE h = x
        <5>1. c.parent = p
          BY <2>3, <4>1 DEF MadeBy
        <5> QED BY <1>4, <2>2, <3>1, <4>1, <5>1 DEF FreeBefore
      <4>2. CASE h # x
        BY <2>2, <2>3, <4>2 DEF FreeBefore, MadeBy
      <4> QED BY <4>1, <4>2
    <3>3. PICK m \in DOMAIN s : m < n /\ IsDestroy(s[m], h)
      BY <3>2
    <3>4. PICK i \in DOMAIN t : m = i + 1 /\ t[i] = s[m] /\ i \in Nat /\ j \in Nat
      BY <1>1, <3>3 DEF Follows
    <3> QED BY <2>1, <3>3, <3>4
  <2>4. \A i \in DOMAIN t : \A h \in known :
          i < j /\ IsCreate(t[i], h) /\ t[i].parent = p =>
            \E k \in DOMAIN t : i < k /\ k < j /\ IsDestroy(t[k], h)
    BY <2>1, <2>2, TakenCreations
  <2> QED BY <2>3, <2>4 DEF FreeBefore
<1> QED BY <1>2, <1>5, <1>6, <1>7, <1>8 DEF TreeOf, LinkOf

LEMMA DestroyTaken ==
  ASSUME NEW w, NEW known, NEW hs, NEW now, NEW s, NEW t, Follows(s, t),
         s[1].op = "destroy", now = [h \in DOMAIN hs \ {s[1].hwnd} |-> hs[h]],
         TreeOf(w, known, hs, s), LinkOf(known, hs, s)
  PROVE  TreeOf(w, known, now, t) /\ LinkOf(known, now, t)
<1> DEFINE x == s[1].hwnd
<1>1. DOMAIN now = DOMAIN hs \ {x} /\ \A h \in DOMAIN now : now[h] = hs[h] /\ ~IsDestroy(s[1], h)
  BY DEF IsDestroy
<1>2. \A i \in DOMAIN t : CommandFits(w, known, t, i)
  BY TakenCommands
<1>3. \A h \in DOMAIN now : Doomed(s, h, 0) => Doomed(t, h, 0)
  BY <1>1, StillToGo
<1>4. \A h \in DOMAIN now : HostFits(w, now, t, h)
  BY <1>1, <1>3 DEF TreeOf, HostFits
<1>5. 1 \in DOMAIN s /\ x \in known /\ IsDestroy(s[1], x)
  BY DEF Follows, TreeOf, CommandFits, IsDestroy
<1>6. FreeBefore(known, hs, s, 1, x)
  BY <1>5 DEF LinkOf
<1>7. \A h \in DOMAIN hs : hs[h].link # x
  <2> SUFFICES ASSUME NEW h \in DOMAIN hs, hs[h].link = x PROVE FALSE
    OBVIOUS
  <2>1. PICK i \in DOMAIN s : i < 1
    BY <1>6 DEF FreeBefore
  <2> QED BY <2>1 DEF Follows
<1>8. LinksLive(now)
  BY <1>1, <1>7 DEF LinkOf, LinksLive
<1>9. ASSUME NEW j \in DOMAIN t, NEW p \in known, IsDestroy(t[j], p)
      PROVE  FreeBefore(known, now, t, j, p)
  <2>1. PICK n \in DOMAIN s : n = j + 1 /\ t[j] = s[n]
    BY DEF Follows
  <2>2. FreeBefore(known, hs, s, n, p)
    BY <1>9, <2>1 DEF LinkOf
  <2>3. ASSUME NEW h \in DOMAIN now, now[h].link = p
        PROVE  \E i \in DOMAIN t : i < j /\ IsDestroy(t[i], h)
    <3>1. PICK m \in DOMAIN s : m < n /\ IsDestroy(s[m], h)
      BY <1>1, <2>2, <2>3 DEF FreeBefore
    <3>2. PICK i \in DOMAIN t : m = i + 1 /\ t[i] = s[m] /\ i \in Nat /\ j \in Nat
      BY <1>1, <3>1 DEF Follows
    <3> QED BY <2>1, <3>1, <3>2
  <2>4. \A i \in DOMAIN t : \A h \in known :
          i < j /\ IsCreate(t[i], h) /\ t[i].parent = p =>
            \E k \in DOMAIN t : i < k /\ k < j /\ IsDestroy(t[k], h)
    BY <2>1, <2>2, TakenCreations
  <2> QED BY <2>3, <2>4 DEF FreeBefore
<1> QED BY <1>2, <1>4, <1>8, <1>9 DEF TreeOf, LinkOf

----------------------------------------------------------------------------
(* The steps of the guest. *)

LEMMA GuestKeepsTree ==
  ASSUME TypeOK, TreeInv, LinkInv, GuestDoes
  PROVE  TreeInv' /\ LinkInv'
<1>1. PICK s : Sends(s) /\ (Grows(s) \/ Shrinks(s))
  BY DEF GuestDoes
<1>2. Extends(cmds, s, cmds') /\ host' = host
  <2>1. cmds \in Seq(Commands) /\ s \in Seq(Commands) /\ cmds' = cmds \o s /\ host' = host
    BY <1>1 DEF Sends, Tell, TypeOK, hosts
  <2> QED BY <2>1, ExtendsIs
<1>3. DOMAIN win \subseteq Known /\ DOMAIN host \subseteq Known /\ NoWindow \notin Known
  BY KnownAre DEF TypeOK, NoWindow
<1>4. CASE Grows(s)
  <2>1. Known \subseteq Known'
    <3>1. next \in Int /\ \E n \in Int : next <= n /\ next' = n
      BY <1>4, RanksAre DEF TypeOK, Grows
    <3> QED BY <3>1, KnownGrows
  <2>2. DOMAIN win' \subseteq Known'
    BY DEF GuestDoes, GuestTypes, Typed
  <2>3. next \notin Known
    <3>1. next \in Int
      BY RanksAre DEF TypeOK
    <3> QED BY <3>1 DEF Known
  <2>4. \A h \in DOMAIN win' : win'[h].parent < h
    BY DEF GuestDoes, GuestTypes, Typed
  <2>4a. GrowsTo(win, Known, win', Known', s)
    BY <1>3, <1>4, <2>1, <2>2, <2>3, <2>4 DEF Grows, GrowsTo
  <2>5. TreeOf(win', Known', host, cmds')
    BY <1>2, <1>3, <2>4a, GrownTree DEF TreeInv
  <2>6. LinkOf(Known', host, cmds')
    BY <1>2, <2>4a, GrownLinks DEF TreeInv, LinkInv
  <2> QED BY <1>2, <2>5, <2>6 DEF TreeInv, LinkInv
<1>5. CASE Shrinks(s)
  <2>1. Known' = Known
    BY <1>5 DEF Shrinks, Known
  <2>2. ShrinksTo(win, win', s)
    BY <1>5 DEF Shrinks, ShrinksTo
  <2>3. TreeOf(win', Known, host, cmds')
    BY <1>2, <1>3, <2>2, ShrunkTree DEF TreeInv
  <2>4. LinkOf(Known, host, cmds')
    BY <1>2, <1>3, <2>2, ShrunkLinks DEF TreeInv, LinkInv
  <2> QED BY <1>2, <2>1, <2>3, <2>4 DEF TreeInv, LinkInv
<1> QED BY <1>1, <1>4, <1>5

LEMMA GuestKeepsWake ==
  ASSUME TypeOK, WakeInv, GuestDoes
  PROVE  WakeInv'
<1>1. PICK s : Sends(s)
  BY DEF GuestDoes
<1>2. /\ Extends(cmds, s, cmds') /\ cmds' = cmds \o s
      /\ wake' = IF s = <<>> THEN wake ELSE Woken
      /\ ui' = ui /\ dialog' = dialog /\ over = "no"
      /\ boxed' => boxed \/ \E i \in DOMAIN s : s[i].op = "box"
      /\ cmds \in Seq(Commands) /\ s \in Seq(Commands)
  <2>1. cmds \in Seq(Commands) /\ s \in Seq(Commands)
    BY <1>1 DEF Sends, TypeOK
  <2>2. Extends(cmds, s, cmds \o s)
    BY <2>1, ExtendsIs
  <2> QED BY <1>1, <2>1, <2>2 DEF Sends, Tell
<1>3. wake.pending /\ ui # "woken" => wake.event
  BY DEF WakeInv
<1>4. wake'.pending /\ ui' # "woken" => wake'.event
  BY <1>2, <1>3 DEF Woken
<1>5. (cmds # <<>> /\ ui = "asleep" => wake.event)
      /\ (boxed => dialog # "none" \/ \E i \in DOMAIN cmds : cmds[i].op = "box")
  BY <1>2 DEF WakeInv, NoCommandStranded
<1>6. cmds' # <<>> /\ ui' = "asleep" => wake'.event
  <2>1. CASE s = <<>>
    BY <1>2, <1>5, <2>1
  <2>2. CASE s # <<>>
    BY <1>2, <1>3, <2>2 DEF Woken
  <2> QED BY <2>1, <2>2
<1>7. boxed' => dialog' # "none" \/ \E i \in DOMAIN cmds' : cmds'[i].op = "box"
  <2>1. CASE boxed
    <3>1. CASE dialog # "none"
      BY <1>2, <3>1
    <3>2. CASE dialog = "none"
      <4>1. PICK i \in DOMAIN cmds : cmds[i].op = "box"
        BY <1>5, <2>1, <3>2
      <4>2. i \in DOMAIN cmds' /\ cmds'[i] = cmds[i]
        BY <1>2 DEF Extends
      <4> QED BY <4>1, <4>2
    <3> QED BY <3>1, <3>2
  <2>2. CASE ~boxed /\ boxed'
    <3>1. PICK i \in DOMAIN s : s[i].op = "box"
      BY <1>2, <2>2
    <3>2. PICK m \in DOMAIN cmds' : cmds'[m] = s[i]
      BY <1>2 DEF Extends
    <3> QED BY <3>1, <3>2
  <2> QED BY <2>1, <2>2
<1> QED BY <1>4, <1>6, <1>7 DEF WakeInv, NoCommandStranded

----------------------------------------------------------------------------
(* The steps of the UI thread and of the user. *)

\* The windows and the host windows stay, up to where they are and whether they are seen.
LEMMA TreeStays ==
  ASSUME NEW w, NEW now, SameTree(w, now), NEW known, NEW hs, NEW hsNow, SameHosts(hs, hsNow),
         NEW s, TreeOf(w, known, hs, s), LinkOf(known, hs, s)
  PROVE  TreeOf(now, known, hsNow, s) /\ LinkOf(known, hsNow, s)
<1>1. \A i \in DOMAIN s : CommandFits(now, known, s, i)
  BY DEF TreeOf, SameTree, CommandFits
<1>2. \A h \in DOMAIN hsNow : HostFits(now, hsNow, s, h)
  BY DEF TreeOf, SameTree, SameHosts, HostFits
<1>3. \A h \in DOMAIN now : now[h].parent \in DOMAIN now \cup {NoWindow}
  BY DEF TreeOf, SameTree
<1>4. LinksLive(hsNow)
  BY DEF LinkOf, LinksLive, SameHosts
<1>5. \A j \in DOMAIN s : \A p \in known :
        FreeBefore(known, hs, s, j, p) => FreeBefore(known, hsNow, s, j, p)
  BY DEF FreeBefore, SameHosts
<1> QED BY <1>1, <1>2, <1>3, <1>4, <1>5 DEF TreeOf, LinkOf

Stays == UNCHANGED <<next, cmds>> /\ SameTree(win, win') /\ SameHosts(host, host')

LEMMA StaysTree ==
  ASSUME TreeInv, LinkInv, Stays
  PROVE  TreeInv' /\ LinkInv'
<1>1. TreeOf(win', Known, host', cmds) /\ LinkOf(Known, host', cmds)
  BY TreeStays DEF TreeInv, LinkInv, Stays
<1>2. Known' = Known /\ cmds' = cmds
  BY DEF Stays, Known
<1> QED BY <1>1, <1>2 DEF TreeInv, LinkInv

LEMMA SameAre == ASSUME NEW f PROVE SameTree(f, f) /\ SameHosts(f, f)
BY DEF SameTree, SameHosts

LEMMA GuestStill ==
  ASSUME TypeOK, UNCHANGED <<guest, calls, untold>>
  PROVE  GuestTypes' /\ Known' = Known /\ win' = win /\ next' = next /\ boxed' = boxed
<1>1. UNCHANGED <<win, next, making, main, mainSeen, boxed, calls, untold>>
  BY DEF guest
<1>2. GuestTypes
  BY TypesAre
<1> QED BY <1>1, <1>2 DEF GuestTypes, Known

LEMMA UIWakesHolds == ASSUME TreeHolds, UIWakes PROVE TreeHolds'
<1>1. TypeOK /\ GuestTypes' /\ win' = win /\ next' = next /\ boxed' = boxed /\ Known' = Known
  BY GuestStill DEF TreeHolds, UIWakes
<1>2. HostTypes /\ ChannelTypes
  BY <1>1, TypesAre
<1>3. ChannelTypes' /\ HostTypes'
  BY <1>1, <1>2 DEF UIWakes, ChannelTypes, HostTypes, hosts
<1>4. Stays
  BY <1>1, SameAre DEF UIWakes, Stays, hosts
<1>5. TreeInv' /\ LinkInv'
  BY <1>4, StaysTree DEF TreeHolds
<1>6. WakeInv'
  BY <1>1 DEF TreeHolds, UIWakes, WakeInv, NoCommandStranded, hosts
<1> QED BY <1>1, <1>3, <1>5, <1>6, TypesAre, PTL DEF TreeHolds

LEMMA BeginDrainHolds == ASSUME TreeHolds, BeginDrain PROVE TreeHolds'
<1>1. TypeOK /\ GuestTypes' /\ win' = win /\ next' = next /\ boxed' = boxed /\ Known' = Known
  BY GuestStill DEF TreeHolds, BeginDrain
<1>2. HostTypes /\ ChannelTypes
  BY <1>1, TypesAre
<1>3. ChannelTypes' /\ HostTypes'
  BY <1>1, <1>2 DEF BeginDrain, ChannelTypes, HostTypes, hosts
<1>4. Stays
  BY <1>1, SameAre DEF BeginDrain, Stays, hosts
<1>5. TreeInv' /\ LinkInv'
  BY <1>4, StaysTree DEF TreeHolds
<1>6. WakeInv'
  BY <1>1, <1>2 DEF TreeHolds, BeginDrain, WakeInv, NoCommandStranded, hosts, ChannelTypes
<1> QED BY <1>1, <1>3, <1>5, <1>6, TypesAre, PTL DEF TreeHolds

LEMMA EndDrainHolds == ASSUME TreeHolds, EndDrain PROVE TreeHolds'
<1>1. TypeOK /\ GuestTypes /\ HostTypes /\ ChannelTypes
  BY TypesAre DEF TreeHolds
<1>2. UNCHANGED <<win, next, making, main, mainSeen, calls, hosts, cmds, wake, moved, untold>>
  BY DEF EndDrain
<1>3. GuestTypes' /\ Known' = Known
  BY <1>1, <1>2 DEF EndDrain, GuestTypes, Known
<1>4. ChannelTypes' /\ HostTypes'
  BY <1>1, <1>2, <1>3 DEF EndDrain, ChannelTypes, HostTypes, hosts
<1>5. Stays
  BY <1>2, SameAre DEF Stays, hosts
<1>6. TreeInv' /\ LinkInv'
  BY <1>5, StaysTree DEF TreeHolds
<1>7. WakeInv'
  BY <1>1, <1>2 DEF TreeHolds, EndDrain, WakeInv, NoCommandStranded, hosts, UIRuns
<1> QED BY <1>3, <1>4, <1>6, <1>7, TypesAre, PTL DEF TreeHolds

LEMMA CloseRequestedHolds ==
  ASSUME TreeHolds, NEW h \in DOMAIN host, CloseRequested(h) PROVE TreeHolds'
<1>1. TypeOK /\ GuestTypes' /\ win' = win /\ next' = next /\ boxed' = boxed /\ Known' = Known
  BY GuestStill DEF TreeHolds, CloseRequested
<1>2. HostTypes /\ ChannelTypes
  BY <1>1, TypesAre
<1>3. ChannelTypes' /\ HostTypes'
  BY <1>1, <1>2 DEF CloseRequested, ChannelTypes, HostTypes
<1>4. Stays
  BY <1>1, SameAre DEF CloseRequested, Stays
<1>5. TreeInv' /\ LinkInv'
  BY <1>4, StaysTree DEF TreeHolds
<1>6. WakeInv'
  BY <1>1 DEF TreeHolds, CloseRequested, WakeInv, NoCommandStranded, UIRuns
<1> QED BY <1>1, <1>3, <1>5, <1>6, TypesAre, PTL DEF TreeHolds

LEMMA MainRenderedHolds == ASSUME TreeHolds, MainRendered PROVE TreeHolds'
<1>1. TypeOK /\ GuestTypes' /\ win' = win /\ next' = next /\ boxed' = boxed /\ Known' = Known
  BY GuestStill DEF TreeHolds, MainRendered
<1>2. HostTypes /\ ChannelTypes
  BY <1>1, TypesAre
<1>3. SameHosts(host, host')
  BY <1>2 DEF MainRendered, SameHosts, HostTypes
<1>4. \A h \in DOMAIN host' :
        host'[h] \in [visible : BOOLEAN, pos : Places, link : Handles] /\ host'[h].link < h
  BY <1>2 DEF MainRendered, HostTypes
<1>5. ChannelTypes' /\ HostTypes'
  BY <1>1, <1>2, <1>3, <1>4 DEF MainRendered, ChannelTypes, HostTypes, SameHosts
<1>6. Stays
  BY <1>1, <1>3, SameAre DEF MainRendered, Stays
<1>7. TreeInv' /\ LinkInv'
  BY <1>6, StaysTree DEF TreeHolds
<1>8. WakeInv'
  BY <1>1 DEF TreeHolds, MainRendered, WakeInv, NoCommandStranded
<1> QED BY <1>1, <1>5, <1>7, <1>8, TypesAre, PTL DEF TreeHolds

LEMMA AnswerBoxHolds == ASSUME TreeHolds, AnswerBox PROVE TreeHolds'
<1>1. TypeOK /\ GuestTypes' /\ win' = win /\ next' = next /\ boxed' = boxed /\ Known' = Known
  BY GuestStill DEF TreeHolds, AnswerBox
<1>2. HostTypes /\ ChannelTypes
  BY <1>1, TypesAre
<1>3. ChannelTypes' /\ HostTypes'
  BY <1>1, <1>2 DEF AnswerBox, Woken, ChannelTypes, HostTypes, hosts
<1>4. Stays
  BY <1>1, SameAre DEF AnswerBox, Stays, hosts
<1>5. TreeInv' /\ LinkInv'
  BY <1>4, StaysTree DEF TreeHolds
<1>6. WakeInv'
  BY <1>1 DEF TreeHolds, AnswerBox, Woken, WakeInv, NoCommandStranded, hosts, UIRuns
<1> QED BY <1>1, <1>3, <1>5, <1>6, TypesAre, PTL DEF TreeHolds

\* A host window goes somewhere, and an event says so.
LEMMA HostMoved ==
  ASSUME TypeOK, HostTypes, NEW h \in DOMAIN host, NEW pos \in Places, HostMoves(h, pos)
  PROVE  /\ SameHosts(host, host') /\ moved' \in Seq([hwnd : Handles, pos : Places])
         /\ \A x \in DOMAIN host' :
              host'[x] \in [visible : BOOLEAN, pos : Places, link : Handles] /\ host'[x].link < x
<1>1. SameHosts(host, host')
  BY DEF HostMoves, SameHosts, HostTypes
<1>2. \A x \in DOMAIN host' :
        host'[x] \in [visible : BOOLEAN, pos : Places, link : Handles] /\ host'[x].link < x
  BY DEF HostMoves, HostTypes
<1>3. h \in Handles
  BY KnownAre DEF HostTypes
<1>4. moved' \in Seq([hwnd : Handles, pos : Places])
  <2> DEFINE Events == [hwnd : Handles, pos : Places]
             event  == [hwnd |-> h, pos |-> pos]
  <2>1. moved \in Seq(Events) /\ event \in Events
    BY <1>3 DEF HostTypes
  <2>2. moved' = moved \/ moved' = Append(moved, event)
    BY DEF HostMoves
  <2> HIDE DEF Events, event
  <2>3. moved' \in Seq(Events)
    BY <2>1, <2>2
  <2> QED BY <2>3 DEF Events
<1> QED BY <1>1, <1>2, <1>4

LEMMA DragHolds ==
  ASSUME TreeHolds, NEW h \in DOMAIN host, NEW pos \in Places, Drag(h, pos)
  PROVE  TreeHolds'
<1>1. TypeOK /\ GuestTypes /\ HostTypes /\ ChannelTypes
  BY TypesAre DEF TreeHolds
<1>2. /\ UNCHANGED <<win, next, making, main, mainSeen, boxed, untold>>
      /\ UNCHANGED <<uiMain, uiSeen, forced, over, cmds, wake, ui, dialog>>
      /\ calls' \in 0 .. MaxCalls
  BY <1>1, WindowTreeAssumption DEF Drag, guest, GuestTypes
<1>3. GuestTypes' /\ Known' = Known
  BY <1>1, <1>2 DEF GuestTypes, Known
<1>4. /\ SameHosts(host, host') /\ moved' \in Seq([hwnd : Handles, pos : Places])
      /\ \A x \in DOMAIN host' :
           host'[x] \in [visible : BOOLEAN, pos : Places, link : Handles] /\ host'[x].link < x
  BY <1>1, HostMoved DEF Drag, TreeHolds
<1>5. ChannelTypes' /\ HostTypes'
  BY <1>1, <1>2, <1>3, <1>4 DEF ChannelTypes, HostTypes, SameHosts
<1>6. Stays
  BY <1>2, <1>4, SameAre DEF Stays
<1>7. TreeInv' /\ LinkInv'
  BY <1>6, StaysTree DEF TreeHolds
<1>8. WakeInv'
  BY <1>2 DEF TreeHolds, WakeInv, NoCommandStranded
<1> QED BY <1>3, <1>5, <1>7, <1>8, TypesAre, PTL DEF TreeHolds

LEMMA MovedHolds == ASSUME TreeHolds, Moved PROVE TreeHolds'
<1>1. TypeOK /\ GuestTypes /\ HostTypes /\ ChannelTypes
  BY TypesAre DEF TreeHolds
<1>2. UNCHANGED <<next, making, main, mainSeen, boxed, calls, hosts, cmds, wake, dialog, untold>>
  BY DEF Moved
<1>3. Head(moved).pos \in Places /\ moved' \in Seq([hwnd : Handles, pos : Places])
  <2>1. moved \in Seq([hwnd : Handles, pos : Places]) /\ moved # <<>> /\ moved' = Tail(moved)
    BY <1>1 DEF Moved, HostTypes
  <2> DEFINE Events == [hwnd : Handles, pos : Places]
  <2>2. Follows(moved, Tail(moved)) /\ Head(moved) = moved[1] /\ Tail(moved) \in Seq(Events)
    BY <2>1, FollowsIs
  <2>3. moved[1] \in Events
    <3> HIDE DEF Events
    <3>1. moved \in Seq(Events)
      BY <2>1 DEF Events
    <3> QED BY <2>2, <3>1 DEF Follows
  <2> QED BY <2>1, <2>2, <2>3
<1>4. Typed(win', Known) /\ SameTree(win, win')
  <2>1. Typed(win, Known)
    BY <1>1 DEF GuestTypes
  <2>2. win' = win \/ \E h \in DOMAIN win : win' = [win EXCEPT ![h].pos = Head(moved).pos]
    BY DEF Moved
  <2> QED BY <1>3, <2>1, <2>2 DEF Typed, SameTree, Window
<1>5. GuestTypes' /\ Known' = Known
  BY <1>1, <1>2, <1>4 DEF GuestTypes, Known
<1>6. ChannelTypes' /\ HostTypes'
  BY <1>1, <1>2, <1>3, <1>5 DEF Moved, ChannelTypes, HostTypes, hosts
<1>7. Stays
  BY <1>2, <1>4, SameAre DEF Stays, hosts
<1>8. TreeInv' /\ LinkInv'
  BY <1>7, StaysTree DEF TreeHolds
<1>9. WakeInv'
  BY <1>2 DEF TreeHolds, Moved, WakeInv, NoCommandStranded, hosts
<1> QED BY <1>5, <1>6, <1>8, <1>9, TypesAre, PTL DEF TreeHolds

\* The command that is taken, and what waiting for a box means afterwards.
LEMMA TakeIs ==
  ASSUME TreeHolds, NEW op, Take(op)
  PROVE  /\ Follows(cmds, cmds') /\ cmds[1] = Head(cmds) /\ cmds[1] \in Commands
         /\ cmds[1].op = op /\ cmds' \in Seq(Commands) /\ ui = "draining" /\ over = "no"
<1>1. cmds \in Seq(Commands) /\ cmds # <<>> /\ cmds' = Tail(cmds) /\ Head(cmds).op = op
      /\ ui = "draining" /\ over = "no"
  BY DEF Take, TreeHolds, TypeOK, UIRuns
<1>2. Follows(cmds, cmds') /\ Head(cmds) = cmds[1] /\ cmds' \in Seq(Commands)
  BY <1>1, FollowsIs
<1>3. cmds[1] \in Commands
  BY <1>1, <1>2
<1> QED BY <1>1, <1>2, <1>3

LEMMA TakeKeepsWake ==
  ASSUME TreeHolds, NEW op, Take(op), UNCHANGED <<wake, ui, boxed>>,
         (op = "box" /\ dialog' = "open") \/ (op # "box" /\ dialog' = dialog)
  PROVE  WakeInv'
<1>1. /\ Follows(cmds, cmds') /\ cmds[1].op = op /\ ui = "draining" /\ over = "no"
  BY TakeIs
<1>2. wake.pending /\ ui # "woken" => wake.event
  BY DEF TreeHolds, WakeInv
<1>3. boxed => dialog # "none" \/ \E i \in DOMAIN cmds : cmds[i].op = "box"
  BY <1>1 DEF TreeHolds, WakeInv, NoCommandStranded
<1>4. ASSUME boxed, dialog' = "none"
      PROVE  \E i \in DOMAIN cmds' : cmds'[i].op = "box"
  <2>1. op # "box" /\ dialog = "none"
    BY <1>4
  <2>2. PICK i \in DOMAIN cmds : cmds[i].op = "box"
    BY <1>3, <1>4, <2>1
  <2>3. i # 1
    BY <1>1, <2>1, <2>2
  <2> QED BY <1>1, <2>2, <2>3 DEF Follows
<1> QED BY <1>1, <1>2, <1>4 DEF WakeInv, NoCommandStranded

LEMMA DoBoxHolds == ASSUME TreeHolds, DoBox PROVE TreeHolds'
<1>1. TypeOK /\ GuestTypes' /\ win' = win /\ next' = next /\ boxed' = boxed /\ Known' = Known
  BY GuestStill DEF TreeHolds, DoBox
<1>2. HostTypes /\ ChannelTypes /\ host' = host
  BY <1>1, TypesAre DEF DoBox, hosts
<1>3. /\ Follows(cmds, cmds') /\ cmds[1].op = "box" /\ cmds' \in Seq(Commands)
  BY TakeIs DEF DoBox
<1>4. ChannelTypes' /\ HostTypes'
  BY <1>1, <1>2, <1>3 DEF DoBox, ChannelTypes, HostTypes, hosts
<1>5. TreeInv' /\ LinkInv'
  BY <1>1, <1>2, <1>3, MildTaken, SameAre DEF TreeHolds, TreeInv, LinkInv
<1>6. WakeInv'
  BY <1>1, TakeKeepsWake DEF DoBox
<1> QED BY <1>1, <1>4, <1>5, <1>6, TypesAre, PTL DEF TreeHolds

LEMMA DoShowHolds == ASSUME TreeHolds, DoShow PROVE TreeHolds'
<1>1. TypeOK /\ GuestTypes' /\ win' = win /\ next' = next /\ boxed' = boxed /\ Known' = Known
  BY GuestStill DEF TreeHolds, DoShow
<1>2. HostTypes /\ ChannelTypes
  BY <1>1, TypesAre
<1>3. /\ Follows(cmds, cmds') /\ cmds[1].op = "show" /\ cmds' \in Seq(Commands)
      /\ cmds[1] = Head(cmds) /\ cmds[1] \in Commands
  BY TakeIs DEF DoShow
<1>4. cmds[1].visible \in BOOLEAN
  BY <1>3 DEF Commands, BoxCmd
<1>5. /\ host' = host \/ \E h \in DOMAIN host : host' = [host EXCEPT ![h].visible = cmds[1].visible]
      /\ forced' \in BOOLEAN
      /\ UNCHANGED <<uiMain, uiSeen, over, wake, ui, moved, dialog>>
  BY <1>2, <1>3 DEF DoShow, HostTypes
<1>6. /\ SameHosts(host, host')
      /\ \A h \in DOMAIN host' :
           host'[h] \in [visible : BOOLEAN, pos : Places, link : Handles] /\ host'[h].link < h
  BY <1>2, <1>4, <1>5, SameAre DEF SameHosts, HostTypes
<1>7. ChannelTypes' /\ HostTypes'
  BY <1>1, <1>2, <1>3, <1>5, <1>6 DEF ChannelTypes, HostTypes, SameHosts
<1>8. TreeInv' /\ LinkInv'
  BY <1>1, <1>3, <1>6, MildTaken DEF TreeHolds, TreeInv, LinkInv
<1>9. WakeInv'
  BY <1>1, <1>5, TakeKeepsWake DEF DoShow
<1> QED BY <1>1, <1>7, <1>8, <1>9, TypesAre, PTL DEF TreeHolds

LEMMA DoMoveHolds == ASSUME TreeHolds, DoMove PROVE TreeHolds'
<1>1. TypeOK /\ GuestTypes' /\ win' = win /\ next' = next /\ boxed' = boxed /\ Known' = Known
  BY GuestStill DEF TreeHolds, DoMove
<1>2. HostTypes /\ ChannelTypes
  BY <1>1, TypesAre
<1>3. /\ Follows(cmds, cmds') /\ cmds[1].op = "move" /\ cmds' \in Seq(Commands)
      /\ cmds[1] = Head(cmds) /\ cmds[1] \in Commands
  BY TakeIs DEF DoMove
<1>4. cmds[1].pos \in Places
  BY <1>3 DEF Commands, BoxCmd
<1>5. UNCHANGED <<uiMain, uiSeen, forced, over, wake, ui, dialog>>
  BY DEF DoMove
<1>6. /\ SameHosts(host, host') /\ moved' \in Seq([hwnd : Handles, pos : Places])
      /\ \A x \in DOMAIN host' :
           host'[x] \in [visible : BOOLEAN, pos : Places, link : Handles] /\ host'[x].link < x
  <2>1. CASE cmds[1].hwnd \in DOMAIN host
    <3>1. HostMoves(cmds[1].hwnd, cmds[1].pos)
      BY <1>3, <2>1 DEF DoMove
    <3> QED BY <1>1, <1>2, <1>4, <2>1, <3>1, HostMoved
  <2>2. CASE cmds[1].hwnd \notin DOMAIN host
    <3>1. host' = host /\ moved' = moved
      BY <1>3, <2>2 DEF DoMove
    <3> QED BY <1>2, <3>1, SameAre DEF HostTypes
  <2> QED BY <2>1, <2>2
<1>7. ChannelTypes' /\ HostTypes'
  BY <1>1, <1>2, <1>3, <1>5, <1>6 DEF ChannelTypes, HostTypes, SameHosts
<1>8. TreeInv' /\ LinkInv'
  BY <1>1, <1>3, <1>6, MildTaken DEF TreeHolds, TreeInv, LinkInv
<1>9. WakeInv'
  BY <1>1, <1>5, TakeKeepsWake DEF DoMove
<1> QED BY <1>1, <1>7, <1>8, <1>9, TypesAre, PTL DEF TreeHolds

LEMMA DoCreateHolds == ASSUME TreeHolds, DoCreate PROVE TreeHolds'
<1> DEFINE c == cmds[1]
<1>1. TypeOK /\ GuestTypes' /\ win' = win /\ next' = next /\ boxed' = boxed /\ Known' = Known
  BY GuestStill DEF TreeHolds, DoCreate
<1>2. HostTypes /\ ChannelTypes /\ Known \subseteq Handles /\ NoWindow \notin Known
  BY <1>1, TypesAre, KnownAre DEF NoWindow
<1>3. /\ Follows(cmds, cmds') /\ c.op = "create" /\ cmds' \in Seq(Commands)
      /\ c = Head(cmds) /\ c \in Commands
  BY TakeIs DEF DoCreate
<1>4. /\ c.hwnd \in Handles /\ c.parent \in Handles /\ c.child \in BOOLEAN /\ c.visible \in BOOLEAN
      /\ c.pos \in Places
  BY <1>3 DEF Commands, BoxCmd
<1>5. 1 \in DOMAIN cmds /\ CommandFits(win, Known, cmds, 1)
  BY <1>3 DEF Follows, TreeHolds, TreeInv, TreeOf
<1>6. c.hwnd \in Known /\ c.hwnd \in Nat /\ c.hwnd > 0
  BY <1>3, <1>5 DEF CommandFits, Known
<1>7. /\ host' = [h \in DOMAIN host \cup {c.hwnd} |->
                    IF h # c.hwnd THEN host[h]
                    ELSE [visible |-> c.parent = NoWindow \/ c.visible, pos |-> c.pos, link |-> Link(c)]]
      /\ uiMain' \in {uiMain, c.hwnd} /\ uiSeen' \in BOOLEAN /\ forced' \in BOOLEAN
      /\ UNCHANGED <<over, wake, ui, moved, dialog>>
  BY <1>2, <1>3 DEF DoCreate, HostTypes
<1> HIDE DEF c
<1>8. /\ DOMAIN host' = DOMAIN host \cup {c.hwnd}
      /\ \A h \in DOMAIN host : h # c.hwnd => host'[h] = host[h]
      /\ host'[c.hwnd] = [visible |-> c.parent = NoWindow \/ c.visible, pos |-> c.pos, link |-> Link(c)]
  BY <1>7
<1>9. MadeBy(host, host', c)
  BY <1>8 DEF MadeBy, Link
<1>10. Link(c) \in Handles /\ Link(c) < c.hwnd
  <2>1. CASE c.parent \in DOMAIN host
    <3>1. c.parent < c.hwnd
      BY <1>3, <1>5 DEF CommandFits, c
    <3> QED BY <1>4, <2>1, <3>1 DEF Link
  <2>2. CASE c.parent \notin DOMAIN host
    BY <1>6, <2>2, RanksAre DEF Link, NoWindow, Handles
  <2> QED BY <2>1, <2>2
<1>11. (c.parent = NoWindow \/ c.visible) \in BOOLEAN
  BY <1>4
<1>12. host'[c.hwnd] \in [visible : BOOLEAN, pos : Places, link : Handles]
       /\ host'[c.hwnd].link < c.hwnd
  BY <1>4, <1>8, <1>10, <1>11
<1>13. ChannelTypes' /\ HostTypes'
  BY <1>1, <1>2, <1>3, <1>6, <1>7, <1>8, <1>12 DEF ChannelTypes, HostTypes
<1>14. TreeInv' /\ LinkInv'
  BY <1>1, <1>2, <1>3, <1>9, CreateTaken DEF TreeHolds, TreeInv, LinkInv, c
<1>15. WakeInv'
  BY <1>1, <1>7, TakeKeepsWake DEF DoCreate
<1> QED BY <1>1, <1>13, <1>14, <1>15, TypesAre, PTL DEF TreeHolds

LEMMA DoDestroyHolds == ASSUME TreeHolds, DoDestroy PROVE TreeHolds'
<1> DEFINE x == cmds[1].hwnd
<1>1. TypeOK /\ GuestTypes' /\ win' = win /\ next' = next /\ boxed' = boxed /\ Known' = Known
  BY GuestStill DEF TreeHolds, DoDestroy
<1>2. HostTypes /\ ChannelTypes
  BY <1>1, TypesAre
<1>3. /\ Follows(cmds, cmds') /\ cmds[1].op = "destroy" /\ cmds' \in Seq(Commands)
      /\ cmds[1] = Head(cmds)
  BY TakeIs DEF DoDestroy
<1>4. /\ host' = [h \in DOMAIN host \ {x} |-> host[h]]
      /\ uiMain' = IF uiMain = x THEN NoWindow ELSE uiMain
      /\ forced' \in BOOLEAN /\ over' \in {over, "destroyed"}
      /\ UNCHANGED <<uiSeen, wake, ui, moved, dialog>>
  BY <1>2, <1>3 DEF DoDestroy, HostTypes
<1>5. ChannelTypes' /\ HostTypes'
  BY <1>1, <1>2, <1>3, <1>4 DEF ChannelTypes, HostTypes
<1>6. TreeInv' /\ LinkInv'
  BY <1>1, <1>3, <1>4, DestroyTaken DEF TreeHolds, TreeInv, LinkInv
<1>7. WakeInv'
  BY <1>1, <1>4, TakeKeepsWake DEF DoDestroy
<1> QED BY <1>1, <1>5, <1>6, <1>7, TypesAre, PTL DEF TreeHolds

----------------------------------------------------------------------------
(* The invariant holds, and what it means. *)

LEMMA TreeStarts == ASSUME Init PROVE TreeHolds
<1>1. GuestTypes
  <2>1. next \in 1 .. MaxHwnd + 1 /\ 0 \in 0 .. MaxCalls /\ 0 <= MaxDepth
    BY WindowTreeAssumption DEF Init
  <2>2. making \in Seq(Known) /\ Len(making) = 0
    BY DEF Init
  <2>3. Typed(win, Known)
    BY DEF Init, Typed
  <2> QED BY <2>1, <2>2, <2>3 DEF Init, GuestTypes, NoWindow
<1>2. DOMAIN host = {} /\ DOMAIN cmds = {} /\ DOMAIN win = {}
  BY DEF Init
<1>3. HostTypes /\ ChannelTypes
  <2>1. moved \in Seq([hwnd : Handles, pos : Places]) /\ cmds \in Seq(Commands)
    BY DEF Init
  <2> QED BY <1>2, <2>1 DEF Init, HostTypes, ChannelTypes, NoWindow
<1>4. TreeInv /\ LinkInv
  BY <1>2 DEF TreeInv, LinkInv, TreeOf, LinkOf, LinksLive
<1>5. WakeInv
  BY DEF Init, WakeInv, NoCommandStranded
<1> QED BY <1>1, <1>3, <1>4, <1>5, TypesAre DEF TreeHolds

LEMMA TreeSteps == ASSUME TreeHolds, Next PROVE TreeHolds'
<1>1. CASE GuestStep
  <2>1. GuestDoes
    BY <1>1, GuestStepDoes DEF TreeHolds
  <2>2. TypeOK'
    BY <2>1, GuestTyped DEF TreeHolds
  <2>3. TreeInv' /\ LinkInv'
    BY <2>1, GuestKeepsTree DEF TreeHolds
  <2>4. WakeInv'
    BY <2>1, GuestKeepsWake DEF TreeHolds
  <2> QED BY <2>2, <2>3, <2>4 DEF TreeHolds
<1>2. CASE UIStep
  BY <1>2, UIWakesHolds, BeginDrainHolds, EndDrainHolds, DoCreateHolds, DoDestroyHolds, DoShowHolds,
     DoMoveHolds, DoBoxHolds, MovedHolds, MainRenderedHolds, CloseRequestedHolds DEF UIStep
<1>3. CASE UserStep
  BY <1>3, AnswerBoxHolds, DragHolds DEF UserStep
<1> QED BY <1>1, <1>2, <1>3 DEF Next

LEMMA TreeStutters == ASSUME TreeHolds, UNCHANGED vars PROVE TreeHolds'
<1>1. /\ UNCHANGED <<win, next, making, main, mainSeen, boxed, calls, untold>>
      /\ UNCHANGED <<host, uiMain, uiSeen, forced, over, cmds, wake, ui, moved, dialog>>
  BY DEF vars, guest, hosts
<1>2. TypeOK'
  BY <1>1 DEF TreeHolds, TypeOK, Known
<1>3. TreeInv' /\ LinkInv'
  <2>1. Known' = Known
    BY <1>1 DEF Known
  <2> QED BY <1>1, <2>1 DEF TreeHolds, TreeInv, LinkInv
<1>4. WakeInv'
  BY <1>1 DEF TreeHolds, WakeInv, NoCommandStranded
<1> QED BY <1>2, <1>3, <1>4 DEF TreeHolds

\* The inductive invariant of the window tree: the types, the windows with the commands under
\* way, the order in which host windows are destroyed, and the event that wakes the UI thread.
THEOREM WindowTreeHolds == Spec => []TreeHolds
<1>1. TreeHolds /\ [Next]_vars => TreeHolds'
  BY TreeSteps, TreeStutters
<1> QED BY TreeStarts, <1>1, PTL DEF Spec

\* destroy_window goes over the subtree children first and the channel keeps the order: the raw
\* handle of the parent the host was given at creation never dangles, with any number of
\* windows, creations inside creations and commands under way.
THEOREM ParentsOutliveTheirHostWindows == Spec => []LinkedParentLives
<1>1. TreeHolds => LinkedParentLives
  BY DEF TreeHolds, LinkInv, LinkOf, LinksLive, LinkedParentLives
<1> QED BY <1>1, WindowTreeHolds, PTL

\* UI_WAKE_PENDING is cleared before the channel is read: the UI thread never goes to sleep on a
\* command, however commands, wake-ups, events and answers to message boxes interleave.
THEOREM EveryCommandWakes == Spec => []NoCommandStranded
<1>1. TreeHolds => NoCommandStranded
  BY DEF TreeHolds, WakeInv
<1> QED BY <1>1, WindowTreeHolds, PTL

\* set_window_pos puts a window where it is asked to and keeps the order of all its siblings,
\* for every tree and whatever numbers the siblings had.
THEOREM RestackingKeepsOrder == Spec => []RestackKeepsOrder
<1>1. TypeOK => RestackKeepsOrder
  <2> SUFFICES ASSUME TypeOK, NEW h \in DOMAIN win, NEW after \in DOMAIN win \cup {Top, Bottom}
               PROVE  KeepsOrder(win, h, after)
    BY DEF RestackKeepsOrder, KeepsOrder
  <2>1. Typed(win, Known) /\ Known \subseteq Handles /\ 0 \in Handles
    BY TypesAre, KnownAre DEF GuestTypes
  <2>2. Tree(win) /\ \A x \in DOMAIN win : win[x] \in Window
    BY <2>1, TypedTree DEF Windows, Typed
  <2>3. after \in Handles \cup {Bottom}
    BY <2>1 DEF Typed, Top
  <2> QED BY <2>2, <2>3, RestackOrder
<1>2. TreeHolds => TypeOK
  BY DEF TreeHolds
<1> QED BY <1>1, <1>2, WindowTreeHolds, PTL

----------------------------------------------------------------------------
(* What the host windows come to when the commands under way are carried out. *)

Placing == {"create", "move"}
Showing == {"create", "show"}
Making  == {"create"}

\* Commands of some kinds for a window: none, or the last of them.
About(c, ops, h)   == c.op \in ops /\ c.hwnd = h
Silent(s, ops, h)  == \A i \in DOMAIN s : ~About(s[i], ops, h)
Final(s, ops, h, i) == About(s[i], ops, h) /\ \A j \in DOMAIN s : i < j => ~About(s[j], ops, h)

\* What the host window is after the command; the host shows a window without a parent.
Seen(c) == IF c.op = "create" THEN c.parent = NoWindow \/ c.visible ELSE c.visible

PlacedBy(s, h, pos) == \E i \in DOMAIN s : Final(s, Placing, h, i) /\ s[i].pos = pos
ShownBy(s, h, v)    == \E i \in DOMAIN s : Final(s, Showing, h, i) /\ Seen(s[i]) = v

\* The moves reported of a window: none, or the last of them is to where it stands.
Quiet(ms, h)        == \A i \in DOMAIN ms : ms[i].hwnd # h
Reported(ms, h, pos) ==
  \E i \in DOMAIN ms : /\ ms[i].hwnd = h /\ ms[i].pos = pos
                       /\ \A j \in DOMAIN ms : i < j => ms[j].hwnd # h

Free(w, h) == ~(w[h].parent # NoWindow /\ w[h].child)

\* Where a window is and where the host has it, or will.
PlaceFits(w, hs, s, ms, h) ==
  IF Free(w, h)
  THEN /\ h \in DOMAIN hs => Quiet(ms, h) \/ Reported(ms, h, hs[h].pos)
       /\ \/ PlacedBy(s, h, w[h].pos)
          \/ h \in DOMAIN hs /\ (~Quiet(ms, h) \/ hs[h].pos = w[h].pos)
  ELSE \/ PlacedBy(s, h, w[h].pos)
       \/ h \in DOMAIN hs /\ Silent(s, Placing, h) /\ hs[h].pos = w[h].pos

\* Whether a window is to be seen, and whether the host shows it, or will.
ShowFits(w, hs, s, h) ==
  \/ ShownBy(s, h, Shown(w, h))
  \/ h \in DOMAIN hs /\ Silent(s, Showing, h) /\ hs[h].visible = Shown(w, h)

\* A window is created once, after its creation is over.
Once(s, h) ==
  \E i \in DOMAIN s : /\ About(s[i], Making, h)
                      /\ \A j \in DOMAIN s : About(s[j], Making, h) => j = i
CreateFits(hs, s, h) ==
  \/ h \in DOMAIN hs /\ Silent(s, Making, h)
  \/ h \notin DOMAIN hs /\ Once(s, h)

Distinct(mk) == \A i, j \in DOMAIN mk : mk[i] = mk[j] => i = j

\* The moves are of windows the host has or the guest has no more.
MovesFit(w, known, hs, ms) ==
  \A i \in DOMAIN ms :
    ms[i].hwnd \in known /\ (ms[i].hwnd \in DOMAIN w => ms[i].hwnd \in DOMAIN hs)

\* A window whose creation is over.
MadeFits(h) ==
  /\ CreateFits(host, cmds, h)
  /\ PlaceFits(win, host, cmds, moved, h)
  /\ h \notin untold \cup {uiMain} => ShowFits(win, host, cmds, h)

HostInv ==
  /\ Distinct(making)
  /\ \A h \in ToSet(making) : h \notin DOMAIN host /\ Silent(cmds, Making, h)
  /\ MovesFit(win, Known, host, moved)
  /\ \A h \in DOMAIN win \ ToSet(making) : MadeFits(h)

\* The last command on a window, when more are sent.
LEMMA SilentOn ==
  ASSUME NEW s, NEW new, NEW all, Extends(s, new, all), NEW ops, NEW h
  PROVE  Silent(all, ops, h) <=> Silent(s, ops, h) /\ Silent(new, ops, h)
BY DEF Silent, Extends

LEMMA FinalOn ==
  ASSUME NEW s, NEW new, NEW all, Extends(s, new, all), NEW ops, NEW h, Silent(new, ops, h),
         NEW i \in DOMAIN s, Final(s, ops, h, i)
  PROVE  i \in DOMAIN all /\ Final(all, ops, h, i) /\ all[i] = s[i]
<1>1. i \in DOMAIN all /\ all[i] = s[i]
  BY DEF Extends
<1>2. ASSUME NEW j \in DOMAIN all, i < j PROVE ~About(all[j], ops, h)
  <2>1. CASE j \in DOMAIN s
    BY <1>2, <2>1 DEF Final, Extends
  <2>2. CASE j \notin DOMAIN s
    <3>1. PICK k \in DOMAIN new : all[j] = new[k]
      BY <2>2 DEF Extends
    <3> QED BY <3>1 DEF Silent
  <2> QED BY <2>1, <2>2
<1> QED BY <1>1, <1>2 DEF Final

LEMMA FinalNew ==
  ASSUME NEW s, NEW new, NEW all, Extends(s, new, all), NEW ops, NEW h,
         NEW i \in DOMAIN new, Final(new, ops, h, i)
  PROVE  \E m \in DOMAIN all : Final(all, ops, h, m) /\ all[m] = new[i]
<1>1. PICK m \in DOMAIN all : m = Len(s) + i /\ all[m] = new[i]
  BY DEF Extends
<1>2. ASSUME NEW j \in DOMAIN all, m < j PROVE ~About(all[j], ops, h)
  <2>1. j \notin DOMAIN s
    BY <1>1, <1>2 DEF Extends
  <2>2. PICK k \in DOMAIN new : j = Len(s) + k /\ all[j] = new[k]
    BY <2>1 DEF Extends
  <2>3. i < k
    BY <1>1, <1>2, <2>2 DEF Extends
  <2> QED BY <2>2, <2>3 DEF Final
<1> QED BY <1>1, <1>2 DEF Final

LEMMA ByOn ==
  ASSUME NEW s, NEW new, NEW all, Extends(s, new, all), NEW h
  PROVE  /\ \A p : PlacedBy(s, h, p) /\ Silent(new, Placing, h) => PlacedBy(all, h, p)
         /\ \A v : ShownBy(s, h, v) /\ Silent(new, Showing, h) => ShownBy(all, h, v)
         /\ \A p : PlacedBy(new, h, p) => PlacedBy(all, h, p)
         /\ \A v : ShownBy(new, h, v) => ShownBy(all, h, v)
<1>1. ASSUME NEW p, PlacedBy(s, h, p), Silent(new, Placing, h) PROVE PlacedBy(all, h, p)
  BY <1>1, FinalOn DEF PlacedBy
<1>2. ASSUME NEW v, ShownBy(s, h, v), Silent(new, Showing, h) PROVE ShownBy(all, h, v)
  BY <1>2, FinalOn DEF ShownBy
<1>3. ASSUME NEW p, PlacedBy(new, h, p) PROVE PlacedBy(all, h, p)
  BY <1>3, FinalNew DEF PlacedBy
<1>4. ASSUME NEW v, ShownBy(new, h, v) PROVE ShownBy(all, h, v)
  BY <1>4, FinalNew DEF ShownBy
<1> QED BY <1>1, <1>2, <1>3, <1>4

\* A window of which there is a command has a last one.
LEMMA FinalExists ==
  ASSUME NEW S, NEW s \in Seq(S), NEW ops, NEW h, NEW k \in DOMAIN s, About(s[k], ops, h)
  PROVE  \E i \in DOMAIN s : Final(s, ops, h, i)
<1> DEFINE n == Len(s)
           T == {m \in 0 .. n : \E i \in DOMAIN s : m = n - i /\ About(s[i], ops, h)}
<1>1. n \in Nat /\ DOMAIN s = 1 .. n
  OBVIOUS
<1> HIDE DEF n
<1>2. T \in SUBSET Nat
  BY <1>1
<1>3. n - k \in T
  BY <1>1
<1> HIDE DEF T
<1>4. PICK m \in T : \A x \in T : m <= x
  BY <1>2, <1>3, Least
<1>5. PICK i \in DOMAIN s : m = n - i /\ About(s[i], ops, h)
  BY DEF T
<1>6. ASSUME NEW j \in DOMAIN s, i < j PROVE ~About(s[j], ops, h)
  <2>1. SUFFICES ASSUME About(s[j], ops, h) PROVE FALSE
    OBVIOUS
  <2>2. n - j \in T
    BY <1>1, <2>1 DEF T
  <2> QED BY <1>1, <1>4, <1>5, <1>6, <2>2
<1> QED BY <1>5, <1>6 DEF Final

\* The last command on a window, when the first command is taken.
LEMMA SilentNext ==
  ASSUME NEW s, NEW t, Follows(s, t), NEW ops, NEW h
  PROVE  Silent(s, ops, h) <=> ~About(s[1], ops, h) /\ Silent(t, ops, h)
<1>1. ASSUME Silent(s, ops, h) PROVE ~About(s[1], ops, h) /\ Silent(t, ops, h)
  BY <1>1 DEF Silent, Follows
<1>2. ASSUME ~About(s[1], ops, h), Silent(t, ops, h) PROVE Silent(s, ops, h)
  <2>1. ASSUME NEW m \in DOMAIN s, m # 1 PROVE ~About(s[m], ops, h)
    <3>1. PICK i \in DOMAIN t : t[i] = s[m]
      BY <2>1 DEF Follows
    <3> QED BY <1>2, <3>1 DEF Silent
  <2> QED BY <1>2, <2>1 DEF Silent
<1> QED BY <1>1, <1>2

LEMMA FinalNext ==
  ASSUME NEW s, NEW t, Follows(s, t), NEW ops, NEW h, NEW i \in DOMAIN s, Final(s, ops, h, i)
  PROVE  /\ i = 1 => About(s[1], ops, h) /\ Silent(t, ops, h)
         /\ i # 1 => \E k \in DOMAIN t : Final(t, ops, h, k) /\ t[k] = s[i]
<1>1. ASSUME i = 1, NEW k \in DOMAIN t PROVE ~About(t[k], ops, h)
  <2>1. PICK m \in DOMAIN s : m = k + 1 /\ t[k] = s[m] /\ k \in Nat /\ k > 0
    BY DEF Follows
  <2> QED BY <1>1, <2>1 DEF Final
<1>2. ASSUME i # 1 PROVE \E k \in DOMAIN t : Final(t, ops, h, k) /\ t[k] = s[i]
  <2>1. PICK k \in DOMAIN t : i = k + 1 /\ t[k] = s[i] /\ k \in Nat
    BY <1>2 DEF Follows
  <2>2. ASSUME NEW j \in DOMAIN t, k < j PROVE ~About(t[j], ops, h)
    <3>1. PICK m \in DOMAIN s : m = j + 1 /\ t[j] = s[m] /\ j \in Nat
      BY DEF Follows
    <3>2. i < m
      BY <2>1, <2>2, <3>1
    <3> QED BY <3>1, <3>2 DEF Final
  <2> QED BY <2>1, <2>2 DEF Final
<1> QED BY <1>1, <1>2 DEF Final, Silent

LEMMA ByNext ==
  ASSUME NEW s, NEW t, Follows(s, t), NEW h
  PROVE  /\ \A p : PlacedBy(s, h, p) =>
              \/ PlacedBy(t, h, p)
              \/ About(s[1], Placing, h) /\ s[1].pos = p /\ Silent(t, Placing, h)
         /\ \A v : ShownBy(s, h, v) =>
              \/ ShownBy(t, h, v)
              \/ About(s[1], Showing, h) /\ Seen(s[1]) = v /\ Silent(t, Showing, h)
<1>1. ASSUME NEW p, PlacedBy(s, h, p)
      PROVE  \/ PlacedBy(t, h, p)
             \/ About(s[1], Placing, h) /\ s[1].pos = p /\ Silent(t, Placing, h)
  BY <1>1, FinalNext DEF PlacedBy
<1>2. ASSUME NEW v, ShownBy(s, h, v)
      PROVE  \/ ShownBy(t, h, v)
             \/ About(s[1], Showing, h) /\ Seen(s[1]) = v /\ Silent(t, Showing, h)
  BY <1>2, FinalNext DEF ShownBy
<1> QED BY <1>1, <1>2

----------------------------------------------------------------------------
(* Visibility and subtrees when a part of the tree stays as it is. *)

LEMMA ShownSame ==
  ASSUME NEW w, Windows(w), NEW now, Windows(now),
         NEW D, D \subseteq DOMAIN w, D \subseteq DOMAIN now,
         \A x \in D : /\ now[x].parent = w[x].parent /\ now[x].child = w[x].child
                      /\ now[x].visible = w[x].visible
                      /\ w[x].parent \in D \cup {NoWindow}
  PROVE  \A x \in D : Shown(now, x) = Shown(w, x)
<1> DEFINE S == {x \in Handles : x \in D => Shown(now, x) = Shown(w, x)}
<1>1. ASSUME NEW h \in Handles, \A k \in Handles : Height[k] < Height[h] => k \in S
      PROVE  h \in S
  <2> SUFFICES ASSUME h \in D PROVE Shown(now, h) = Shown(w, h)
    OBVIOUS
  <2>1. /\ Shown(w, h) \in BOOLEAN /\ Shown(now, h) \in BOOLEAN
        /\ Shown(w, h) <=> w[h].visible /\ (InParent(w, h) => Shown(w, w[h].parent))
        /\ Shown(now, h) <=> now[h].visible /\ (InParent(now, h) => Shown(now, now[h].parent))
    BY ShownIs
  <2>2. InParent(now, h) <=> InParent(w, h)
    BY DEF InParent
  <2>3. InParent(w, h) => Shown(now, w[h].parent) = Shown(w, w[h].parent)
    <3> SUFFICES ASSUME InParent(w, h) PROVE Shown(now, w[h].parent) = Shown(w, w[h].parent)
      OBVIOUS
    <3>1. w[h].parent \in D /\ w[h].parent \in Handles /\ w[h].parent < h
      BY DEF InParent, Windows, Tree
    <3>2. Height[w[h].parent] < Height[h]
      BY <3>1, RanksAre
    <3> QED BY <1>1, <3>1, <3>2
  <2> QED BY <2>1, <2>2, <2>3
<1>2. Handles \subseteq S
  <2> HIDE DEF S
  <2>1. Height \in [Handles -> Nat]
    BY RanksAre
  <2> QED BY <1>1, <2>1, RankInduction
<1> QED BY <1>2 DEF Windows, Tree

LEMMA SubtreeIs ==
  ASSUME NEW w, Tree(w), NEW root \in Handles
  PROVE  /\ SubtreeOf(w, root) \subseteq DOMAIN w
         /\ \A x \in DOMAIN w : x \in SubtreeOf(w, root) <=>
              x = root \/ w[x].parent \in SubtreeOf(w, root)
BY PreorderIs DEF Family, SubtreeOf

LEMMA SubtreeSame ==
  ASSUME NEW w, Tree(w), NEW now, Tree(now), SameTree(w, now), NEW root \in Handles
  PROVE  SubtreeOf(now, root) = SubtreeOf(w, root)
<1> DEFINE S == {x \in Handles : x \in SubtreeOf(now, root) <=> x \in SubtreeOf(w, root)}
<1>1. /\ SubtreeOf(w, root) \subseteq DOMAIN w
      /\ \A x \in DOMAIN w : x \in SubtreeOf(w, root) <=>
           x = root \/ w[x].parent \in SubtreeOf(w, root)
  BY SubtreeIs
<1>2. /\ SubtreeOf(now, root) \subseteq DOMAIN w
      /\ \A x \in DOMAIN w : x \in SubtreeOf(now, root) <=>
           x = root \/ w[x].parent \in SubtreeOf(now, root)
  BY SubtreeIs DEF SameTree
<1>3. ASSUME NEW h \in Handles, \A k \in Handles : Height[k] < Height[h] => k \in S
      PROVE  h \in S
  <2>1. CASE h \in DOMAIN w
    <3>1. w[h].parent \in Handles /\ w[h].parent < h
      BY <2>1 DEF Tree
    <3>2. Height[w[h].parent] < Height[h]
      BY <3>1, RanksAre
    <3>3. w[h].parent \in SubtreeOf(now, root) <=> w[h].parent \in SubtreeOf(w, root)
      BY <1>3, <3>1, <3>2
    <3> QED BY <1>1, <1>2, <2>1, <3>3
  <2>2. CASE h \notin DOMAIN w
    BY <1>1, <1>2, <2>2
  <2> QED BY <2>1, <2>2
<1>4. Handles \subseteq S
  <2> HIDE DEF S
  <2>1. Height \in [Handles -> Nat]
    BY RanksAre
  <2> QED BY <1>3, <2>1, RankInduction
<1> QED BY <1>1, <1>2, <1>4 DEF Tree

----------------------------------------------------------------------------
(* A step of the guest: what it says of every window whose creation is or gets over. *)

\* A window was there and over before, or gets over now.
Continues(s, h) == h \in DOMAIN win \ ToSet(making) /\ Silent(s, Making, h)
Begins(s, h)    == (h \in ToSet(making) \/ h \notin Known) /\ Once(s, h)

SaysPlace(s, h) ==
  \/ PlacedBy(s, h, win'[h].pos)
  \/ /\ h \in DOMAIN win \ ToSet(making)
     /\ win'[h].pos = win[h].pos /\ Silent(s, Placing, h)

SaysShown(s, h) ==
  \/ ShownBy(s, h, Shown(win', h))
  \/ /\ h \in DOMAIN win \ ToSet(making) /\ h \notin untold
     /\ Shown(win', h) = Shown(win, h) /\ Silent(s, Showing, h)

GuestSays(s) ==
  /\ s \in Seq(Commands) /\ cmds' = cmds \o s /\ UNCHANGED <<host, uiMain, moved>>
  /\ Distinct(making')
  /\ \A h \in ToSet(making') : (h \in ToSet(making) \/ h \notin Known) /\ Silent(s, Making, h)
  /\ \A h \in DOMAIN win' : h \in Known => h \in DOMAIN win /\ Free(win', h) = Free(win, h)
  /\ \A h \in DOMAIN win' \ ToSet(making') :
       /\ Continues(s, h) \/ Begins(s, h)
       /\ SaysPlace(s, h)
       /\ h \notin untold' => SaysShown(s, h)

\* No command creates a window that is not known yet.
LEMMA StrangersAre ==
  ASSUME TypeOK, TreeInv, NEW h, h \notin Known
  PROVE  h \notin DOMAIN host /\ Silent(cmds, Making, h)
<1>1. \A i \in DOMAIN cmds : cmds[i].op = "create" => cmds[i].hwnd \in Known
  BY DEF TreeInv, TreeOf, CommandFits
<1> QED BY <1>1 DEF TypeOK, Silent, About, Making

LEMMA OnceOn ==
  ASSUME NEW s, NEW new, NEW all, Extends(s, new, all), NEW h
  PROVE  /\ Once(s, h) /\ Silent(new, Making, h) => Once(all, h)
         /\ Silent(s, Making, h) /\ Once(new, h) => Once(all, h)
<1>1. ASSUME Once(s, h), Silent(new, Making, h) PROVE Once(all, h)
  <2>1. PICK i \in DOMAIN s : /\ About(s[i], Making, h)
                              /\ \A j \in DOMAIN s : About(s[j], Making, h) => j = i
    BY <1>1 DEF Once
  <2>2. i \in DOMAIN all /\ all[i] = s[i]
    BY DEF Extends
  <2>3. ASSUME NEW j \in DOMAIN all, About(all[j], Making, h) PROVE j = i
    <3>1. j \in DOMAIN s
      BY <1>1, <2>3 DEF Extends, Silent
    <3> QED BY <2>1, <2>3, <3>1 DEF Extends
  <2> QED BY <2>1, <2>2, <2>3 DEF Once
<1>2. ASSUME Silent(s, Making, h), Once(new, h) PROVE Once(all, h)
  <2>1. PICK i \in DOMAIN new : /\ About(new[i], Making, h)
                                /\ \A j \in DOMAIN new : About(new[j], Making, h) => j = i
    BY <1>2 DEF Once
  <2>2. PICK m \in DOMAIN all : m = Len(s) + i /\ all[m] = new[i]
    BY DEF Extends
  <2>3. ASSUME NEW j \in DOMAIN all, About(all[j], Making, h) PROVE j = m
    <3>1. j \notin DOMAIN s
      BY <1>2, <2>3 DEF Extends, Silent
    <3>2. PICK k \in DOMAIN new : j = Len(s) + k /\ all[j] = new[k]
      BY <3>1 DEF Extends
    <3> QED BY <2>1, <2>2, <2>3, <3>2
  <2> QED BY <2>1, <2>2, <2>3 DEF Once
<1> QED BY <1>1, <1>2

LEMMA GuestKeepsHosts ==
  ASSUME TypeOK, TreeInv, HostInv, NEW s, GuestSays(s), Known \subseteq Known'
  PROVE  HostInv'
<1> DEFINE all == cmds'
<1>1. Extends(cmds, s, all)
  BY ExtendsIs DEF GuestSays, TypeOK
<1>2. UNCHANGED <<host, uiMain, moved>> /\ DOMAIN host \subseteq Known
  BY DEF GuestSays, TypeOK
<1> HIDE DEF all
<1>3. \A h \in ToSet(making') : h \notin DOMAIN host /\ Silent(all, Making, h)
  BY <1>1, <1>2, SilentOn, StrangersAre DEF HostInv, GuestSays
<1>4. MovesFit(win', Known', host, moved)
  BY DEF HostInv, MovesFit, GuestSays
<1>5. ASSUME NEW h \in DOMAIN win' \ ToSet(making')
      PROVE  /\ CreateFits(host, all, h)
             /\ PlaceFits(win', host, all, moved, h)
             /\ h \notin untold' \cup {uiMain} => ShowFits(win', host, all, h)
  <2>1. /\ Continues(s, h) \/ Begins(s, h)
        /\ SaysPlace(s, h) /\ (h \notin untold' => SaysShown(s, h))
        /\ h \in Known => h \in DOMAIN win /\ Free(win', h) = Free(win, h)
    BY DEF GuestSays
  <2>2. h \in DOMAIN win \ ToSet(making) =>
          /\ CreateFits(host, cmds, h)
          /\ PlaceFits(win, host, cmds, moved, h)
          /\ h \notin untold \cup {uiMain} => ShowFits(win, host, cmds, h)
    BY DEF HostInv, MadeFits
  <2>3. h \in DOMAIN host => h \in DOMAIN win \ ToSet(making)
    BY <1>2, <2>1 DEF HostInv
  <2>4. CreateFits(host, all, h)
    <3>1. CASE Continues(s, h)
      BY <1>1, <2>2, <3>1, OnceOn, SilentOn DEF Continues, CreateFits
    <3>2. CASE Begins(s, h)
      <4>1. h \notin DOMAIN host /\ Silent(cmds, Making, h)
        BY <3>2, StrangersAre DEF Begins, HostInv
      <4> QED BY <1>1, <3>2, <4>1, OnceOn DEF Begins, CreateFits
    <3> QED BY <2>1, <3>1, <3>2
  <2>5. PlacedBy(all, h, win'[h].pos) \/
        (/\ h \in DOMAIN win \ ToSet(making) /\ win'[h].pos = win[h].pos /\ Silent(s, Placing, h)
         /\ ~PlacedBy(cmds, h, win[h].pos))
    BY <1>1, <2>1, ByOn DEF SaysPlace
  <2>6. PlaceFits(win', host, all, moved, h)
    <3>1. CASE h \notin DOMAIN host
      BY <2>2, <2>5, <3>1 DEF PlaceFits
    <3>2. CASE h \in DOMAIN host
      <4>1. PlaceFits(win, host, cmds, moved, h) /\ Free(win', h) = Free(win, h)
        BY <1>2, <2>1, <2>2, <2>3, <3>2
      <4>2. Silent(s, Placing, h) /\ Silent(cmds, Placing, h) => Silent(all, Placing, h)
        BY <1>1, SilentOn
      <4> QED BY <2>5, <3>2, <4>1, <4>2 DEF PlaceFits
    <3> QED BY <3>1, <3>2
  <2>7. h \notin untold' \cup {uiMain} => ShowFits(win', host, all, h)
    <3> SUFFICES ASSUME h \notin untold', h # uiMain PROVE ShowFits(win', host, all, h)
      OBVIOUS
    <3>1. CASE ShownBy(s, h, Shown(win', h))
      BY <1>1, <3>1, ByOn DEF ShowFits
    <3>2. CASE /\ h \in DOMAIN win \ ToSet(making) /\ h \notin untold
               /\ Shown(win', h) = Shown(win, h) /\ Silent(s, Showing, h)
      <4>1. ShowFits(win, host, cmds, h)
        BY <2>2, <3>2
      <4> QED BY <1>1, <3>2, <4>1, ByOn, SilentOn DEF ShowFits
    <3> QED BY <2>1, <3>1, <3>2 DEF SaysShown
  <2> QED BY <2>4, <2>6, <2>7
<1>6. Distinct(making')
  BY DEF GuestSays
<1> QED BY <1>2, <1>3, <1>4, <1>5, <1>6 DEF HostInv, MadeFits, all

----------------------------------------------------------------------------
(* What each call of the guest says. *)

ParentsLive(w) == \A h \in DOMAIN w : w[h].parent \in DOMAIN w \cup {NoWindow}

LEMMA GuestFacts ==
  ASSUME TypeOK, TreeInv
  PROVE  /\ Typed(win, Known) /\ Known \subseteq Handles /\ NoWindow \in Handles
         /\ Windows(win) /\ Tree(win) /\ ParentsLive(win)
         /\ \A h \in DOMAIN win : win[h].pos \in Places /\ h \in Handles
<1>1. Typed(win, Known) /\ Known \subseteq Handles /\ NoWindow \in Handles
  BY TypesAre, KnownAre DEF GuestTypes, NoWindow
<1>2. ParentsLive(win)
  BY DEF TreeInv, TreeOf, ParentsLive
<1> QED BY <1>1, <1>2, TypedTree DEF Windows

\* Outside of a subtree nobody looks different when only the subtree's flags change.
LEMMA LooksOutside ==
  ASSUME NEW w, Windows(w), NEW now, Windows(now), SameTree(w, now), ParentsLive(w),
         NEW root \in Handles,
         \A x \in DOMAIN w : /\ now[x].child = w[x].child
                             /\ x # root => now[x].visible = w[x].visible
  PROVE  /\ SubtreeOf(now, root) = SubtreeOf(w, root)
         /\ \A x \in DOMAIN w \ SubtreeOf(w, root) : Shown(now, x) = Shown(w, x)
<1> DEFINE sub == SubtreeOf(w, root)
           D   == DOMAIN w \ sub
<1>1. \A x \in DOMAIN w : x \in sub <=> x = root \/ w[x].parent \in sub
  BY SubtreeIs DEF Windows
<1>2. SubtreeOf(now, root) = sub
  BY SubtreeSame DEF Windows
<1> HIDE DEF sub
<1>3. D \subseteq DOMAIN w /\ D \subseteq DOMAIN now
  BY DEF SameTree
<1>4. ASSUME NEW x \in D
      PROVE  /\ now[x].parent = w[x].parent /\ now[x].child = w[x].child
             /\ now[x].visible = w[x].visible
             /\ w[x].parent \in D \cup {NoWindow}
  BY <1>1 DEF SameTree, ParentsLive
<1> HIDE DEF D
<1>5. \A x \in D : Shown(now, x) = Shown(w, x)
  BY <1>3, <1>4, ShownSame
<1> QED BY <1>2, <1>5 DEF D, sub

\* Nobody looks different when no flag changes and no window that stays loses its parent.
LEMMA LooksSame ==
  ASSUME NEW w, Windows(w), NEW now, Windows(now), NEW D, D \subseteq DOMAIN w,
         D \subseteq DOMAIN now,
         \A x \in D : /\ now[x].parent = w[x].parent /\ now[x].child = w[x].child
                      /\ now[x].visible = w[x].visible
                      /\ w[x].parent \in D \cup {NoWindow}
  PROVE  \A x \in D : Shown(now, x) = Shown(w, x) /\ Free(now, x) = Free(w, x)
<1>1. \A x \in D : Shown(now, x) = Shown(w, x)
  BY ShownSame
<1>2. \A x \in D : Free(now, x) = Free(w, x)
  BY DEF Free
<1> QED BY <1>1, <1>2

\* The commands for a subtree say of each of its windows how it looks, and nothing else.
LEMMA TreeShown ==
  ASSUME NEW w, Windows(w), NEW h \in Handles
  PROVE  /\ ShowTree(w, h) \in Seq(Commands)
         /\ \A x \in SubtreeOf(w, h) : ShownBy(ShowTree(w, h), x, Shown(w, x))
         /\ \A x : x \notin SubtreeOf(w, h) => Silent(ShowTree(w, h), Showing, x)
         /\ \A x : Silent(ShowTree(w, h), Placing, x)
         /\ Mild(ShowTree(w, h))
<1> DEFINE s == ShowTree(w, h)
<1>1. /\ s \in Seq(Commands)
      /\ \A i \in DOMAIN s : /\ s[i].op = "show" /\ s[i].hwnd \in SubtreeOf(w, h)
                             /\ s[i].visible = Effective(w, s[i].hwnd)
      /\ \A x \in SubtreeOf(w, h) : \E i \in DOMAIN s : s[i].hwnd = x
  BY ShowTreeIs
<1> HIDE DEF s
<1>2. ASSUME NEW x \in SubtreeOf(w, h) PROVE ShownBy(s, x, Shown(w, x))
  <2>1. PICK k \in DOMAIN s : About(s[k], Showing, x)
    BY <1>1 DEF About, Showing
  <2>2. PICK i \in DOMAIN s : Final(s, Showing, x, i)
    BY <1>1, <2>1, FinalExists
  <2>3. s[i].op = "show" /\ s[i].hwnd = x /\ s[i].visible = Shown(w, x)
    BY <1>1, <2>2 DEF Final, About, Effective
  <2> QED BY <2>2, <2>3 DEF ShownBy, Seen
<1>3. \A x : x \notin SubtreeOf(w, h) => Silent(s, Showing, x)
  BY <1>1 DEF Silent, About
<1>4. \A x : Silent(s, Placing, x)
  BY <1>1 DEF Silent, About, Placing
<1>5. Mild(s)
  BY <1>1 DEF Mild
<1> QED BY <1>1, <1>2, <1>3, <1>4, <1>5 DEF s

\* One command, or none.
LEMMA OneSays ==
  ASSUME NEW c \in Commands
  PROVE  /\ \A ops, h : ~About(c, ops, h) => Silent(<<c>>, ops, h)
         /\ \A h : About(c, Placing, h) => PlacedBy(<<c>>, h, c.pos)
         /\ \A h : About(c, Showing, h) => ShownBy(<<c>>, h, Seen(c))
         /\ \A h : About(c, Making, h) => Once(<<c>>, h)
<1> DEFINE s == <<c>>
<1>1. DOMAIN s = {1} /\ s[1] = c
  BY OneCommand
<1> HIDE DEF s
<1>2. \A ops, h : ~About(c, ops, h) => Silent(s, ops, h)
  BY <1>1 DEF Silent
<1>3. \A ops, h : About(c, ops, h) => Final(s, ops, h, 1)
  BY <1>1 DEF Final
<1>4. \A h : About(c, Placing, h) => PlacedBy(s, h, c.pos)
  BY <1>1, <1>3 DEF PlacedBy
<1>5. \A h : About(c, Showing, h) => ShownBy(s, h, Seen(c))
  BY <1>1, <1>3 DEF ShownBy
<1>6. \A h : About(c, Making, h) => Once(s, h)
  BY <1>1 DEF Once
<1> QED BY <1>2, <1>4, <1>5, <1>6 DEF s

LEMMA SaysNothing == \A ops, h : Silent(<<>>, ops, h)
BY DEF Silent

\* What a call says that leaves the tree as it is.
SaysAll(s) ==
  \A h \in DOMAIN win \ ToSet(making) : SaysPlace(s, h) /\ (h \notin untold' => SaysShown(s, h))

Sayings == Known \subseteq Known' /\ \E s : GuestSays(s)

LEMMA SameTreeSays ==
  ASSUME TypeOK, HostInv, UNCHANGED <<next, making, hosts, moved>>, SameTree(win, win'),
         \A h \in DOMAIN win : win'[h].child = win[h].child,
         NEW s \in Seq(Commands), Tell(s), Mild(s), SaysAll(s)
  PROVE  Sayings
<1>1. UNCHANGED <<host, uiMain, moved>> /\ cmds' = cmds \o s
  BY DEF hosts, Tell
<1>2. \A h : Silent(s, Making, h)
  BY DEF Silent, Mild, About, Making
<1>3. making' = making /\ Distinct(making)
  BY DEF HostInv
<1>4. \A h \in DOMAIN win' : h \in DOMAIN win /\ Free(win', h) = Free(win, h)
  BY DEF SameTree, Free
<1>5. DOMAIN win' = DOMAIN win
  BY DEF SameTree
<1>6. GuestSays(s)
  BY <1>1, <1>2, <1>3, <1>4, <1>5 DEF GuestSays, Continues, SaysAll
<1>7. Known' = Known
  BY DEF Known
<1> QED BY <1>6, <1>7 DEF Sayings

LEMMA MessageBoxSays ==
  ASSUME TypeOK, TreeInv, HostInv, MessageBox
  PROVE  Sayings
<1>1. BoxCmd \in Commands /\ BoxCmd.op = "box"
  BY DEF BoxCmd, Commands
<1>2. /\ UNCHANGED <<next, making, hosts, moved>> /\ UNCHANGED <<win, untold>> /\ Tell(<<BoxCmd>>)
  BY DEF MessageBox
<1> DEFINE s == <<BoxCmd>>
<1>3. s \in Seq(Commands) /\ DOMAIN s = {1} /\ s[1].op = "box" /\ Tell(s)
  BY <1>1, <1>2, OneCommand
<1> HIDE DEF s
<1>4. Mild(s) /\ \A h : Silent(s, Placing, h) /\ Silent(s, Showing, h)
  BY <1>3 DEF Mild, Silent, About, Placing, Showing
<1>5. SaysAll(s)
  BY <1>2, <1>4 DEF SaysAll, SaysPlace, SaysShown
<1>6. SameTree(win, win') /\ \A h \in DOMAIN win : win'[h].child = win[h].child
  BY <1>2 DEF SameTree
<1> QED BY <1>2, <1>3, <1>4, <1>5, <1>6, SameTreeSays

LEMMA MoveWindowSays ==
  ASSUME TypeOK, TreeInv, HostInv, NEW h \in Known, NEW pos \in Places, MoveWindow(h, pos)
  PROVE  Sayings
<1> DEFINE c == MoveCmd(win', h)
<1>1. /\ Typed(win, Known) /\ Known \subseteq Handles /\ Windows(win) /\ Tree(win)
      /\ ParentsLive(win)
  BY GuestFacts
<1>2. /\ UNCHANGED <<next, making, hosts, moved>> /\ UNCHANGED untold /\ h \in DOMAIN win
      /\ win' = [win EXCEPT ![h].pos = pos] /\ Tell(<<c>>)
  BY DEF MoveWindow, Unmoved
<1>3. Typed(win', Known) /\ SameTree(win, win') /\ h \in DOMAIN win'
  BY <1>1, <1>2 DEF Typed, SameTree, Window
<1>4. /\ win'[h].pos = pos
      /\ \A x \in DOMAIN win : /\ win'[x].child = win[x].child /\ win'[x].visible = win[x].visible
                               /\ x # h => win'[x].pos = win[x].pos
  BY <1>1, <1>2 DEF Typed, Window
<1>5. Windows(win') /\ \A x \in DOMAIN win' : win'[x].pos \in Places
  BY <1>1, <1>3, TypedTree
<1>6. c \in Commands /\ c.op = "move" /\ c.hwnd = h /\ c.pos = pos
  BY <1>3, <1>4, <1>5, CommandTypes DEF MoveCmd
<1> HIDE DEF c
<1> DEFINE s == <<c>>
<1>7. s \in Seq(Commands) /\ DOMAIN s = {1} /\ s[1] = c /\ Tell(s)
  BY <1>2, <1>6, OneCommand
<1>8. /\ \A x : Silent(s, Showing, x) /\ (x # h => Silent(s, Placing, x))
      /\ PlacedBy(s, h, pos)
  <2>1. \A x : ~About(c, Showing, x) /\ (x # h => ~About(c, Placing, x))
    BY <1>6 DEF About, Showing
  <2>2. About(c, Placing, h)
    BY <1>6 DEF About, Placing
  <2> QED BY <1>6, <2>1, <2>2, OneSays
<1> HIDE DEF s
<1>9. Mild(s)
  BY <1>6, <1>7 DEF Mild
<1>10. \A x \in DOMAIN win : Shown(win', x) = Shown(win, x)
  BY <1>1, <1>3, <1>4, <1>5, ShownSame DEF SameTree, ParentsLive
<1>11. SaysAll(s)
  BY <1>2, <1>4, <1>8, <1>10 DEF SaysAll, SaysPlace, SaysShown
<1> QED BY <1>2, <1>3, <1>4, <1>7, <1>9, <1>11, SameTreeSays

LEMMA ShowWindowSays ==
  ASSUME TypeOK, TreeInv, HostInv, NEW h \in Known, NEW v \in BOOLEAN, ShowWindow(h, v)
  PROVE  Sayings
<1> DEFINE s == ShowTree(win', h)
<1>1. /\ Typed(win, Known) /\ Known \subseteq Handles /\ Windows(win) /\ Tree(win)
      /\ ParentsLive(win) /\ h \in Handles
  BY GuestFacts
<1>2. /\ UNCHANGED <<next, making, hosts, moved>> /\ untold' = untold \ SubtreeOf(win, h)
      /\ win' = IF h \in DOMAIN win THEN [win EXCEPT ![h].visible = v] ELSE win
      /\ Tell(s)
  BY DEF ShowWindow, Unmoved
<1>3. Typed(win', Known) /\ SameTree(win, win')
  <2>1. CASE h \in DOMAIN win
    BY <1>1, <1>2, <2>1, Reshown
  <2>2. CASE h \notin DOMAIN win
    BY <1>1, <1>2, <2>2 DEF SameTree
  <2> QED BY <2>1, <2>2
<1>4. \A x \in DOMAIN win : /\ win'[x].child = win[x].child /\ win'[x].pos = win[x].pos
                            /\ x # h => win'[x].visible = win[x].visible
  BY <1>1, <1>2 DEF Typed, Window
<1>5. Windows(win')
  BY <1>1, <1>3, TypedTree
<1>6. /\ SubtreeOf(win', h) = SubtreeOf(win, h)
      /\ \A x \in DOMAIN win \ SubtreeOf(win, h) : Shown(win', x) = Shown(win, x)
  BY <1>1, <1>3, <1>4, <1>5, LooksOutside
<1>7. /\ s \in Seq(Commands) /\ Mild(s)
      /\ \A x \in SubtreeOf(win, h) : ShownBy(s, x, Shown(win', x))
      /\ \A x : x \notin SubtreeOf(win, h) => Silent(s, Showing, x)
      /\ \A x : Silent(s, Placing, x)
  BY <1>1, <1>5, <1>6, TreeShown
<1> HIDE DEF s
<1>8. SaysAll(s)
  BY <1>2, <1>4, <1>6, <1>7 DEF SaysAll, SaysPlace, SaysShown
<1> QED BY <1>2, <1>3, <1>4, <1>7, <1>8, SameTreeSays

LEMMA SetStyleSays ==
  ASSUME TypeOK, TreeInv, HostInv, NEW h \in Known, NEW v \in BOOLEAN, SetStyle(h, v)
  PROVE  Sayings
<1> DEFINE changes == win[h].visible # v /\ (win[h].child => v)
           tells   == changes /\ ~win[h].child
           differ  == {x \in DOMAIN win : Shown(win', x) # Shown(win, x)}
           s       == IF tells THEN <<ShowCmd(h, v)>> ELSE <<>>
<1>1. /\ Typed(win, Known) /\ Known \subseteq Handles /\ Windows(win) /\ Tree(win)
      /\ ParentsLive(win) /\ h \in Handles
      /\ \A x \in DOMAIN win : win[x].pos \in Places
  BY GuestFacts
<1>2. /\ UNCHANGED <<next, making, hosts, moved>> /\ h \in DOMAIN win /\ Tell(s)
      /\ win' = IF changes THEN [win EXCEPT ![h].visible = v] ELSE win
      /\ untold' = IF tells THEN (untold \cup differ) \ {h} ELSE untold \cup differ
  BY DEF SetStyle, Unmoved
<1>3. Typed(win', Known) /\ SameTree(win, win')
  <2>1. CASE changes
    BY <1>1, <1>2, <2>1, Reshown
  <2>2. CASE ~changes
    BY <1>1, <1>2, <2>2 DEF SameTree
  <2> QED BY <2>1, <2>2
<1>4. /\ \A x \in DOMAIN win : win'[x].child = win[x].child /\ win'[x].pos = win[x].pos
      /\ changes => win'[h].visible = v
  BY <1>1, <1>2 DEF Typed, Window
<1>5. Windows(win')
  BY <1>1, <1>3, TypedTree
<1>6. tells => Shown(win', h) = v
  <2> SUFFICES ASSUME tells PROVE Shown(win', h) = v
    OBVIOUS
  <2>1. h \in DOMAIN win' /\ win'[h].visible = v /\ ~win'[h].child
    BY <1>2, <1>3, <1>4 DEF SameTree
  <2>2. ~InParent(win', h)
    BY <2>1 DEF InParent
  <2> QED BY <1>1, <1>5, <2>1, <2>2, ShownIs
<1>7. /\ s \in Seq(Commands) /\ Mild(s)
      /\ \A x : Silent(s, Placing, x) /\ (x # h => Silent(s, Showing, x))
      /\ tells => ShownBy(s, h, v)
      /\ ~tells => Silent(s, Showing, h)
  <2> DEFINE c == ShowCmd(h, v)
  <2>1. c \in Commands /\ c.op = "show" /\ c.hwnd = h /\ c.visible = v
    BY <1>1, CommandTypes DEF ShowCmd
  <2> HIDE DEF c
  <2>2. CASE tells
    <3>1. s = <<c>> /\ s \in Seq(Commands) /\ DOMAIN s = {1} /\ s[1] = c
      BY <2>1, <2>2, OneCommand DEF c
    <3> HIDE DEF s, tells
    <3>2. Mild(s)
      BY <2>1, <3>1 DEF Mild
    <3>3. /\ \A x : ~About(c, Placing, x) /\ (x # h => ~About(c, Showing, x))
          /\ About(c, Showing, h) /\ Seen(c) = v
      BY <2>1 DEF About, Placing, Showing, Seen
    <3> QED BY <2>1, <2>2, <3>1, <3>2, <3>3, OneSays
  <2>3. CASE ~tells
    <3>1. s = <<>>
      BY <2>3
    <3> HIDE DEF s, tells
    <3> QED BY <2>3, <3>1, SaysNothing, NoCommands DEF Mild
  <2> QED BY <2>2, <2>3
<1> HIDE DEF s, changes
<1>8. SaysAll(s)
  <2> SUFFICES ASSUME NEW x \in DOMAIN win \ ToSet(making)
               PROVE  SaysPlace(s, x) /\ (x \notin untold' => SaysShown(s, x))
    BY DEF SaysAll
  <2>1. SaysPlace(s, x)
    BY <1>4, <1>7 DEF SaysPlace
  <2>2. CASE tells /\ x = h
    <3>1. Shown(win', x) = v /\ ShownBy(s, x, v)
      BY <1>6, <1>7, <2>2
    <3>2. ShownBy(s, x, Shown(win', x))
      BY <3>1
    <3> QED BY <2>1, <3>2 DEF SaysShown
  <2>3. CASE ~(tells /\ x = h)
    <3>1. x \notin untold' => x \notin untold /\ Shown(win', x) = Shown(win, x)
      BY <1>2, <2>3
    <3>2. Silent(s, Showing, x)
      BY <1>7, <2>3
    <3> QED BY <2>1, <3>1, <3>2 DEF SaysShown
  <2> QED BY <2>1, <2>2, <2>3
<1> QED BY <1>2, <1>3, <1>4, <1>7, <1>8, SameTreeSays

\* The commands of SetWindowPos: how a subtree looks that is revealed, and where the window is.
LEMMA ShownAndMoved ==
  ASSUME NEW shows \in Seq(Commands), NEW c \in Commands, c.op = "move", Mild(shows),
         \A x : Silent(shows, Placing, x)
  PROVE  LET s == shows \o <<c>> IN
           /\ s \in Seq(Commands) /\ Mild(s)
           /\ PlacedBy(s, c.hwnd, c.pos)
           /\ \A x : x # c.hwnd => Silent(s, Placing, x)
           /\ \A x : Silent(shows, Showing, x) => Silent(s, Showing, x)
           /\ \A x, v : ShownBy(shows, x, v) => ShownBy(s, x, v)
<1> DEFINE one == <<c>>
           s   == shows \o one
<1>1. one \in Seq(Commands) /\ DOMAIN one = {1} /\ one[1] = c
  BY OneCommand
<1>2. /\ \A x : x # c.hwnd => Silent(one, Placing, x)
      /\ \A x : Silent(one, Showing, x)
      /\ PlacedBy(one, c.hwnd, c.pos)
  <2>1. \A x : ~About(c, Showing, x) /\ (x # c.hwnd => ~About(c, Placing, x))
    BY DEF About, Showing
  <2>2. About(c, Placing, c.hwnd)
    BY DEF About, Placing
  <2> QED BY <2>1, <2>2, OneSays
<1> HIDE DEF one
<1>3. s \in Seq(Commands) /\ Extends(shows, one, s)
  BY <1>1, ExtendsIs
<1> HIDE DEF s
<1>4. Mild(s)
  <2> SUFFICES ASSUME NEW m \in DOMAIN s PROVE s[m].op \notin {"create", "destroy"}
    BY DEF Mild
  <2>1. m \in DOMAIN shows \/ \E i \in DOMAIN one : s[m] = one[i]
    BY <1>3 DEF Extends
  <2> QED BY <1>1, <1>3, <2>1 DEF Mild, Extends
<1>5. /\ PlacedBy(s, c.hwnd, c.pos)
      /\ \A x : x # c.hwnd => Silent(s, Placing, x)
      /\ \A x : Silent(shows, Showing, x) => Silent(s, Showing, x)
  BY <1>2, <1>3, ByOn, SilentOn
<1>6. \A x, v : ShownBy(shows, x, v) => ShownBy(s, x, v)
  BY <1>2, <1>3, ByOn
<1> QED BY <1>3, <1>4, <1>5, <1>6 DEF s, one

LEMMA SetWindowPosSays ==
  ASSUME TypeOK, TreeInv, HostInv,
         NEW h \in Known, NEW after, NEW pos \in Places, NEW show \in BOOLEAN,
         after = Keep \/ h \in DOMAIN win, SetWindowPos(h, after, pos, show)
  PROVE  Sayings
<1> DEFINE stacked == IF after = Keep THEN win ELSE Stacked(win, h, after)
           reveals == h \in DOMAIN win /\ show /\ ~win[h].visible
           shows   == IF reveals THEN ShowTree(win', h) ELSE <<>>
           c       == MoveCmd(win', h)
           s       == IF h \notin DOMAIN win THEN <<>> ELSE shows \o <<c>>
<1>1. /\ Typed(win, Known) /\ Known \subseteq Handles /\ Windows(win) /\ Tree(win)
      /\ ParentsLive(win) /\ h \in Handles
  BY GuestFacts
<1>2. /\ Typed(stacked, Known) /\ SameTree(win, stacked)
      /\ \A x \in DOMAIN win : SameLook(win[x], stacked[x])
  <2>1. CASE after = Keep
    BY <1>1, <2>1 DEF SameTree, SameLook
  <2>2. CASE after # Keep
    <3>1. h \in DOMAIN win
      BY <2>2
    <3> QED BY <1>1, <2>2, <3>1, RestackedTypes
  <2> QED BY <2>1, <2>2
<1>3. /\ UNCHANGED <<next, making, hosts, moved>> /\ Tell(s)
      /\ untold' = IF reveals THEN untold \ SubtreeOf(win, h) ELSE untold
      /\ win' = IF h \in DOMAIN win
                THEN [stacked EXCEPT ![h].pos = pos, ![h].visible = @ \/ show]
                ELSE stacked
  BY DEF SetWindowPos, Unmoved
<1> HIDE DEF stacked
<1>4. /\ Typed(win', Known) /\ SameTree(win, win')
      /\ \A x \in DOMAIN win : /\ win'[x].child = win[x].child
                               /\ x # h => win'[x].visible = win[x].visible
                               /\ x # h => win'[x].pos = win[x].pos
      /\ h \in DOMAIN win => win'[h].pos = pos /\ win'[h].visible = (win[h].visible \/ show)
  <2>1. CASE h \in DOMAIN win
    <3> DEFINE r == stacked[h]
    <3>1. /\ h \in DOMAIN stacked /\ r \in Window /\ r.parent < h /\ r.parent = win[h].parent
          /\ r.child = win[h].child /\ r.visible = win[h].visible
      BY <1>2, <2>1 DEF Typed, SameTree, SameLook
    <3>2. /\ DOMAIN win' = DOMAIN stacked
          /\ win'[h] = [r EXCEPT !.pos = pos, !.visible = r.visible \/ show]
          /\ \A x \in DOMAIN stacked \ {h} : win'[x] = stacked[x]
      BY <1>3, <2>1, <3>1
    <3> HIDE DEF r
    <3>3. /\ win'[h] \in Window /\ win'[h].parent = r.parent /\ win'[h].child = r.child
          /\ win'[h].pos = pos /\ win'[h].visible = (r.visible \/ show)
      <4>1. r.visible \/ show \in BOOLEAN
        OBVIOUS
      <4> QED BY <3>1, <3>2, <4>1 DEF Window
    <3>4. Typed(win', Known) /\ SameTree(win, win')
      BY <1>2, <3>1, <3>2, <3>3 DEF Typed, SameTree
    <3>5. \A x \in DOMAIN win \ {h} : SameLook(win[x], win'[x])
      BY <1>2, <3>2 DEF SameTree
    <3> QED BY <3>1, <3>3, <3>4, <3>5 DEF SameLook
  <2>2. CASE h \notin DOMAIN win
    BY <1>2, <1>3, <2>2 DEF SameLook
  <2> QED BY <2>1, <2>2
<1>5. Windows(win') /\ \A x \in DOMAIN win' : win'[x].pos \in Places
  BY <1>1, <1>4, TypedTree
<1>6. /\ SubtreeOf(win', h) = SubtreeOf(win, h)
      /\ \A x \in DOMAIN win \ SubtreeOf(win, h) : Shown(win', x) = Shown(win, x)
  BY <1>1, <1>4, <1>5, LooksOutside
<1>7. ~reveals => \A x \in DOMAIN win : Shown(win', x) = Shown(win, x)
  <2> SUFFICES ASSUME ~reveals PROVE \A x \in DOMAIN win : Shown(win', x) = Shown(win, x)
    OBVIOUS
  <2>1. h \in DOMAIN win => win'[h].visible = win[h].visible
    <3>1. h \in DOMAIN win => win[h].visible \in BOOLEAN
      BY <1>1 DEF Windows
    <3> QED BY <1>4, <3>1
  <2>2. \A x \in DOMAIN win : win'[x].child = win[x].child /\ win'[x].visible = win[x].visible
    BY <1>4, <2>1
  <2> QED BY <1>1, <1>4, <1>5, <2>2, ShownSame DEF SameTree, ParentsLive
<1>8. /\ shows \in Seq(Commands) /\ Mild(shows)
      /\ \A x : Silent(shows, Placing, x)
      /\ reveals => /\ \A x \in SubtreeOf(win, h) : ShownBy(shows, x, Shown(win', x))
                    /\ \A x : x \notin SubtreeOf(win, h) => Silent(shows, Showing, x)
      /\ ~reveals => \A x : Silent(shows, Showing, x)
  <2>1. CASE reveals
    <3> DEFINE t == ShowTree(win', h)
    <3>1. /\ t \in Seq(Commands) /\ Mild(t)
          /\ \A x \in SubtreeOf(win, h) : ShownBy(t, x, Shown(win', x))
          /\ \A x : x \notin SubtreeOf(win, h) => Silent(t, Showing, x)
          /\ \A x : Silent(t, Placing, x)
      BY <1>1, <1>5, <1>6, TreeShown
    <3> HIDE DEF t
    <3>2. shows = t
      BY <2>1 DEF t
    <3> HIDE DEF shows, reveals
    <3> QED BY <2>1, <3>1, <3>2
  <2>2. CASE ~reveals
    <3>1. shows = <<>>
      BY <2>2
    <3> HIDE DEF shows, reveals
    <3> QED BY <2>2, <3>1, SaysNothing, NoCommands DEF Mild
  <2> QED BY <2>1, <2>2
<1>9. h \in DOMAIN win => c \in Commands /\ c.op = "move" /\ c.hwnd = h /\ c.pos = pos
  <2> SUFFICES ASSUME h \in DOMAIN win
               PROVE  c \in Commands /\ c.op = "move" /\ c.hwnd = h /\ c.pos = pos
    OBVIOUS
  <2>1. h \in DOMAIN win'
    BY <1>4 DEF SameTree
  <2> QED BY <1>4, <1>5, <2>1, CommandTypes DEF MoveCmd
<1> HIDE DEF shows, c
<1>10. /\ s \in Seq(Commands) /\ Mild(s)
       /\ h \in DOMAIN win => PlacedBy(s, h, pos)
       /\ \A x : x # h => Silent(s, Placing, x)
       /\ \A x : Silent(shows, Showing, x) => Silent(s, Showing, x)
       /\ h \in DOMAIN win => \A x, v : ShownBy(shows, x, v) => ShownBy(s, x, v)
  <2>1. CASE h \in DOMAIN win
    <3>1. s = shows \o <<c>>
      BY <2>1
    <3> HIDE DEF s
    <3> QED BY <1>8, <1>9, <2>1, <3>1, ShownAndMoved
  <2>2. CASE h \notin DOMAIN win
    <3>1. s = <<>>
      BY <2>2
    <3> HIDE DEF s
    <3> QED BY <2>2, <3>1, SaysNothing, NoCommands DEF Mild
  <2> QED BY <2>1, <2>2
<1> HIDE DEF s
<1>11. SaysAll(s)
  <2> SUFFICES ASSUME NEW x \in DOMAIN win \ ToSet(making)
               PROVE  SaysPlace(s, x) /\ (x \notin untold' => SaysShown(s, x))
    BY DEF SaysAll
  <2>1. SaysPlace(s, x)
    BY <1>4, <1>10 DEF SaysPlace
  <2>2. CASE ~reveals
    <3>1. Silent(s, Showing, x) /\ Shown(win', x) = Shown(win, x) /\ untold' = untold
      BY <1>3, <1>7, <1>8, <1>10, <2>2
    <3> QED BY <2>1, <3>1 DEF SaysShown
  <2>3. CASE reveals /\ x \in SubtreeOf(win, h)
    <3>1. ShownBy(shows, x, Shown(win', x)) /\ h \in DOMAIN win
      BY <1>8, <2>3
    <3>2. ShownBy(s, x, Shown(win', x))
      BY <1>10, <3>1
    <3> QED BY <2>1, <3>2 DEF SaysShown
  <2>4. CASE reveals /\ x \notin SubtreeOf(win, h)
    <3>1. Silent(s, Showing, x) /\ Shown(win', x) = Shown(win, x)
      BY <1>6, <1>8, <1>10, <2>4
    <3>2. x \notin untold' => x \notin untold
      BY <1>3, <2>4
    <3> QED BY <2>1, <3>1, <3>2 DEF SaysShown
  <2> QED BY <2>2, <2>3, <2>4
<1>12. \A x \in DOMAIN win : win'[x].child = win[x].child
  BY <1>4
<1> QED BY <1>3, <1>4, <1>10, <1>11, <1>12, SameTreeSays

\* The windows in a sequence that grows or loses its last element.
LEMMA MakingMore ==
  ASSUME TypeOK, Distinct(making), NEW h, h \notin Known, making' = Append(making, h)
  PROVE  Distinct(making') /\ ToSet(making') = ToSet(making) \cup {h}
<1>1. making \in Seq(Known) /\ Len(making) \in Nat /\ DOMAIN making = 1 .. Len(making)
      /\ \A i \in DOMAIN making : making[i] \in Known
  BY DEF TypeOK
<1> DEFINE n == Len(making)
<1>2. /\ DOMAIN making' = 1 .. n + 1 /\ making'[n + 1] = h
      /\ \A i \in 1 .. n : making'[i] = making[i]
  BY <1>1
<1> HIDE DEF n
<1>3. \A i \in 1 .. n + 1 : i \in 1 .. n \/ i = n + 1
  BY <1>1 DEF n
<1>4. n + 1 \in 1 .. n + 1 /\ \A i \in 1 .. n : i \in 1 .. n + 1
  BY <1>1 DEF n
<1>5. DOMAIN making = 1 .. n
  BY <1>1 DEF n
<1>6. Distinct(making')
  <2> SUFFICES ASSUME NEW i \in 1 .. n + 1, NEW j \in 1 .. n + 1, making'[i] = making'[j]
               PROVE  i = j
    BY <1>2 DEF Distinct
  <2>1. \A k \in 1 .. n : making'[k] # h
    BY <1>1, <1>2, <1>5
  <2>2. CASE i \in 1 .. n /\ j \in 1 .. n
    BY <1>2, <1>5, <2>2 DEF Distinct
  <2> QED BY <1>2, <1>3, <2>1, <2>2
<1>7. ToSet(making') = ToSet(making) \cup {h}
  BY <1>2, <1>3, <1>4, <1>5 DEF ToSet
<1> QED BY <1>6, <1>7

LEMMA MakingLess ==
  ASSUME TypeOK, Distinct(making), making # <<>>, making' = Front(making)
  PROVE  Distinct(making') /\ ToSet(making') = ToSet(making) \ {Last(making)}
         /\ Last(making) \in ToSet(making)
<1> DEFINE n == Len(making)
           h == Last(making)
<1>1. making \in Seq(Known) /\ n \in Nat /\ n # 0 /\ DOMAIN making = 1 .. n
  BY DEF TypeOK
<1>2. /\ DOMAIN making' = 1 .. n - 1 /\ making[n] = h
      /\ \A i \in 1 .. n - 1 : making'[i] = making[i]
  BY <1>1 DEF Front, Last
<1> HIDE DEF n, h
<1>3. /\ \A i \in 1 .. n : i \in 1 .. n - 1 \/ i = n
      /\ \A i \in 1 .. n - 1 : i \in 1 .. n /\ i # n
      /\ n \in 1 .. n
  BY <1>1
<1>4. Distinct(making')
  BY <1>1, <1>2, <1>3 DEF Distinct
<1>5. ASSUME NEW x, x \in ToSet(making') PROVE x \in ToSet(making) /\ x # h
  <2>1. PICK i \in 1 .. n - 1 : making'[i] = x
    BY <1>2, <1>5 DEF ToSet
  <2>2. making[i] = x /\ i \in 1 .. n /\ i # n
    BY <1>2, <1>3, <2>1
  <2> QED BY <1>1, <1>2, <1>3, <2>2 DEF ToSet, Distinct
<1>6. ASSUME NEW x, x \in ToSet(making), x # h PROVE x \in ToSet(making')
  <2>1. PICK i \in 1 .. n : making[i] = x
    BY <1>1, <1>6 DEF ToSet
  <2>2. i \in 1 .. n - 1
    BY <1>2, <1>3, <1>6, <2>1
  <2> QED BY <1>2, <2>1, <2>2 DEF ToSet
<1>7. h \in ToSet(making)
  BY <1>1, <1>2, <1>3 DEF ToSet
<1>8. ToSet(making') = ToSet(making) \ {h}
  BY <1>5, <1>6
<1> QED BY <1>4, <1>7, <1>8 DEF h

\* The tree with a new window: nobody else looks different.
LEMMA RegisteredLooks ==
  ASSUME TypeOK, TreeInv, NEW p \in DOMAIN win \cup {NoWindow}, NEW c \in BOOLEAN,
         NEW v \in BOOLEAN, Registers(p, c, v)
  PROVE  /\ Windows(win') /\ \A h \in DOMAIN win' : win'[h].pos \in Places /\ h \in Handles
         /\ \A h \in DOMAIN win : /\ Shown(win', h) = Shown(win, h) /\ Free(win', h) = Free(win, h)
                                  /\ win'[h] = win[h] /\ h \in Known /\ h # next
         /\ DOMAIN win' = DOMAIN win \cup {next} /\ next \notin Known
<1>1. /\ Typed(win, Known) /\ Windows(win) /\ ParentsLive(win)
  BY GuestFacts
<1>2. /\ Typed(win', Known') /\ DOMAIN win' = DOMAIN win \cup {next} /\ next \notin DOMAIN win
      /\ \A h \in DOMAIN win : win'[h] = win[h]
  BY DEF Registers
<1>3. Known' \subseteq Handles /\ next \notin Known
  BY RanksAre DEF TypeOK, Registers, Known, Handles
<1>4. Windows(win') /\ \A h \in DOMAIN win' : win'[h].pos \in Places /\ h \in Handles
  BY <1>2, <1>3, TypedTree
<1>5. \A h \in DOMAIN win : Shown(win', h) = Shown(win, h) /\ Free(win', h) = Free(win, h)
  BY <1>1, <1>2, <1>4, LooksSame DEF ParentsLive
<1>6. \A h \in DOMAIN win : h \in Known
  BY <1>1 DEF Typed
<1> QED BY <1>2, <1>3, <1>4, <1>5, <1>6

LEMMA CreateBeginSays ==
  ASSUME TypeOK, TreeInv, HostInv, NEW p \in DOMAIN win \cup {NoWindow}, NEW c \in BOOLEAN,
         NEW v \in BOOLEAN, CreateBegin(p, c, v, Home)
  PROVE  Sayings
<1> DEFINE s == <<>>
<1>1. Registers(p, c, v)
  BY Registered DEF CreateBegin
<1>2. /\ \A h \in DOMAIN win : /\ Shown(win', h) = Shown(win, h) /\ Free(win', h) = Free(win, h)
                               /\ win'[h] = win[h] /\ h \in Known /\ h # next
      /\ DOMAIN win' = DOMAIN win \cup {next} /\ next \notin Known
  BY <1>1, RegisteredLooks
<1>3. UNCHANGED <<host, uiMain, moved, cmds, untold>>
  BY DEF CreateBegin, hosts
<1>4. Distinct(making') /\ ToSet(making') = ToSet(making) \cup {next}
  BY <1>2, MakingMore DEF CreateBegin, HostInv
<1>5. s \in Seq(Commands) /\ cmds' = cmds \o s
  BY <1>3 DEF TypeOK
<1>6. \A ops, h : Silent(s, ops, h)
  BY SaysNothing
<1> HIDE DEF s
<1>7. ASSUME NEW h \in DOMAIN win' \ ToSet(making')
      PROVE  Continues(s, h) /\ SaysPlace(s, h) /\ (h \notin untold' => SaysShown(s, h))
  <2>1. h \in DOMAIN win \ ToSet(making)
    BY <1>2, <1>4
  <2> QED BY <1>2, <1>3, <1>6, <2>1 DEF Continues, SaysPlace, SaysShown
<1>8. \A h \in ToSet(making') : (h \in ToSet(making) \/ h \notin Known) /\ Silent(s, Making, h)
  BY <1>2, <1>4, <1>6
<1>9. ASSUME NEW h \in DOMAIN win'
      PROVE  h \in Known => h \in DOMAIN win /\ Free(win', h) = Free(win, h)
  BY <1>2
<1>10. GuestSays(s)
  BY <1>3, <1>4, <1>5, <1>7, <1>8, <1>9 DEF GuestSays
<1>11. Known \subseteq Known'
  BY <1>1 DEF Registers
<1> QED BY <1>10, <1>11 DEF Sayings

\* The command that creates a window says all of it that the guest is not left to find out.
LEMMA CreateSays ==
  ASSUME NEW w, Windows(w), \A x \in DOMAIN w : w[x].pos \in Places, NEW h \in DOMAIN w
  PROVE  LET s == <<CreateCmd(w, h)>> IN
           /\ s \in Seq(Commands) /\ Once(s, h) /\ PlacedBy(s, h, w[h].pos)
           /\ h \notin Untold(w, h) => ShownBy(s, h, Shown(w, h))
           /\ \A x : x # h => \A ops : Silent(s, ops, x)
<1> DEFINE c == CreateCmd(w, h)
<1>1. /\ c \in Commands /\ c.op = "create" /\ c.hwnd = h /\ c.pos = w[h].pos
      /\ c.parent = w[h].parent /\ c.visible = Shown(w, h)
  BY CommandTypes DEF CreateCmd, Effective
<1>2. Shown(w, h) \in BOOLEAN
  BY ShownIs DEF Windows, Tree
<1>3. h \notin Untold(w, h) => Seen(c) = Shown(w, h)
  <2> SUFFICES ASSUME h \notin Untold(w, h) PROVE Seen(c) = Shown(w, h)
    OBVIOUS
  <2>1. w[h].parent # NoWindow \/ Shown(w, h)
    BY DEF Untold, Effective
  <2> HIDE DEF c
  <2> QED BY <1>1, <1>2, <2>1 DEF Seen
<1> HIDE DEF c
<1>4. /\ About(c, Making, h) /\ About(c, Placing, h) /\ About(c, Showing, h)
      /\ \A ops, x : x # h => ~About(c, ops, x)
  BY <1>1 DEF About, Making, Placing, Showing
<1>5. <<c>> \in Seq(Commands)
  BY <1>1, OneCommand
<1>6. h \notin Untold(w, h) => ShownBy(<<c>>, h, Shown(w, h))
  <2>1. ShownBy(<<c>>, h, Seen(c))
    BY <1>1, <1>4, OneSays
  <2> QED BY <1>3, <2>1
<1>7. PlacedBy(<<c>>, h, w[h].pos) /\ Once(<<c>>, h) /\ \A x : x # h => \A ops : Silent(<<c>>, ops, x)
  BY <1>1, <1>4, OneSays
<1> QED BY <1>5, <1>6, <1>7 DEF c

LEMMA CreatePlainSays ==
  ASSUME TypeOK, TreeInv, HostInv, NEW p \in DOMAIN win \cup {NoWindow}, NEW c \in BOOLEAN,
         NEW v \in BOOLEAN, CreatePlain(p, c, v, Home)
  PROVE  Sayings
<1> DEFINE s == <<CreateCmd(win', next)>>
<1>1. Registers(p, c, v)
  BY Registered DEF CreatePlain
<1>2. /\ \A h \in DOMAIN win : /\ Shown(win', h) = Shown(win, h) /\ Free(win', h) = Free(win, h)
                               /\ win'[h] = win[h] /\ h \in Known /\ h # next
      /\ DOMAIN win' = DOMAIN win \cup {next} /\ next \notin Known
      /\ Windows(win') /\ \A h \in DOMAIN win' : win'[h].pos \in Places /\ h \in Handles
  BY <1>1, RegisteredLooks
<1>3. /\ UNCHANGED <<host, uiMain, moved, making>>
      /\ untold' = (untold \ {next}) \cup Untold(win', next)
      /\ cmds' = cmds \o s
  BY DEF CreatePlain, Realize, Tell, hosts
<1>4. /\ s \in Seq(Commands) /\ Once(s, next) /\ PlacedBy(s, next, win'[next].pos)
      /\ next \notin Untold(win', next) => ShownBy(s, next, Shown(win', next))
      /\ \A x : x # next => \A ops : Silent(s, ops, x)
  BY <1>2, CreateSays
<1> HIDE DEF s
<1>5. Distinct(making) /\ next \notin ToSet(making)
  BY <1>2 DEF HostInv, TypeOK, ToSet
<1>6. ASSUME NEW h \in DOMAIN win' \ ToSet(making')
      PROVE  /\ Continues(s, h) \/ Begins(s, h)
             /\ SaysPlace(s, h) /\ (h \notin untold' => SaysShown(s, h))
  <2>1. CASE h = next
    BY <1>2, <1>3, <1>4, <2>1 DEF Begins, SaysPlace, SaysShown
  <2>2. CASE h # next
    <3>1. h \in DOMAIN win \ ToSet(making)
      BY <1>2, <1>3, <2>2
    <3>2. h \notin untold' => h \notin untold
      BY <1>3, <2>2
    <3> QED BY <1>2, <1>4, <2>2, <3>1, <3>2 DEF Continues, SaysPlace, SaysShown
  <2> QED BY <2>1, <2>2
<1>7. \A h \in ToSet(making') : h \in ToSet(making) /\ Silent(s, Making, h)
  BY <1>3, <1>4, <1>5
<1>8. ASSUME NEW h \in DOMAIN win'
      PROVE  h \in Known => h \in DOMAIN win /\ Free(win', h) = Free(win, h)
  BY <1>2
<1>9. Distinct(making')
  BY <1>3, <1>5
<1>10. GuestSays(s)
  BY <1>3, <1>4, <1>6, <1>7, <1>8, <1>9 DEF GuestSays
<1>11. Known \subseteq Known'
  BY <1>1 DEF Registers
<1> QED BY <1>10, <1>11 DEF Sayings

LEMMA CreateEndSays ==
  ASSUME TypeOK, TreeInv, HostInv, CreateEnd
  PROVE  Sayings
<1> DEFINE h == Last(making)
           s == IF h \in DOMAIN win THEN <<CreateCmd(win, h)>> ELSE <<>>
<1>1. Typed(win, Known) /\ Windows(win) /\ \A x \in DOMAIN win : win[x].pos \in Places
  BY GuestFacts
<1>2. /\ UNCHANGED <<win, next>> /\ UNCHANGED <<host, uiMain, moved>>
      /\ untold' = IF h \in DOMAIN win THEN (untold \ {h}) \cup Untold(win, h) ELSE untold
      /\ cmds' = cmds \o s
  BY DEF CreateEnd, Realize, Tell, hosts, TypeOK
<1>3. Distinct(making') /\ ToSet(making') = ToSet(making) \ {h} /\ h \in ToSet(making)
  BY MakingLess DEF CreateEnd, HostInv
<1> HIDE DEF h
<1>4. /\ s \in Seq(Commands)
      /\ \A x : x # h => \A ops : Silent(s, ops, x)
      /\ h \in DOMAIN win => /\ Once(s, h) /\ PlacedBy(s, h, win[h].pos)
                             /\ h \notin Untold(win, h) => ShownBy(s, h, Shown(win, h))
  <2>1. CASE h \in DOMAIN win
    <3>1. s = <<CreateCmd(win, h)>>
      BY <2>1
    <3> HIDE DEF s
    <3> QED BY <1>1, <2>1, <3>1, CreateSays
  <2>2. CASE h \notin DOMAIN win
    <3>1. s = <<>>
      BY <2>2
    <3> HIDE DEF s
    <3> QED BY <2>2, <3>1, SaysNothing, NoCommands
  <2> QED BY <2>1, <2>2
<1> HIDE DEF s
<1>5. ASSUME NEW x \in DOMAIN win' \ ToSet(making')
      PROVE  /\ Continues(s, x) \/ Begins(s, x)
             /\ SaysPlace(s, x) /\ (x \notin untold' => SaysShown(s, x))
  <2>1. CASE x = h
    BY <1>2, <1>3, <1>4, <2>1 DEF Begins, SaysPlace, SaysShown
  <2>2. CASE x # h
    <3>1. x \in DOMAIN win \ ToSet(making)
      BY <1>2, <1>3, <2>2
    <3>2. x \notin untold' => x \notin untold
      BY <1>2, <2>2
    <3> QED BY <1>2, <1>4, <2>2, <3>1, <3>2 DEF Continues, SaysPlace, SaysShown
  <2> QED BY <2>1, <2>2
<1>6. \A x \in ToSet(making') : x \in ToSet(making) /\ Silent(s, Making, x)
  BY <1>3, <1>4
<1>7. \A x \in DOMAIN win' : x \in DOMAIN win /\ Free(win', x) = Free(win, x)
  BY <1>2
<1>8. GuestSays(s)
  BY <1>2, <1>3, <1>4, <1>5, <1>6, <1>7 DEF GuestSays
<1>9. Known' = Known
  BY <1>2 DEF Known
<1> QED BY <1>8, <1>9 DEF Sayings

\* The windows that stay when a subtree goes are told nothing.
LEMMA DestroyTreeSays ==
  ASSUME TypeOK, TreeInv, HostInv, NEW h \in Handles, DestroyTree(h),
         UNCHANGED <<next, hosts, moved>>,
         Distinct(making'), ToSet(making') \subseteq ToSet(making),
         ToSet(making) \subseteq ToSet(making') \cup {h}
  PROVE  Sayings
<1> DEFINE doomed == ToSet(DestroyOrder(win, h))
<1>1. Typed(win, Known) /\ Known \subseteq Handles /\ Windows(win) /\ Tree(win) /\ ParentsLive(win)
  BY GuestFacts
<1>2. PICK s \in Seq(Commands) : Tell(s) /\ Shrinks(s)
  BY DestroyTreeDoes
<1>3. Typed(win', Known)
  BY DestroyTreeDoes
<1>4. win' = [x \in DOMAIN win \ doomed |-> win[x]] /\ untold' = untold \ doomed
  BY DEF DestroyTree
<1>5. h \in DOMAIN win => h \in doomed
  BY <1>1, DestroyOrderIs
<1> HIDE DEF doomed
<1>6. h \notin DOMAIN win'
  BY <1>4, <1>5
<1>7. Windows(win')
  BY <1>1, <1>3, TypedTree
<1>8. /\ DOMAIN win' \subseteq DOMAIN win /\ \A x \in DOMAIN win' : win'[x] = win[x]
      /\ \A i \in DOMAIN s : s[i].op = "destroy"
  BY <1>2, <1>4 DEF Shrinks
<1>9. ASSUME NEW x \in DOMAIN win' PROVE win[x].parent \in DOMAIN win' \cup {NoWindow}
  <2>1. x \in DOMAIN win /\ \A i \in DOMAIN s : s[i].hwnd # x
    BY <1>2 DEF Shrinks
  <2>2. \A j \in DOMAIN s : win[x].parent # s[j].hwnd
    BY <1>2, <2>1 DEF Shrinks
  <2>3. win[x].parent \in DOMAIN win \cup {NoWindow}
    BY <1>1, <2>1 DEF ParentsLive
  <2> QED BY <1>2, <2>2, <2>3 DEF Shrinks
<1>10. \A x \in DOMAIN win' : Shown(win', x) = Shown(win, x) /\ Free(win', x) = Free(win, x)
  BY <1>1, <1>7, <1>8, <1>9, LooksSame
<1>11. \A x : Silent(s, Making, x) /\ Silent(s, Placing, x) /\ Silent(s, Showing, x)
  BY <1>8 DEF Silent, About, Making, Placing, Showing
<1>12. ASSUME NEW x \in DOMAIN win' \ ToSet(making')
       PROVE  /\ Continues(s, x) /\ SaysPlace(s, x) /\ (x \notin untold' => SaysShown(s, x))
  <2>1. x \in DOMAIN win \ ToSet(making)
    BY <1>6, <1>8
  <2>2. x \notin untold' => x \notin untold
    BY <1>4
  <2> QED BY <1>8, <1>10, <1>11, <2>1, <2>2 DEF Continues, SaysPlace, SaysShown
<1>13. cmds' = cmds \o s /\ UNCHANGED <<host, uiMain, moved>>
  BY <1>2 DEF Tell, hosts
<1>14. GuestSays(s)
  BY <1>8, <1>10, <1>11, <1>12, <1>13 DEF GuestSays
<1>15. Known' = Known
  BY DEF Known
<1> QED BY <1>14, <1>15 DEF Sayings

LEMMA DestroyWindowSays ==
  ASSUME TypeOK, TreeInv, HostInv, NEW h \in Known \cup {NoWindow}, DestroyWindow(h)
  PROVE  Sayings
<1>1. h \in Handles
  BY KnownAre DEF NoWindow
<1>2. DestroyTree(h) /\ UNCHANGED <<next, hosts, moved>> /\ making' = making
  BY DEF DestroyWindow
<1>3. Distinct(making')
  BY <1>2 DEF HostInv
<1> QED BY <1>1, <1>2, <1>3, DestroyTreeSays

LEMMA CreateRejectedSays ==
  ASSUME TypeOK, TreeInv, HostInv, CreateRejected
  PROVE  Sayings
<1> DEFINE h == Last(making)
<1>1. h \in Handles
  BY MadeIs, KnownAre DEF CreateRejected
<1>2. DestroyTree(h) /\ UNCHANGED <<next, hosts, moved>>
  BY DEF CreateRejected
<1>3. Distinct(making') /\ ToSet(making') = ToSet(making) \ {h}
  BY MakingLess DEF CreateRejected, HostInv
<1> HIDE DEF h
<1> QED BY <1>1, <1>2, <1>3, DestroyTreeSays

\* Every call of the guest keeps what the commands under way come to.
LEMMA GuestStepSays ==
  ASSUME TypeOK, TreeInv, HostInv, GuestStep
  PROVE  HostInv'
<1> SUFFICES Sayings
  BY GuestKeepsHosts DEF Sayings
<1>1. CASE \E p \in DOMAIN win \cup {NoWindow}, c, v \in BOOLEAN :
             (c => p # NoWindow) /\ (CreateBegin(p, c, v, Home) \/ CreatePlain(p, c, v, Home))
  BY <1>1, CreateBeginSays, CreatePlainSays
<1>2. CASE CreateEnd \/ CreateRejected \/ MessageBox
  BY <1>2, CreateEndSays, CreateRejectedSays, MessageBoxSays
<1>3. CASE \E h \in Known \cup {NoWindow} : DestroyWindow(h)
  BY <1>3, DestroyWindowSays
<1>4. CASE \E h \in Known, v \in BOOLEAN : ShowWindow(h, v) \/ SetStyle(h, v)
  BY <1>4, ShowWindowSays, SetStyleSays
<1>5. CASE \E h \in Known, pos \in Places : MoveWindow(h, pos)
  BY <1>5, MoveWindowSays
<1>6. CASE \E h \in Known, show \in BOOLEAN, pos \in Places : SetWindowPos(h, Keep, pos, show)
  BY <1>6, SetWindowPosSays
<1>7. CASE \E h \in Known, show \in BOOLEAN, after \in Known \cup {Top, Bottom} :
             h \in DOMAIN win /\ SetWindowPos(h, after, win[h].pos, show)
  <2>1. PICK h \in Known, show \in BOOLEAN, after \in Known \cup {Top, Bottom} :
          h \in DOMAIN win /\ SetWindowPos(h, after, win[h].pos, show)
    BY <1>7
  <2>2. win[h].pos \in Places
    BY <2>1 DEF TypeOK, Window
  <2> QED BY <2>1, <2>2, SetWindowPosSays
<1> QED BY <1>1, <1>2, <1>3, <1>4, <1>5, <1>6, <1>7 DEF GuestStep

----------------------------------------------------------------------------
(* What the UI thread does with its commands, window by window. *)

LEMMA OnceNext ==
  ASSUME NEW s, NEW t, Follows(s, t), NEW h, Once(s, h)
  PROVE  /\ ~About(s[1], Making, h) => Once(t, h)
         /\ About(s[1], Making, h) => Silent(t, Making, h)
<1>1. PICK i \in DOMAIN s : /\ About(s[i], Making, h)
                            /\ \A j \in DOMAIN s : About(s[j], Making, h) => j = i
  BY DEF Once
<1>2. ASSUME ~About(s[1], Making, h) PROVE Once(t, h)
  <2>1. PICK k \in DOMAIN t : i = k + 1 /\ t[k] = s[i] /\ k \in Nat
    BY <1>1, <1>2 DEF Follows
  <2>2. ASSUME NEW j \in DOMAIN t, About(t[j], Making, h) PROVE j = k
    <3>1. PICK m \in DOMAIN s : m = j + 1 /\ t[j] = s[m] /\ j \in Nat
      BY DEF Follows
    <3>2. m = i
      BY <1>1, <2>2, <3>1
    <3> QED BY <2>1, <3>1, <3>2
  <2> QED BY <1>1, <2>1, <2>2 DEF Once
<1>3. ASSUME About(s[1], Making, h) PROVE Silent(t, Making, h)
  <2>1. i = 1
    BY <1>1, <1>3 DEF Follows
  <2> SUFFICES ASSUME NEW j \in DOMAIN t, About(t[j], Making, h) PROVE FALSE
    BY DEF Silent
  <2>2. PICK m \in DOMAIN s : m = j + 1 /\ t[j] = s[m] /\ j \in Nat /\ j > 0
    BY DEF Follows
  <2> QED BY <1>1, <2>1, <2>2
<1> QED BY <1>2, <1>3

\* A command that does not create the window.
LEMMA CreationWaits ==
  ASSUME NEW s, NEW t, Follows(s, t), NEW hs, NEW now, NEW h, ~About(s[1], Making, h),
         h \in DOMAIN now <=> h \in DOMAIN hs, CreateFits(hs, s, h)
  PROVE  CreateFits(now, t, h)
BY OnceNext, SilentNext DEF CreateFits

\* Nothing happens to the events of a window.
SameEvents(ms, now, h) ==
  /\ Quiet(now, h) <=> Quiet(ms, h)
  /\ \A p : Reported(ms, h, p) => Reported(now, h, p)

LEMMA EventsAre == ASSUME NEW ms, NEW h PROVE SameEvents(ms, ms, h)
BY DEF SameEvents

\* A command that says nothing of where the window is, or of whether it is seen.
LEMMA PlaceWaits ==
  ASSUME NEW w, NEW s, NEW t, Follows(s, t), NEW hs, NEW now, NEW ms, NEW msNow, NEW h,
         ~About(s[1], Placing, h), SameEvents(ms, msNow, h),
         h \in DOMAIN now <=> h \in DOMAIN hs, h \in DOMAIN hs => now[h].pos = hs[h].pos,
         PlaceFits(w, hs, s, ms, h)
  PROVE  PlaceFits(w, now, t, msNow, h)
<1>1. PlacedBy(s, h, w[h].pos) => PlacedBy(t, h, w[h].pos)
  BY ByNext
<1>2. Silent(s, Placing, h) => Silent(t, Placing, h)
  BY SilentNext
<1>3. CASE Free(w, h)
  BY <1>1, <1>3 DEF PlaceFits, SameEvents
<1>4. CASE ~Free(w, h)
  BY <1>1, <1>2, <1>4 DEF PlaceFits
<1> QED BY <1>3, <1>4

LEMMA ShowWaits ==
  ASSUME NEW w, NEW s, NEW t, Follows(s, t), NEW hs, NEW now, NEW h,
         ~About(s[1], Showing, h),
         h \in DOMAIN now <=> h \in DOMAIN hs, h \in DOMAIN hs => now[h].visible = hs[h].visible,
         ShowFits(w, hs, s, h)
  PROVE  ShowFits(w, now, t, h)
<1>1. ShownBy(s, h, Shown(w, h)) => ShownBy(t, h, Shown(w, h))
  BY ByNext
<1>2. Silent(s, Showing, h) => Silent(t, Showing, h)
  BY SilentNext
<1> QED BY <1>1, <1>2 DEF ShowFits

\* A window whose last command so far is taken is there: its creation came before.
LEMMA LastIsThere ==
  ASSUME NEW s, NEW t, Follows(s, t), NEW hs, NEW h, NEW ops, ops \in {Placing, Showing},
         CreateFits(hs, s, h), s[1].op # "create", Silent(t, ops, h)
  PROVE  h \in DOMAIN hs
<1>1. Silent(t, Making, h)
  BY DEF Silent, About, Making, Placing, Showing
<1>2. Silent(s, Making, h)
  BY <1>1, SilentNext DEF About, Making
<1>3. ~Once(s, h)
  BY <1>2 DEF Once, Silent
<1> QED BY <1>3 DEF CreateFits

\* The UI thread has taken a command: what is left to show of each window.
LEMMA TakenHosts ==
  ASSUME HostInv, UNCHANGED <<win, next, making, untold>>, Follows(cmds, cmds'),
         MovesFit(win, Known, host', moved'),
         \A h \in ToSet(making) : h \notin DOMAIN host',
         \A h \in DOMAIN win \ ToSet(making) : MadeFits(h) =>
           /\ CreateFits(host', cmds', h)
           /\ PlaceFits(win, host', cmds', moved', h)
           /\ h \notin untold \cup {uiMain'} => ShowFits(win, host', cmds', h)
  PROVE  HostInv'
<1>1. \A h \in ToSet(making) : Silent(cmds', Making, h)
  BY SilentNext DEF HostInv
<1>2. MovesFit(win', Known', host', moved')
  BY DEF Known
<1>3. \A h \in DOMAIN win' \ ToSet(making') :
        /\ CreateFits(host', cmds', h)
        /\ PlaceFits(win', host', cmds', moved', h)
        /\ h \notin untold' \cup {uiMain'} => ShowFits(win', host', cmds', h)
  BY DEF HostInv
<1>4. Distinct(making')
  BY DEF HostInv
<1> QED BY <1>1, <1>2, <1>3, <1>4 DEF HostInv, MadeFits

LEMMA SameHostInv ==
  ASSUME HostInv, UNCHANGED <<win, next, making, host, uiMain, cmds, moved, untold>>
  PROVE  HostInv'
BY DEF HostInv, MadeFits, Known

LEMMA DoBoxHosts == ASSUME TreeHolds, HostInv, DoBox PROVE HostInv'
<1>1. Follows(cmds, cmds') /\ cmds[1].op = "box"
  BY TakeIs DEF DoBox
<1>2. UNCHANGED <<win, next, making, untold>> /\ UNCHANGED <<host, uiMain, moved>>
  BY DEF DoBox, guest, hosts
<1>3. \A h : ~About(cmds[1], Making, h) /\ ~About(cmds[1], Placing, h) /\ ~About(cmds[1], Showing, h)
  BY <1>1 DEF About, Making, Placing, Showing
<1>4. ASSUME NEW h \in DOMAIN win \ ToSet(making), MadeFits(h)
      PROVE  /\ CreateFits(host', cmds', h)
             /\ PlaceFits(win, host', cmds', moved', h)
             /\ h \notin untold \cup {uiMain'} => ShowFits(win, host', cmds', h)
  <2>1. CreateFits(host', cmds', h)
    BY <1>1, <1>2, <1>3, <1>4, CreationWaits DEF MadeFits
  <2>2. PlaceFits(win, host', cmds', moved', h)
    BY <1>1, <1>2, <1>3, <1>4, PlaceWaits, EventsAre DEF MadeFits
  <2>3. h \notin untold \cup {uiMain'} => ShowFits(win, host', cmds', h)
    BY <1>1, <1>2, <1>3, <1>4, ShowWaits DEF MadeFits
  <2> QED BY <2>1, <2>2, <2>3
<1>5. MovesFit(win, Known, host', moved') /\ \A h \in ToSet(making) : h \notin DOMAIN host'
  BY <1>2 DEF HostInv
<1> QED BY <1>1, <1>2, <1>4, <1>5, TakenHosts

LEMMA DoShowHosts == ASSUME TreeHolds, HostInv, DoShow PROVE HostInv'
<1> DEFINE c == cmds[1]
<1>1. Follows(cmds, cmds') /\ c.op = "show" /\ c = Head(cmds)
  BY TakeIs DEF DoShow
<1>2. UNCHANGED <<win, next, making, untold>> /\ UNCHANGED <<uiMain, moved>>
  BY DEF DoShow, guest
<1>3. \A h \in DOMAIN host : host[h] \in [visible : BOOLEAN, pos : Places, link : Handles]
  BY DEF TreeHolds, TypeOK
<1>4. host' = IF c.hwnd \in DOMAIN host /\ ~(uiMain = c.hwnd /\ forced /\ ~c.visible)
              THEN [host EXCEPT ![c.hwnd].visible = c.visible] ELSE host
  BY <1>1 DEF DoShow
<1> HIDE DEF c
<1>5. /\ DOMAIN host' = DOMAIN host
      /\ \A h \in DOMAIN host : /\ host'[h].pos = host[h].pos
                                /\ h # c.hwnd => host'[h].visible = host[h].visible
      /\ c.hwnd \in DOMAIN host /\ c.hwnd # uiMain => host'[c.hwnd].visible = c.visible
  BY <1>3, <1>4
<1>6. \A h : /\ ~About(c, Making, h) /\ ~About(c, Placing, h)
             /\ About(c, Showing, h) <=> c.hwnd = h
             /\ Seen(c) = c.visible
  BY <1>1 DEF About, Making, Placing, Showing, Seen
<1>7. ASSUME NEW h \in DOMAIN win \ ToSet(making), MadeFits(h)
      PROVE  /\ CreateFits(host', cmds', h)
             /\ PlaceFits(win, host', cmds', moved', h)
             /\ h \notin untold \cup {uiMain'} => ShowFits(win, host', cmds', h)
  <2>1. CreateFits(host', cmds', h)
    BY <1>1, <1>5, <1>6, <1>7, CreationWaits DEF MadeFits, c
  <2>2. PlaceFits(win, host', cmds', moved', h)
    BY <1>1, <1>2, <1>5, <1>6, <1>7, PlaceWaits, EventsAre DEF MadeFits, c
  <2>3. ASSUME h \notin untold, h # uiMain PROVE ShowFits(win, host', cmds', h)
    <3>1. ShowFits(win, host, cmds, h) /\ CreateFits(host, cmds, h)
      BY <1>7, <2>3 DEF MadeFits
    <3>2. CASE c.hwnd # h
      <4>1. ~About(cmds[1], Showing, h)
        BY <1>6, <3>2 DEF c
      <4> QED BY <1>1, <1>5, <3>1, <3>2, <4>1, ShowWaits
    <3>3. CASE c.hwnd = h
      <4>1. ShownBy(cmds, h, Shown(win, h))
        <5>1. ~Silent(cmds, Showing, h)
          BY <1>1, <1>6, <3>3, SilentNext DEF c
        <5> QED BY <3>1, <5>1 DEF ShowFits
      <4>2. CASE ShownBy(cmds', h, Shown(win, h))
        BY <4>2 DEF ShowFits
      <4>3. CASE Seen(c) = Shown(win, h) /\ Silent(cmds', Showing, h)
        <5>1. h \in DOMAIN host
          BY <1>1, <3>1, <4>3, LastIsThere DEF c
        <5>2. host'[h].visible = Shown(win, h) /\ h \in DOMAIN host'
          BY <1>5, <1>6, <2>3, <3>3, <4>3, <5>1
        <5> QED BY <4>3, <5>2 DEF ShowFits
      <4> QED BY <1>1, <4>1, <4>2, <4>3, ByNext DEF c
    <3> QED BY <3>2, <3>3
  <2> QED BY <1>2, <2>1, <2>2, <2>3
<1>8. MovesFit(win, Known, host', moved') /\ \A h \in ToSet(making) : h \notin DOMAIN host'
  BY <1>2, <1>5 DEF HostInv, MovesFit
<1> QED BY <1>1, <1>2, <1>7, <1>8, TakenHosts

\* A host window goes somewhere: the last event of it says where it stands.
HostAt(hs, now, ms, msNow, h, pos) ==
  /\ DOMAIN now = DOMAIN hs
  /\ \A x \in DOMAIN hs : now[x].visible = hs[x].visible /\ (x # h => now[x].pos = hs[x].pos)
  /\ now[h].pos = pos
  /\ \A x : x # h => SameEvents(ms, msNow, x)
  /\ \/ hs[h].pos = pos /\ msNow = ms
     \/ Reported(msNow, h, pos)
  /\ \A i \in DOMAIN msNow : msNow[i].hwnd = h \/ \E j \in DOMAIN ms : ms[j].hwnd = msNow[i].hwnd

LEMMA HostMovesSays ==
  ASSUME TypeOK, NEW h \in DOMAIN host, NEW pos \in Places, HostMoves(h, pos)
  PROVE  HostAt(host, host', moved, moved', h, pos)
<1> DEFINE Events == [hwnd : Handles, pos : Places]
           e      == [hwnd |-> h, pos |-> pos]
           one    == <<e>>
<1>1. /\ \A x \in DOMAIN host : host[x] \in [visible : BOOLEAN, pos : Places, link : Handles]
      /\ DOMAIN host \subseteq Handles /\ moved \in Seq(Events)
  BY KnownAre DEF TypeOK
<1>2. /\ DOMAIN host' = DOMAIN host
      /\ \A x \in DOMAIN host :
           host'[x].visible = host[x].visible /\ (x # h => host'[x].pos = host[x].pos)
      /\ host'[h].pos = pos
  BY <1>1 DEF HostMoves
<1>3. CASE host[h].pos = pos
  <2>1. moved' = moved
    BY <1>3 DEF HostMoves
  <2> QED BY <1>2, <1>3, <2>1, EventsAre DEF HostAt
<1>4. CASE host[h].pos # pos
  <2>1. e \in Events
    BY <1>1
  <2>2. e.hwnd = h /\ e.pos = pos
    OBVIOUS
  <2>3. moved' = Append(moved, e)
    BY <1>4 DEF HostMoves
  <2> HIDE DEF Events, e
  <2>4. one \in Seq(Events) /\ DOMAIN one = {1} /\ one[1] = e /\ moved' = moved \o one
    BY <1>1, <2>1, <2>3
  <2> HIDE DEF one
  <2>5. Extends(moved, one, moved')
    BY <1>1, <2>4, ExtendsIs
  <2>6. PICK m \in DOMAIN moved' : m = Len(moved) + 1 /\ moved'[m] = e
    BY <2>4, <2>5 DEF Extends
  <2>7. \A i \in DOMAIN moved' : i \in DOMAIN moved \/ i = m
    BY <2>4, <2>5, <2>6 DEF Extends
  <2>8. \A i \in DOMAIN moved : i \in DOMAIN moved' /\ moved'[i] = moved[i] /\ i < m
    BY <2>5, <2>6 DEF Extends
  <2>9. Reported(moved', h, pos)
    <3>1. \A j \in DOMAIN moved' : m < j => moved'[j].hwnd # h
      BY <2>5, <2>6, <2>7, <2>8 DEF Extends
    <3> QED BY <2>2, <2>6, <3>1 DEF Reported
  <2>10. ASSUME NEW x, x # h PROVE SameEvents(moved, moved', x)
    <3>1. moved'[m].hwnd # x
      BY <2>2, <2>6, <2>10
    <3>2. Quiet(moved', x) <=> Quiet(moved, x)
      BY <2>7, <2>8, <3>1 DEF Quiet
    <3>3. ASSUME NEW p, Reported(moved, x, p) PROVE Reported(moved', x, p)
      <4>1. PICK i \in DOMAIN moved :
              /\ moved[i].hwnd = x /\ moved[i].pos = p
              /\ \A j \in DOMAIN moved : i < j => moved[j].hwnd # x
        BY <3>3 DEF Reported
      <4>2. \A j \in DOMAIN moved' : i < j => moved'[j].hwnd # x
        BY <2>7, <2>8, <3>1, <4>1
      <4> QED BY <2>8, <4>1, <4>2 DEF Reported
    <3> QED BY <3>2, <3>3 DEF SameEvents
  <2>11. \A i \in DOMAIN moved' :
           moved'[i].hwnd = h \/ \E j \in DOMAIN moved : moved[j].hwnd = moved'[i].hwnd
    BY <2>2, <2>6, <2>7, <2>8
  <2> QED BY <1>2, <2>9, <2>10, <2>11 DEF HostAt
<1> QED BY <1>3, <1>4

LEMMA ReportedLoud == ASSUME NEW ms, NEW h, NEW p, Reported(ms, h, p) PROVE ~Quiet(ms, h)
BY DEF Reported, Quiet

LEMMA MovesStillFit ==
  ASSUME TypeOK, HostInv, NEW h \in DOMAIN host, NEW pos,
         HostAt(host, host', moved, moved', h, pos)
  PROVE  MovesFit(win, Known, host', moved')
<1>1. h \in Known /\ h \in DOMAIN host' /\ DOMAIN host' = DOMAIN host
  BY DEF TypeOK, HostAt
<1>2. \A i \in DOMAIN moved : /\ moved[i].hwnd \in Known
                              /\ moved[i].hwnd \in DOMAIN win => moved[i].hwnd \in DOMAIN host
  BY DEF HostInv, MovesFit
<1>3. \A i \in DOMAIN moved' :
        moved'[i].hwnd = h \/ \E j \in DOMAIN moved : moved[j].hwnd = moved'[i].hwnd
  BY DEF HostAt
<1> QED BY <1>1, <1>2, <1>3 DEF MovesFit

LEMMA DoMoveHosts == ASSUME TreeHolds, HostInv, DoMove PROVE HostInv'
<1> DEFINE c == cmds[1]
<1>1. /\ Follows(cmds, cmds') /\ c.op = "move" /\ c = Head(cmds) /\ c \in Commands
  BY TakeIs DEF DoMove
<1>2. UNCHANGED <<win, next, making, untold>> /\ UNCHANGED uiMain /\ TypeOK
  BY DEF DoMove, guest, TreeHolds
<1>3. c.pos \in Places
  BY <1>1 DEF Commands, BoxCmd
<1>4. IF c.hwnd \in DOMAIN host THEN HostMoves(c.hwnd, c.pos) ELSE UNCHANGED <<host, moved>>
  BY <1>1 DEF DoMove
<1> HIDE DEF c
<1>5. \A h : /\ ~About(c, Making, h) /\ ~About(c, Showing, h)
             /\ About(c, Placing, h) <=> c.hwnd = h
  BY <1>1 DEF About, Making, Placing, Showing
<1>6. c.hwnd \in DOMAIN host => HostAt(host, host', moved, moved', c.hwnd, c.pos)
  BY <1>2, <1>3, <1>4, HostMovesSays
<1>7. /\ DOMAIN host' = DOMAIN host
      /\ \A h \in DOMAIN host : /\ host'[h].visible = host[h].visible
                                /\ h # c.hwnd => host'[h].pos = host[h].pos
      /\ \A h : h # c.hwnd => SameEvents(moved, moved', h)
  <2>1. CASE c.hwnd \in DOMAIN host
    BY <1>6, <2>1 DEF HostAt
  <2>2. CASE c.hwnd \notin DOMAIN host
    BY <1>4, <2>2, EventsAre
  <2> QED BY <2>1, <2>2
<1>8. MovesFit(win, Known, host', moved')
  <2>1. CASE c.hwnd \in DOMAIN host
    BY <1>2, <1>6, <2>1, MovesStillFit
  <2>2. CASE c.hwnd \notin DOMAIN host
    BY <1>4, <2>2 DEF HostInv
  <2> QED BY <2>1, <2>2
<1>9. ASSUME NEW h \in DOMAIN win \ ToSet(making), MadeFits(h)
      PROVE  /\ CreateFits(host', cmds', h)
             /\ PlaceFits(win, host', cmds', moved', h)
             /\ h \notin untold \cup {uiMain'} => ShowFits(win, host', cmds', h)
  <2>1. CreateFits(host, cmds, h) /\ PlaceFits(win, host, cmds, moved, h)
    BY <1>9 DEF MadeFits
  <2>2. CreateFits(host', cmds', h)
    BY <1>1, <1>5, <1>7, <2>1, CreationWaits DEF c
  <2>3. h \notin untold \cup {uiMain'} => ShowFits(win, host', cmds', h)
    BY <1>1, <1>2, <1>5, <1>7, <1>9, ShowWaits DEF MadeFits, c
  <2>4. CASE c.hwnd # h
    <3>1. ~About(cmds[1], Placing, h)
      BY <1>5, <2>4 DEF c
    <3>2. PlaceFits(win, host', cmds', moved', h)
      BY <1>1, <1>7, <2>1, <2>4, <3>1, PlaceWaits
    <3> QED BY <2>2, <2>3, <3>2
  <2>5. CASE c.hwnd = h
    <3>1. PlacedBy(cmds, h, win[h].pos) =>
            PlacedBy(cmds', h, win[h].pos) \/ (c.pos = win[h].pos /\ Silent(cmds', Placing, h))
      BY <1>1, ByNext DEF c
    <3>2. ~Silent(cmds, Placing, h)
      BY <1>1, <1>5, <2>5, SilentNext DEF c
    <3>3. CASE h \notin DOMAIN host
      <4>1. PlacedBy(cmds, h, win[h].pos)
        BY <2>1, <3>3 DEF PlaceFits
      <4>2. ~Silent(cmds', Placing, h)
        BY <1>1, <2>1, <3>3, LastIsThere DEF c
      <4> QED BY <1>7, <2>2, <2>3, <3>1, <3>3, <4>1, <4>2 DEF PlaceFits
    <3>4. CASE h \in DOMAIN host
      <4>1. /\ host'[h].pos = c.pos /\ h \in DOMAIN host'
            /\ (host[h].pos = c.pos /\ moved' = moved) \/ Reported(moved', h, c.pos)
        BY <1>6, <1>7, <2>5, <3>4 DEF HostAt
      <4>2. Reported(moved', h, c.pos) => ~Quiet(moved', h)
        BY ReportedLoud
      <4>3. CASE Free(win, h)
        BY <2>1, <3>1, <3>4, <4>1, <4>2, <4>3, <2>2, <2>3 DEF PlaceFits
      <4>4. CASE ~Free(win, h)
        BY <2>1, <3>1, <3>2, <4>1, <4>4, <2>2, <2>3 DEF PlaceFits
      <4> QED BY <4>3, <4>4
    <3> QED BY <3>3, <3>4
  <2> QED BY <2>4, <2>5
<1>10. \A h \in ToSet(making) : h \notin DOMAIN host'
  BY <1>7 DEF HostInv
<1> QED BY <1>1, <1>2, <1>8, <1>9, <1>10, TakenHosts

\* A main window was registered.
HostMainSeen == uiMain # NoWindow => uiSeen

LEMMA DoCreateHosts == ASSUME TreeHolds, HostInv, HostMainSeen, DoCreate PROVE HostInv'
<1> DEFINE c == cmds[1]
           x == c.hwnd
<1>1. /\ Follows(cmds, cmds') /\ c.op = "create" /\ c = Head(cmds)
  BY TakeIs DEF DoCreate
<1>2. UNCHANGED <<win, next, making, untold>> /\ moved' = moved
  BY DEF DoCreate, guest
<1>3. /\ host' = [h \in DOMAIN host \cup {x} |->
                    IF h # x THEN host[h]
                    ELSE [visible |-> c.parent = NoWindow \/ c.visible, pos |-> c.pos, link |-> Link(c)]]
      /\ uiMain' \in {uiMain, x} /\ (uiSeen => uiMain' = uiMain)
  BY <1>1 DEF DoCreate
<1>4. uiMain \in DOMAIN host \cup {NoWindow} /\ DOMAIN host \subseteq Known /\ NoWindow \notin Known
      /\ DOMAIN win \subseteq Known
  BY KnownAre DEF TreeHolds, TypeOK, NoWindow
<1>5. \A h : /\ About(c, Making, h) <=> h = x
             /\ About(c, Placing, h) <=> h = x
             /\ About(c, Showing, h) <=> h = x
  BY <1>1 DEF About, Making, Placing, Showing
<1>6. Seen(c) = (c.parent = NoWindow \/ c.visible)
  BY <1>1 DEF Seen
<1> HIDE DEF c
<1>7. /\ DOMAIN host' = DOMAIN host \cup {x}
      /\ \A h \in DOMAIN host : h # x => host'[h] = host[h]
      /\ host'[x].pos = c.pos /\ host'[x].visible = Seen(c)
  BY <1>3, <1>6
<1> HIDE DEF x
<1>8. ASSUME NEW h \in DOMAIN win \ ToSet(making), MadeFits(h)
      PROVE  /\ CreateFits(host', cmds', h)
             /\ PlaceFits(win, host', cmds', moved', h)
             /\ h \notin untold \cup {uiMain'} => ShowFits(win, host', cmds', h)
  <2>1. /\ CreateFits(host, cmds, h) /\ PlaceFits(win, host, cmds, moved, h)
        /\ h \notin untold \cup {uiMain} => ShowFits(win, host, cmds, h)
    BY <1>8 DEF MadeFits
  <2>2. CASE h # x
    <3>1. ~About(cmds[1], Making, h) /\ ~About(cmds[1], Placing, h) /\ ~About(cmds[1], Showing, h)
      BY <1>5, <2>2 DEF c
    <3>2. /\ h \in DOMAIN host' <=> h \in DOMAIN host
          /\ h \in DOMAIN host =>
               host'[h].pos = host[h].pos /\ host'[h].visible = host[h].visible
      BY <1>7, <2>2
    <3>3. h \notin untold \cup {uiMain'} => h \notin untold \cup {uiMain}
      BY <1>3, <1>4 DEF HostMainSeen
    <3>4. CreateFits(host', cmds', h)
      BY <1>1, <2>1, <3>1, <3>2, CreationWaits
    <3>5. PlaceFits(win, host', cmds', moved', h)
      BY <1>1, <1>2, <2>1, <3>1, <3>2, PlaceWaits, EventsAre
    <3>6. h \notin untold \cup {uiMain'} => ShowFits(win, host', cmds', h)
      BY <1>1, <2>1, <3>1, <3>2, <3>3, ShowWaits
    <3> QED BY <3>4, <3>5, <3>6
  <2>3. CASE h = x
    <3>1. ~Silent(cmds, Making, h)
      BY <1>1, <1>5, <2>3, SilentNext DEF c
    <3>2. h \notin DOMAIN host /\ Once(cmds, h)
      BY <2>1, <3>1 DEF CreateFits
    <3>3. Silent(cmds', Making, h)
      BY <1>1, <1>5, <2>3, <3>2, OnceNext DEF c
    <3>4. CreateFits(host', cmds', h)
      BY <1>7, <2>3, <3>3 DEF CreateFits
    <3>5. Quiet(moved, h)
      BY <3>2 DEF HostInv, MovesFit, Quiet
    <3>6. PlacedBy(cmds, h, win[h].pos)
      BY <2>1, <3>2 DEF PlaceFits
    <3>7. PlacedBy(cmds', h, win[h].pos) \/ (c.pos = win[h].pos /\ Silent(cmds', Placing, h))
      BY <1>1, <3>6, ByNext DEF c
    <3>8. h \in DOMAIN host' /\ host'[h].pos = c.pos
      BY <1>7, <2>3
    <3>9. PlaceFits(win, host', cmds', moved', h)
      BY <1>2, <3>5, <3>7, <3>8 DEF PlaceFits
    <3>10. ASSUME h \notin untold, h # uiMain' PROVE ShowFits(win, host', cmds', h)
      <4>1. h # uiMain
        BY <1>4, <3>2
      <4>2. ShownBy(cmds, h, Shown(win, h))
        BY <2>1, <3>2, <3>10, <4>1 DEF ShowFits
      <4>3. \/ ShownBy(cmds', h, Shown(win, h))
            \/ Seen(c) = Shown(win, h) /\ Silent(cmds', Showing, h)
        BY <1>1, <4>2, ByNext DEF c
      <4>4. CASE ShownBy(cmds', h, Shown(win, h))
        BY <4>4 DEF ShowFits
      <4>5. CASE Seen(c) = Shown(win, h) /\ Silent(cmds', Showing, h)
        <5>1. host'[h].visible = Shown(win, h)
          BY <1>7, <2>3, <4>5
        <5> QED BY <3>8, <4>5, <5>1 DEF ShowFits
      <4> QED BY <4>3, <4>4, <4>5
    <3> QED BY <3>4, <3>9, <3>10
  <2> QED BY <2>2, <2>3
<1>9. MovesFit(win, Known, host', moved')
  BY <1>2, <1>7 DEF HostInv, MovesFit
<1>10. \A h \in ToSet(making) : h \notin DOMAIN host'
  <2>1. \A h \in ToSet(making) : h # x
    BY <1>1, <1>5, SilentNext DEF HostInv, c
  <2> QED BY <1>7, <2>1 DEF HostInv
<1> QED BY <1>1, <1>2, <1>8, <1>9, <1>10, TakenHosts

LEMMA DoDestroyHosts == ASSUME TreeHolds, HostInv, DoDestroy PROVE HostInv'
<1> DEFINE x == cmds[1].hwnd
<1>1. /\ Follows(cmds, cmds') /\ cmds[1].op = "destroy" /\ cmds[1] = Head(cmds)
  BY TakeIs DEF DoDestroy
<1>2. UNCHANGED <<win, next, making, untold>> /\ moved' = moved
  BY DEF DoDestroy, guest
<1>3. /\ host' = [h \in DOMAIN host \ {x} |-> host[h]]
      /\ uiMain' = IF uiMain = x THEN NoWindow ELSE uiMain
  BY <1>1 DEF DoDestroy
<1>4. x \notin DOMAIN win
  <2>1. CommandFits(win, Known, cmds, 1)
    BY <1>1 DEF TreeHolds, TreeInv, TreeOf, Follows
  <2> QED BY <1>1, <2>1 DEF CommandFits, IsDestroy
<1>5. \A h : /\ ~About(cmds[1], Making, h) /\ ~About(cmds[1], Placing, h)
             /\ ~About(cmds[1], Showing, h)
  BY <1>1 DEF About, Making, Placing, Showing
<1> HIDE DEF x
<1>6. ASSUME NEW h \in DOMAIN win \ ToSet(making), MadeFits(h)
      PROVE  /\ CreateFits(host', cmds', h)
             /\ PlaceFits(win, host', cmds', moved', h)
             /\ h \notin untold \cup {uiMain'} => ShowFits(win, host', cmds', h)
  <2>1. /\ CreateFits(host, cmds, h) /\ PlaceFits(win, host, cmds, moved, h)
        /\ h \notin untold \cup {uiMain} => ShowFits(win, host, cmds, h)
    BY <1>6 DEF MadeFits
  <2>2. h # x
    BY <1>4
  <2>3. /\ h \in DOMAIN host' <=> h \in DOMAIN host
        /\ h \in DOMAIN host => host'[h].pos = host[h].pos /\ host'[h].visible = host[h].visible
        /\ h \notin {uiMain'} => h \notin {uiMain}
    BY <1>3, <2>2
  <2>4. CreateFits(host', cmds', h)
    BY <1>1, <1>5, <2>1, <2>3, CreationWaits
  <2>5. PlaceFits(win, host', cmds', moved', h)
    BY <1>1, <1>2, <1>5, <2>1, <2>3, PlaceWaits, EventsAre
  <2>6. h \notin untold \cup {uiMain'} => ShowFits(win, host', cmds', h)
    BY <1>1, <1>5, <2>1, <2>3, ShowWaits
  <2> QED BY <2>4, <2>5, <2>6
<1>7. MovesFit(win, Known, host', moved')
  BY <1>2, <1>3, <1>4 DEF HostInv, MovesFit
<1>8. \A h \in ToSet(making) : h \notin DOMAIN host'
  BY <1>3 DEF HostInv
<1> QED BY <1>1, <1>2, <1>6, <1>7, <1>8, TakenHosts

\* The first event is handled: the last of a window is still the last, or was the first.
LEMMA EventNext ==
  ASSUME NEW ms, NEW t, Follows(ms, t), NEW h
  PROVE  /\ ms[1].hwnd # h => SameEvents(ms, t, h)
         /\ Quiet(ms, h) => Quiet(t, h) /\ ms[1].hwnd # h
         /\ \A p : Reported(ms, h, p) => Reported(t, h, p) \/ (ms[1].pos = p /\ Quiet(t, h))
<1>1. ASSUME NEW p, Reported(ms, h, p) 
      PROVE  Reported(t, h, p) \/ (ms[1].hwnd = h /\ ms[1].pos = p /\ Quiet(t, h))
  <2>1. PICK i \in DOMAIN ms : /\ ms[i].hwnd = h /\ ms[i].pos = p
                               /\ \A j \in DOMAIN ms : i < j => ms[j].hwnd # h
    BY <1>1 DEF Reported
  <2>2. CASE i = 1
    <3>1. ASSUME NEW k \in DOMAIN t PROVE t[k].hwnd # h
      <4>1. PICK m \in DOMAIN ms : m = k + 1 /\ t[k] = ms[m] /\ k \in Nat /\ k > 0
        BY DEF Follows
      <4> QED BY <2>1, <2>2, <4>1
    <3> QED BY <2>1, <2>2, <3>1 DEF Quiet
  <2>3. CASE i # 1
    <3>1. PICK k \in DOMAIN t : i = k + 1 /\ t[k] = ms[i] /\ k \in Nat
      BY <2>3 DEF Follows
    <3>2. ASSUME NEW j \in DOMAIN t, k < j PROVE t[j].hwnd # h
      <4>1. PICK m \in DOMAIN ms : m = j + 1 /\ t[j] = ms[m] /\ j \in Nat
        BY DEF Follows
      <4>2. i < m
        BY <3>1, <3>2, <4>1
      <4> QED BY <2>1, <4>1, <4>2
    <3> QED BY <2>1, <3>1, <3>2 DEF Reported
  <2> QED BY <2>2, <2>3
<1>2. Quiet(ms, h) => Quiet(t, h) /\ ms[1].hwnd # h
  BY DEF Quiet, Follows
<1>3. ASSUME ms[1].hwnd # h, Quiet(t, h) PROVE Quiet(ms, h)
  <2> SUFFICES ASSUME NEW m \in DOMAIN ms, m # 1 PROVE ms[m].hwnd # h
    BY <1>3 DEF Quiet
  <2>1. PICK i \in DOMAIN t : t[i] = ms[m]
    BY DEF Follows
  <2> QED BY <1>3, <2>1 DEF Quiet
<1> QED BY <1>1, <1>2, <1>3 DEF SameEvents

LEMMA MovedHosts == ASSUME TreeHolds, HostInv, Moved PROVE HostInv'
<1> DEFINE m == moved[1]
           x == m.hwnd
           takes == x \in DOMAIN host /\ x \in DOMAIN win /\ ~InParent(win, x)
<1>1. TypeOK /\ TreeInv
  BY DEF TreeHolds
<1>2. /\ UNCHANGED <<next, making, cmds, untold>> /\ UNCHANGED <<host, uiMain>>
  BY DEF Moved, hosts
<1>3. Follows(moved, moved') /\ Head(moved) = m
  <2> DEFINE Events == [hwnd : Handles, pos : Places]
  <2>1. moved \in Seq(Events) /\ moved # <<>> /\ moved' = Tail(moved)
    BY <1>1 DEF Moved, TypeOK
  <2> HIDE DEF Events
  <2> QED BY <2>1, FollowsIs
<1>4. win' = IF takes THEN [win EXCEPT ![x].pos = m.pos] ELSE win
  BY <1>3 DEF Moved
<1> HIDE DEF m
<1>5. \A h \in DOMAIN win : win[h] \in Window
  BY <1>1 DEF TypeOK
<1>6. /\ SameTree(win, win') /\ DOMAIN win' = DOMAIN win
      /\ \A h \in DOMAIN win : /\ win'[h].child = win[h].child /\ win'[h].visible = win[h].visible
                               /\ win'[h].parent = win[h].parent /\ win'[h].z = win[h].z
                               /\ h # x => win'[h] = win[h]
      /\ takes => win'[x].pos = m.pos
      /\ ~takes => win' = win
  BY <1>4, <1>5 DEF SameTree, Window
<1>7. \A h \in DOMAIN win : Shown(win', h) = Shown(win, h) /\ Free(win', h) = Free(win, h)
  <2>1. Windows(win) /\ ParentsLive(win)
    BY <1>1, GuestFacts
  <2>2. Windows(win')
    BY <1>6, <2>1 DEF Windows, Tree
  <2> QED BY <1>6, <2>1, <2>2, LooksSame DEF ParentsLive
<1> HIDE DEF takes
<1>8. ASSUME NEW h \in DOMAIN win \ ToSet(making), MadeFits(h)
      PROVE  /\ CreateFits(host, cmds, h)
             /\ PlaceFits(win', host, cmds, moved', h)
             /\ h \notin untold \cup {uiMain} => ShowFits(win', host, cmds, h)
  <2>1. /\ CreateFits(host, cmds, h) /\ PlaceFits(win, host, cmds, moved, h)
        /\ h \notin untold \cup {uiMain} => ShowFits(win, host, cmds, h)
    BY <1>8 DEF MadeFits
  <2>2. h \notin untold \cup {uiMain} => ShowFits(win', host, cmds, h)
    BY <1>7, <2>1 DEF ShowFits
  <2>3. Free(win', h) = Free(win, h)
    BY <1>7
  <2>4. CASE ~Free(win, h)
    <3>1. win'[h].pos = win[h].pos
      <4>1. x = h => ~takes
        BY <2>4 DEF takes, Free, InParent
      <4> QED BY <1>6, <4>1
    <3>2. PlaceFits(win', host, cmds, moved', h)
      BY <2>1, <2>3, <2>4, <3>1 DEF PlaceFits
    <3> QED BY <2>1, <2>2, <3>2
  <2>5. CASE Free(win, h) /\ x # h
    <3>1. win'[h].pos = win[h].pos
      BY <1>6, <2>5
    <3>2. SameEvents(moved, moved', h)
      BY <1>3, <2>5, EventNext DEF m
    <3>3. PlaceFits(win', host, cmds, moved', h)
      BY <2>1, <2>3, <2>5, <3>1, <3>2 DEF PlaceFits, SameEvents
    <3> QED BY <2>1, <2>2, <3>3
  <2>6. CASE Free(win, h) /\ x = h
    <3>1. h \in DOMAIN host
      <4>1. 1 \in DOMAIN moved /\ moved[1].hwnd = h
        BY <1>3, <2>6 DEF Follows, m
      <4> QED BY <4>1 DEF HostInv, MovesFit
    <3>2. win'[h].pos = m.pos
      <4>1. takes
        BY <2>6, <3>1 DEF takes, Free, InParent
      <4> QED BY <1>6, <2>6, <4>1
    <3>3. Reported(moved, h, host[h].pos)
      <4>1. ~Quiet(moved, h)
        BY <1>3, <2>6, EventNext DEF m
      <4> QED BY <2>1, <2>6, <3>1, <4>1 DEF PlaceFits
    <3>4. Reported(moved', h, host[h].pos) \/ (m.pos = host[h].pos /\ Quiet(moved', h))
      BY <1>3, <3>3, EventNext DEF m
    <3>5. Reported(moved', h, host[h].pos) => ~Quiet(moved', h)
      BY ReportedLoud
    <3>6. PlaceFits(win', host, cmds, moved', h)
      BY <2>3, <2>6, <3>1, <3>2, <3>4, <3>5 DEF PlaceFits
    <3> QED BY <2>1, <2>2, <3>6
  <2> QED BY <2>4, <2>5, <2>6
<1>9. MovesFit(win', Known, host, moved')
  <2> SUFFICES ASSUME NEW i \in DOMAIN moved'
               PROVE  /\ moved'[i].hwnd \in Known
                      /\ moved'[i].hwnd \in DOMAIN win' => moved'[i].hwnd \in DOMAIN host
    BY DEF MovesFit
  <2>1. PICK j \in DOMAIN moved : moved'[i] = moved[j]
    BY <1>3 DEF Follows
  <2> QED BY <1>6, <2>1 DEF HostInv, MovesFit
<1>10. Known' = Known
  BY <1>2 DEF Known
<1> QED BY <1>2, <1>6, <1>8, <1>9, <1>10 DEF HostInv, MadeFits

LEMMA MainRenderedHosts == ASSUME TreeHolds, HostInv, MainRendered PROVE HostInv'
<1>1. UNCHANGED <<win, next, making, untold>> /\ UNCHANGED <<uiMain, cmds, moved>>
  BY DEF MainRendered, guest
<1>2. /\ DOMAIN host' = DOMAIN host
      /\ \A h \in DOMAIN host : /\ host'[h].pos = host[h].pos
                                /\ h # uiMain => host'[h].visible = host[h].visible
  <2>1. \A h \in DOMAIN host : host[h] \in [visible : BOOLEAN, pos : Places, link : Handles]
    BY DEF TreeHolds, TypeOK
  <2> QED BY <2>1 DEF MainRendered
<1>3. ASSUME NEW h \in DOMAIN win \ ToSet(making), MadeFits(h)
      PROVE  /\ CreateFits(host', cmds, h)
             /\ PlaceFits(win, host', cmds, moved, h)
             /\ h \notin untold \cup {uiMain} => ShowFits(win, host', cmds, h)
  <2>1. CreateFits(host', cmds, h)
    BY <1>2, <1>3 DEF MadeFits, CreateFits
  <2>2. PlaceFits(win, host', cmds, moved, h)
    <3>1. PlaceFits(win, host, cmds, moved, h)
      BY <1>3 DEF MadeFits
    <3> QED BY <1>2, <3>1 DEF PlaceFits
  <2>3. ASSUME h \notin untold, h # uiMain PROVE ShowFits(win, host', cmds, h)
    BY <1>2, <1>3, <2>3 DEF MadeFits, ShowFits
  <2> QED BY <2>1, <2>2, <2>3
<1>4. MovesFit(win, Known, host', moved) /\ \A h \in ToSet(making) : h \notin DOMAIN host'
  BY <1>2 DEF HostInv, MovesFit
<1>5. Known' = Known
  BY <1>1 DEF Known
<1> QED BY <1>1, <1>3, <1>4, <1>5 DEF HostInv, MadeFits

LEMMA DragHosts ==
  ASSUME TreeHolds, HostInv, NEW x \in DOMAIN host, NEW pos \in Places, Drag(x, pos)
  PROVE  HostInv'
<1>1. UNCHANGED <<win, next, making, untold>> /\ UNCHANGED <<uiMain, cmds>>
  BY DEF Drag, guest
<1>2. HostAt(host, host', moved, moved', x, pos) /\ TypeOK /\ host[x].pos # pos
  BY HostMovesSays DEF Drag, TreeHolds
<1>3. /\ DOMAIN host' = DOMAIN host /\ host'[x].pos = pos
      /\ \A h \in DOMAIN host : /\ host'[h].visible = host[h].visible
                                /\ h # x => host'[h].pos = host[h].pos
      /\ \A h : h # x => SameEvents(moved, moved', h)
      /\ Reported(moved', x, pos)
  BY <1>2 DEF HostAt
<1>4. x \in DOMAIN win => Free(win, x)
  BY DEF Drag, Free, InParent
<1>5. ASSUME NEW h \in DOMAIN win \ ToSet(making), MadeFits(h)
      PROVE  /\ CreateFits(host', cmds, h)
             /\ PlaceFits(win, host', cmds, moved', h)
             /\ h \notin untold \cup {uiMain} => ShowFits(win, host', cmds, h)
  <2>1. PlaceFits(win, host, cmds, moved, h)
    BY <1>5 DEF MadeFits
  <2>2. CreateFits(host', cmds, h)
    BY <1>3, <1>5 DEF MadeFits, CreateFits
  <2>3. h \notin untold \cup {uiMain} => ShowFits(win, host', cmds, h)
    BY <1>3, <1>5 DEF MadeFits, ShowFits
  <2>4. PlaceFits(win, host', cmds, moved', h)
    <3>1. CASE h = x
      <4>1. ~Quiet(moved', h)
        BY <1>3, <3>1, ReportedLoud
      <4> QED BY <1>3, <1>4, <3>1, <4>1 DEF PlaceFits
    <3>2. CASE h # x /\ Free(win, h)
      BY <1>3, <2>1, <3>2 DEF PlaceFits, SameEvents
    <3>3. CASE h # x /\ ~Free(win, h)
      BY <1>3, <2>1, <3>3 DEF PlaceFits
    <3> QED BY <3>1, <3>2, <3>3
  <2> QED BY <2>2, <2>3, <2>4
<1>6. MovesFit(win, Known, host', moved')
  BY <1>2, MovesStillFit
<1>7. \A h \in ToSet(making) : h \notin DOMAIN host'
  BY <1>3 DEF HostInv
<1>8. Known' = Known
  BY <1>1 DEF Known
<1> QED BY <1>1, <1>5, <1>6, <1>7, <1>8 DEF HostInv, MadeFits

----------------------------------------------------------------------------
(* The host follows the guest. *)

\* The inductive invariant that adds to TreeHolds what is under way for every window.
HostHolds == TreeHolds /\ HostMainSeen /\ HostInv

LEMMA HostStarts == ASSUME Init PROVE HostHolds
<1>1. DOMAIN win = {} /\ DOMAIN moved = {} /\ DOMAIN making = {} /\ uiMain = NoWindow
  BY DEF Init, NoWindow
<1>2. ToSet(making) = {}
  BY <1>1 DEF ToSet
<1> QED BY <1>1, <1>2, TreeStarts DEF HostHolds, HostMainSeen, HostInv, Distinct, MovesFit

LEMMA HostMainStays == ASSUME HostMainSeen, [Next]_vars PROVE HostMainSeen'
<1>1. CASE GuestStep
  BY <1>1, ZenonT(30) DEF GuestStep, CreateBegin, CreatePlain, CreateEnd, CreateRejected,
     DestroyWindow, ShowWindow, SetStyle, MoveWindow, SetWindowPos, MessageBox, Unmoved, hosts,
     HostMainSeen
<1>2. CASE UIStep
  BY <1>2 DEF UIStep, UIWakes, BeginDrain, EndDrain, DoCreate, DoDestroy, DoShow, DoMove, DoBox,
     Moved, MainRendered, CloseRequested, hosts, HostMainSeen
<1>3. CASE UserStep
  BY <1>3 DEF UserStep, AnswerBox, Drag, hosts, HostMainSeen
<1>4. CASE UNCHANGED vars
  BY <1>4 DEF vars, hosts, HostMainSeen
<1> QED BY <1>1, <1>2, <1>3, <1>4 DEF Next

LEMMA HostSteps == ASSUME TreeHolds, HostMainSeen, HostInv, Next PROVE HostInv'
<1>1. CASE GuestStep
  BY <1>1, GuestStepSays DEF TreeHolds
<1>2. CASE UIWakes \/ BeginDrain \/ EndDrain \/ \E h \in DOMAIN host : CloseRequested(h)
  <2>1. UNCHANGED <<win, next, making, host, uiMain, cmds, moved, untold>>
    BY <1>2 DEF UIWakes, BeginDrain, EndDrain, CloseRequested, guest, hosts
  <2> QED BY <2>1, SameHostInv
<1>3. CASE DoCreate \/ DoDestroy \/ DoShow \/ DoMove \/ DoBox
  BY <1>3, DoCreateHosts, DoDestroyHosts, DoShowHosts, DoMoveHosts, DoBoxHosts
<1>4. CASE Moved \/ MainRendered
  BY <1>4, MovedHosts, MainRenderedHosts
<1>5. CASE AnswerBox
  <2>1. UNCHANGED <<win, next, making, host, uiMain, cmds, moved, untold>>
    BY <1>5 DEF AnswerBox, guest, hosts
  <2> QED BY <2>1, SameHostInv
<1>6. CASE \E h \in DOMAIN host, pos \in Places : Drag(h, pos)
  BY <1>6, DragHosts
<1> QED BY <1>1, <1>2, <1>3, <1>4, <1>5, <1>6 DEF Next, UIStep, UserStep

LEMMA HostStutters == ASSUME HostInv, UNCHANGED vars PROVE HostInv'
<1>1. UNCHANGED <<win, next, making, host, uiMain, cmds, moved, untold>>
  BY DEF vars, guest, hosts
<1> QED BY <1>1, SameHostInv

\* For every window whose creation is over: it has a host window or one creation under way; the
\* last command on its place, or the host window and the last event of it, and the last command
\* on its visibility, or the host window, say what the guest has.
THEOREM HostInvHolds == Spec => []HostHolds
<1>1. HostHolds /\ [Next]_vars => HostHolds'
  <2> SUFFICES ASSUME HostHolds, [Next]_vars PROVE HostHolds'
    OBVIOUS
  <2>1. TreeHolds'
    BY TreeSteps, TreeStutters DEF HostHolds
  <2>2. HostMainSeen'
    BY HostMainStays DEF HostHolds
  <2>3. HostInv'
    BY HostSteps, HostStutters DEF HostHolds
  <2> QED BY <2>1, <2>2, <2>3 DEF HostHolds
<1> QED BY HostStarts, <1>1, PTL DEF Spec

\* When the UI thread has caught up, the host windows are those of the guest whose creation is
\* over, where the guest believes them to be, and visible as it asked: however its calls, the
\* commands, the host's reports of moves and the user's drags were interleaved.
THEOREM HostWindowsFollow == Spec => []HostFollows
<1>1. HostHolds => HostFollows
  <2> SUFFICES ASSUME HostHolds, Settled
               PROVE  /\ DOMAIN host = DOMAIN win \ ToSet(making)
                      /\ \A h \in DOMAIN host :
                           /\ host[h].pos = win[h].pos
                           /\ h \notin untold \cup {uiMain} => host[h].visible = Shown(win, h)
    BY DEF HostFollows
  <2>1. DOMAIN cmds = {} /\ DOMAIN moved = {}
    BY DEF Settled
  <2>2. ASSUME NEW h \in DOMAIN host PROVE h \in DOMAIN win \ ToSet(making)
    <3>1. HostFits(win, host, cmds, h)
      BY DEF HostHolds, TreeHolds, TreeInv, TreeOf
    <3>2. h \in DOMAIN win
      BY <2>1, <3>1 DEF HostFits, Doomed
    <3> QED BY <3>2 DEF HostHolds, HostInv
  <2>3. ASSUME NEW h \in DOMAIN win \ ToSet(making)
        PROVE  /\ h \in DOMAIN host /\ host[h].pos = win[h].pos
               /\ h \notin untold \cup {uiMain} => host[h].visible = Shown(win, h)
    <3>1. MadeFits(h)
      BY DEF HostHolds, HostInv
    <3>2. ~Once(cmds, h) /\ ~PlacedBy(cmds, h, win[h].pos) /\ ~ShownBy(cmds, h, Shown(win, h))
          /\ Quiet(moved, h)
      BY <2>1 DEF Once, PlacedBy, ShownBy, Quiet
    <3>3. h \in DOMAIN host
      BY <3>1, <3>2 DEF MadeFits, CreateFits
    <3>4. PlaceFits(win, host, cmds, moved, h)
      BY <3>1 DEF MadeFits
    <3>5. host[h].pos = win[h].pos
      BY <3>2, <3>3, <3>4 DEF PlaceFits
    <3>6. h \notin untold \cup {uiMain} => host[h].visible = Shown(win, h)
      BY <3>1, <3>2 DEF MadeFits, ShowFits
    <3> QED BY <3>3, <3>5, <3>6
  <2> QED BY <2>2, <2>3
<1> QED BY <1>1, HostInvHolds, PTL

-----------------------------------------------------------------------------
(* The run desktop has the window tree, the picture of a window and the GDI objects   *)
(* beside each other: each runs as its own module says, so its theorems hold of all.   *)

LEMMA TreeRuns == MCSpec => Spec
<1>1. MCInit => Init
  BY DEF MCInit
<1>2. [MCNext]_<<tree, picture, gdi, part>> => [Next]_vars
  BY DEF MCNext, tree
<1> QED BY <1>1, <1>2, PTL DEF MCSpec, Spec

LEMMA PictureRuns == MCSpec => Drawing!Spec
<1>1. MCInit => Drawing!Init
  BY DEF MCInit
<1>2. [MCNext]_<<tree, picture, gdi, part>> => [Drawing!Next]_Drawing!vars
  BY DEF MCNext, picture, Drawing!vars, Drawing!emu, Drawing!uis
<1> QED BY <1>1, <1>2, PTL DEF MCSpec, Drawing!Spec

LEMMA GdiRuns == MCSpec => Drawing!GdiSpec
<1>1. MCInit => Drawing!GdiInit
  BY DEF MCInit
<1>2. [MCNext]_<<tree, picture, gdi, part>> => [Drawing!GdiNext]_Drawing!gdiVars
  BY DEF MCNext, gdi, Drawing!gdiVars, Drawing!table
<1> QED BY <1>1, <1>2, PTL DEF MCSpec, Drawing!GdiSpec

\* The window shows what was drawn once both threads are done, whatever else the program
\* has on its desktop, with the exceptions the property names.
THEOREM DesktopShowsWhatWasDrawn == MCSpec => []ShowsWhatWasDrawn
<1>1. Drawing!Spec => []Drawing!ShowsWhatWasDrawn
  BY Drawing!WindowShowsWhatWasDrawn
<1>2. Drawing!ShowsWhatWasDrawn <=> ShowsWhatWasDrawn
  BY DEF ShowsWhatWasDrawn
<1> QED BY <1>1, <1>2, PictureRuns, PTL

\* The surface of every window counts the DCs that are open on it and, for ever, those
\* that DeleteObject took.
THEOREM DesktopCountsOpenDcs == MCSpec => []CountsOpenDcs
<1>1. Drawing!GdiSpec => []Drawing!CountsOpenDcs
  BY Drawing!OpenDcsAreCounted
<1>2. Drawing!CountsOpenDcs <=> CountsOpenDcs
  BY DEF CountsOpenDcs
<1> QED BY <1>1, <1>2, GdiRuns, PTL

\* Whatever is drawn on the bitmap of a section, directly or by copying, reaches the bits
\* the guest reads before it reads them.
THEOREM DesktopLeavesNothingUndrawn == MCSpec => []NothingUndrawn
<1>1. Drawing!GdiSpec => []Drawing!NothingUndrawn
  BY Drawing!NothingStaysUndrawn
<1>2. Drawing!NothingUndrawn <=> NothingUndrawn
  BY DEF NothingUndrawn
<1> QED BY <1>1, <1>2, GdiRuns, PTL

\* Every variable of the three parts keeps to its type, and what a DC has selected or a
\* window has for its region is never deleted, but by ReleaseDC.
THEOREM DesktopSelectedExist == MCSpec => []SelectedExist
<1>1. Spec => []TypeOK
  <2>1. TreeHolds => TypeOK
    BY DEF TreeHolds
  <2> QED BY <2>1, WindowTreeHolds, PTL
<1>2. Drawing!Spec => []Drawing!TypeOK
  <2>1. Drawing!IInv => Drawing!TypeOK
    BY DEF Drawing!IInv
  <2>2. Drawing!Spec => []Drawing!IInv
    BY Drawing!SurfaceHolds
  <2> QED BY <2>1, <2>2, PTL
<1>3. Drawing!GdiSpec => []Drawing!GdiTypeOK /\ []Drawing!SelectedExist
  <2>1. Drawing!Table => Drawing!GdiTypeOK
    BY DEF Drawing!Table
  <2>2. Drawing!GdiSpec => [](Drawing!Table /\ Drawing!CountsOpenDcs)
    BY Drawing!TableHolds
  <2>3. Drawing!GdiSpec => []Drawing!SelectedExist
    BY Drawing!SelectedAlwaysExist
  <2> QED BY <2>1, <2>2, <2>3, PTL
<1>4. TypeOK /\ Drawing!TypeOK /\ Drawing!GdiTypeOK /\ Drawing!SelectedExist => SelectedExist
  BY DEF SelectedExist, DesktopTypeOK
<1> QED BY <1>1, <1>2, <1>3, <1>4, TreeRuns, PictureRuns, GdiRuns, PTL

----------------------------------------------------------------------------
(* Regions (module Regions).  Induction over lists is by the least exception. *)

LEMMA Upward ==
  ASSUME NEW n \in Nat, NEW T, 0 \in T, \A k \in 1 .. n : k - 1 \in T => k \in T
  PROVE  \A k \in 0 .. n : k \in T
<1> DEFINE U == {k \in 0 .. n : k \notin T}
<1> SUFFICES ASSUME U # {} PROVE FALSE
  OBVIOUS
<1>1. U \in SUBSET Nat
  OBVIOUS
<1>2. \A k \in U : k \in 0 .. n /\ k \notin T
  OBVIOUS
<1>3. \A k \in 0 .. n : k \notin T => k \in U
  OBVIOUS
<1> HIDE DEF U
<1>4. PICK m \in U : \A k \in U : m <= k
  BY <1>1, Least
<1>5. m # 0 /\ m \in 0 .. n /\ m \notin T
  BY <1>2, <1>4, Zenon
<1>6. m \in 1 .. n /\ m - 1 \in 0 .. n /\ ~(m <= m - 1)
  BY <1>5
<1>7. m - 1 \in T
  BY <1>3, <1>4, <1>6, Zenon
<1> QED BY <1>5, <1>6, <1>7, Zenon

\* A function that is defined step by step exists.
Recursive(f, n, a, step) == f = [k \in 0 .. n |-> IF k = 0 THEN a ELSE step[k][f[k - 1]]]

LEMMA RecursionNext ==
  ASSUME NEW m \in Nat, NEW a, NEW step, NEW f, Recursive(f, m, a, step)
  PROVE  \E g : Recursive(g, m + 1, a, step)
<1> DEFINE g == [k \in 0 .. m + 1 |-> IF k = m + 1 THEN step[m + 1][f[m]] ELSE f[k]]
<1>1. \A k \in 0 .. m : f[k] = IF k = 0 THEN a ELSE step[k][f[k - 1]]
  BY DEF Recursive
<1>2. ASSUME NEW k \in 0 .. m + 1 PROVE g[k] = IF k = 0 THEN a ELSE step[k][g[k - 1]]
  <2>1. CASE k = m + 1
    <3>1. k # 0 /\ k - 1 = m /\ m \in 0 .. m + 1 /\ m # m + 1
      BY <2>1
    <3> QED BY <2>1, <3>1
  <2>2. CASE k # m + 1
    <3>1. k \in 0 .. m /\ (k # 0 => k - 1 \in 0 .. m + 1 /\ k - 1 # m + 1)
      BY <2>2
    <3> QED BY <1>1, <2>2, <3>1
  <2> QED BY <2>1, <2>2
<1>3. g = [k \in 0 .. m + 1 |-> g[k]]
  OBVIOUS
<1> HIDE DEF g
<1>4. [k \in 0 .. m + 1 |-> g[k]] = [k \in 0 .. m + 1 |-> IF k = 0 THEN a ELSE step[k][g[k - 1]]]
  BY <1>2
<1>5. Recursive(g, m + 1, a, step)
  BY <1>3, <1>4, Zenon DEF Recursive
<1> QED BY <1>5

LEMMA Recursion ==
  ASSUME NEW n \in Nat, NEW A, NEW a \in A, NEW step \in [1 .. n -> [A -> A]]
  PROVE  \E f \in [0 .. n -> A] : Recursive(f, n, a, step)
<1> DEFINE T == {m \in Nat : \E f : Recursive(f, m, a, step)}
<1>1. 0 \in T
  <2>1. Recursive([k \in 0 .. 0 |-> a], 0, a, step)
    BY DEF Recursive
  <2> QED BY <2>1
<1>2. \A k \in 1 .. n : k - 1 \in T => k \in T
  <2> TAKE k \in 1 .. n
  <2> HAVE k - 1 \in T
  <2>1. PICK f : Recursive(f, k - 1, a, step)
    OBVIOUS
  <2>2. k - 1 \in Nat /\ (k - 1) + 1 = k /\ k \in Nat
    OBVIOUS
  <2>3. \E g : Recursive(g, (k - 1) + 1, a, step)
    BY <2>1, <2>2, RecursionNext
  <2> QED BY <2>2, <2>3
<1>3. n \in T
  <2> HIDE DEF T
  <2>1. \A k \in 0 .. n : k \in T
    BY <1>1, <1>2, Upward
  <2> QED BY <2>1
<1>4. PICK f : Recursive(f, n, a, step)
  BY <1>3
<1>5. \A k \in 0 .. n : f[k] = IF k = 0 THEN a ELSE step[k][f[k - 1]]
  BY <1>4 DEF Recursive
<1> DEFINE U == {k \in 0 .. n : f[k] \in A}
<1>6. 0 \in U
  BY <1>5
<1>7. \A k \in 1 .. n : k - 1 \in U => k \in U
  <2> TAKE k \in 1 .. n
  <2> HAVE k - 1 \in U
  <2>1. k \in 0 .. n /\ k # 0 /\ f[k - 1] \in A
    OBVIOUS
  <2>2. step[k][f[k - 1]] \in A
    BY <2>1
  <2> QED BY <1>5, <2>1, <2>2
<1>8. \A k \in 0 .. n : k \in U
  <2> HIDE DEF U
  <2> QED BY <1>6, <1>7, Upward
<1>9. f = [k \in 0 .. n |-> f[k]]
  <2>1. f = [k \in 0 .. n |-> IF k = 0 THEN a ELSE step[k][f[k - 1]]]
    BY <1>4 DEF Recursive
  <2> HIDE <1>4
  <2> QED BY <2>1
<1>10. f \in [0 .. n -> A]
  BY <1>8, <1>9
<1> QED BY <1>4, <1>10

----------------------------------------------------------------------------
(* Lists that are joined: what is in them, and that any two of their elements lie *)
(* apart, as a set of pairs says. *)

Apart(s, D) == \A i, j \in DOMAIN s : i # j => <<s[i], s[j]>> \in D
All(s, t, D) == \A x \in ToSet(s), y \in ToSet(t) : <<x, y>> \in D /\ <<y, x>> \in D

LEMMA InList == \A s : \A i \in DOMAIN s : s[i] \in ToSet(s)
BY DEF ToSet

LEMMA Listed ==
  ASSUME NEW B, NEW s \in Seq(B), NEW x
  PROVE  /\ x \in ToSet(s) <=> \E i \in DOMAIN s : s[i] = x
         /\ x \in ToSet(s) => x \in B
<1>1. x \in ToSet(s) <=> \E i \in DOMAIN s : s[i] = x
  BY DEF ToSet
<1>2. \A i \in DOMAIN s : s[i] \in B
  OBVIOUS
<1> QED BY <1>1, <1>2, Zenon

LEMMA JoinIs ==
  ASSUME NEW B, NEW s \in Seq(B), NEW t \in Seq(B)
  PROVE  /\ s \o t \in Seq(B)
         /\ ToSet(s \o t) = ToSet(s) \cup ToSet(t)
         /\ \A D : Apart(s, D) /\ Apart(t, D) /\ All(s, t, D) => Apart(s \o t, D)
<1> DEFINE u == s \o t
<1>1. /\ u \in Seq(B) /\ Len(u) = Len(s) + Len(t) /\ Len(s) \in Nat /\ Len(t) \in Nat
      /\ \A i \in 1 .. Len(s) : u[i] = s[i]
      /\ \A i \in 1 .. Len(t) : u[Len(s) + i] = t[i]
      /\ DOMAIN u = 1 .. Len(u) /\ DOMAIN s = 1 .. Len(s) /\ DOMAIN t = 1 .. Len(t)
  OBVIOUS
<1> HIDE DEF u
<1>2. \A i \in 1 .. Len(u) : i \notin 1 .. Len(s) => \E k \in 1 .. Len(t) : i = Len(s) + k
  <2> SUFFICES ASSUME NEW i \in 1 .. Len(u), i \notin 1 .. Len(s)
               PROVE  \E k \in 1 .. Len(t) : i = Len(s) + k
    OBVIOUS
  <2>1. i - Len(s) \in 1 .. Len(t) /\ i = Len(s) + (i - Len(s))
    BY <1>1
  <2> QED BY <2>1
<1>3. /\ \A i \in 1 .. Len(s) : i \in 1 .. Len(u)
      /\ \A k \in 1 .. Len(t) : Len(s) + k \in 1 .. Len(u)
  BY <1>1
<1>4. \A i \in DOMAIN u :
        \/ i \in DOMAIN s /\ u[i] = s[i]
        \/ \E k \in DOMAIN t : i = Len(s) + k /\ u[i] = t[k]
  <2> TAKE i \in DOMAIN u
  <2>1. CASE i \in 1 .. Len(s)
    BY <1>1, <2>1, Zenon
  <2>2. CASE i \notin 1 .. Len(s)
    <3>1. PICK k \in 1 .. Len(t) : i = Len(s) + k
      BY <1>1, <1>2, <2>2, Zenon
    <3> QED BY <1>1, <3>1, Zenon
  <2> QED BY <2>1, <2>2
<1>5. ToSet(u) = ToSet(s) \cup ToSet(t)
  <2>1. \A x \in ToSet(u) : x \in ToSet(s) \/ x \in ToSet(t)
    <3> TAKE x \in ToSet(u)
    <3>1. PICK i \in DOMAIN u : x = u[i]
      BY DEF ToSet
    <3> QED BY <1>4, <3>1, InList
  <2>2. \A x \in ToSet(s) : x \in ToSet(u)
    BY <1>1, <1>3, Zenon DEF ToSet
  <2>3. \A x \in ToSet(t) : x \in ToSet(u)
    BY <1>1, <1>3, Zenon DEF ToSet
  <2> QED BY <2>1, <2>2, <2>3
<1>6. ASSUME NEW D, Apart(s, D), Apart(t, D), All(s, t, D) PROVE Apart(u, D)
  <2> SUFFICES ASSUME NEW i \in DOMAIN u, NEW j \in DOMAIN u, i # j PROVE <<u[i], u[j]>> \in D
    BY DEF Apart
  <2>1. CASE i \in DOMAIN s /\ u[i] = s[i] /\ j \in DOMAIN s /\ u[j] = s[j]
    BY <1>6, <2>1 DEF Apart
  <2>2. CASE i \in DOMAIN s /\ u[i] = s[i] /\ \E k \in DOMAIN t : u[j] = t[k]
    BY <1>6, <2>2, InList DEF All
  <2>3. CASE j \in DOMAIN s /\ u[j] = s[j] /\ \E k \in DOMAIN t : u[i] = t[k]
    BY <1>6, <2>3, InList DEF All
  <2>4. ASSUME NEW k \in DOMAIN t, i = Len(s) + k, u[i] = t[k],
               NEW l \in DOMAIN t, j = Len(s) + l, u[j] = t[l]
        PROVE  <<u[i], u[j]>> \in D
    <3>1. k # l
      BY <2>4
    <3> QED BY <1>6, <2>4, <3>1 DEF Apart
  <2> QED BY <1>4, <2>1, <2>2, <2>3, <2>4, Zenon
<1> QED BY <1>1, <1>5, <1>6 DEF u

LEMMA FlattenedIs ==
  ASSUME NEW B, NEW w \in Seq(Seq(B))
  PROVE  /\ FlattenSeq(w) \in Seq(B)
         /\ \A x : x \in ToSet(FlattenSeq(w)) <=> \E i \in DOMAIN w : x \in ToSet(w[i])
         /\ \A D :
              /\ \A i \in DOMAIN w : Apart(w[i], D)
              /\ \A i, j \in DOMAIN w : i # j => All(w[i], w[j], D)
              => Apart(FlattenSeq(w), D)
<1> DEFINE n == Len(w)
<1>1. n \in Nat /\ DOMAIN w = 1 .. n /\ \A k \in 1 .. n : w[k] \in Seq(B)
  OBVIOUS
<1>2. CASE n = 0
  <2>1. FlattenSeq(w) = <<>>
    BY <1>2 DEF FlattenSeq
  <2>2. DOMAIN w = {}
    BY <1>1, <1>2
  <2>3. <<>> \in Seq(B) /\ ToSet(<<>>) = {} /\ \A D : Apart(<<>>, D)
    BY DEF ToSet, Apart
  <2> QED BY <2>1, <2>2, <2>3
<1>3. CASE n # 0
  <2> DEFINE f == CHOOSE f : Joined(w, f, n)
  <2>1. Joined(w, f, n)
    BY <1>1, <1>3, JoinedExists
  <2>2. FlattenSeq(w) = f[n]
    BY <1>3 DEF FlattenSeq, Joined
  <2>3. \A i \in 1 .. n : f[i] = IF i = 1 THEN w[i] ELSE f[i - 1] \o w[i]
    BY <2>1 DEF Joined
  <2> DEFINE Holds(m) ==
               /\ f[m] \in Seq(B)
               /\ \A x : x \in ToSet(f[m]) <=> \E i \in 1 .. m : x \in ToSet(w[i])
               /\ \A D :
                    /\ \A i \in DOMAIN w : Apart(w[i], D)
                    /\ \A i, j \in DOMAIN w : i # j => All(w[i], w[j], D)
                    => Apart(f[m], D)
             T == {m \in 0 .. n : m # 0 => Holds(m)}
  <2> HIDE DEF f, n
  <2>4. 1 \in 1 .. n /\ n \in 1 .. n
    BY <1>1, <1>3
  <2>5. 0 \in T
    BY <1>1
  <2>6. ASSUME NEW m \in 1 .. n, m - 1 \in T PROVE Holds(m)
    <3>1. CASE m = 1
      <4>1. f[m] = w[m]
        BY <2>3, <3>1
      <4>2. 1 .. m = {m}
        BY <3>1
      <4> QED BY <1>1, <4>1, <4>2, Zenon
    <3>2. CASE m # 1
      <4>1. m - 1 \in 1 .. n /\ m - 1 # 0 /\ m - 1 \in 0 .. n
        BY <1>1, <3>2
      <4>2. Holds(m - 1)
        BY <2>6, <4>1
      <4>3. f[m] = f[m - 1] \o w[m]
        BY <2>3, <3>2
      <4>4. \A i : i \in 1 .. m <=> i \in 1 .. m - 1 \/ i = m
        BY <4>1
      <4>5. m \notin 1 .. m - 1 /\ \A i \in 1 .. m - 1 : i \in 1 .. n
        BY <1>1, <4>1
      <4> DEFINE p == f[m - 1]
      <4>6. p \in Seq(B) /\ w[m] \in Seq(B) /\ f[m] = p \o w[m]
        BY <1>1, <4>2, <4>3
      <4>9. \A x : x \in ToSet(p) <=> \E i \in 1 .. m - 1 : x \in ToSet(w[i])
        BY <4>2
      <4>10. \A D : /\ \A i \in DOMAIN w : Apart(w[i], D)
                    /\ \A i, j \in DOMAIN w : i # j => All(w[i], w[j], D)
                    => Apart(p, D)
        BY <4>2
      <4> HIDE DEF p
      <4>7. /\ f[m] \in Seq(B)
            /\ ToSet(f[m]) = ToSet(p) \cup ToSet(w[m])
            /\ \A D : Apart(p, D) /\ Apart(w[m], D) /\ All(p, w[m], D) => Apart(f[m], D)
        BY <4>6, JoinIs
      <4>8. \A x : x \in ToSet(f[m]) <=> \E i \in 1 .. m : x \in ToSet(w[i])
        <5>1. \A x : x \in ToSet(f[m]) <=> x \in ToSet(p) \/ x \in ToSet(w[m])
          BY <4>7
        <5> QED BY <5>1, <4>9, <4>4, Zenon
      <4>11. ASSUME NEW D, \A i \in DOMAIN w : Apart(w[i], D),
                    \A i, j \in DOMAIN w : i # j => All(w[i], w[j], D)
             PROVE  Apart(f[m], D)
        <5>1. All(p, w[m], D)
          <6> SUFFICES ASSUME NEW x \in ToSet(p), NEW y \in ToSet(w[m])
                       PROVE  <<x, y>> \in D /\ <<y, x>> \in D
            BY DEF All
          <6>1. PICK i \in 1 .. m - 1 : x \in ToSet(w[i])
            BY <4>9
          <6>2. i \in DOMAIN w /\ m \in DOMAIN w /\ i # m
            BY <1>1, <4>5
          <6> QED BY <4>11, <6>1, <6>2 DEF All
        <5> QED BY <1>1, <4>7, <4>10, <4>11, <5>1, Zenon
      <4> QED BY <4>7, <4>8, <4>11
    <3> QED BY <3>1, <3>2
  <2>7. n \in T
    <3>1. \A m \in 1 .. n : m - 1 \in T => m \in T
      <4> TAKE m \in 1 .. n
      <4>1. m \in 0 .. n
        BY <1>1
      <4> HIDE DEF Holds
      <4> QED BY <2>6, <4>1
    <3> HIDE DEF T
    <3>2. \A m \in 0 .. n : m \in T
      BY <1>1, <2>5, <3>1, Upward
    <3> QED BY <1>1, <3>2
  <2>8. Holds(n)
    <3> HIDE DEF Holds
    <3> QED BY <1>3, <2>7
  <2>9. \A i : i \in 1 .. n <=> i \in DOMAIN w
    BY <1>1
  <2> QED BY <2>2, <2>8, <2>9, Zenon
<1> QED BY <1>2, <1>3

----------------------------------------------------------------------------
(* Rectangles: what is left of one where another is cut out. *)

Hit(rects, x, y) == \E r \in ToSet(rects) : HasPoint(r, x, y)
Separate == {p \in Rect \X Rect : \A x, y \in Int : ~(HasPoint(p[1], x, y) /\ HasPoint(p[2], x, y))}

LEMMA RectIs ==
  /\ \A r \in Rect : r[1] \in Int /\ r[2] \in Int /\ r[3] \in Int /\ r[4] \in Int
  /\ \A a, b, c, d \in Int :
       <<a, b, c, d>> \in Rect /\ <<a, b, c, d>>[1] = a /\ <<a, b, c, d>>[2] = b
                               /\ <<a, b, c, d>>[3] = c /\ <<a, b, c, d>>[4] = d
BY DEF Rect, RectOf

LEMMA SeparateIs ==
  ASSUME NEW a \in Rect, NEW b \in Rect
  PROVE  <<a, b>> \in Separate <=> \A x, y \in Int : ~(HasPoint(a, x, y) /\ HasPoint(b, x, y))
<1>1. <<a, b>> \in Rect \X Rect /\ <<a, b>>[1] = a /\ <<a, b>>[2] = b
  OBVIOUS
<1> QED BY <1>1, Zenon DEF Separate

LEMMA NormalIs ==
  ASSUME NEW r \in Rect
  PROVE  /\ Normal(r) \in Seq(Rect)
         /\ \A q \in ToSet(Normal(r)) : q = r /\ HasArea(r)
         /\ \A D : Apart(Normal(r), D)
         /\ \A x, y \in Int : Hit(Normal(r), x, y) <=> HasPoint(r, x, y)
<1>1. CASE HasArea(r)
  <2>1. Normal(r) = <<r>> /\ <<r>> \in Seq(Rect) /\ DOMAIN <<r>> = {1} /\ <<r>>[1] = r
    BY <1>1 DEF Normal
  <2>2. ToSet(Normal(r)) = {r}
    BY <2>1 DEF ToSet
  <2> QED BY <1>1, <2>1, <2>2 DEF Hit, Apart
<1>2. CASE ~HasArea(r)
  <2>1. Normal(r) = <<>> /\ <<>> \in Seq(Rect) /\ DOMAIN <<>> = {}
    BY <1>2 DEF Normal
  <2>2. ToSet(Normal(r)) = {}
    BY <2>1 DEF ToSet
  <2>3. \A x, y \in Int : ~HasPoint(r, x, y)
    BY <1>2, RectIs DEF HasArea, HasPoint
  <2> QED BY <2>1, <2>2, <2>3 DEF Hit, Apart
<1> QED BY <1>1, <1>2

LEMMA CommonIs ==
  ASSUME NEW a \in Rect, NEW b \in Rect
  PROVE  /\ Common(a, b) \in Rect
         /\ \A x, y \in Int : HasPoint(Common(a, b), x, y) <=> HasPoint(a, x, y) /\ HasPoint(b, x, y)
<1> DEFINE l == Greater(a[1], b[1])
           t == Greater(a[2], b[2])
           r == Lesser(a[3], b[3])
           m == Lesser(a[4], b[4])
           c == Common(a, b)
<1>1. /\ a[1] \in Int /\ a[2] \in Int /\ a[3] \in Int /\ a[4] \in Int
      /\ b[1] \in Int /\ b[2] \in Int /\ b[3] \in Int /\ b[4] \in Int
  BY RectIs
<1>2. l \in Int /\ t \in Int /\ r \in Int /\ m \in Int
  BY <1>1 DEF Greater, Lesser
<1>3. c \in Rect /\ c[1] = l /\ c[2] = t /\ c[3] = r /\ c[4] = m
  <2>1. c = <<l, t, r, m>>
    BY DEF Common
  <2> HIDE DEF l, t, r, m, c
  <2> QED BY <1>2, <2>1, RectIs, Zenon
<1>4. /\ \A x \in Int : l <= x <=> a[1] <= x /\ b[1] <= x
      /\ \A x \in Int : t <= x <=> a[2] <= x /\ b[2] <= x
      /\ \A x \in Int : x < r <=> x < a[3] /\ x < b[3]
      /\ \A x \in Int : x < m <=> x < a[4] /\ x < b[4]
  BY <1>1 DEF Greater, Lesser
<1> HIDE DEF l, t, r, m, c
<1>5. \A x, y \in Int : HasPoint(c, x, y) <=> HasPoint(a, x, y) /\ HasPoint(b, x, y)
  BY <1>3, <1>4, Zenon DEF HasPoint
<1> QED BY <1>3, <1>5 DEF c

LEMMA IntersectIs ==
  ASSUME NEW a \in Rect, NEW b \in Rect
  PROVE  /\ IntersectRect(a, b) \in Seq(Rect)
         /\ \A x, y \in Int : Hit(IntersectRect(a, b), x, y) <=> HasPoint(a, x, y) /\ HasPoint(b, x, y)
<1>1. Common(a, b) \in Rect
  BY CommonIs
<1> QED BY <1>1, CommonIs, NormalIs DEF IntersectRect

LEMMA HitBoth ==
  ASSUME NEW s \in Seq(Rect), NEW t \in Seq(Rect)
  PROVE  \A x, y : Hit(s \o t, x, y) <=> Hit(s, x, y) \/ Hit(t, x, y)
<1>1. ToSet(s \o t) = ToSet(s) \cup ToSet(t)
  BY JoinIs
<1> QED BY <1>1 DEF Hit

\* Two lists each of which is one rectangle at most.
LEMMA AllNormal ==
  ASSUME NEW a \in Rect, NEW b \in Rect,
         HasArea(a) /\ HasArea(b) => <<a, b>> \in Separate
  PROVE  All(Normal(a), Normal(b), Separate)
<1>1. <<a, b>> \in Separate <=> <<b, a>> \in Separate
  BY SeparateIs
<1> QED BY <1>1, NormalIs DEF All

LEMMA SubtractIs ==
  ASSUME NEW a \in Rect, NEW b \in Rect
  PROVE  /\ SubtractRect(a, b) \in Seq(Rect)
         /\ \A x, y \in Int : Hit(SubtractRect(a, b), x, y) <=> HasPoint(a, x, y) /\ ~HasPoint(b, x, y)
         /\ Apart(SubtractRect(a, b), Separate)
<1> DEFINE i == Common(a, b)
<1>1. i \in Rect /\ \A x, y \in Int : HasPoint(i, x, y) <=> HasPoint(a, x, y) /\ HasPoint(b, x, y)
  BY CommonIs
<1>2. CASE ~HasArea(i)
  <2>1. SubtractRect(a, b) = <<a>> /\ <<a>> \in Seq(Rect)
    BY <1>2 DEF SubtractRect
  <2>2. ToSet(<<a>>) = {a}
    BY DEF ToSet
  <2>3. \A x, y \in Int : ~HasPoint(i, x, y)
    <3> HIDE DEF i
    <3> QED BY <1>1, <1>2, RectIs DEF HasArea, HasPoint
  <2>4. Apart(<<a>>, Separate)
    BY DEF Apart
  <2>5. \A x, y \in Int : Hit(<<a>>, x, y) <=> HasPoint(a, x, y) /\ ~HasPoint(b, x, y)
    BY <1>1, <2>2, <2>3, Zenon DEF Hit
  <2> QED BY <2>1, <2>4, <2>5
<1>3. CASE HasArea(i)
  <2> DEFINE top    == <<a[1], a[2], a[3], i[2]>>
             bottom == <<a[1], i[4], a[3], a[4]>>
             left   == <<a[1], i[2], i[1], i[4]>>
             right  == <<i[3], i[2], a[3], i[4]>>
             one    == Normal(top) \o Normal(bottom)
             two    == one \o Normal(left)
  <2>1. SubtractRect(a, b) = two \o Normal(right)
    BY <1>3 DEF SubtractRect
  <2>2. /\ a[1] \in Int /\ a[2] \in Int /\ a[3] \in Int /\ a[4] \in Int
        /\ i[1] \in Int /\ i[2] \in Int /\ i[3] \in Int /\ i[4] \in Int
    <3> HIDE DEF i
    <3> QED BY <1>1, RectIs
  <2>3. /\ i[1] < i[3] /\ i[2] < i[4]
        /\ a[1] <= i[1] /\ i[3] <= a[3] /\ a[2] <= i[2] /\ i[4] <= a[4]
    <3>1. i[1] < i[3] /\ i[2] < i[4]
      BY <1>3 DEF HasArea
    <3>2. i[1] = Greater(a[1], b[1]) /\ i[2] = Greater(a[2], b[2])
          /\ i[3] = Lesser(a[3], b[3]) /\ i[4] = Lesser(a[4], b[4])
      BY DEF Common
    <3>3. b[1] \in Int /\ b[2] \in Int /\ b[3] \in Int /\ b[4] \in Int
      BY RectIs
    <3> HIDE DEF i
    <3> QED BY <2>2, <3>1, <3>2, <3>3 DEF Greater, Lesser
  <2> HIDE DEF i
  <2>4. /\ top \in Rect /\ bottom \in Rect /\ left \in Rect /\ right \in Rect
        /\ \A x, y \in Int :
             /\ HasPoint(top, x, y) <=> a[1] <= x /\ x < a[3] /\ a[2] <= y /\ y < i[2]
             /\ HasPoint(bottom, x, y) <=> a[1] <= x /\ x < a[3] /\ i[4] <= y /\ y < a[4]
             /\ HasPoint(left, x, y) <=> a[1] <= x /\ x < i[1] /\ i[2] <= y /\ y < i[4]
             /\ HasPoint(right, x, y) <=> i[3] <= x /\ x < a[3] /\ i[2] <= y /\ y < i[4]
    <3>1. top \in Rect /\ bottom \in Rect /\ left \in Rect /\ right \in Rect
      BY <2>2, RectIs
    <3> QED BY <3>1 DEF HasPoint
  <2>5. /\ <<top, bottom>> \in Separate /\ <<top, left>> \in Separate
        /\ <<top, right>> \in Separate /\ <<bottom, left>> \in Separate
        /\ <<bottom, right>> \in Separate /\ <<left, right>> \in Separate
    <3> HIDE DEF top, bottom, left, right
    <3>1. \A x, y \in Int :
            /\ ~(HasPoint(top, x, y) /\ HasPoint(bottom, x, y))
            /\ ~(HasPoint(top, x, y) /\ HasPoint(left, x, y))
            /\ ~(HasPoint(top, x, y) /\ HasPoint(right, x, y))
            /\ ~(HasPoint(bottom, x, y) /\ HasPoint(left, x, y))
            /\ ~(HasPoint(bottom, x, y) /\ HasPoint(right, x, y))
            /\ ~(HasPoint(left, x, y) /\ HasPoint(right, x, y))
      BY <2>2, <2>3, <2>4
    <3> QED BY <2>4, <3>1, SeparateIs
  <2>6. \A x, y \in Int :
          HasPoint(top, x, y) \/ HasPoint(bottom, x, y) \/ HasPoint(left, x, y) \/ HasPoint(right, x, y)
            <=> HasPoint(a, x, y) /\ ~HasPoint(i, x, y)
    <3> HIDE DEF top, bottom, left, right
    <3> QED BY <2>2, <2>3, <2>4 DEF HasPoint
  <2> HIDE DEF top, bottom, left, right
  <2>7. /\ one \in Seq(Rect) /\ ToSet(one) = ToSet(Normal(top)) \cup ToSet(Normal(bottom))
        /\ Apart(one, Separate)
    <3>1. All(Normal(top), Normal(bottom), Separate)
      BY <2>4, <2>5, AllNormal
    <3>2. Normal(top) \in Seq(Rect) /\ Normal(bottom) \in Seq(Rect)
          /\ Apart(Normal(top), Separate) /\ Apart(Normal(bottom), Separate)
      BY <2>4, NormalIs
    <3> QED BY <3>1, <3>2, JoinIs
  <2>8. /\ two \in Seq(Rect) /\ ToSet(two) = ToSet(one) \cup ToSet(Normal(left))
        /\ Apart(two, Separate)
    <3>1. All(Normal(top), Normal(left), Separate) /\ All(Normal(bottom), Normal(left), Separate)
      BY <2>4, <2>5, AllNormal
    <3>2. All(one, Normal(left), Separate)
      BY <2>7, <3>1 DEF All
    <3>3. Normal(left) \in Seq(Rect) /\ Apart(Normal(left), Separate)
      BY <2>4, NormalIs
    <3> HIDE DEF one
    <3> QED BY <2>7, <3>2, <3>3, JoinIs
  <2> HIDE DEF one, two
  <2>9. two \o Normal(right) \in Seq(Rect) /\ Apart(two \o Normal(right), Separate)
        /\ ToSet(two \o Normal(right)) = ToSet(two) \cup ToSet(Normal(right))
    <3>1. /\ All(Normal(top), Normal(right), Separate)
          /\ All(Normal(bottom), Normal(right), Separate)
          /\ All(Normal(left), Normal(right), Separate)
      BY <2>4, <2>5, AllNormal
    <3>2. All(two, Normal(right), Separate)
      BY <2>7, <2>8, <3>1 DEF All
    <3>3. Normal(right) \in Seq(Rect) /\ Apart(Normal(right), Separate)
      BY <2>4, NormalIs
    <3> QED BY <2>8, <3>2, <3>3, JoinIs
  <2>10. \A x, y \in Int : Hit(SubtractRect(a, b), x, y) <=>
            HasPoint(top, x, y) \/ HasPoint(bottom, x, y) \/ HasPoint(left, x, y) \/ HasPoint(right, x, y)
    <3> TAKE x, y \in Int
    <3>1. Hit(SubtractRect(a, b), x, y) <=>
            Hit(Normal(top), x, y) \/ Hit(Normal(bottom), x, y)
              \/ Hit(Normal(left), x, y) \/ Hit(Normal(right), x, y)
      BY <2>1, <2>7, <2>8, <2>9 DEF Hit
    <3> QED BY <2>4, <3>1, NormalIs
  <2>11. \A x, y \in Int : Hit(SubtractRect(a, b), x, y) <=> HasPoint(a, x, y) /\ ~HasPoint(b, x, y)
    BY <1>1, <2>6, <2>10, Zenon
  <2> QED BY <2>1, <2>9, <2>11
<1> QED BY <1>2, <1>3

\* One rectangle is cut out of a list.
LEMMA CutOutIs ==
  ASSUME NEW rects \in Seq(Rect), NEW b \in Rect
  PROVE  /\ CutOut(rects, b) \in Seq(Rect)
         /\ \A x, y \in Int : Hit(CutOut(rects, b), x, y) <=> Hit(rects, x, y) /\ ~HasPoint(b, x, y)
         /\ Apart(rects, Separate) => Apart(CutOut(rects, b), Separate)
<1> DEFINE w == [i \in DOMAIN rects |-> SubtractRect(rects[i], b)]
<1>1. \A i \in DOMAIN rects : rects[i] \in Rect
  OBVIOUS
<1>2. /\ DOMAIN w = DOMAIN rects
      /\ \A i \in DOMAIN rects : w[i] = SubtractRect(rects[i], b)
  OBVIOUS
<1>3. \A i \in DOMAIN rects :
        /\ w[i] \in Seq(Rect) /\ Apart(w[i], Separate)
        /\ \A x, y \in Int : Hit(w[i], x, y) <=> HasPoint(rects[i], x, y) /\ ~HasPoint(b, x, y)
  BY <1>1, <1>2, SubtractIs
<1>4. w \in Seq(Seq(Rect))
  <2>1. \E n \in Nat : DOMAIN rects = 1 .. n
    OBVIOUS
  <2> DEFINE C == Seq(Rect)
  <2>2. w \in [DOMAIN rects -> C]
    <3>1. \A i \in DOMAIN rects : SubtractRect(rects[i], b) \in C
      BY <1>1, SubtractIs
    <3> HIDE DEF C
    <3> QED BY <3>1
  <2> HIDE DEF w, C
  <2>3. w \in Seq(C)
    BY <2>1, <2>2
  <2> QED BY <2>3 DEF C
<1> HIDE DEF w
<1>5. /\ FlattenSeq(w) \in Seq(Rect)
      /\ \A q : q \in ToSet(FlattenSeq(w)) <=> \E i \in DOMAIN w : q \in ToSet(w[i])
      /\ \A D : /\ \A i \in DOMAIN w : Apart(w[i], D)
                /\ \A i, j \in DOMAIN w : i # j => All(w[i], w[j], D)
                => Apart(FlattenSeq(w), D)
  BY <1>4, FlattenedIs
<1>6. \A x, y \in Int : Hit(FlattenSeq(w), x, y) <=> Hit(rects, x, y) /\ ~HasPoint(b, x, y)
  <2> TAKE x, y \in Int
  <2>1. Hit(FlattenSeq(w), x, y) <=> \E i \in DOMAIN rects : Hit(w[i], x, y)
    BY <1>2, <1>5, Zenon DEF Hit
  <2>2. Hit(rects, x, y) <=> \E i \in DOMAIN rects : HasPoint(rects[i], x, y)
    BY Zenon DEF Hit, ToSet
  <2> QED BY <1>3, <2>1, <2>2, Zenon
<1>7. ASSUME Apart(rects, Separate) PROVE Apart(FlattenSeq(w), Separate)
  <2>1. ASSUME NEW i \in DOMAIN w, NEW j \in DOMAIN w, i # j PROVE All(w[i], w[j], Separate)
    <3> SUFFICES ASSUME NEW p \in ToSet(w[i]), NEW q \in ToSet(w[j])
                 PROVE  <<p, q>> \in Separate /\ <<q, p>> \in Separate
      BY DEF All
    <3>1. p \in Rect /\ q \in Rect /\ rects[i] \in Rect /\ rects[j] \in Rect
      BY <1>1, <1>2, <1>3, Listed
    <3>2. \A x, y \in Int : /\ HasPoint(p, x, y) => HasPoint(rects[i], x, y)
                            /\ HasPoint(q, x, y) => HasPoint(rects[j], x, y)
      BY <1>2, <1>3, Zenon DEF Hit
    <3>3. <<rects[i], rects[j]>> \in Separate
      BY <1>2, <1>7, <2>1 DEF Apart
    <3>4. \A x, y \in Int : ~(HasPoint(rects[i], x, y) /\ HasPoint(rects[j], x, y))
      BY <3>1, <3>3, SeparateIs
    <3>5. \A x, y \in Int : ~(HasPoint(p, x, y) /\ HasPoint(q, x, y))
      BY <3>2, <3>4, Zenon
    <3>6. \A x, y \in Int : ~(HasPoint(q, x, y) /\ HasPoint(p, x, y))
      BY <3>5, Zenon
    <3> QED BY <3>1, <3>5, <3>6, SeparateIs, Zenon
  <2> QED BY <1>2, <1>3, <1>5, <2>1, Zenon
<1>8. CutOut(rects, b) = FlattenSeq(w)
  BY DEF CutOut, w
<1> QED BY <1>5, <1>6, <1>7, <1>8

\* The function SubtractRegion defines.
Cutting(f, rects, subs) ==
  f = [k \in 0 .. Len(subs) |-> IF k = 0 THEN rects ELSE CutOut(f[k - 1], subs[k])]

LEMMA CuttingExists ==
  ASSUME NEW rects \in Seq(Rect), NEW subs \in Seq(Rect)
  PROVE  \E f : Cutting(f, rects, subs)
<1> DEFINE C == Seq(Rect)
           n == Len(subs)
           step == [k \in 1 .. n |-> [x \in C |-> CutOut(x, subs[k])]]
<1>1. n \in Nat /\ \A k \in 1 .. n : subs[k] \in Rect
  OBVIOUS
<1>2. \A x \in C : \A k \in 1 .. n : CutOut(x, subs[k]) \in C
  BY <1>1, CutOutIs
<1>3. rects \in C
  OBVIOUS
<1> HIDE DEF C, n
<1>4. step \in [1 .. n -> [C -> C]] /\ \A k \in 1 .. n : \A x \in C : step[k][x] = CutOut(x, subs[k])
  BY <1>2
<1> HIDE DEF step
<1>5. PICK f \in [0 .. n -> C] : Recursive(f, n, rects, step)
  BY <1>1, <1>3, <1>4, Recursion
<1>6. \A k \in 0 .. n : f[k] = IF k = 0 THEN rects ELSE step[k][f[k - 1]]
  BY <1>5 DEF Recursive
<1>7. ASSUME NEW k \in 0 .. n PROVE f[k] = IF k = 0 THEN rects ELSE CutOut(f[k - 1], subs[k])
  <2>1. k # 0 => k \in 1 .. n /\ k - 1 \in 0 .. n
    BY <1>1
  <2> QED BY <1>4, <1>5, <1>6, <2>1
<1>8. f = [k \in 0 .. n |-> f[k]]
  BY <1>5
<1>9. [k \in 0 .. n |-> f[k]] = [k \in 0 .. n |-> IF k = 0 THEN rects ELSE CutOut(f[k - 1], subs[k])]
  BY <1>7
<1>10. Cutting(f, rects, subs)
  BY <1>8, <1>9, Zenon DEF Cutting, n
<1> QED BY <1>10

LEMMA SubtractRegionIs ==
  ASSUME NEW rects \in Seq(Rect), NEW subs \in Seq(Rect)
  PROVE  /\ SubtractRegion(rects, subs) \in Seq(Rect)
         /\ \A x, y \in Int : Hit(SubtractRegion(rects, subs), x, y) <=>
                                Hit(rects, x, y) /\ ~Hit(subs, x, y)
         /\ Apart(rects, Separate) => Apart(SubtractRegion(rects, subs), Separate)
<1> DEFINE f == CHOOSE f : Cutting(f, rects, subs)
           n == Len(subs)
<1>1. Cutting(f, rects, subs)
  BY CuttingExists
<1>2. SubtractRegion(rects, subs) = f[n]
  BY DEF SubtractRegion, Cutting
<1>3. \A k \in 0 .. n : f[k] = IF k = 0 THEN rects ELSE CutOut(f[k - 1], subs[k])
  BY <1>1 DEF Cutting
<1>4. n \in Nat /\ DOMAIN subs = 1 .. n /\ \A k \in 1 .. n : subs[k] \in Rect
  OBVIOUS
<1> DEFINE Left(k) ==
             /\ f[k] \in Seq(Rect)
             /\ \A x, y \in Int : Hit(f[k], x, y) <=>
                                    Hit(rects, x, y) /\ \A j \in 1 .. k : ~HasPoint(subs[j], x, y)
             /\ Apart(rects, Separate) => Apart(f[k], Separate)
           T == {k \in 0 .. n : Left(k)}
<1> HIDE DEF f, n
<1>5. 0 \in T
  <2>1. f[0] = rects /\ 1 .. 0 = {} /\ 0 \in 0 .. n
    BY <1>3, <1>4
  <2> QED BY <2>1
<1>6. ASSUME NEW k \in 1 .. n, Left(k - 1) PROVE Left(k)
  <2>1. k \in 0 .. n /\ k # 0 /\ \A j : j \in 1 .. k <=> j \in 1 .. k - 1 \/ j = k
    BY <1>4
  <2>2. f[k] = CutOut(f[k - 1], subs[k])
    BY <1>3, <2>1
  <2> DEFINE p == f[k - 1]
  <2>3. p \in Seq(Rect) /\ (Apart(rects, Separate) => Apart(p, Separate))
    BY <1>6
  <2>4. \A x, y \in Int : Hit(p, x, y) <=>
          Hit(rects, x, y) /\ \A j \in 1 .. k - 1 : ~HasPoint(subs[j], x, y)
    BY <1>6
  <2>5. f[k] = CutOut(p, subs[k])
    BY <2>2
  <2> HIDE DEF p
  <2>6. /\ f[k] \in Seq(Rect)
        /\ \A x, y \in Int : Hit(f[k], x, y) <=> Hit(p, x, y) /\ ~HasPoint(subs[k], x, y)
        /\ Apart(p, Separate) => Apart(f[k], Separate)
    BY <1>4, <2>3, <2>5, CutOutIs
  <2>7. \A x, y \in Int : Hit(f[k], x, y) <=>
          Hit(rects, x, y) /\ \A j \in 1 .. k : ~HasPoint(subs[j], x, y)
    BY <2>1, <2>4, <2>6, Zenon
  <2> QED BY <2>3, <2>6, <2>7
<1>7. n \in T
  <2>1. \A k \in 1 .. n : k - 1 \in T => k \in T
    <3> TAKE k \in 1 .. n
    <3>1. k \in 0 .. n
      BY <1>4
    <3> HIDE DEF Left
    <3> QED BY <1>6, <3>1
  <2> HIDE DEF T
  <2>2. \A k \in 0 .. n : k \in T
    BY <1>4, <1>5, <2>1, Upward
  <2> QED BY <1>4, <2>2
<1>8. Left(n)
  <2> HIDE DEF Left
  <2> QED BY <1>7
<1>9. \A x, y \in Int : Hit(subs, x, y) <=> \E j \in 1 .. n : HasPoint(subs[j], x, y)
  BY <1>4, Zenon DEF Hit, ToSet
<1> QED BY <1>2, <1>8, <1>9, Zenon

----------------------------------------------------------------------------
(* A finite set in its order. *)

Strict(S, order) ==
  /\ \A x \in S : <<x, x>> \notin order
  /\ \A x, y, z \in S : <<x, y>> \in order /\ <<y, z>> \in order => <<x, z>> \in order
  /\ \A x, y \in S : x = y \/ <<x, y>> \in order \/ <<y, x>> \in order

InOrder(s, order) == \A i, j \in DOMAIN s : i < j => <<s[i], s[j]>> \in order

LEMMA OrderedIs ==
  ASSUME NEW S, NEW order, IsFiniteSet(S), Strict(S, order)
  PROVE  /\ Ordered(S, order) \in Seq(S)
         /\ ToSet(Ordered(S, order)) = S
         /\ InOrder(Ordered(S, order), order)
<1> DEFINE n == Cardinality(S)
           below(x) == {y \in S : <<y, x>> \in order}
           rank == [x \in S |-> Cardinality(below(x))]
           s == Ordered(S, order)
<1>1. n \in Nat
  BY FS_CardinalityType
<1>2. \A x \in S : /\ below(x) \subseteq S /\ x \notin below(x)
                   /\ \A y \in S : y \in below(x) <=> <<y, x>> \in order
  BY DEF Strict
<1>3. \A x \in S : IsFiniteSet(below(x)) /\ Cardinality(below(x)) \in Nat /\ Cardinality(below(x)) < n
  <2> TAKE x \in S
  <2> DEFINE b == below(x)
  <2>1. b \subseteq S /\ b # S
    BY <1>2
  <2> HIDE DEF b
  <2>2. IsFiniteSet(b) /\ Cardinality(b) <= n /\ Cardinality(b) # n
    BY <2>1, FS_Subset
  <2>3. Cardinality(b) \in Nat
    BY <2>2, FS_CardinalityType
  <2>4. Cardinality(b) < n
    BY <1>1, <2>2, <2>3
  <2> QED BY <2>2, <2>3, <2>4 DEF b
<1>4. \A x, y \in S : <<x, y>> \in order => Cardinality(below(x)) < Cardinality(below(y))
  <2> TAKE x, y \in S
  <2> HAVE <<x, y>> \in order
  <2> DEFINE a == below(x)
             b == below(y)
  <2>1. a \subseteq b /\ x \in b /\ x \notin a
    <3>1. x \in b /\ x \notin a
      BY <1>2
    <3>2. \A z \in S : <<z, x>> \in order => <<z, y>> \in order
      BY Zenon DEF Strict
    <3> QED BY <3>1, <3>2
  <2>2. IsFiniteSet(b) /\ Cardinality(b) \in Nat /\ Cardinality(a) \in Nat
    BY <1>3
  <2> HIDE DEF a, b
  <2>3. Cardinality(a) <= Cardinality(b) /\ Cardinality(a) # Cardinality(b)
    BY <2>1, <2>2, FS_Subset
  <2>4. Cardinality(a) < Cardinality(b)
    BY <2>2, <2>3
  <2> QED BY <2>4 DEF a, b
<1>5. \A x \in S : rank[x] = Cardinality(below(x))
  OBVIOUS
<1>6. \A x, y \in S : <<x, y>> \in order => rank[x] < rank[y]
  BY <1>4, <1>5
<1>7. rank \in [S -> 0 .. n - 1]
  <2>1. \A x \in S : Cardinality(below(x)) \in 0 .. n - 1
    BY <1>1, <1>3
  <2> HIDE DEF below, n
  <2> QED BY <2>1
<1>8. \A k \in 1 .. n : s[k] = CHOOSE x \in S : Cardinality(below(x)) = k - 1
  BY DEF Ordered
<1>9. DOMAIN s = 1 .. n /\ s = [k \in 1 .. n |-> s[k]]
  <2> DEFINE at(k) == CHOOSE x \in S : Cardinality(below(x)) = k - 1
  <2>1. s = [k \in 1 .. n |-> at(k)]
    BY DEF Ordered
  <2> HIDE DEF at, s
  <2> QED BY <2>1
<1> HIDE DEF rank, below, s, n
<1>10. \A x, y \in S : rank[x] = rank[y] => x = y
  <2> TAKE x, y \in S
  <2> HAVE rank[x] = rank[y]
  <2>1. rank[x] \in Int /\ rank[y] \in Int /\ ~(rank[x] < rank[y]) /\ ~(rank[y] < rank[x])
    BY <1>1, <1>7
  <2> QED BY <1>6, <2>1, Zenon DEF Strict
<1>11. \A k \in 0 .. n - 1 : \E x \in S : rank[x] = k
  <2>1. rank \in Injection(S, 0 .. n - 1)
    BY <1>7, <1>10 DEF Injection, IsInjective
  <2>2. IsFiniteSet(0 .. n - 1) /\ Cardinality(0 .. n - 1) = n
    BY <1>1, FS_Interval
  <2>3. rank \in Surjection(S, 0 .. n - 1)
    BY <2>1, <2>2, FS_Injection DEF n
  <2> QED BY <2>3 DEF Surjection
<1>12. \A k \in 1 .. n : s[k] \in S /\ rank[s[k]] = k - 1
  <2> TAKE k \in 1 .. n
  <2>1. k - 1 \in 0 .. n - 1
    BY <1>1
  <2>2. \E x \in S : rank[x] = k - 1
    BY <1>11, <2>1
  <2>3. \E x \in S : Cardinality(below(x)) = k - 1
    BY <1>5, <2>2
  <2>4. s[k] \in S /\ Cardinality(below(s[k])) = k - 1
    BY <1>8, <2>3
  <2> QED BY <1>5, <2>4
<1>13. s \in Seq(S)
  <2>1. s \in [1 .. n -> S]
    BY <1>9, <1>12
  <2> QED BY <1>1, <2>1
<1>14. ToSet(s) = S
  <2>1. ASSUME NEW x \in S PROVE x \in ToSet(s)
    <3>1. rank[x] + 1 \in 1 .. n /\ (rank[x] + 1) - 1 = rank[x]
      BY <1>1, <1>7
    <3>2. s[rank[x] + 1] = x
      BY <1>10, <1>12, <3>1
    <3> QED BY <1>9, <3>1, <3>2, InList
  <2>2. ASSUME NEW x \in ToSet(s) PROVE x \in S
    BY <1>13, <2>2, Listed
  <2> QED BY <2>1, <2>2
<1>15. InOrder(s, order)
  <2> SUFFICES ASSUME NEW i \in 1 .. n, NEW j \in 1 .. n, i < j PROVE <<s[i], s[j]>> \in order
    BY <1>9 DEF InOrder
  <2>1. /\ s[i] \in S /\ s[j] \in S /\ rank[s[i]] = i - 1 /\ rank[s[j]] = j - 1
    BY <1>12
  <2>2. ~(rank[s[j]] < rank[s[i]]) /\ rank[s[i]] # rank[s[j]]
    BY <1>1, <2>1
  <2> QED BY <1>6, <2>1, <2>2, Zenon DEF Strict
<1> QED BY <1>13, <1>14, <1>15 DEF s

LEMMA LessInIs ==
  ASSUME NEW S \in SUBSET Int, IsFiniteSet(S)
  PROVE  LET s == Ordered(S, LessIn(S)) IN
         /\ s \in Seq(S) /\ ToSet(s) = S
         /\ \A i, j \in DOMAIN s : i < j => s[i] < s[j]
<1>1. \A x, y \in S : <<x, y>> \in LessIn(S) <=> x < y
  BY DEF LessIn
<1>2. \A x, y \in S : x \in Int /\ y \in Int
  OBVIOUS
<1>3. Strict(S, LessIn(S))
  <2> HIDE DEF LessIn
  <2>4. \A x, y \in Int : x = y \/ x < y \/ y < x
    OBVIOUS
  <2>1. \A x \in S : <<x, x>> \notin LessIn(S)
    BY <1>1, <1>2
  <2>2. \A x, y, z \in S : <<x, y>> \in LessIn(S) /\ <<y, z>> \in LessIn(S) => <<x, z>> \in LessIn(S)
    BY <1>1, <1>2
  <2>3. \A x, y \in S : x = y \/ <<x, y>> \in LessIn(S) \/ <<y, x>> \in LessIn(S)
    BY <1>1, <1>2, <2>4, Zenon
  <2> QED BY <2>1, <2>2, <2>3, Zenon DEF Strict
<1> DEFINE s == Ordered(S, LessIn(S))
<1>4. s \in Seq(S) /\ ToSet(s) = S /\ InOrder(s, LessIn(S))
  BY <1>3, OrderedIs
<1> HIDE DEF s
<1>5. \A i \in DOMAIN s : s[i] \in S
  BY <1>4
<1> QED BY <1>1, <1>4, <1>5 DEF InOrder, s

----------------------------------------------------------------------------
(* Spans: intervals and bands.  Two tidy lists with the same in them everywhere are *)
(* the same list. *)

Spans(X) == [from : Int, to : Int, xs : X]

Has(s, y, x) == \E k \in DOMAIN s : s[k].from <= y /\ y < s[k].to /\ s[k].xs = x
Real(s)      == \A k \in DOMAIN s : s[k].from < s[k].to
Before(a, b) == a.from <= b.from /\ (a.xs = b.xs \/ a.to <= b.from)
Queued(s)    == Real(s) /\ \A i, j \in DOMAIN s : i < j => Before(s[i], s[j])
Tidy(s) ==
  /\ Real(s)
  /\ \A i, j \in DOMAIN s :
       /\ i < j => s[i].to <= s[j].from
       /\ j = i + 1 => s[i].to # s[j].from \/ s[i].xs # s[j].xs

LEMMA SpanIs ==
  ASSUME NEW X, NEW f \in Int, NEW t \in Int, NEW x \in X
  PROVE  /\ Span(f, t, x) \in Spans(X)
         /\ Span(f, t, x).from = f /\ Span(f, t, x).to = t /\ Span(f, t, x).xs = x
BY DEF Span, Spans

LEMMA FieldsOf ==
  ASSUME NEW X, NEW s \in Seq(Spans(X))
  PROVE  /\ Len(s) \in Nat /\ DOMAIN s = 1 .. Len(s)
         /\ \A i \in DOMAIN s : /\ s[i] \in Spans(X) /\ s[i].from \in Int
                                /\ s[i].to \in Int /\ s[i].xs \in X
<1>1. Len(s) \in Nat /\ DOMAIN s = 1 .. Len(s) /\ \A i \in DOMAIN s : s[i] \in Spans(X)
  <2> DEFINE B == Spans(X)
  <2>1. s \in Seq(B)
    OBVIOUS
  <2> HIDE DEF B
  <2>2. Len(s) \in Nat /\ DOMAIN s = 1 .. Len(s) /\ \A i \in DOMAIN s : s[i] \in B
    BY <2>1
  <2> QED BY <2>2 DEF B
<1>2. \A a \in Spans(X) : a.from \in Int /\ a.to \in Int /\ a.xs \in X
  BY DEF Spans
<1> QED BY <1>1, <1>2, Zenon

LEMMA LastChanged ==
  ASSUME NEW B, NEW s \in Seq(B), s # <<>>, NEW b \in B
  PROVE  LET d == [s EXCEPT ![Len(s)] = b] IN
         /\ d \in Seq(B) /\ DOMAIN d = DOMAIN s /\ Len(s) \in DOMAIN s /\ d[Len(s)] = b
         /\ \A i \in DOMAIN s : i # Len(s) => d[i] = s[i]
<1>1. Len(s) \in Nat /\ Len(s) # 0 /\ DOMAIN s = 1 .. Len(s)
  OBVIOUS
<1> QED BY <1>1

LEMMA OneMoreIs ==
  ASSUME NEW B, NEW s \in Seq(B), NEW b \in B
  PROVE  LET d == Append(s, b) IN
         /\ d \in Seq(B) /\ DOMAIN d = 1 .. Len(s) + 1 /\ d[Len(s) + 1] = b
         /\ \A i \in DOMAIN s : d[i] = s[i]
OBVIOUS

LEMMA WithSpanType ==
  ASSUME NEW X, NEW s \in Seq(Spans(X)), NEW a \in Spans(X)
  PROVE  WithSpan(s, a) \in Seq(Spans(X))
<1> DEFINE last == s[Len(s)]
           b == Span(last.from, Greater(last.to, a.to), a.xs)
<1>1. CASE s # <<>> /\ last.to >= a.from /\ last.xs = a.xs
  <2>1. Len(s) \in DOMAIN s
    <3>1. Len(s) \in Nat /\ Len(s) # 0 /\ DOMAIN s = 1 .. Len(s)
      BY <1>1
    <3> QED BY <3>1
  <2>2. last.from \in Int /\ last.to \in Int
    BY <2>1, FieldsOf
  <2>3. a.to \in Int /\ a.xs \in X
    BY DEF Spans
  <2> HIDE DEF last
  <2>4. b \in Spans(X)
    <3>1. Greater(last.to, a.to) \in Int
      BY <2>2, <2>3 DEF Greater
    <3> QED BY <2>2, <2>3, <3>1, SpanIs
  <2> HIDE DEF b
  <2>5. [s EXCEPT ![Len(s)] = b] \in Seq(Spans(X))
    BY <1>1, <2>4, LastChanged
  <2> QED BY <1>1, <2>5 DEF WithSpan, last, b
<1>2. CASE ~(s # <<>> /\ last.to >= a.from /\ last.xs = a.xs)
  <2>1. Append(s, a) \in Seq(Spans(X))
    BY OneMoreIs
  <2> QED BY <1>2, <2>1, Zenon DEF WithSpan
<1> QED BY <1>1, <1>2

LEMMA SpanAppended ==
  ASSUME NEW X, NEW s \in Seq(Spans(X)), NEW a \in Spans(X), Tidy(s), a.from < a.to,
         \A i \in DOMAIN s : Before(s[i], a),
         s # <<>> => s[Len(s)].to < a.from \/ s[Len(s)].xs # a.xs
  PROVE  /\ Tidy(Append(s, a))
         /\ \A y \in Int : \A x : Has(Append(s, a), y, x) <=>
              Has(s, y, x) \/ (a.from <= y /\ y < a.to /\ a.xs = x)
         /\ \A t : (\A i \in DOMAIN s : Before(s[i], t)) /\ Before(a, t)
                     => \A i \in DOMAIN Append(s, a) : Before(Append(s, a)[i], t)
<1> DEFINE d == Append(s, a)
           n == Len(s)
<1>1. /\ n \in Nat /\ DOMAIN s = 1 .. n /\ DOMAIN d = 1 .. n + 1 /\ d[n + 1] = a
      /\ (s # <<>> => n # 0) /\ (s = <<>> => n = 0)
  BY OneMoreIs
<1>2. \A i \in 1 .. n : d[i] = s[i]
  BY <1>1
<1>3. \A i \in 1 .. n : s[i].from \in Int /\ s[i].to \in Int
  BY <1>1, FieldsOf
<1>4. a.from \in Int /\ a.to \in Int
  BY DEF Spans
<1>5. \A i \in 1 .. n : /\ s[i].from < s[i].to
                        /\ s[i].from <= a.from /\ (s[i].xs = a.xs \/ s[i].to <= a.from)
  BY <1>1 DEF Tidy, Real, Before
<1>6. \A i, j \in 1 .. n : /\ i < j => s[i].to <= s[j].from
                           /\ j = i + 1 => s[i].to # s[j].from \/ s[i].xs # s[j].xs
  BY <1>1 DEF Tidy
<1>7. n # 0 => s[n].to < a.from \/ s[n].xs # a.xs
  BY <1>1
<1> HIDE DEF d, n
<1>8. \A i : i \in 1 .. n + 1 <=> i \in 1 .. n \/ i = n + 1
  BY <1>1
<1>9. \A i \in 1 .. n : s[i].to <= a.from
  <2> TAKE i \in 1 .. n
  <2>0. n # 0 /\ n \in 1 .. n /\ i \in Int
    BY <1>1
  <2>1. CASE i = n
    BY <1>3, <1>4, <1>5, <1>7, <2>0, <2>1
  <2>2. CASE i # n
    <3>1. i < n
      BY <1>1, <2>2
    <3>2. s[i].to <= s[n].from /\ s[n].from <= a.from
      BY <1>5, <1>6, <2>0, <3>1
    <3> QED BY <1>3, <1>4, <2>0, <3>2
  <2> QED BY <2>1, <2>2
<1>10. Tidy(d)
  <2>1. Real(d)
    BY <1>1, <1>2, <1>5, <1>8, Zenon DEF Real
  <2>2. ASSUME NEW i \in 1 .. n + 1, NEW j \in 1 .. n + 1
        PROVE  /\ i < j => d[i].to <= d[j].from
               /\ j = i + 1 => d[i].to # d[j].from \/ d[i].xs # d[j].xs
    <3>1. CASE i = n + 1
      <4>1. ~(i < j) /\ j # i + 1
        BY <1>1, <3>1
      <4> QED BY <4>1
    <3>2. CASE i \in 1 .. n /\ j \in 1 .. n
      BY <1>2, <1>6, <3>2
    <3>3. CASE i \in 1 .. n /\ j = n + 1
      <4>1. d[i] = s[i] /\ d[j] = a /\ s[i].to <= a.from
        BY <1>1, <1>2, <1>9, <3>3
      <4>2. j = i + 1 => i = n
        BY <1>1, <3>3
      <4>3. n # 0
        BY <1>1, <3>3
      <4>4. i = n => s[i].to # a.from \/ s[i].xs # a.xs
        BY <1>3, <1>4, <1>7, <3>3, <4>3
      <4> QED BY <4>1, <4>2, <4>4
    <3> QED BY <1>8, <3>1, <3>2, <3>3
  <2> QED BY <1>1, <2>1, <2>2 DEF Tidy
<1>11. \A y \in Int : \A x : Has(d, y, x) <=>
         Has(s, y, x) \/ (a.from <= y /\ y < a.to /\ a.xs = x)
  BY <1>1, <1>2, <1>8, Zenon DEF Has
<1>12. \A t : (\A i \in DOMAIN s : Before(s[i], t)) /\ Before(a, t)
                => \A i \in DOMAIN d : Before(d[i], t)
  BY <1>1, <1>2, <1>8, Zenon
<1> QED BY <1>10, <1>11, <1>12 DEF d

Joins(s, a, d) ==
  /\ s # <<>> /\ s[Len(s)].to >= a.from /\ s[Len(s)].xs = a.xs
  /\ d = [s EXCEPT ![Len(s)] = Span(s[Len(s)].from, Greater(s[Len(s)].to, a.to), a.xs)]

LEMMA SpanJoined ==
  ASSUME NEW X, NEW s \in Seq(Spans(X)), NEW a \in Spans(X), Tidy(s), a.from < a.to,
         \A i \in DOMAIN s : Before(s[i], a), NEW d, Joins(s, a, d)
  PROVE  /\ Tidy(d)
         /\ \A y \in Int : \A x : Has(d, y, x) <=>
              Has(s, y, x) \/ (a.from <= y /\ y < a.to /\ a.xs = x)
         /\ \A t \in Spans(X) :
              (\A i \in DOMAIN s : Before(s[i], t)) /\ Before(a, t)
                => \A i \in DOMAIN d : Before(d[i], t)
<1> DEFINE n == Len(s)
           last == s[n]
           b == Span(last.from, Greater(last.to, a.to), a.xs)
<1>1. n \in Nat /\ DOMAIN s = 1 .. n /\ n # 0 /\ n \in 1 .. n
  <2>1. n \in Nat /\ DOMAIN s = 1 .. n /\ n # 0
    BY DEF Joins
  <2> HIDE DEF n
  <2> QED BY <2>1
<1>2. a.from \in Int /\ a.to \in Int /\ a.xs \in X
  BY DEF Spans
<1>3. \A i \in 1 .. n : s[i].from \in Int /\ s[i].to \in Int
  BY <1>1, FieldsOf
<1>4. Greater(last.to, a.to) \in Int /\ last.from \in Int /\ last.to \in Int
  BY <1>1, <1>2, <1>3 DEF Greater
<1>5. b \in Spans(X) /\ b.from = last.from /\ b.to = Greater(last.to, a.to) /\ b.xs = a.xs
  <2> HIDE DEF last
  <2> QED BY <1>2, <1>4, SpanIs
<1>6. d[n] = b /\ DOMAIN d = 1 .. n /\ \A i \in 1 .. n : i # n => d[i] = s[i]
  <2> HIDE DEF b
  <2>1. d = [s EXCEPT ![Len(s)] = b]
    BY DEF b, Joins
  <2>2. s # <<>>
    BY DEF Joins
  <2> QED BY <1>1, <1>5, <2>1, <2>2, LastChanged
<1>7. last.from <= a.from /\ a.from <= last.to /\ last.xs = a.xs /\ last.from < last.to
  BY <1>1, <1>2, <1>3 DEF Before, Tidy, Real, Joins
<1>8. /\ \A i \in 1 .. n : s[i].from < s[i].to
      /\ \A i, j \in 1 .. n : /\ i < j => s[i].to <= s[j].from
                              /\ j = i + 1 => s[i].to # s[j].from \/ s[i].xs # s[j].xs
  BY <1>1 DEF Tidy, Real
<1> DEFINE m == b.to
<1>9. m \in Int /\ last.to <= m /\ a.to <= m /\ (m = last.to \/ m = a.to)
  BY <1>2, <1>4, <1>5 DEF Greater
<1> HIDE DEF n, last, b
<1>10. s[n] = last /\ b.from = last.from /\ b.xs = a.xs
  BY <1>5 DEF last
<1>11. b.from < m
  BY <1>2, <1>4, <1>7, <1>9, <1>10
<1>12. Tidy(d)
  <2>1. Real(d)
    <3> SUFFICES ASSUME NEW i \in DOMAIN d PROVE d[i].from < d[i].to
      BY DEF Real
    <3>1. CASE i = n
      BY <1>6, <1>11, <3>1
    <3>2. CASE i # n
      BY <1>6, <1>8, <3>2
    <3> QED BY <3>1, <3>2
  <2>2. ASSUME NEW i \in 1 .. n, NEW j \in 1 .. n
        PROVE  /\ i < j => d[i].to <= d[j].from
               /\ j = i + 1 => d[i].to # d[j].from \/ d[i].xs # d[j].xs
    <3>1. CASE i = n
      <4>1. ~(i < j) /\ j # i + 1
        BY <1>1, <3>1
      <4> QED BY <4>1
    <3>2. CASE i # n /\ j # n
      <4>1. d[i] = s[i] /\ d[j] = s[j]
        BY <1>6, <3>2
      <4> QED BY <1>8, <4>1, Zenon
    <3>3. CASE i # n /\ j = n
      <4>1. d[i] = s[i] /\ d[j] = b /\ s[j] = last
        BY <1>6, <1>10, <3>3
      <4> QED BY <1>7, <1>8, <1>10, <4>1, Zenon
    <3> QED BY <3>1, <3>2, <3>3
  <2> QED BY <1>6, <2>1, <2>2 DEF Tidy
<1>13. \A y \in Int : \A x : Has(d, y, x) <=>
         Has(s, y, x) \/ (a.from <= y /\ y < a.to /\ a.xs = x)
  <2> TAKE y \in Int
  <2> TAKE x
  <2>1. b.from <= y /\ y < m <=> (last.from <= y /\ y < last.to) \/ (a.from <= y /\ y < a.to)
    BY <1>2, <1>4, <1>7, <1>9, <1>10
  <2>2. Has(d, y, x) <=>
          \/ \E k \in 1 .. n : k # n /\ s[k].from <= y /\ y < s[k].to /\ s[k].xs = x
          \/ b.from <= y /\ y < m /\ b.xs = x
    BY <1>1, <1>6, Zenon DEF Has
  <2>3. Has(s, y, x) <=>
          \/ \E k \in 1 .. n : k # n /\ s[k].from <= y /\ y < s[k].to /\ s[k].xs = x
          \/ last.from <= y /\ y < last.to /\ last.xs = x
    BY <1>1, <1>10, Zenon DEF Has
  <2> QED BY <1>7, <1>10, <2>1, <2>2, <2>3, Zenon
<1>14. ASSUME NEW t \in Spans(X), \A i \in DOMAIN s : Before(s[i], t), Before(a, t),
              NEW i \in DOMAIN d
       PROVE  Before(d[i], t)
  <2>1. CASE i # n
    <3>1. d[i] = s[i] /\ i \in DOMAIN s
      BY <1>1, <1>6, <2>1
    <3> QED BY <1>14, <3>1
  <2>2. CASE i = n
    <3>1. Before(last, t) /\ t.from \in Int
      <4>1. t.from \in Int
        BY DEF Spans
      <4> QED BY <1>1, <1>10, <1>14, <4>1
    <3>2. /\ last.from <= t.from /\ (last.xs = t.xs \/ last.to <= t.from)
          /\ (a.xs = t.xs \/ a.to <= t.from)
      BY <1>14, <3>1 DEF Before
    <3>3. b.xs = t.xs \/ m <= t.from
      BY <1>7, <1>9, <1>10, <3>2
    <3>4. d[i] = b
      BY <1>6, <2>2
    <3> QED BY <1>10, <3>2, <3>3, <3>4 DEF Before
  <2> QED BY <2>1, <2>2
<1> QED BY <1>12, <1>13, <1>14

LEMMA WithSpanIs ==
  ASSUME NEW X, NEW s \in Seq(Spans(X)), NEW a \in Spans(X), Tidy(s), a.from < a.to,
         \A i \in DOMAIN s : Before(s[i], a)
  PROVE  /\ WithSpan(s, a) \in Seq(Spans(X))
         /\ Tidy(WithSpan(s, a))
         /\ \A y \in Int : \A x : Has(WithSpan(s, a), y, x) <=>
              Has(s, y, x) \/ (a.from <= y /\ y < a.to /\ a.xs = x)
         /\ \A t \in Spans(X) :
              (\A i \in DOMAIN s : Before(s[i], t)) /\ Before(a, t)
                => \A i \in DOMAIN WithSpan(s, a) : Before(WithSpan(s, a)[i], t)
<1>1. WithSpan(s, a) \in Seq(Spans(X))
  BY WithSpanType
<1>2. CASE s # <<>> /\ s[Len(s)].to >= a.from /\ s[Len(s)].xs = a.xs
  <2> DEFINE d == [s EXCEPT ![Len(s)] = Span(s[Len(s)].from, Greater(s[Len(s)].to, a.to), a.xs)]
  <2>1. WithSpan(s, a) = d
    BY <1>2 DEF WithSpan
  <2>2. Joins(s, a, d)
    BY <1>2 DEF Joins
  <2> HIDE DEF d
  <2>3. /\ Tidy(d)
        /\ \A y \in Int : \A x : Has(d, y, x) <=>
              Has(s, y, x) \/ (a.from <= y /\ y < a.to /\ a.xs = x)
        /\ \A t \in Spans(X) :
              (\A i \in DOMAIN s : Before(s[i], t)) /\ Before(a, t)
                => \A i \in DOMAIN d : Before(d[i], t)
    BY <2>2, SpanJoined, Zenon
  <2> QED BY <1>1, <2>1, <2>3
<1>3. CASE ~(s # <<>> /\ s[Len(s)].to >= a.from /\ s[Len(s)].xs = a.xs)
  <2>1. WithSpan(s, a) = Append(s, a)
    BY <1>3, Zenon DEF WithSpan
  <2>2. s # <<>> => s[Len(s)].to < a.from \/ s[Len(s)].xs # a.xs
    <3>1. s # <<>> => Len(s) \in DOMAIN s
      <4>1. s # <<>> => Len(s) \in Nat /\ Len(s) # 0 /\ DOMAIN s = 1 .. Len(s)
        OBVIOUS
      <4> QED BY <4>1
    <3>2. a.from \in Int /\ \A i \in DOMAIN s : s[i].to \in Int
      BY FieldsOf DEF Spans
    <3>3. \A p, q \in Int : ~(p >= q) => p < q
      OBVIOUS
    <3> QED BY <1>3, <3>1, <3>2, <3>3, Zenon
  <2> QED BY <1>1, <2>1, <2>2, SpanAppended
<1> QED BY <1>2, <1>3

\* The function Merged defines.
Merging(f, s) == f = [k \in 0 .. Len(s) |-> IF k = 0 THEN <<>> ELSE WithSpan(f[k - 1], s[k])]

LEMMA MergingExists ==
  ASSUME NEW X, NEW s \in Seq(Spans(X))
  PROVE  \E f : Merging(f, s)
<1> DEFINE C == Seq(Spans(X))
           n == Len(s)
           step == [k \in 1 .. n |-> [x \in C |-> WithSpan(x, s[k])]]
<1>1. n \in Nat /\ \A k \in 1 .. n : s[k] \in Spans(X)
  BY FieldsOf
<1>2. \A x \in C : \A k \in 1 .. n : WithSpan(x, s[k]) \in C
  BY <1>1, WithSpanType
<1>3. <<>> \in C
  OBVIOUS
<1> HIDE DEF C, n
<1>4. step \in [1 .. n -> [C -> C]] /\ \A k \in 1 .. n : \A x \in C : step[k][x] = WithSpan(x, s[k])
  BY <1>2
<1> HIDE DEF step
<1>5. PICK f \in [0 .. n -> C] : Recursive(f, n, <<>>, step)
  BY <1>1, <1>3, <1>4, Recursion
<1>6. \A k \in 0 .. n : f[k] = IF k = 0 THEN <<>> ELSE step[k][f[k - 1]]
  BY <1>5 DEF Recursive
<1>7. ASSUME NEW k \in 0 .. n PROVE f[k] = IF k = 0 THEN <<>> ELSE WithSpan(f[k - 1], s[k])
  <2>1. k # 0 => k \in 1 .. n /\ k - 1 \in 0 .. n
    BY <1>1
  <2> QED BY <1>4, <1>5, <1>6, <2>1
<1>8. f = [k \in 0 .. n |-> f[k]]
  BY <1>5
<1>9. [k \in 0 .. n |-> f[k]] = [k \in 0 .. n |-> IF k = 0 THEN <<>> ELSE WithSpan(f[k - 1], s[k])]
  BY <1>7
<1>10. Merging(f, s)
  BY <1>8, <1>9, Zenon DEF Merging, n
<1> QED BY <1>10

LEMMA MergedIs ==
  ASSUME NEW X, NEW s \in Seq(Spans(X)), Queued(s)
  PROVE  /\ Merged(s) \in Seq(Spans(X))
         /\ Tidy(Merged(s))
         /\ \A y \in Int : \A x : Has(Merged(s), y, x) <=> Has(s, y, x)
<1> DEFINE f == CHOOSE f : Merging(f, s)
           n == Len(s)
<1>1. Merging(f, s)
  BY MergingExists
<1>2. Merged(s) = f[n]
  BY DEF Merged, Merging
<1>3. \A k \in 0 .. n : f[k] = IF k = 0 THEN <<>> ELSE WithSpan(f[k - 1], s[k])
  BY <1>1 DEF Merging
<1>4. n \in Nat /\ DOMAIN s = 1 .. n /\ \A k \in 1 .. n : s[k] \in Spans(X)
  BY FieldsOf
<1>5. /\ \A k \in 1 .. n : s[k].from < s[k].to
      /\ \A i, j \in 1 .. n : i < j => Before(s[i], s[j])
  BY <1>4 DEF Queued, Real
<1> DEFINE Upto(k) ==
             /\ f[k] \in Seq(Spans(X))
             /\ Tidy(f[k])
             /\ \A y \in Int : \A x : Has(f[k], y, x) <=>
                  \E i \in 1 .. k : s[i].from <= y /\ y < s[i].to /\ s[i].xs = x
             /\ \A j \in 1 .. n : k < j => \A i \in DOMAIN f[k] : Before(f[k][i], s[j])
           T == {k \in 0 .. n : Upto(k)}
<1> HIDE DEF f, n
<1>6. Upto(0)
  <2>1. 0 \in 0 .. n
    BY <1>4
  <2>2. f[0] = <<>>
    BY <1>3, <2>1, Zenon
  <2>3. 1 .. 0 = {} /\ <<>> \in Seq(Spans(X)) /\ DOMAIN <<>> = {}
    OBVIOUS
  <2>4. Tidy(<<>>)
    BY <2>3, Zenon DEF Tidy, Real
  <2> QED BY <2>2, <2>3, <2>4, Zenon DEF Has
<1>7. ASSUME NEW k \in 1 .. n, Upto(k - 1) PROVE Upto(k)
  <2>1. k \in 0 .. n /\ k # 0 /\ k - 1 < k /\ \A i : i \in 1 .. k <=> i \in 1 .. k - 1 \/ i = k
    BY <1>4
  <2>2. f[k] = WithSpan(f[k - 1], s[k])
    BY <1>3, <2>1
  <2> DEFINE p == f[k - 1]
  <2>3. /\ p \in Seq(Spans(X)) /\ Tidy(p)
        /\ \A j \in 1 .. n : k - 1 < j => \A i \in DOMAIN p : Before(p[i], s[j])
    BY <1>7
  <2>4. \A y \in Int : \A x : Has(p, y, x) <=>
          \E i \in 1 .. k - 1 : s[i].from <= y /\ y < s[i].to /\ s[i].xs = x
    BY <1>7
  <2>5. f[k] = WithSpan(p, s[k])
    BY <2>2
  <2> HIDE DEF p
  <2>6. \A i \in DOMAIN p : Before(p[i], s[k])
    BY <2>1, <2>3
  <2>7. s[k] \in Spans(X) /\ s[k].from < s[k].to
    BY <1>4, <1>5
  <2>8. /\ f[k] \in Seq(Spans(X)) /\ Tidy(f[k])
        /\ \A y \in Int : \A x : Has(f[k], y, x) <=>
             Has(p, y, x) \/ (s[k].from <= y /\ y < s[k].to /\ s[k].xs = x)
        /\ \A t \in Spans(X) :
             (\A i \in DOMAIN p : Before(p[i], t)) /\ Before(s[k], t)
               => \A i \in DOMAIN f[k] : Before(f[k][i], t)
    <3> DEFINE a == s[k]
    <3>1. a \in Spans(X) /\ a.from < a.to /\ (\A i \in DOMAIN p : Before(p[i], a)) /\ Tidy(p)
      BY <2>3, <2>6, <2>7
    <3> HIDE DEF a
    <3>2. /\ WithSpan(p, a) \in Seq(Spans(X)) /\ Tidy(WithSpan(p, a))
          /\ \A y \in Int : \A x : Has(WithSpan(p, a), y, x) <=>
               Has(p, y, x) \/ (a.from <= y /\ y < a.to /\ a.xs = x)
          /\ \A t \in Spans(X) :
               (\A i \in DOMAIN p : Before(p[i], t)) /\ Before(a, t)
                 => \A i \in DOMAIN WithSpan(p, a) : Before(WithSpan(p, a)[i], t)
      BY <2>3, <3>1, WithSpanIs
    <3> QED BY <2>5, <3>2 DEF a
  <2>9. \A y \in Int : \A x : Has(f[k], y, x) <=>
          \E i \in 1 .. k : s[i].from <= y /\ y < s[i].to /\ s[i].xs = x
    BY <2>1, <2>4, <2>8, Zenon
  <2>10. ASSUME NEW j \in 1 .. n, k < j PROVE \A i \in DOMAIN f[k] : Before(f[k][i], s[j])
    <3>1. k - 1 < j
      BY <1>4, <2>10
    <3>2. Before(s[k], s[j]) /\ s[j] \in Spans(X)
      BY <1>4, <1>5, <2>10
    <3>3. \A i \in DOMAIN p : Before(p[i], s[j])
      BY <2>3, <3>1
    <3> QED BY <2>8, <3>2, <3>3, Zenon
  <2> QED BY <2>8, <2>9, <2>10
<1>8. n \in T
  <2>1. \A k \in 1 .. n : k - 1 \in T => k \in T
    <3> TAKE k \in 1 .. n
    <3>1. k \in 0 .. n
      BY <1>4
    <3> HIDE DEF Upto
    <3> QED BY <1>7, <3>1
  <2>2. 0 \in T
    <3>1. 0 \in 0 .. n
      BY <1>4
    <3> HIDE DEF Upto
    <3> QED BY <1>6, <3>1
  <2> HIDE DEF T
  <2>3. \A k \in 0 .. n : k \in T
    BY <1>4, <2>1, <2>2, Upward
  <2> QED BY <1>4, <2>3
<1>9. Upto(n)
  <2> HIDE DEF Upto
  <2> QED BY <1>8
<1>10. \A y \in Int : \A x : Has(s, y, x) <=>
         \E i \in 1 .. n : s[i].from <= y /\ y < s[i].to /\ s[i].xs = x
  BY <1>4, Zenon DEF Has
<1>11. /\ f[n] \in Seq(Spans(X)) /\ Tidy(f[n])
       /\ \A y \in Int : \A x : Has(f[n], y, x) <=>
            \E i \in 1 .. n : s[i].from <= y /\ y < s[i].to /\ s[i].xs = x
  BY <1>9
<1>12. ASSUME NEW y \in Int, NEW x PROVE Has(f[n], y, x) <=> Has(s, y, x)
  <2> DEFINE R == \E i \in 1 .. n : s[i].from <= y /\ y < s[i].to /\ s[i].xs = x
  <2>1. (Has(s, y, x) <=> R) /\ (Has(f[n], y, x) <=> R)
    BY <1>10, <1>11
  <2> HIDE DEF R
  <2> QED BY <2>1
<1> QED BY <1>2, <1>11, <1>12

\* The first span from which two tidy lists differ begins in both at the same place.
Agree(a, b) == \A y \in Int : \A x : Has(a, y, x) <=> Has(b, y, x)

LEMMA SameSpan ==
  ASSUME NEW X, NEW a \in Seq(Spans(X)), NEW b \in Seq(Spans(X)), Tidy(a), Tidy(b), Agree(a, b),
         NEW k \in DOMAIN a, \A j \in DOMAIN b : j < k => j \in DOMAIN a /\ a[j] = b[j]
  PROVE  k \in DOMAIN b /\ b[k].from <= a[k].from
<1>1. /\ Len(a) \in Nat /\ Len(b) \in Nat /\ DOMAIN a = 1 .. Len(a) /\ DOMAIN b = 1 .. Len(b)
      /\ \A i \in DOMAIN a : a[i].from \in Int /\ a[i].to \in Int
      /\ \A i \in DOMAIN b : b[i].from \in Int /\ b[i].to \in Int
  BY FieldsOf
<1> DEFINE y == a[k].from
<1>2. Has(a, y, a[k].xs)
  <2>1. y <= y /\ y < a[k].to
    BY <1>1 DEF Tidy, Real
  <2> QED BY <2>1 DEF Has
<1>3. PICK j \in DOMAIN b : b[j].from <= y /\ y < b[j].to
  <2>1. y \in Int
    BY <1>1
  <2>2. Has(b, y, a[k].xs)
    BY <1>2, <2>1, Zenon DEF Agree
  <2> QED BY <2>2, Zenon DEF Has
<1>4. ~(j < k)
  <2> SUFFICES ASSUME j < k PROVE FALSE
    OBVIOUS
  <2>1. a[j] = b[j] /\ j \in DOMAIN a
    BY <1>3
  <2>2. a[j].to <= a[k].from
    BY <2>1 DEF Tidy
  <2> QED BY <1>1, <1>3, <2>1, <2>2
<1>5. k \in DOMAIN b
  BY <1>1, <1>3, <1>4
<1>6. b[k].from <= b[j].from
  <2>1. CASE k = j
    BY <1>1, <1>3, <2>1
  <2>2. CASE k # j
    <3>1. k < j
      BY <1>1, <1>3, <1>4, <2>2
    <3>2. b[k].to <= b[j].from /\ b[k].from < b[k].to
      BY <1>3, <1>5, <3>1 DEF Tidy, Real
    <3> QED BY <1>1, <1>3, <1>5, <3>2
  <2> QED BY <2>1, <2>2
<1> QED BY <1>1, <1>3, <1>5, <1>6

\* Spans that begin at the same place have the same in them, and end at the same place.
LEMMA SameXs ==
  ASSUME NEW X, NEW a \in Seq(Spans(X)), NEW b \in Seq(Spans(X)), Tidy(a), Tidy(b), Agree(a, b),
         NEW k \in DOMAIN a, k \in DOMAIN b, a[k].from = b[k].from
  PROVE  a[k].xs = b[k].xs
<1>1. /\ DOMAIN b = 1 .. Len(b) /\ Len(b) \in Nat /\ DOMAIN a = 1 .. Len(a) /\ Len(a) \in Nat
      /\ \A i \in DOMAIN a : a[i].from \in Int /\ a[i].to \in Int
      /\ \A i \in DOMAIN b : b[i].from \in Int /\ b[i].to \in Int
  BY FieldsOf
<1>2. Has(a, a[k].from, a[k].xs)
  <2>1. a[k].from <= a[k].from /\ a[k].from < a[k].to
    BY <1>1 DEF Tidy, Real
  <2> QED BY <2>1 DEF Has
<1>3. PICK j \in DOMAIN b : b[j].from <= b[k].from /\ b[k].from < b[j].to /\ b[j].xs = a[k].xs
  <2>1. a[k].from \in Int
    BY <1>1
  <2>2. Has(b, b[k].from, a[k].xs)
    BY <1>2, <2>1, Zenon DEF Agree
  <2> QED BY <2>2, Zenon DEF Has
<1>4. j = k
  <2>1. ~(j < k)
    <3>1. j < k => b[j].to <= b[k].from
      BY <1>3 DEF Tidy
    <3> QED BY <1>1, <1>3, <3>1
  <2>2. ~(k < j)
    <3>1. k < j => b[k].to <= b[j].from /\ b[k].from < b[k].to
      BY <1>3 DEF Tidy, Real
    <3> QED BY <1>1, <1>3, <3>1
  <2> QED BY <1>1, <1>3, <2>1, <2>2
<1> QED BY <1>3, <1>4

LEMMA SameEnd ==
  ASSUME NEW X, NEW a \in Seq(Spans(X)), NEW b \in Seq(Spans(X)), Tidy(a), Tidy(b), Agree(a, b),
         NEW k \in DOMAIN a, k \in DOMAIN b, a[k].from = b[k].from, a[k].xs = b[k].xs
  PROVE  b[k].to <= a[k].to
<1>1. /\ DOMAIN b = 1 .. Len(b) /\ Len(b) \in Nat /\ DOMAIN a = 1 .. Len(a) /\ Len(a) \in Nat
      /\ \A i \in DOMAIN a : a[i].from \in Int /\ a[i].to \in Int
      /\ \A i \in DOMAIN b : b[i].from \in Int /\ b[i].to \in Int
  BY FieldsOf
<1> SUFFICES ASSUME a[k].to < b[k].to PROVE FALSE
  BY <1>1
<1> DEFINE y == a[k].to
<1>2. Has(b, y, b[k].xs)
  <2>1. b[k].from <= y /\ y < b[k].to
    <3>1. a[k].from < a[k].to
      BY DEF Tidy, Real
    <3> QED BY <1>1, <3>1
  <2> QED BY <2>1 DEF Has
<1>3. PICK i \in DOMAIN a : a[i].from <= y /\ y < a[i].to /\ a[i].xs = a[k].xs
  <2>1. y \in Int
    BY <1>1
  <2>2. Has(a, y, a[k].xs)
    BY <1>2, <2>1, Zenon DEF Agree
  <2> QED BY <2>2, Zenon DEF Has
<1>4. \A p, q \in DOMAIN a : p < q => a[p].to <= a[q].from
  BY DEF Tidy
<1>5. \A p \in DOMAIN a : a[p].from < a[p].to
  BY DEF Tidy, Real
<1>6. k < i
  <2>1. i # k
    BY <1>1, <1>3
  <2>2. ~(i < k)
    <3>1. i < k => a[i].to <= a[k].from /\ a[k].from < a[k].to
      BY <1>3, <1>4, <1>5
    <3> QED BY <1>1, <1>3, <3>1
  <2> QED BY <1>1, <1>3, <2>1, <2>2
<1>7. a[k].to = a[i].from
  BY <1>1, <1>3, <1>4, <1>6
<1>8. i = k + 1
  <2> SUFFICES ASSUME i # k + 1 PROVE FALSE
    OBVIOUS
  <2>1. k + 1 \in DOMAIN a /\ k + 1 < i /\ k < k + 1
    BY <1>1, <1>3, <1>6
  <2>2. a[k].to <= a[k + 1].from /\ a[k + 1].to <= a[i].from /\ a[k + 1].from < a[k + 1].to
    BY <1>3, <1>4, <1>5, <2>1
  <2> QED BY <1>1, <1>3, <1>7, <2>1, <2>2
<1> QED BY <1>3, <1>7, <1>8 DEF Tidy

LEMMA SpansEqual ==
  ASSUME NEW X, NEW p \in Spans(X), NEW q \in Spans(X),
         p.from = q.from, p.to = q.to, p.xs = q.xs
  PROVE  p = q
BY DEF Spans

LEMMA SameLists ==
  ASSUME NEW X, NEW a \in Seq(Spans(X)), NEW b \in Seq(Spans(X)), Tidy(a), Tidy(b), Agree(a, b)
  PROVE  a = b
<1>1. /\ Len(a) \in Nat /\ Len(b) \in Nat /\ DOMAIN a = 1 .. Len(a) /\ DOMAIN b = 1 .. Len(b)
      /\ \A i \in DOMAIN a : a[i] \in Spans(X) /\ a[i].from \in Int /\ a[i].to \in Int
      /\ \A i \in DOMAIN b : b[i] \in Spans(X) /\ b[i].from \in Int /\ b[i].to \in Int
  BY FieldsOf
<1>2. Agree(b, a)
  BY DEF Agree
<1> DEFINE Same(k) == k \in DOMAIN a /\ k \in DOMAIN b /\ a[k] = b[k]
           T == {k \in Nat : (k \in DOMAIN a \/ k \in DOMAIN b) /\ ~Same(k)}
<1>3. T = {}
  <2> SUFFICES ASSUME T # {} PROVE FALSE
    OBVIOUS
  <2>1. T \in SUBSET Nat
    OBVIOUS
  <2>2. PICK k \in T : \A j \in T : k <= j
    <3> HIDE DEF T
    <3> QED BY <2>1, Least
  <2>3. \A j \in Nat : j < k => ~(k <= j)
    BY <2>1
  <2>4. \A j \in Nat : j < k /\ (j \in DOMAIN a \/ j \in DOMAIN b) => Same(j)
    <3> HIDE DEF Same
    <3> QED BY <2>2, <2>3
  <2>5. /\ \A j \in DOMAIN b : j < k => j \in DOMAIN a /\ a[j] = b[j]
        /\ \A j \in DOMAIN a : j < k => j \in DOMAIN b /\ b[j] = a[j]
    BY <1>1, <2>4
  <2>6. (k \in DOMAIN a \/ k \in DOMAIN b) /\ ~Same(k)
    OBVIOUS
  <2> HIDE DEF T
  <2>7. /\ k \in DOMAIN a => k \in DOMAIN b /\ b[k].from <= a[k].from
        /\ k \in DOMAIN b => k \in DOMAIN a /\ a[k].from <= b[k].from
    BY <1>2, <2>5, SameSpan, Zenon
  <2>8. k \in DOMAIN a /\ k \in DOMAIN b /\ a[k].from = b[k].from
    BY <1>1, <2>6, <2>7
  <2>9. a[k].xs = b[k].xs
    BY <2>8, SameXs
  <2>10. b[k].to <= a[k].to /\ a[k].to <= b[k].to
    BY <1>2, <2>8, <2>9, SameEnd, Zenon
  <2>11. a[k].to = b[k].to
    BY <1>1, <2>8, <2>10
  <2>12. a[k] = b[k]
    BY <1>1, <2>8, <2>9, <2>11, SpansEqual
  <2> QED BY <2>6, <2>8, <2>12
<1>4. \A k \in Nat : k \in DOMAIN a \/ k \in DOMAIN b => Same(k)
  BY <1>3
<1>5. \A k \in DOMAIN a : k \in DOMAIN b /\ a[k] = b[k]
  BY <1>1, <1>4
<1>6. \A k \in DOMAIN b : k \in DOMAIN a
  BY <1>1, <1>4
<1>7. DOMAIN a = DOMAIN b
  BY <1>5, <1>6
<1> DEFINE B == Spans(X)
<1>8. a \in Seq(B) /\ b \in Seq(B)
  OBVIOUS
<1> HIDE DEF B, T
<1>9. Len(a) = Len(b)
  BY <1>7, <1>8
<1> QED BY <1>1, <1>5, <1>7, <1>8, <1>9

----------------------------------------------------------------------------
(* What the rectangles of a set cover of a row, and the bands of the set. *)

LEMMA ImageFinite ==
  ASSUME NEW S, IsFiniteSet(S), NEW T, NEW f \in [S -> T], \A t \in T : \E x \in S : f[x] = t
  PROVE  IsFiniteSet(T)
<1>1. f \in Surjection(S, T)
  BY DEF Surjection
<1> QED BY <1>1, FS_Surjection

Solid == {r \in Rect : HasArea(r)}

LEMMA SolidIs ==
  ASSUME NEW r \in Solid
  PROVE  /\ r \in Rect /\ r[1] \in Int /\ r[2] \in Int /\ r[3] \in Int /\ r[4] \in Int
         /\ r[1] < r[3] /\ r[2] < r[4]
<1>1. r \in Rect /\ HasArea(r)
  BY DEF Solid
<1> QED BY <1>1, RectIs DEF HasArea

\* A row has no label of its own.
Empty == {<<>>}

LEMMA IntervalsIs ==
  ASSUME NEW R \in SUBSET Solid, IsFiniteSet(R)
  PROVE  /\ Intervals(R) \in Seq(Spans(Empty))
         /\ Tidy(Intervals(R))
         /\ \A x \in Int : \A l : Has(Intervals(R), x, l) <=>
              l = <<>> /\ \E r \in R : r[1] <= x /\ x < r[3]
<1> DEFINE all == {<<r[1], r[3]>> : r \in R}
           ends == Ordered(all, LexLessIn(all))
           s == [i \in DOMAIN ends |-> Span(ends[i][1], ends[i][2], <<>>)]
<1>1. \A r \in R : /\ r[1] \in Int /\ r[3] \in Int /\ r[1] < r[3]
                   /\ <<r[1], r[3]>>[1] = r[1] /\ <<r[1], r[3]>>[2] = r[3]
  BY SolidIs
<1>2. /\ \A r \in R : <<r[1], r[3]>> \in all
      /\ \A e \in all : \E r \in R : e = <<r[1], r[3]>>
  OBVIOUS
<1>3. \A e \in all : /\ e[1] \in Int /\ e[2] \in Int /\ e[1] < e[2] /\ e = <<e[1], e[2]>>
  <2> HIDE DEF all
  <2> QED BY <1>1, <1>2
<1>4. IsFiniteSet(all)
  <2> DEFINE f == [r \in R |-> <<r[1], r[3]>>]
  <2>1. f \in [R -> all] /\ \A t \in all : \E r \in R : f[r] = t
    OBVIOUS
  <2> HIDE DEF f, all
  <2> QED BY <2>1, ImageFinite
<1>5. \A d, e \in all : <<d, e>> \in LexLessIn(all) <=> d[1] < e[1] \/ (d[1] = e[1] /\ d[2] < e[2])
  <2> HIDE DEF all
  <2>1. \A d, e \in all : <<d, e>> \in all \X all /\ <<d, e>>[1] = d /\ <<d, e>>[2] = e
    OBVIOUS
  <2> QED BY <2>1, Zenon DEF LexLessIn
<1> HIDE DEF all
<1>6. Strict(all, LexLessIn(all))
  <2> HIDE DEF LexLessIn
  <2>1. \A x \in all : <<x, x>> \notin LexLessIn(all)
    BY <1>3, <1>5
  <2>2. \A x, y, z \in all : <<x, y>> \in LexLessIn(all) /\ <<y, z>> \in LexLessIn(all)
                               => <<x, z>> \in LexLessIn(all)
    BY <1>3, <1>5
  <2>3. \A x, y \in all : x = y \/ <<x, y>> \in LexLessIn(all) \/ <<y, x>> \in LexLessIn(all)
    <3> TAKE x, y \in all
    <3>1. \/ x[1] < y[1] \/ y[1] < x[1] \/ (x[1] = y[1] /\ x[2] < y[2])
          \/ (x[1] = y[1] /\ y[2] < x[2]) \/ (x[1] = y[1] /\ x[2] = y[2])
      BY <1>3
    <3>2. x[1] = y[1] /\ x[2] = y[2] => x = y
      BY <1>3
    <3> QED BY <1>5, <3>1, <3>2, Zenon
  <2> QED BY <2>1, <2>2, <2>3, Zenon DEF Strict
<1>7. ends \in Seq(all) /\ ToSet(ends) = all /\ InOrder(ends, LexLessIn(all))
  BY <1>4, <1>6, OrderedIs
<1> HIDE DEF ends
<1>8. Len(ends) \in Nat /\ DOMAIN ends = 1 .. Len(ends) /\ \A i \in DOMAIN ends : ends[i] \in all
  BY <1>7
<1>9. \A i \in DOMAIN ends : /\ s[i] \in Spans(Empty) /\ s[i].from = ends[i][1]
                             /\ s[i].to = ends[i][2] /\ s[i].xs = <<>>
  <2> TAKE i \in DOMAIN ends
  <2>1. s[i] = Span(ends[i][1], ends[i][2], <<>>) /\ <<>> \in Empty
    BY DEF Empty
  <2>2. ends[i][1] \in Int /\ ends[i][2] \in Int
    BY <1>3, <1>8
  <2> HIDE DEF s
  <2> QED BY <2>1, <2>2, SpanIs
<1>10. s = [i \in DOMAIN ends |-> s[i]]
  OBVIOUS
<1>11. Intervals(R) = Merged(s)
  BY DEF Intervals, s, ends, all
<1> HIDE DEF s
<1>12. s \in Seq(Spans(Empty)) /\ DOMAIN s = DOMAIN ends
  <2> DEFINE B == Spans(Empty)
  <2>1. \A i \in DOMAIN ends : s[i] \in B
    BY <1>9
  <2> HIDE DEF B
  <2>2. s \in [DOMAIN ends -> B]
    BY <1>10, <2>1
  <2>3. s \in Seq(B)
    BY <1>8, <2>2
  <2> QED BY <2>2, <2>3 DEF B
<1>13. Queued(s)
  <2>1. Real(s)
    BY <1>3, <1>8, <1>9, <1>12 DEF Real
  <2>2. ASSUME NEW i \in DOMAIN ends, NEW j \in DOMAIN ends, i < j PROVE Before(s[i], s[j])
    <3>1. <<ends[i], ends[j]>> \in LexLessIn(all)
      BY <1>7, <2>2 DEF InOrder
    <3>2. ends[i][1] < ends[j][1] \/ ends[i][1] = ends[j][1]
      BY <1>5, <1>8, <3>1
    <3>3. ends[i][1] <= ends[j][1]
      <4>1. ends[i][1] \in Int /\ ends[j][1] \in Int
        BY <1>3, <1>8
      <4> QED BY <3>2, <4>1
    <3> QED BY <1>9, <3>3 DEF Before
  <2> QED BY <1>12, <2>1, <2>2 DEF Queued
<1>14. \A x \in Int : \A l : Has(s, x, l) <=> l = <<>> /\ \E r \in R : r[1] <= x /\ x < r[3]
  <2> TAKE x \in Int
  <2> TAKE l
  <2>1. Has(s, x, l) <=> \E i \in DOMAIN ends : ends[i][1] <= x /\ x < ends[i][2] /\ <<>> = l
    BY <1>9, <1>12, Zenon DEF Has
  <2>2. (\E i \in DOMAIN ends : ends[i][1] <= x /\ x < ends[i][2])
          <=> \E e \in all : e[1] <= x /\ x < e[2]
    BY <1>7, <1>8, Zenon DEF ToSet
  <2>3. (\E e \in all : e[1] <= x /\ x < e[2]) <=> \E r \in R : r[1] <= x /\ x < r[3]
    BY <1>1, <1>2
  <2> QED BY <2>1, <2>2, <2>3, Zenon
<1> QED BY <1>11, <1>12, <1>13, <1>14, MergedIs

\* The elements of a list at some of its indices, in the order of the list.
Picked(B, K, list, is, s) ==
  /\ ToSet(is) = K /\ \A i, j \in DOMAIN is : i < j => is[i] < is[j]
  /\ DOMAIN s = DOMAIN is /\ s \in Seq(B)
  /\ \A i \in DOMAIN is : is[i] \in K /\ s[i] = list[is[i]]

LEMMA KeptIs ==
  ASSUME NEW B, NEW list \in Seq(B), NEW K \in SUBSET DOMAIN list
  PROVE  \E is : Picked(B, K, list, is, Kept(list, K))
<1> DEFINE is == Ordered(K, LessIn(K))
           s == Kept(list, K)
<1>1. Len(list) \in Nat /\ DOMAIN list = 1 .. Len(list)
  OBVIOUS
<1>2. K \in SUBSET Int /\ IsFiniteSet(K)
  <2>1. IsFiniteSet(1 .. Len(list)) /\ 1 .. Len(list) \subseteq Int
    BY <1>1, FS_Interval
  <2> QED BY <1>1, <2>1, FS_Subset
<1>3. is \in Seq(K) /\ ToSet(is) = K /\ \A i, j \in DOMAIN is : i < j => is[i] < is[j]
  BY <1>2, LessInIs
<1>4. s = [i \in DOMAIN is |-> list[is[i]]]
  BY DEF Kept
<1> HIDE DEF is, s
<1>5. Len(is) \in Nat /\ DOMAIN is = 1 .. Len(is) /\ \A i \in DOMAIN is : is[i] \in K
  BY <1>3
<1>6. \A k \in K : list[k] \in B
  OBVIOUS
<1>7. s \in [1 .. Len(is) -> B]
  BY <1>4, <1>5, <1>6
<1>8. s \in Seq(B)
  BY <1>5, <1>7
<1>9. DOMAIN s = DOMAIN is /\ \A i \in DOMAIN is : s[i] = list[is[i]]
  BY <1>4
<1>10. Picked(B, K, list, is, s)
  BY <1>3, <1>5, <1>8, <1>9 DEF Picked
<1> QED BY <1>10 DEF s

\* Between which of its elements an ascending list has a number.
LEMMA Between ==
  ASSUME NEW s \in Seq(Int), \A i, j \in DOMAIN s : i < j => s[i] < s[j],
         NEW y \in Int, NEW a \in DOMAIN s, NEW b \in DOMAIN s, s[a] <= y, y < s[b]
  PROVE  \E k \in 1 .. Len(s) - 1 : s[k] <= y /\ y < s[k + 1]
<1>1. Len(s) \in Nat /\ DOMAIN s = 1 .. Len(s) /\ \A i \in DOMAIN s : s[i] \in Int
  OBVIOUS
<1> DEFINE T == {i \in 1 .. Len(s) : y < s[i]}
<1>2. T # {} /\ T \in SUBSET Nat
  BY <1>1
<1>3. PICK m \in T : \A i \in T : m <= i
  <2> HIDE DEF T
  <2> QED BY <1>2, Least
<1>4. m \in 1 .. Len(s) /\ y < s[m] /\ \A i \in 1 .. Len(s) : y < s[i] => m <= i
  BY <1>3
<1> HIDE DEF T
<1>5. a < m
  <2>1. m # a
    BY <1>1, <1>4
  <2>2. ~(m < a)
    <3>1. m < a => s[m] < s[a]
      BY <1>1, <1>4
    <3> QED BY <1>1, <1>4, <3>1
  <2> QED BY <1>1, <1>4, <2>1, <2>2
<1>6. m - 1 \in 1 .. Len(s) - 1 /\ m - 1 \in 1 .. Len(s) /\ (m - 1) + 1 = m /\ ~(m <= m - 1)
  BY <1>1, <1>4, <1>5
<1>7. ~(y < s[m - 1])
  BY <1>4, <1>6
<1>8. s[m - 1] <= y
  BY <1>1, <1>6, <1>7
<1> QED BY <1>4, <1>6, <1>8

Lists     == Seq(Spans(Empty))
Row(R, y) == {r \in R : r[2] <= y /\ y < r[4]}

\* Between two neighbouring edges the same rectangles are in every row.
LEMMA RowIs ==
  ASSUME NEW R \in SUBSET Solid, NEW s \in Seq(Int),
         \A i, j \in DOMAIN s : i < j => s[i] < s[j],
         \A r \in R : r[2] \in ToSet(s) /\ r[4] \in ToSet(s),
         NEW k \in 1 .. Len(s) - 1, NEW y \in Int, s[k] <= y, y < s[k + 1]
  PROVE  Crossing(R, s[k], s[k + 1]) = Row(R, y)
<1>1. Len(s) \in Nat /\ DOMAIN s = 1 .. Len(s) /\ \A i \in DOMAIN s : s[i] \in Int
  OBVIOUS
<1>2. k \in DOMAIN s /\ k + 1 \in DOMAIN s /\ k \in Int
  BY <1>1
<1>3. ASSUME NEW r \in R PROVE r[2] <= s[k] /\ s[k + 1] <= r[4] <=> r[2] <= y /\ y < r[4]
  <2>1. PICK i \in DOMAIN s : s[i] = r[2]
    BY DEF ToSet
  <2>2. PICK j \in DOMAIN s : s[j] = r[4]
    BY DEF ToSet
  <2>3. s[i] <= y => s[i] <= s[k]
    <3>1. k < i => s[k + 1] <= s[i]
      <4>1. k < i => k + 1 = i \/ k + 1 < i
        BY <1>1, <1>2, <2>1
      <4>2. k + 1 < i => s[k + 1] < s[i]
        BY <1>2
      <4> QED BY <1>1, <1>2, <4>1, <4>2
    <3>2. ~(k < i) => i = k \/ i < k
      BY <1>1, <1>2, <2>1
    <3>3. i < k => s[i] < s[k]
      BY <1>2
    <3>4. k < i => ~(s[i] <= y)
      BY <1>1, <1>2, <3>1
    <3>5. ~(k < i) => s[i] <= s[k]
      BY <1>1, <1>2, <3>2, <3>3
    <3> QED BY <3>4, <3>5
  <2>4. y < s[j] => s[k + 1] <= s[j]
    <3>1. j <= k => s[j] <= s[k]
      <4>1. j <= k => j = k \/ j < k
        BY <1>1, <1>2, <2>2
      <4>2. j < k => s[j] < s[k]
        BY <1>2
      <4> QED BY <1>1, <1>2, <4>1, <4>2
    <3>2. ~(j <= k) => j = k + 1 \/ k + 1 < j
      BY <1>1, <1>2, <2>2
    <3>3. k + 1 < j => s[k + 1] < s[j]
      BY <1>2
    <3> QED BY <1>1, <1>2, <3>1, <3>2, <3>3
  <2>5. s[i] \in Int /\ s[j] \in Int /\ s[k] \in Int /\ s[k + 1] \in Int
    BY <1>1, <1>2
  <2>6. s[i] <= s[k] /\ s[k + 1] <= s[j] <=> s[i] <= y /\ y < s[j]
    BY <2>3, <2>4, <2>5
  <2> QED BY <2>1, <2>2, <2>6
<1> QED BY <1>3, Zenon DEF Crossing, Row

LEMMA BandsAre ==
  ASSUME NEW R \in SUBSET Solid, IsFiniteSet(R)
  PROVE  /\ Bands(R) \in Seq(Spans(Lists)) /\ Queued(Bands(R))
         /\ \A y \in Int : \A xs : Has(Bands(R), y, xs) <=>
              Row(R, y) # {} /\ xs = Intervals(Row(R, y))
<1> DEFINE tops == {r[2] : r \in R}
           ends == {r[4] : r \in R}
           edges == tops \cup ends
           ys == Ordered(edges, LessIn(edges))
           n == Len(ys) - 1
           crossing(k) == Crossing(R, ys[k], ys[k + 1])
           band == [k \in 1 .. n |-> Span(ys[k], ys[k + 1], Intervals(crossing(k)))]
           K == {k \in 1 .. n : crossing(k) # {}}
<1>1. Bands(R) = Kept(band, K)
  BY DEF Bands
<1>2. \A r \in R : r[2] \in Int /\ r[4] \in Int
  BY SolidIs
<1>3. edges \in SUBSET Int /\ IsFiniteSet(edges)
  <2>1. edges \in SUBSET Int
    BY <1>2
  <2>2. IsFiniteSet(tops)
    <3> DEFINE f == [r \in R |-> r[2]]
    <3>1. f \in [R -> tops] /\ \A t \in tops : \E r \in R : f[r] = t
      OBVIOUS
    <3> HIDE DEF f, tops
    <3> QED BY <3>1, ImageFinite
  <2>3. IsFiniteSet(ends)
    <3> DEFINE f == [r \in R |-> r[4]]
    <3>1. f \in [R -> ends] /\ \A t \in ends : \E r \in R : f[r] = t
      OBVIOUS
    <3> HIDE DEF f, ends
    <3> QED BY <3>1, ImageFinite
  <2>4. IsFiniteSet(edges)
    <3> HIDE DEF tops, ends
    <3> QED BY <2>2, <2>3, FS_Union
  <2> QED BY <2>1, <2>4
<1>4. \A r \in R : r[2] \in edges /\ r[4] \in edges
  OBVIOUS
<1> HIDE DEF edges
<1>5. ys \in Seq(edges) /\ ToSet(ys) = edges /\ \A i, j \in DOMAIN ys : i < j => ys[i] < ys[j]
  BY <1>3, LessInIs
<1> HIDE DEF ys
<1>6. /\ ys \in Seq(Int) /\ Len(ys) \in Nat /\ DOMAIN ys = 1 .. Len(ys)
      /\ \A i \in DOMAIN ys : ys[i] \in Int
  <2>1. Len(ys) \in Nat /\ ys \in [1 .. Len(ys) -> edges]
    BY <1>5
  <2>2. ys \in [1 .. Len(ys) -> Int]
    BY <1>3, <2>1
  <2> QED BY <2>1, <2>2
<1>7. \A k \in 1 .. n : /\ k \in DOMAIN ys /\ k + 1 \in DOMAIN ys /\ k < k + 1 /\ ys[k] < ys[k + 1]
                        /\ ys[k] \in Int /\ ys[k + 1] \in Int
  <2> TAKE k \in 1 .. n
  <2>1. k \in DOMAIN ys /\ k + 1 \in DOMAIN ys /\ k < k + 1
    BY <1>6
  <2> QED BY <1>5, <1>6, <2>1
<1>8. \A k \in 1 .. n : Intervals(crossing(k)) \in Lists
  <2> TAKE k \in 1 .. n
  <2> DEFINE C == crossing(k)
  <2>1. C \in SUBSET R
    BY DEF Crossing
  <2> HIDE DEF C
  <2>2. C \in SUBSET Solid /\ IsFiniteSet(C)
    BY <2>1, FS_Subset
  <2>3. Intervals(C) \in Lists
    BY <2>2, IntervalsIs DEF Lists
  <2> QED BY <2>3 DEF C
<1>9. \A k \in 1 .. n : /\ band[k] \in Spans(Lists) /\ band[k].from = ys[k]
                        /\ band[k].to = ys[k + 1] /\ band[k].xs = Intervals(crossing(k))
  <2> TAKE k \in 1 .. n
  <2>1. band[k] = Span(ys[k], ys[k + 1], Intervals(crossing(k)))
    OBVIOUS
  <2> DEFINE x == Intervals(crossing(k))
  <2>2. x \in Lists /\ band[k] = Span(ys[k], ys[k + 1], x)
    BY <1>8, <2>1
  <2> HIDE DEF x, band
  <2>3. ys[k] \in Int /\ ys[k + 1] \in Int
    BY <1>7
  <2> DEFINE a == ys[k]
             b == ys[k + 1]
  <2>4. a \in Int /\ b \in Int /\ band[k] = Span(a, b, x)
    BY <2>2, <2>3
  <2> HIDE DEF a, b
  <2>7. a \in Int /\ b \in Int /\ x \in Lists
    BY <2>2, <2>4
  <2>5. /\ Span(a, b, x) \in Spans(Lists) /\ Span(a, b, x).from = a
        /\ Span(a, b, x).to = b /\ Span(a, b, x).xs = x
    BY <2>7, SpanIs
  <2>6. band[k] \in Spans(Lists) /\ band[k].from = a /\ band[k].to = b /\ band[k].xs = x
    BY <2>4, <2>5, Zenon
  <2> QED BY <2>6 DEF a, b, x
<1>10. band = [k \in 1 .. n |-> band[k]]
  OBVIOUS
<1>11. K \in SUBSET (1 .. n) /\ \A k \in 1 .. n : k \in K <=> crossing(k) # {}
  OBVIOUS
<1> HIDE DEF band, K
<1>12. band \in Seq(Spans(Lists)) /\ DOMAIN band = 1 .. n
  <2> DEFINE B == Spans(Lists)
  <2>1. \A k \in 1 .. n : band[k] \in B
    BY <1>9
  <2> HIDE DEF B
  <2>2. band \in [1 .. n -> B]
    BY <1>10, <2>1
  <2>3. n \in Nat \/ n = -1
    BY <1>6
  <2>4. band \in Seq(B)
    <3>1. CASE n \in Nat
      BY <2>2, <3>1
    <3>2. CASE n = -1
      <4>1. 1 .. n = 1 .. 0
        BY <3>2
      <4>2. band \in [1 .. 0 -> B]
        BY <2>2, <4>1
      <4> QED BY <4>2
    <3> QED BY <2>3, <3>1, <3>2
  <2> QED BY <2>2, <2>4 DEF B
<1>13. K \in SUBSET DOMAIN band
  BY <1>11, <1>12
<1> DEFINE s == Bands(R)
<1>20. PICK is : Picked(Spans(Lists), K, band, is, Kept(band, K))
  BY <1>12, <1>13, KeptIs
<1>14. /\ ToSet(is) = K /\ \A i, j \in DOMAIN is : i < j => is[i] < is[j]
       /\ DOMAIN s = DOMAIN is /\ s \in Seq(Spans(Lists))
       /\ \A i \in DOMAIN is : is[i] \in K /\ s[i] = band[is[i]]
  <2> HIDE DEF s
  <2>1. s = Kept(band, K)
    BY <1>1 DEF s
  <2>2. Picked(Spans(Lists), K, band, is, s)
    BY <1>20, <2>1
  <2> QED BY <2>2 DEF Picked
<1> HIDE DEF s, n, crossing
<1>15. \A i \in DOMAIN s : /\ is[i] \in 1 .. n /\ s[i].from = ys[is[i]]
                           /\ s[i].to = ys[is[i] + 1] /\ s[i].xs = Intervals(crossing(is[i]))
  BY <1>9, <1>11, <1>14
<1>16. Queued(s)
  <2>1. Real(s)
    BY <1>7, <1>15 DEF Real
  <2>2. ASSUME NEW i \in DOMAIN s, NEW j \in DOMAIN s, i < j PROVE Before(s[i], s[j])
    <3> DEFINE a == is[i]
               b == is[j]
    <3>1. a \in 1 .. n /\ b \in 1 .. n /\ a < b
      BY <1>14, <1>15, <2>2
    <3>2. s[i].from = ys[a] /\ s[i].to = ys[a + 1] /\ s[j].from = ys[b]
      BY <1>15
    <3> HIDE DEF a, b
    <3>3. ys[a] < ys[b] /\ (a + 1 < b => ys[a + 1] < ys[b])
      BY <1>5, <1>7, <3>1
    <3>4. a + 1 = b \/ a + 1 < b
      BY <3>1
    <3>5. ys[a] \in Int /\ ys[a + 1] \in Int /\ ys[b] \in Int
      BY <1>7, <3>1
    <3>6. ys[a] <= ys[b] /\ ys[a + 1] <= ys[b]
      BY <3>3, <3>4, <3>5
    <3> QED BY <3>2, <3>6 DEF Before
  <2> QED BY <2>1, <2>2 DEF Queued
<1>17. \A k \in 1 .. n : \A y \in Int :
         ys[k] <= y /\ y < ys[k + 1] => crossing(k) = Row(R, y)
  BY <1>4, <1>5, <1>6, RowIs DEF crossing, n
<1>18. ASSUME NEW y \in Int, Row(R, y) # {}
       PROVE  \E k \in 1 .. n : ys[k] <= y /\ y < ys[k + 1]
  <2>1. PICK r \in R : r[2] <= y /\ y < r[4]
    BY <1>18 DEF Row
  <2>2. PICK a \in DOMAIN ys : ys[a] = r[2]
    BY <1>4, <1>5 DEF ToSet
  <2>3. PICK b \in DOMAIN ys : ys[b] = r[4]
    BY <1>4, <1>5 DEF ToSet
  <2> QED BY <1>5, <1>6, <2>1, <2>2, <2>3, Between DEF n
<1>19. ASSUME NEW y \in Int, NEW xs
       PROVE  Has(s, y, xs) <=> Row(R, y) # {} /\ xs = Intervals(Row(R, y))
  <2>1. ASSUME Has(s, y, xs) PROVE Row(R, y) # {} /\ xs = Intervals(Row(R, y))
    <3>1. PICK i \in DOMAIN s : s[i].from <= y /\ y < s[i].to /\ s[i].xs = xs
      BY <2>1 DEF Has
    <3>2. /\ is[i] \in K /\ is[i] \in 1 .. n /\ ys[is[i]] <= y /\ y < ys[is[i] + 1]
          /\ xs = Intervals(crossing(is[i]))
      BY <1>14, <1>15, <3>1
    <3>3. crossing(is[i]) = Row(R, y) /\ crossing(is[i]) # {}
      BY <1>11, <1>17, <3>2
    <3> QED BY <3>2, <3>3
  <2>2. ASSUME Row(R, y) # {}, xs = Intervals(Row(R, y)) PROVE Has(s, y, xs)
    <3>1. PICK k \in 1 .. n : ys[k] <= y /\ y < ys[k + 1]
      BY <1>18, <2>2
    <3>2. crossing(k) = Row(R, y) /\ k \in K
      BY <1>11, <1>17, <2>2, <3>1
    <3>3. PICK i \in DOMAIN is : is[i] = k
      BY <1>14, <3>2 DEF ToSet
    <3>4. i \in DOMAIN s /\ s[i].from = ys[k] /\ s[i].to = ys[k + 1] /\ s[i].xs = xs
      BY <1>14, <1>15, <2>2, <3>2, <3>3
    <3> QED BY <3>1, <3>4, Zenon DEF Has
  <2> QED BY <2>1, <2>2
<1> QED BY <1>14, <1>16, <1>19 DEF s

----------------------------------------------------------------------------
(* The canonical form: it covers what the list covers, no point twice, and lists that *)
(* cover the same have the same. *)

LEMMA BandRects ==
  ASSUME NEW b \in Spans(Lists), Tidy(b.xs)
  PROVE  /\ RectsOf(b) \in Seq(Rect)
         /\ \A x, y \in Int : Hit(RectsOf(b), x, y) <=>
              b.from <= y /\ y < b.to /\ Has(b.xs, x, <<>>)
         /\ Apart(RectsOf(b), Separate)
<1> DEFINE xs == b.xs
           s == RectsOf(b)
           f == b.from
           t == b.to
<1>1. f \in Int /\ t \in Int /\ xs \in Seq(Spans(Empty))
  BY DEF Spans, Lists
<1>2. s = [i \in DOMAIN xs |-> <<xs[i].from, f, xs[i].to, t>>]
  BY DEF RectsOf
<1>3. Tidy(xs)
  OBVIOUS
<1> HIDE DEF xs, s, f, t
<1>4. /\ Len(xs) \in Nat /\ DOMAIN xs = 1 .. Len(xs)
      /\ \A i \in DOMAIN xs : xs[i].from \in Int /\ xs[i].to \in Int /\ xs[i].xs = <<>>
  BY <1>1, FieldsOf DEF Empty
<1>5. DOMAIN s = DOMAIN xs /\ \A i \in DOMAIN xs : s[i] = <<xs[i].from, f, xs[i].to, t>>
  BY <1>2
<1>6. \A i \in DOMAIN xs : /\ s[i] \in Rect /\ s[i][1] = xs[i].from /\ s[i][2] = f
                           /\ s[i][3] = xs[i].to /\ s[i][4] = t
  <2> TAKE i \in DOMAIN xs
  <2> DEFINE l == xs[i].from
             r == xs[i].to
  <2>1. l \in Int /\ r \in Int /\ s[i] = <<l, f, r, t>>
    BY <1>4, <1>5
  <2> HIDE DEF l, r
  <2>2. /\ <<l, f, r, t>> \in Rect /\ <<l, f, r, t>>[1] = l /\ <<l, f, r, t>>[2] = f
        /\ <<l, f, r, t>>[3] = r /\ <<l, f, r, t>>[4] = t
    BY <1>1, <2>1, RectIs
  <2> QED BY <2>1, <2>2 DEF l, r
<1>7. s \in Seq(Rect)
  <2>1. s = [i \in DOMAIN xs |-> s[i]]
    BY <1>2
  <2> DEFINE B == Rect
  <2>2. \A i \in DOMAIN xs : s[i] \in B
    BY <1>6
  <2> HIDE DEF B
  <2>3. s \in [DOMAIN xs -> B]
    BY <2>1, <2>2
  <2>4. s \in Seq(B)
    BY <1>4, <2>3
  <2> QED BY <2>4 DEF B
<1>8. \A i \in DOMAIN xs : \A x, y \in Int : HasPoint(s[i], x, y) <=>
        f <= y /\ y < t /\ xs[i].from <= x /\ x < xs[i].to
  BY <1>6, Zenon DEF HasPoint
<1>9. \A x, y \in Int : Hit(s, x, y) <=> f <= y /\ y < t /\ Has(xs, x, <<>>)
  <2> TAKE x, y \in Int
  <2>1. Hit(s, x, y) <=> \E i \in DOMAIN xs : HasPoint(s[i], x, y)
    BY <1>5, Zenon DEF Hit, ToSet
  <2>2. Has(xs, x, <<>>) <=> \E i \in DOMAIN xs : xs[i].from <= x /\ x < xs[i].to
    BY <1>4, Zenon DEF Has
  <2> QED BY <1>8, <2>1, <2>2, Zenon
<1>10. Apart(s, Separate)
  <2> SUFFICES ASSUME NEW i \in DOMAIN xs, NEW j \in DOMAIN xs, i # j
               PROVE  <<s[i], s[j]>> \in Separate
    BY <1>5 DEF Apart
  <2>1. i < j \/ j < i
    BY <1>4
  <2>2. xs[i].to <= xs[j].from \/ xs[j].to <= xs[i].from
    BY <1>3, <2>1 DEF Tidy
  <2>3. \A x \in Int : ~(xs[i].from <= x /\ x < xs[i].to /\ xs[j].from <= x /\ x < xs[j].to)
    BY <1>4, <2>2
  <2>4. \A x, y \in Int : ~(HasPoint(s[i], x, y) /\ HasPoint(s[j], x, y))
    BY <1>8, <2>3, Zenon
  <2> QED BY <1>6, <2>4, SeparateIs
<1> QED BY <1>7, <1>9, <1>10 DEF s, f, t, xs

Solids(rects) == {r \in ToSet(rects) : HasArea(r)}

LEMMA SolidsAre ==
  ASSUME NEW rects \in Seq(Rect)
  PROVE  /\ Solids(rects) \in SUBSET Solid /\ IsFiniteSet(Solids(rects))
         /\ \A y : Row(Solids(rects), y) \in SUBSET Solid /\ IsFiniteSet(Row(Solids(rects), y))
         /\ \A x, y \in Int : Hit(rects, x, y) <=>
              \E r \in Row(Solids(rects), y) : r[1] <= x /\ x < r[3]
<1> DEFINE R == Solids(rects)
<1>1. \A r \in ToSet(rects) : r \in Rect
  BY Listed
<1>2. R \in SUBSET Solid
  BY <1>1 DEF Solid, Solids
<1>3. IsFiniteSet(ToSet(rects))
  <2>1. /\ Len(rects) \in Nat /\ DOMAIN rects = 1 .. Len(rects)
        /\ rects \in [1 .. Len(rects) -> ToSet(rects)]
    <3>1. Len(rects) \in Nat /\ DOMAIN rects = 1 .. Len(rects) /\ rects = [i \in DOMAIN rects |-> rects[i]]
      OBVIOUS
    <3> QED BY <3>1, InList
  <2>2. IsFiniteSet(1 .. Len(rects))
    BY <2>1, FS_Interval
  <2>3. \A t \in ToSet(rects) : \E i \in 1 .. Len(rects) : rects[i] = t
    BY <2>1 DEF ToSet
  <2> QED BY <2>1, <2>2, <2>3, ImageFinite
<1>4. IsFiniteSet(R)
  BY <1>3, FS_Subset DEF Solids
<1>5. \A x, y \in Int : Hit(rects, x, y) <=> \E r \in Row(R, y) : r[1] <= x /\ x < r[3]
  <2> TAKE x, y \in Int
  <2>1. \A r \in ToSet(rects) : HasPoint(r, x, y) => HasArea(r)
    BY <1>1, RectIs DEF HasPoint, HasArea
  <2>2. Hit(rects, x, y) <=> \E r \in R : HasPoint(r, x, y)
    BY <2>1, Zenon DEF Hit, Solids
  <2>3. \A r : r \in Row(R, y) <=> r \in R /\ r[2] <= y /\ y < r[4]
    BY DEF Row
  <2> QED BY <2>2, <2>3, Zenon DEF HasPoint
<1> HIDE DEF R
<1>6. \A y : Row(R, y) \in SUBSET Solid /\ IsFiniteSet(Row(R, y))
  <2> TAKE y
  <2>1. Row(R, y) \in SUBSET R
    BY DEF Row
  <2> QED BY <1>2, <1>4, <2>1, FS_Subset
<1> QED BY <1>2, <1>4, <1>5, <1>6 DEF R

LEMMA BandsOfIs ==
  ASSUME NEW rects \in Seq(Rect)
  PROVE  /\ BandsOf(rects) \in Seq(Spans(Lists)) /\ Tidy(BandsOf(rects))
         /\ \A y \in Int : \A xs : Has(BandsOf(rects), y, xs) <=>
              Row(Solids(rects), y) # {} /\ xs = Intervals(Row(Solids(rects), y))
<1> DEFINE R == Solids(rects)
<1>1. BandsOf(rects) = Merged(Bands(R))
  BY DEF BandsOf, Solids
<1>2. R \in SUBSET Solid /\ IsFiniteSet(R)
  BY SolidsAre
<1> HIDE DEF R
<1> DEFINE b == Bands(R)
<1>3. /\ b \in Seq(Spans(Lists)) /\ Queued(b)
      /\ \A y \in Int : \A xs : Has(b, y, xs) <=> Row(R, y) # {} /\ xs = Intervals(Row(R, y))
  BY <1>2, BandsAre
<1> HIDE DEF b
<1>4. /\ Merged(b) \in Seq(Spans(Lists)) /\ Tidy(Merged(b))
      /\ \A y \in Int : \A xs : Has(Merged(b), y, xs) <=> Has(b, y, xs)
  BY <1>3, MergedIs
<1>5. BandsOf(rects) = Merged(b)
  BY <1>1 DEF b
<1> QED BY <1>3, <1>4, <1>5 DEF R

\* The bands of a list, its rows and its points.
LEMMA BandIs ==
  ASSUME NEW rects \in Seq(Rect), NEW k \in DOMAIN BandsOf(rects)
  PROVE  /\ BandsOf(rects)[k] \in Spans(Lists)
         /\ Tidy(BandsOf(rects)[k].xs)
<1> DEFINE s == BandsOf(rects)
           R == Solids(rects)
           y == s[k].from
<1>1. /\ s \in Seq(Spans(Lists)) /\ Tidy(s)
      /\ \A z \in Int : \A xs : Has(s, z, xs) <=> Row(R, z) # {} /\ xs = Intervals(Row(R, z))
  BY BandsOfIs
<1>2. \A z : Row(R, z) \in SUBSET Solid /\ IsFiniteSet(Row(R, z))
  BY SolidsAre
<1>3. k \in DOMAIN s
  OBVIOUS
<1> HIDE DEF s, R
<1>4. s[k] \in Spans(Lists) /\ s[k].from \in Int /\ s[k].to \in Int /\ s[k].from < s[k].to
  BY <1>1, <1>3, FieldsOf DEF Tidy, Real
<1>5. y <= y /\ y < s[k].to /\ y \in Int
  BY <1>4
<1>6. Has(s, y, s[k].xs)
  BY <1>3, <1>5, Zenon DEF Has
<1>7. s[k].xs = Intervals(Row(R, y))
  BY <1>1, <1>5, <1>6
<1> DEFINE Q == Row(R, y)
<1>8. Q \in SUBSET Solid /\ IsFiniteSet(Q)
  BY <1>2
<1> HIDE DEF Q
<1>9. Tidy(Intervals(Q))
  BY <1>8, IntervalsIs
<1> QED BY <1>4, <1>7, <1>9 DEF Q, s

LEMMA CanonicalIs ==
  ASSUME NEW rects \in Seq(Rect)
  PROVE  /\ Canonical(rects) \in Seq(Rect)
         /\ \A x, y \in Int : Hit(Canonical(rects), x, y) <=> Hit(rects, x, y)
         /\ Apart(Canonical(rects), Separate)
<1> DEFINE s == BandsOf(rects)
           R == Solids(rects)
           w == [k \in DOMAIN s |-> RectsOf(s[k])]
<1>1. Canonical(rects) = FlattenSeq(w)
  BY DEF Canonical
<1>2. \A k \in DOMAIN s : s[k] \in Spans(Lists) /\ Tidy(s[k].xs)
  BY BandIs
<1>3. /\ s \in Seq(Spans(Lists)) /\ Tidy(s)
      /\ \A y \in Int : \A xs : Has(s, y, xs) <=> Row(R, y) # {} /\ xs = Intervals(Row(R, y))
  BY BandsOfIs
<1>4. /\ \A y : Row(R, y) \in SUBSET Solid /\ IsFiniteSet(Row(R, y))
      /\ \A x, y \in Int : Hit(rects, x, y) <=> \E r \in Row(R, y) : r[1] <= x /\ x < r[3]
  BY SolidsAre
<1> HIDE DEF s, R
<1>5. /\ Len(s) \in Nat /\ DOMAIN s = 1 .. Len(s)
      /\ \A k \in DOMAIN s : s[k].from \in Int /\ s[k].to \in Int
  BY <1>3, FieldsOf
<1>6. DOMAIN w = DOMAIN s /\ \A k \in DOMAIN s : w[k] = RectsOf(s[k])
  OBVIOUS
<1>7. \A k \in DOMAIN s :
        /\ w[k] \in Seq(Rect) /\ Apart(w[k], Separate)
        /\ \A x, y \in Int : Hit(w[k], x, y) <=>
             s[k].from <= y /\ y < s[k].to /\ Has(s[k].xs, x, <<>>)
  <2> TAKE k \in DOMAIN s
  <2> DEFINE b == s[k]
  <2>1. b \in Spans(Lists) /\ Tidy(b.xs) /\ w[k] = RectsOf(b)
    BY <1>2, <1>6
  <2> HIDE DEF b, w
  <2>2. /\ RectsOf(b) \in Seq(Rect)
        /\ \A x, y \in Int : Hit(RectsOf(b), x, y) <=>
             b.from <= y /\ y < b.to /\ Has(b.xs, x, <<>>)
        /\ Apart(RectsOf(b), Separate)
    BY <2>1, BandRects
  <2> QED BY <2>1, <2>2 DEF b
<1>8. w \in Seq(Seq(Rect))
  <2> DEFINE C == Seq(Rect)
  <2>1. w = [k \in DOMAIN s |-> w[k]]
    OBVIOUS
  <2>2. \A k \in DOMAIN s : w[k] \in C
    BY <1>7
  <2> HIDE DEF w, C
  <2>3. w \in [DOMAIN s -> C]
    BY <2>1, <2>2
  <2>4. w \in Seq(C)
    BY <1>5, <2>3
  <2> QED BY <2>4 DEF C
<1> HIDE DEF w
<1>9. /\ FlattenSeq(w) \in Seq(Rect)
      /\ \A q : q \in ToSet(FlattenSeq(w)) <=> \E k \in DOMAIN w : q \in ToSet(w[k])
      /\ \A D : /\ \A i \in DOMAIN w : Apart(w[i], D)
                /\ \A i, j \in DOMAIN w : i # j => All(w[i], w[j], D)
                => Apart(FlattenSeq(w), D)
  BY <1>8, FlattenedIs
<1>10. \A x, y \in Int : Hit(FlattenSeq(w), x, y) <=> Hit(rects, x, y)
  <2> TAKE x, y \in Int
  <2>1. Hit(FlattenSeq(w), x, y) <=> \E k \in DOMAIN s : Hit(w[k], x, y)
    BY <1>6, <1>9, Zenon DEF Hit
  <2>2. Hit(FlattenSeq(w), x, y) <=> \E xs : Has(s, y, xs) /\ Has(xs, x, <<>>)
    BY <1>7, <2>1, Zenon DEF Has
  <2> DEFINE Q == Row(R, y)
  <2>3. Q \in SUBSET Solid /\ IsFiniteSet(Q)
    BY <1>4
  <2>4. \A xs : Has(s, y, xs) <=> Q # {} /\ xs = Intervals(Q)
    BY <1>3
  <2>5. Hit(rects, x, y) <=> \E r \in Q : r[1] <= x /\ x < r[3]
    BY <1>4
  <2> HIDE DEF Q
  <2>6. Has(Intervals(Q), x, <<>>) <=> \E r \in Q : r[1] <= x /\ x < r[3]
    BY <2>3, IntervalsIs
  <2>7. Hit(FlattenSeq(w), x, y) <=> Q # {} /\ Has(Intervals(Q), x, <<>>)
    BY <2>2, <2>4, Zenon
  <2>8. (\E r \in Q : r[1] <= x /\ x < r[3]) => Q # {}
    OBVIOUS
  <2> QED BY <2>5, <2>6, <2>7, <2>8, Zenon
<1>11. Apart(FlattenSeq(w), Separate)
  <2>1. ASSUME NEW i \in DOMAIN w, NEW j \in DOMAIN w, i # j PROVE All(w[i], w[j], Separate)
    <3> SUFFICES ASSUME NEW p \in ToSet(w[i]), NEW q \in ToSet(w[j])
                 PROVE  <<p, q>> \in Separate /\ <<q, p>> \in Separate
      BY DEF All
    <3>1. p \in Rect /\ q \in Rect
      BY <1>6, <1>7, Listed
    <3>2. \A x, y \in Int : /\ HasPoint(p, x, y) => s[i].from <= y /\ y < s[i].to
                            /\ HasPoint(q, x, y) => s[j].from <= y /\ y < s[j].to
      BY <1>6, <1>7, Zenon DEF Hit
    <3>3. s[i].to <= s[j].from \/ s[j].to <= s[i].from
      <4>1. i < j \/ j < i
        BY <1>5, <1>6, <2>1
      <4> QED BY <1>3, <1>6, <4>1 DEF Tidy
    <3>4. \A y \in Int : ~(s[i].from <= y /\ y < s[i].to /\ s[j].from <= y /\ y < s[j].to)
      BY <1>5, <1>6, <3>3
    <3>5. \A x, y \in Int : ~(HasPoint(p, x, y) /\ HasPoint(q, x, y))
      BY <3>2, <3>4, Zenon
    <3>6. \A x, y \in Int : ~(HasPoint(q, x, y) /\ HasPoint(p, x, y))
      BY <3>5, Zenon
    <3> QED BY <3>1, <3>5, <3>6, SeparateIs, Zenon
  <2> QED BY <1>6, <1>7, <1>9, <2>1, Zenon
<1> QED BY <1>1, <1>9, <1>10, <1>11

LEMMA CanonicalSame ==
  ASSUME NEW p \in Seq(Rect), NEW q \in Seq(Rect),
         \A x, y \in Int : Hit(p, x, y) <=> Hit(q, x, y)
  PROVE  Canonical(p) = Canonical(q)
<1> DEFINE a == BandsOf(p)
           b == BandsOf(q)
           P == Solids(p)
           Q == Solids(q)
<1>1. /\ a \in Seq(Spans(Lists)) /\ Tidy(a) /\ b \in Seq(Spans(Lists)) /\ Tidy(b)
      /\ \A y \in Int : \A xs : Has(a, y, xs) <=> Row(P, y) # {} /\ xs = Intervals(Row(P, y))
      /\ \A y \in Int : \A xs : Has(b, y, xs) <=> Row(Q, y) # {} /\ xs = Intervals(Row(Q, y))
  BY BandsOfIs
<1>2. /\ \A y : Row(P, y) \in SUBSET Solid /\ IsFiniteSet(Row(P, y))
      /\ \A y : Row(Q, y) \in SUBSET Solid /\ IsFiniteSet(Row(Q, y))
      /\ \A x, y \in Int : Hit(p, x, y) <=> \E r \in Row(P, y) : r[1] <= x /\ x < r[3]
      /\ \A x, y \in Int : Hit(q, x, y) <=> \E r \in Row(Q, y) : r[1] <= x /\ x < r[3]
  BY SolidsAre
<1>3. \A x, y \in Int : Hit(p, x, y) <=> Hit(q, x, y)
  OBVIOUS
<1> HIDE DEF a, b, P, Q
<1>4. ASSUME NEW y \in Int
      PROVE  (Row(P, y) = {} <=> Row(Q, y) = {}) /\ Intervals(Row(P, y)) = Intervals(Row(Q, y))
  <2> DEFINE A == Row(P, y)
             B == Row(Q, y)
  <2>1. A \in SUBSET Solid /\ IsFiniteSet(A) /\ B \in SUBSET Solid /\ IsFiniteSet(B)
    BY <1>2
  <2>2. \A x \in Int : (\E r \in A : r[1] <= x /\ x < r[3]) <=> (\E r \in B : r[1] <= x /\ x < r[3])
    BY <1>2, <1>3, Zenon
  <2> HIDE DEF A, B
  <2>3. A = {} <=> B = {}
    <3>1. \A r \in A \cup B : r[1] \in Int /\ r[1] <= r[1] /\ r[1] < r[3]
      <4>1. \A r \in A \cup B : r[1] \in Int /\ r[1] < r[3]
        BY <2>1, SolidIs
      <4> QED BY <4>1
    <3>2. ASSUME NEW r \in A PROVE B # {}
      BY <2>2, <3>1, <3>2
    <3>3. ASSUME NEW r \in B PROVE A # {}
      BY <2>2, <3>1, <3>3
    <3> QED BY <3>2, <3>3
  <2>4. /\ Intervals(A) \in Seq(Spans(Empty)) /\ Tidy(Intervals(A))
        /\ Intervals(B) \in Seq(Spans(Empty)) /\ Tidy(Intervals(B))
        /\ \A x \in Int : \A l : Has(Intervals(A), x, l) <=>
             l = <<>> /\ \E r \in A : r[1] <= x /\ x < r[3]
        /\ \A x \in Int : \A l : Has(Intervals(B), x, l) <=>
             l = <<>> /\ \E r \in B : r[1] <= x /\ x < r[3]
    BY <2>1, IntervalsIs
  <2>5. Agree(Intervals(A), Intervals(B))
    BY <2>2, <2>4, Zenon DEF Agree
  <2>6. Intervals(A) = Intervals(B)
    BY <2>4, <2>5, SameLists
  <2> QED BY <2>3, <2>6 DEF A, B
<1>5. Agree(a, b)
  BY <1>1, <1>4, Zenon DEF Agree
<1>6. a = b
  BY <1>1, <1>5, SameLists
<1> QED BY <1>6 DEF Canonical, a, b

----------------------------------------------------------------------------
(* The calls: a region covers exactly its points, no point twice, and none beyond the *)
(* plane. *)

Exactly(r, P) ==
  /\ r \in Seq(Rect) /\ Apart(r, Separate) /\ P \in SUBSET Plane
  /\ \A x, y \in Int : Hit(r, x, y) <=> <<x, y>> \in P

RegionsInv ==
  /\ DOMAIN region = RegionHandles /\ DOMAIN pts = RegionHandles
  /\ \A h \in RegionHandles : Exactly(region[h], pts[h])
  /\ FrameIsAroundHole

LEMMA PlaneIs ==
  \A p \in Plane : p[1] \in Int /\ p[2] \in Int /\ p = <<p[1], p[2]>>
<1>1. {WindowWidth, WindowHeight, Margin} \subseteq Nat
  BY RegionsAssumption
<1> QED BY <1>1 DEF Plane

LEMMA SamePoints ==
  ASSUME NEW P \in SUBSET Plane, NEW Q \in SUBSET Plane,
         \A x, y \in Int : <<x, y>> \in P <=> <<x, y>> \in Q
  PROVE  P = Q
<1>1. \A p \in P : p \in Q
  <2> TAKE p \in P
  <2>1. p[1] \in Int /\ p[2] \in Int /\ p = <<p[1], p[2]>>
    BY PlaneIs
  <2> QED BY <2>1
<1>2. \A p \in Q : p \in P
  <2> TAKE p \in Q
  <2>1. p[1] \in Int /\ p[2] \in Int /\ p = <<p[1], p[2]>>
    BY PlaneIs
  <2> QED BY <2>1
<1> QED BY <1>1, <1>2

LEMMA PointsAre ==
  ASSUME NEW r \in Seq(Rect)
  PROVE  /\ PointsOf(r) \in SUBSET Plane
         /\ \A x, y \in Int : <<x, y>> \in PointsOf(r) <=> <<x, y>> \in Plane /\ Hit(r, x, y)
<1>1. \A x, y : <<x, y>>[1] = x /\ <<x, y>>[2] = y
  OBVIOUS
<1>2. \A x, y : <<x, y>> \in PointsOf(r) <=> <<x, y>> \in Plane /\ Hit(r, x, y)
  BY <1>1, Zenon DEF PointsOf, Hit
<1>3. PointsOf(r) \in SUBSET Plane
  BY DEF PointsOf
<1> QED BY <1>2, <1>3

LEMMA ExactlyPoints ==
  ASSUME NEW r, NEW P, Exactly(r, P)
  PROVE  PointsOf(r) = P
<1>1. r \in Seq(Rect) /\ P \in SUBSET Plane /\ \A x, y \in Int : Hit(r, x, y) <=> <<x, y>> \in P
  BY DEF Exactly
<1>2. PointsOf(r) \in SUBSET Plane
  BY <1>1, PointsAre
<1>3. \A x, y \in Int : <<x, y>> \in PointsOf(r) <=> <<x, y>> \in P
  BY <1>1, PointsAre, Zenon
<1> QED BY <1>1, <1>2, <1>3, SamePoints

LEMMA OneRect ==
  ASSUME NEW a \in Rect
  PROVE  /\ <<a>> \in Seq(Rect) /\ Apart(<<a>>, Separate)
         /\ \A x, y : Hit(<<a>>, x, y) <=> HasPoint(a, x, y)
<1>1. <<a>> \in Seq(Rect) /\ DOMAIN <<a>> = {1} /\ <<a>>[1] = a
  OBVIOUS
<1>2. ToSet(<<a>>) = {a}
  BY <1>1 DEF ToSet
<1> QED BY <1>1, <1>2 DEF Hit, Apart

LEMMA ExactRect ==
  ASSUME NEW a \in Rect, \A x, y \in Int : HasPoint(a, x, y) => <<x, y>> \in Plane
  PROVE  Exactly(<<a>>, PointsOf(<<a>>))
<1>1. <<a>> \in Seq(Rect) /\ Apart(<<a>>, Separate)
  BY OneRect
<1>2. PointsOf(<<a>>) \in SUBSET Plane
  BY <1>1, PointsAre
<1>3. \A x, y \in Int : <<x, y>> \in PointsOf(<<a>>) <=> <<x, y>> \in Plane /\ Hit(<<a>>, x, y)
  BY <1>1, PointsAre
<1>4. \A x, y \in Int : Hit(<<a>>, x, y) <=> HasPoint(a, x, y)
  BY OneRect, Zenon
<1> HIDE DEF PointsOf
<1> QED BY <1>1, <1>2, <1>3, <1>4, Zenon DEF Exactly

LEMMA DrawnInPlane ==
  ASSUME NEW a \in DrawnRects
  PROVE  a \in Rect /\ \A x, y \in Int : HasPoint(a, x, y) => <<x, y>> \in Plane
<1>1. WindowWidth \in Nat /\ WindowHeight \in Nat /\ Margin \in Nat
  BY RegionsAssumption
<1>2. a \in RectOf(-Margin .. WindowWidth + Margin, -Margin .. WindowHeight + Margin)
  BY RegionsAssumption
<1>3. /\ a \in Rect
      /\ a[1] \in -Margin .. WindowWidth + Margin /\ a[3] \in -Margin .. WindowWidth + Margin
      /\ a[2] \in -Margin .. WindowHeight + Margin /\ a[4] \in -Margin .. WindowHeight + Margin
  BY <1>1, <1>2 DEF Rect, RectOf
<1>4. ASSUME NEW x \in Int, NEW y \in Int, HasPoint(a, x, y) PROVE <<x, y>> \in Plane
  <2>1. x \in -Margin .. WindowWidth + Margin - 1 /\ y \in -Margin .. WindowHeight + Margin - 1
    BY <1>1, <1>3, <1>4 DEF HasPoint
  <2> QED BY <2>1 DEF Plane
<1> QED BY <1>3, <1>4

LEMMA WindowInPlane ==
  WindowRect \in Rect /\ \A x, y \in Int : HasPoint(WindowRect, x, y) => <<x, y>> \in Plane
<1>1. WindowWidth \in Nat /\ WindowHeight \in Nat /\ Margin \in Nat
  BY RegionsAssumption
<1>2. /\ WindowRect \in Rect /\ WindowRect[1] = 0 /\ WindowRect[2] = 0
      /\ WindowRect[3] = WindowWidth /\ WindowRect[4] = WindowHeight
  BY <1>1, RectIs DEF WindowRect
<1>4. ASSUME NEW x \in Int, NEW y \in Int, HasPoint(WindowRect, x, y) PROVE <<x, y>> \in Plane
  <2>1. x \in -Margin .. WindowWidth + Margin - 1 /\ y \in -Margin .. WindowHeight + Margin - 1
    BY <1>1, <1>2, <1>4 DEF HasPoint
  <2> QED BY <2>1 DEF Plane
<1> QED BY <1>2, <1>4

\* The rectangles two lists have in common, one by one.
LEMMA CommonsAre ==
  ASSUME NEW r \in Seq(Rect), NEW s \in Seq(Rect)
  PROVE  LET all == FlattenSeq([i \in DOMAIN r |->
                      FlattenSeq([j \in DOMAIN s |-> IntersectRect(r[i], s[j])])])
         IN all \in Seq(Rect) /\ \A x, y \in Int : Hit(all, x, y) <=> Hit(r, x, y) /\ Hit(s, x, y)
<1> DEFINE C == Seq(Rect)
           row(i) == [j \in DOMAIN s |-> IntersectRect(r[i], s[j])]
           w == [i \in DOMAIN r |-> FlattenSeq(row(i))]
<1>1. /\ Len(r) \in Nat /\ DOMAIN r = 1 .. Len(r) /\ \A i \in DOMAIN r : r[i] \in Rect
      /\ Len(s) \in Nat /\ DOMAIN s = 1 .. Len(s) /\ \A j \in DOMAIN s : s[j] \in Rect
  OBVIOUS
<1>2. ASSUME NEW i \in DOMAIN r
      PROVE  /\ FlattenSeq(row(i)) \in C
             /\ \A x, y \in Int : Hit(FlattenSeq(row(i)), x, y) <=>
                  HasPoint(r[i], x, y) /\ \E j \in DOMAIN s : HasPoint(s[j], x, y)
  <2> DEFINE v == row(i)
  <2>1. v = [j \in DOMAIN s |-> v[j]] /\ \A j \in DOMAIN s : v[j] = IntersectRect(r[i], s[j])
    OBVIOUS
  <2> HIDE DEF v
  <2>2. \A j \in DOMAIN s :
          /\ v[j] \in C
          /\ \A x, y \in Int : Hit(v[j], x, y) <=> HasPoint(r[i], x, y) /\ HasPoint(s[j], x, y)
    BY <1>1, <2>1, IntersectIs
  <2>3. v \in Seq(C) /\ DOMAIN v = DOMAIN s
    <3> HIDE DEF C
    <3>1. v \in [DOMAIN s -> C]
      BY <2>1, <2>2
    <3> QED BY <1>1, <3>1
  <2>4. /\ FlattenSeq(v) \in C
        /\ \A q : q \in ToSet(FlattenSeq(v)) <=> \E j \in DOMAIN v : q \in ToSet(v[j])
    BY <2>3, FlattenedIs
  <2>5. \A x, y \in Int : Hit(FlattenSeq(v), x, y) <=> \E j \in DOMAIN s : Hit(v[j], x, y)
    BY <2>3, <2>4, Zenon DEF Hit
  <2>6. \A x, y \in Int : Hit(FlattenSeq(v), x, y) <=>
          HasPoint(r[i], x, y) /\ \E j \in DOMAIN s : HasPoint(s[j], x, y)
    BY <2>2, <2>5, Zenon
  <2> QED BY <2>4, <2>6 DEF v
<1>3. w = [i \in DOMAIN r |-> w[i]] /\ \A i \in DOMAIN r : w[i] = FlattenSeq(row(i))
  OBVIOUS
<1> HIDE DEF w, row
<1>4. w \in Seq(C) /\ DOMAIN w = DOMAIN r
  <2> HIDE DEF C
  <2>1. w \in [DOMAIN r -> C]
    BY <1>2, <1>3
  <2> QED BY <1>1, <2>1
<1>5. /\ FlattenSeq(w) \in C
      /\ \A q : q \in ToSet(FlattenSeq(w)) <=> \E i \in DOMAIN w : q \in ToSet(w[i])
  BY <1>4, FlattenedIs
<1>6. \A x, y \in Int : Hit(FlattenSeq(w), x, y) <=> \E i \in DOMAIN r : Hit(w[i], x, y)
  BY <1>4, <1>5, Zenon DEF Hit
<1>7. \A x, y \in Int : /\ Hit(r, x, y) <=> \E i \in DOMAIN r : HasPoint(r[i], x, y)
                        /\ Hit(s, x, y) <=> \E j \in DOMAIN s : HasPoint(s[j], x, y)
  BY Zenon DEF Hit, ToSet
<1>8. \A x, y \in Int : Hit(FlattenSeq(w), x, y) <=> Hit(r, x, y) /\ Hit(s, x, y)
  <2> TAKE x, y \in Int
  <2>1. \A i \in DOMAIN r : Hit(w[i], x, y) <=>
          HasPoint(r[i], x, y) /\ \E j \in DOMAIN s : HasPoint(s[j], x, y)
    BY <1>2, <1>3
  <2>2. Hit(FlattenSeq(w), x, y) <=> \E i \in DOMAIN r : Hit(w[i], x, y)
    BY <1>6
  <2>3. /\ Hit(r, x, y) <=> \E i \in DOMAIN r : HasPoint(r[i], x, y)
        /\ Hit(s, x, y) <=> \E j \in DOMAIN s : HasPoint(s[j], x, y)
    BY <1>7
  <2> QED BY <2>1, <2>2, <2>3, Zenon
<1> QED BY <1>5, <1>8 DEF w, row

\* A canonical form of a list with the points.
LEMMA ExactCanonical ==
  ASSUME NEW r \in Seq(Rect), NEW P \in SUBSET Plane,
         \A x, y \in Int : Hit(r, x, y) <=> <<x, y>> \in P
  PROVE  Exactly(Canonical(r), P)
<1>1. Canonical(r) \in Seq(Rect) /\ Apart(Canonical(r), Separate)
  BY CanonicalIs
<1>2. \A x, y \in Int : Hit(Canonical(r), x, y) <=> <<x, y>> \in P
  BY CanonicalIs, Zenon
<1> QED BY <1>1, <1>2, Zenon DEF Exactly

LEMMA CombinedIs ==
  ASSUME NEW r, NEW s, NEW P, NEW Q, Exactly(r, P), Exactly(s, Q), NEW mode \in Modes
  PROVE  Exactly(Combined(r, s, mode), CombinedPoints(P, Q, mode))
<1>1. /\ r \in Seq(Rect) /\ P \in SUBSET Plane /\ s \in Seq(Rect) /\ Q \in SUBSET Plane
      /\ \A x, y \in Int : Hit(r, x, y) <=> <<x, y>> \in P
      /\ \A x, y \in Int : Hit(s, x, y) <=> <<x, y>> \in Q
  BY DEF Exactly
<1>2. CASE mode = "and"
  <2> DEFINE l == FlattenSeq([i \in DOMAIN r |->
                    FlattenSeq([j \in DOMAIN s |-> IntersectRect(r[i], s[j])])])
  <2>1. l \in Seq(Rect) /\ \A x, y \in Int : Hit(l, x, y) <=> Hit(r, x, y) /\ Hit(s, x, y)
    BY <1>1, CommonsAre
  <2>2. Combined(r, s, mode) = Canonical(l) /\ CombinedPoints(P, Q, mode) = P \cap Q
    BY <1>2 DEF Combined, CombinedPoints
  <2> HIDE DEF l
  <2>3. P \cap Q \in SUBSET Plane /\ \A x, y \in Int : Hit(l, x, y) <=> <<x, y>> \in P \cap Q
    BY <1>1, <2>1
  <2> QED BY <2>1, <2>2, <2>3, ExactCanonical
<1>3. CASE mode = "or"
  <2>1. Combined(r, s, mode) = Canonical(r \o s) /\ CombinedPoints(P, Q, mode) = P \cup Q
    BY <1>3 DEF Combined, CombinedPoints
  <2> DEFINE l == r \o s
  <2>2. l \in Seq(Rect) /\ \A x, y \in Int : Hit(l, x, y) <=> Hit(r, x, y) \/ Hit(s, x, y)
    BY <1>1, HitBoth
  <2> HIDE DEF l
  <2>3. P \cup Q \in SUBSET Plane /\ \A x, y \in Int : Hit(l, x, y) <=> <<x, y>> \in P \cup Q
    BY <1>1, <2>2
  <2> QED BY <2>1, <2>2, <2>3, ExactCanonical DEF l
<1> DEFINE d == SubtractRegion(r, s)
           e == SubtractRegion(s, r)
<1>4. /\ d \in Seq(Rect) /\ \A x, y \in Int : Hit(d, x, y) <=> Hit(r, x, y) /\ ~Hit(s, x, y)
      /\ e \in Seq(Rect) /\ \A x, y \in Int : Hit(e, x, y) <=> Hit(s, x, y) /\ ~Hit(r, x, y)
  BY <1>1, SubtractRegionIs
<1>5. CASE mode = "xor"
  <2>1. /\ Combined(r, s, mode) = Canonical(d \o e)
        /\ CombinedPoints(P, Q, mode) = (P \ Q) \cup (Q \ P)
    BY <1>5 DEF Combined, CombinedPoints
  <2> HIDE DEF d, e
  <2> DEFINE l == d \o e
             S == (P \ Q) \cup (Q \ P)
  <2>2. l \in Seq(Rect) /\ \A x, y \in Int : Hit(l, x, y) <=> Hit(d, x, y) \/ Hit(e, x, y)
    BY <1>4, HitBoth
  <2>3. \A p : p \in S <=> (p \in P /\ p \notin Q) \/ (p \in Q /\ p \notin P)
    OBVIOUS
  <2>4. S \in SUBSET Plane
    BY <1>1
  <2> HIDE DEF l, S
  <2>5. \A x, y \in Int : Hit(l, x, y) <=> <<x, y>> \in S
    BY <1>1, <1>4, <2>2, <2>3, Zenon
  <2>6. Exactly(Canonical(l), S)
    BY <2>2, <2>4, <2>5, ExactCanonical
  <2> QED BY <2>1, <2>6 DEF l, S
<1>6. CASE mode = "diff"
  <2>1. Combined(r, s, mode) = Canonical(d) /\ CombinedPoints(P, Q, mode) = P \ Q
    BY <1>6 DEF Combined, CombinedPoints
  <2> HIDE DEF d, e
  <2>2. P \ Q \in SUBSET Plane /\ \A x, y \in Int : Hit(d, x, y) <=> <<x, y>> \in P \ Q
    BY <1>1, <1>4
  <2> QED BY <1>4, <2>1, <2>2, ExactCanonical
<1>7. CASE mode = "copy"
  BY <1>7 DEF Combined, CombinedPoints
<1> QED BY <1>2, <1>3, <1>5, <1>6, <1>7 DEF Modes

Sibling == [kind : {"child", "sibling"}, above : BOOLEAN, visible : BOOLEAN, rect : Rect]

LEMMA ClipIs ==
  ASSUME NEW wins \in Coverings
  PROVE  Exactly(ClipOf(WindowRect, wins),
                 PointsOf(<<WindowRect>>)
                   \ UNION {PointsOf(<<wins[i].rect>>) : i \in {j \in DOMAIN wins : Covering(wins[j])}})
<1> DEFINE K == {i \in DOMAIN wins : Covering(wins[i])}
           c == Kept(wins, K)
           subs == [i \in DOMAIN c |-> c[i].rect]
           hidden == UNION {PointsOf(<<wins[i].rect>>) : i \in K}
           P == PointsOf(<<WindowRect>>) \ hidden
           base == <<WindowRect>>
           clip == SubtractRegion(base, subs)
<1>1. wins \in Seq(Sibling)
  BY RegionsAssumption DEF Sibling
<1>2. ClipOf(WindowRect, wins) = clip
  BY DEF ClipOf, ClientClip
<1>3. K \in SUBSET DOMAIN wins /\ \A i \in DOMAIN wins : i \in K <=> Covering(wins[i])
  OBVIOUS
<1>4. \A i \in DOMAIN wins : wins[i] \in Sibling /\ wins[i].rect \in Rect
  <2> DEFINE B == Sibling
  <2>1. wins \in Seq(B)
    BY <1>1
  <2> HIDE DEF B
  <2>2. \A i \in DOMAIN wins : wins[i] \in B
    BY <2>1
  <2> QED BY <2>2 DEF B, Sibling
<1>5. /\ \A i \in K : \A p : p \in PointsOf(<<wins[i].rect>>) => p \in hidden
      /\ \A p \in hidden : \E i \in K : p \in PointsOf(<<wins[i].rect>>)
  OBVIOUS
<1> HIDE DEF K, hidden
<1>6. PICK is : Picked(Sibling, K, wins, is, c)
  BY <1>1, <1>3, KeptIs
<1> HIDE DEF c
<1>7. /\ ToSet(is) = K /\ DOMAIN c = DOMAIN is /\ c \in Seq(Sibling)
      /\ \A i \in DOMAIN is : is[i] \in K /\ c[i] = wins[is[i]]
  BY <1>6 DEF Picked
<1>8. Len(c) \in Nat /\ DOMAIN c = 1 .. Len(c)
  BY <1>7
<1>9. subs = [i \in DOMAIN c |-> subs[i]] /\ \A i \in DOMAIN c : subs[i] = c[i].rect
  OBVIOUS
<1> HIDE DEF subs
<1>10. \A i \in DOMAIN c : subs[i] \in Rect /\ is[i] \in K /\ subs[i] = wins[is[i]].rect
  BY <1>3, <1>4, <1>7, <1>9
<1>11. subs \in Seq(Rect) /\ DOMAIN subs = DOMAIN c
  <2> DEFINE B == Rect
  <2>1. \A i \in DOMAIN c : subs[i] \in B
    BY <1>10
  <2> HIDE DEF B
  <2>2. subs \in [DOMAIN c -> B]
    BY <1>9, <2>1
  <2>3. subs \in Seq(B)
    BY <1>8, <2>2
  <2> QED BY <2>2, <2>3 DEF B
<1>12. \A x, y \in Int : Hit(subs, x, y) <=> \E i \in K : HasPoint(wins[i].rect, x, y)
  <2> TAKE x, y \in Int
  <2>1. Hit(subs, x, y) <=> \E i \in DOMAIN c : HasPoint(wins[is[i]].rect, x, y)
    BY <1>10, <1>11, Zenon DEF Hit, ToSet
  <2>2. \A k \in K : \E i \in DOMAIN c : is[i] = k
    BY <1>7 DEF ToSet
  <2> QED BY <1>10, <2>1, <2>2, Zenon
<1>13. base \in Seq(Rect) /\ Apart(base, Separate)
       /\ \A x, y : Hit(base, x, y) <=> HasPoint(WindowRect, x, y)
  BY WindowInPlane, OneRect
<1>14. /\ clip \in Seq(Rect) /\ Apart(clip, Separate)
       /\ \A x, y \in Int : Hit(clip, x, y) <=> Hit(base, x, y) /\ ~Hit(subs, x, y)
  BY <1>11, <1>13, SubtractRegionIs
<1>15. P \in SUBSET Plane
  BY <1>13, PointsAre
<1>16. \A x, y \in Int : Hit(clip, x, y) <=> <<x, y>> \in P
  <2> TAKE x, y \in Int
  <2>1. <<x, y>> \in PointsOf(base) <=> <<x, y>> \in Plane /\ HasPoint(WindowRect, x, y)
    BY <1>13, PointsAre, Zenon
  <2>2. HasPoint(WindowRect, x, y) => <<x, y>> \in Plane
    BY WindowInPlane
  <2>3. \A i \in K : <<x, y>> \in PointsOf(<<wins[i].rect>>) <=>
          <<x, y>> \in Plane /\ HasPoint(wins[i].rect, x, y)
    <3> TAKE i \in K
    <3> DEFINE a == wins[i].rect
    <3>1. a \in Rect
      BY <1>3, <1>4
    <3> HIDE DEF a
    <3>2. <<a>> \in Seq(Rect) /\ (Hit(<<a>>, x, y) <=> HasPoint(a, x, y))
      BY <3>1, OneRect
    <3>3. <<x, y>> \in PointsOf(<<a>>) <=> <<x, y>> \in Plane /\ Hit(<<a>>, x, y)
      BY <3>2, PointsAre
    <3> QED BY <3>2, <3>3 DEF a
  <2>4. <<x, y>> \in hidden <=> \E i \in K : <<x, y>> \in PointsOf(<<wins[i].rect>>)
    BY <1>5
  <2>5. <<x, y>> \in P <=> <<x, y>> \in PointsOf(base) /\ <<x, y>> \notin hidden
    OBVIOUS
  <2> HIDE DEF P, base, clip
  <2> QED BY <1>12, <1>13, <1>14, <2>1, <2>2, <2>3, <2>4, <2>5, Zenon
<1>17. Exactly(clip, P)
  <2> HIDE DEF clip, P
  <2> QED BY <1>14, <1>15, <1>16 DEF Exactly
<1> QED BY <1>2, <1>17 DEF P, hidden, K

\* An inferred frame lies around a hole of the points it was inferred from.
Around(fr, P) ==
  \A x \in fr.left .. WindowWidth - fr.right - 1,
     y \in fr.top .. WindowHeight - fr.bottom - 1 : <<x, y>> \notin P

LEMMA FrameIs ==
  ASSUME NEW r, NEW P, Exactly(r, P), NEW fr \in InferFrame(r)
  PROVE  Around(fr, P)
<1> DEFINE V == (0 .. WindowWidth) \X (0 .. WindowWidth)
<1>1. WindowWidth \in Nat /\ WindowHeight \in Nat
  BY RegionsAssumption
<1>2. PointsOf(r) = P
  BY ExactlyPoints
<1>3. PICK hole \in Largest(Holes(P)) :
        fr = [left |-> hole[1][1], top |-> hole[2], right |-> WindowWidth - hole[1][2],
              bottom |-> WindowHeight - hole[3], exact |-> TRUE]
  BY <1>2 DEF InferFrame
<1>4. hole \in Holes(P)
  BY DEF Largest
<1>5. /\ hole \in V \X (0 .. WindowHeight) \X (0 .. WindowHeight)
      /\ IsHole(P, hole[2], hole[3], hole[1])
  BY <1>4 DEF Holes
<1> DEFINE v == hole[1]
           top == hole[2]
           bottom == hole[3]
<1>6. v \in V /\ top \in 0 .. WindowHeight /\ bottom \in 0 .. WindowHeight
  <2> HIDE DEF V
  <2> QED BY <1>5
<1>7. v[1] \in 0 .. WindowWidth /\ v[2] \in 0 .. WindowWidth
  <2> HIDE DEF v
  <2> QED BY <1>6
<1>8. /\ fr.left = v[1] /\ fr.top = top
      /\ fr.right = WindowWidth - v[2] /\ fr.bottom = WindowHeight - bottom
  BY <1>3
<1>9. IsHole(P, top, bottom, v)
  BY <1>5
<1> HIDE DEF v, top, bottom
<1>10. /\ WindowWidth - fr.right - 1 = v[2] - 1
       /\ WindowHeight - fr.bottom - 1 = bottom - 1
  BY <1>1, <1>6, <1>7, <1>8
<1>11. ASSUME NEW x \in v[1] .. v[2] - 1, NEW y \in top .. bottom - 1 PROVE <<x, y>> \notin P
  <2> DEFINE row == {z \in 0 .. WindowWidth - 1 : <<z, y>> \in P}
  <2>1. v \in Gap(P, y)
    BY <1>9 DEF IsHole
  <2>2. v \in LongestEmpty(row)
    BY <2>1 DEF Gap
  <2>3. \A z \in v[1] .. v[2] - 1 : z \notin row
    <3> HIDE DEF row
    <3>1. v \in EmptyRuns(row)
      BY <2>2 DEF LongestEmpty
    <3> QED BY <3>1 DEF EmptyRuns
  <2>4. x \in 0 .. WindowWidth - 1
    BY <1>1, <1>7
  <2>5. x \notin row
    BY <2>3
  <2> QED BY <2>4, <2>5
<1> QED BY <1>8, <1>10, <1>11 DEF Around

LEMMA AroundHole == FrameIsAroundHole <=> (frame.exact => Around(frame, border))
BY DEF FrameIsAroundHole, Around

LEMMA RegionsStart == RegionsInit => RegionsInv
<1> SUFFICES ASSUME RegionsInit PROVE RegionsInv
  OBVIOUS
<1>1. PICK f \in [RegionHandles -> DrawnRects] :
        /\ region = [h \in RegionHandles |-> CreateRectRgn(f[h])]
        /\ pts = [h \in RegionHandles |-> PointsOf(<<f[h]>>)]
  BY DEF RegionsInit
<1>2. \A h \in RegionHandles : Exactly(region[h], pts[h])
  <2> TAKE h \in RegionHandles
  <2> DEFINE a == f[h]
  <2>1. a \in Rect /\ \A x, y \in Int : HasPoint(a, x, y) => <<x, y>> \in Plane
    BY DrawnInPlane
  <2>2. region[h] = <<a>> /\ pts[h] = PointsOf(<<a>>)
    BY <1>1 DEF CreateRectRgn
  <2> HIDE DEF a
  <2>3. Exactly(<<a>>, PointsOf(<<a>>))
    BY <2>1, ExactRect
  <2> QED BY <2>2, <2>3
<1>3. FrameIsAroundHole
  <2>1. frame.exact = FALSE
    BY DEF RegionsInit, NoFrame
  <2> QED BY <2>1 DEF FrameIsAroundHole
<1>4. DOMAIN region = RegionHandles /\ DOMAIN pts = RegionHandles
  BY <1>1
<1> QED BY <1>2, <1>3, <1>4 DEF RegionsInv

\* One region changes.
LEMMA OneRegion ==
  ASSUME RegionsInv, NEW h \in RegionHandles, NEW r, NEW P, Exactly(r, P),
         region' = [region EXCEPT ![h] = r], pts' = [pts EXCEPT ![h] = P],
         UNCHANGED <<frame, border>>
  PROVE  RegionsInv'
<1>1. /\ DOMAIN region = RegionHandles /\ DOMAIN pts = RegionHandles
      /\ \A g \in RegionHandles : Exactly(region[g], pts[g])
      /\ FrameIsAroundHole
  BY DEF RegionsInv
<1>2. /\ DOMAIN region' = RegionHandles /\ DOMAIN pts' = RegionHandles
      /\ \A g \in RegionHandles : IF g = h THEN region'[g] = r /\ pts'[g] = P
                                     ELSE region'[g] = region[g] /\ pts'[g] = pts[g]
  BY <1>1
<1>3. \A g \in RegionHandles : Exactly(region'[g], pts'[g])
  <2> TAKE g \in RegionHandles
  <2>1. CASE g = h
    BY <1>2, <2>1
  <2>2. CASE g # h
    BY <1>1, <1>2, <2>2
  <2> QED BY <2>1, <2>2
<1>4. FrameIsAroundHole'
  BY <1>1 DEF FrameIsAroundHole
<1> QED BY <1>2, <1>3, <1>4 DEF RegionsInv, Exactly

LEMMA FrameKeeps ==
  ASSUME RegionsInv, UNCHANGED <<region, pts>>, FrameIsAroundHole'
  PROVE  RegionsInv'
BY DEF RegionsInv, Exactly

LEMMA RegionsKept == RegionsInv /\ [RegionsNext]_regionVars => RegionsInv'
<1> SUFFICES ASSUME RegionsInv, [RegionsNext]_regionVars PROVE RegionsInv'
  OBVIOUS
<1>1. (\A h \in RegionHandles : Exactly(region[h], pts[h])) /\ FrameIsAroundHole
  BY DEF RegionsInv
<1>2. ASSUME NEW dst \in RegionHandles, NEW a \in RegionHandles, NEW b \in RegionHandles, NEW mode \in Modes,
             CombineRgn(dst, a, b, mode)
      PROVE  RegionsInv'
  <2> DEFINE r == Combined(region[a], region[b], mode)
             P == CombinedPoints(pts[a], pts[b], mode)
  <2>1. Exactly(r, P)
    BY <1>1, CombinedIs
  <2>2. /\ region' = [region EXCEPT ![dst] = r] /\ pts' = [pts EXCEPT ![dst] = P]
        /\ UNCHANGED <<frame, border>>
    BY <1>2 DEF CombineRgn
  <2> HIDE DEF r, P
  <2> QED BY <2>1, <2>2, OneRegion
<1>3. ASSUME NEW h \in RegionHandles, SelectWindowClip(h) PROVE RegionsInv'
  <2>1. UNCHANGED <<region, pts>>
    BY <1>3 DEF SelectWindowClip
  <2> DEFINE guess == IF WindowWidth <= 2 \/ WindowHeight <= 2 THEN {} ELSE InferFrame(region[h])
  <2>2. IF guess = {} THEN UNCHANGED <<frame, border>> ELSE frame' \in guess /\ border' = pts[h]
    BY <1>3 DEF SelectWindowClip
  <2>3. CASE guess = {}
    <3> HIDE DEF guess
    <3>1. frame' = frame /\ border' = border
      BY <2>2, <2>3
    <3>2. FrameIsAroundHole'
      BY <1>1, <3>1 DEF FrameIsAroundHole
    <3> QED BY <2>1, <3>2, FrameKeeps
  <2>4. CASE guess # {}
    <3>1. frame' \in InferFrame(region[h]) /\ border' = pts[h]
      BY <2>2, <2>4
    <3>2. Around(frame', pts[h])
      BY <1>1, <3>1, FrameIs
    <3>3. FrameIsAroundHole'
      BY <3>1, <3>2 DEF FrameIsAroundHole, Around
    <3> QED BY <2>1, <3>3, FrameKeeps
  <2> QED BY <2>3, <2>4
<1>4. ASSUME NEW h \in RegionHandles, ShapeWindow(h) PROVE RegionsInv'
  <2>1. /\ UNCHANGED <<region, pts, border>>
        /\ frame' = IF frame.exact THEN frame ELSE EstimateFrame(PointsOf(region[h]))
    BY <1>4 DEF ShapeWindow
  <2>2. \A Q : EstimateFrame(Q).exact = FALSE
    BY DEF EstimateFrame, NoFrame
  <2>3. FrameIsAroundHole'
    <3>1. CASE frame.exact
      BY <1>1, <2>1, <3>1 DEF FrameIsAroundHole
    <3>2. CASE ~frame.exact
      <4>1. frame'.exact = FALSE
        BY <2>1, <2>2, <3>2, Zenon
      <4> QED BY <4>1 DEF FrameIsAroundHole
    <3> QED BY <3>1, <3>2
  <2> QED BY <2>1, <2>3, FrameKeeps
<1>5. ASSUME NEW h \in RegionHandles, NEW wins \in Coverings, CreateClientClipRegion(h, wins) PROVE RegionsInv'
  <2> DEFINE r == ClipOf(WindowRect, wins)
             P == PointsOf(<<WindowRect>>)
                    \ UNION {PointsOf(<<wins[i].rect>>) : i \in {j \in DOMAIN wins : Covering(wins[j])}}
  <2>1. Exactly(r, P)
    BY ClipIs
  <2>2. /\ region' = [region EXCEPT ![h] = r] /\ pts' = [pts EXCEPT ![h] = P]
        /\ UNCHANGED <<frame, border>>
    BY <1>5 DEF CreateClientClipRegion
  <2> HIDE DEF r, P
  <2> QED BY <2>1, <2>2, OneRegion
<1>6. ASSUME ClearWindowShape PROVE RegionsInv'
  <2>1. UNCHANGED <<region, pts>> /\ frame' = NoFrame
    BY <1>6 DEF ClearWindowShape
  <2>2. FrameIsAroundHole'
    BY <2>1 DEF FrameIsAroundHole, NoFrame
  <2> QED BY <2>1, <2>2, FrameKeeps
<1>7. ASSUME UNCHANGED regionVars PROVE RegionsInv'
  <2>1. UNCHANGED <<region, pts, frame, border>>
    BY <1>7 DEF regionVars
  <2>2. FrameIsAroundHole'
    BY <1>1, <2>1 DEF FrameIsAroundHole
  <2> QED BY <2>1, <2>2, FrameKeeps
<1> QED BY <1>2, <1>3, <1>4, <1>5, <1>6, <1>7 DEF RegionsNext

LEMMA PiecesAre ==
  ASSUME NEW r \in Seq(Rect), Apart(r, Separate)
  PROVE  Pieces(r)
<1> SUFFICES ASSUME NEW i \in DOMAIN r, NEW j \in DOMAIN r, i # j,
                    NEW p \in PointsOf(<<r[i]>>), p \in PointsOf(<<r[j]>>)
             PROVE  FALSE
  BY DEF Pieces
<1> DEFINE a == r[i]
           b == r[j]
<1>1. a \in Rect /\ b \in Rect /\ <<a, b>> \in Separate
  BY DEF Apart
<1>2. p \in PointsOf(<<a>>) /\ p \in PointsOf(<<b>>)
  OBVIOUS
<1> HIDE DEF a, b
<1>3. <<a>> \in Seq(Rect) /\ <<b>> \in Seq(Rect)
  BY <1>1
<1>4. p \in Plane
  BY <1>2, <1>3, PointsAre
<1>5. p[1] \in Int /\ p[2] \in Int /\ p = <<p[1], p[2]>>
  BY <1>4, PlaneIs
<1> DEFINE x == p[1]
           y == p[2]
<1>6. x \in Int /\ y \in Int /\ <<x, y>> \in PointsOf(<<a>>) /\ <<x, y>> \in PointsOf(<<b>>)
  BY <1>2, <1>5
<1> HIDE DEF x, y
<1>7. Hit(<<a>>, x, y) /\ Hit(<<b>>, x, y)
  BY <1>3, <1>6, PointsAre
<1>8. HasPoint(a, x, y) /\ HasPoint(b, x, y)
  BY <1>1, <1>7, OneRect, Zenon
<1> QED BY <1>1, <1>6, <1>8, SeparateIs

LEMMA EqualIs ==
  ASSUME NEW r, NEW s, NEW P, NEW Q, Exactly(r, P), Exactly(s, Q)
  PROVE  Canonical(r) = Canonical(s) <=> P = Q
<1>1. /\ r \in Seq(Rect) /\ P \in SUBSET Plane /\ s \in Seq(Rect) /\ Q \in SUBSET Plane
      /\ \A x, y \in Int : Hit(r, x, y) <=> <<x, y>> \in P
      /\ \A x, y \in Int : Hit(s, x, y) <=> <<x, y>> \in Q
  BY DEF Exactly
<1>2. ASSUME P = Q PROVE Canonical(r) = Canonical(s)
  <2>1. \A x, y \in Int : Hit(r, x, y) <=> Hit(s, x, y)
    BY <1>1, <1>2, Zenon
  <2> QED BY <1>1, <2>1, CanonicalSame
<1>3. ASSUME Canonical(r) = Canonical(s) PROVE P = Q
  <2>1. /\ \A x, y \in Int : Hit(Canonical(r), x, y) <=> Hit(r, x, y)
        /\ \A x, y \in Int : Hit(Canonical(s), x, y) <=> Hit(s, x, y)
    BY <1>1, CanonicalIs
  <2>2. \A x, y \in Int : Hit(r, x, y) <=> Hit(s, x, y)
    BY <1>3, <2>1, Zenon
  <2>3. \A x, y \in Int : <<x, y>> \in P <=> <<x, y>> \in Q
    BY <1>1, <2>2, Zenon
  <2> QED BY <1>1, <2>3, SamePoints
<1> QED BY <1>2, <1>3

LEMMA ExactIsExact == RegionsInv => RegionsExact
<1> SUFFICES ASSUME RegionsInv PROVE RegionsExact
  OBVIOUS
<1>1. (\A h \in RegionHandles : Exactly(region[h], pts[h])) /\ FrameIsAroundHole
  BY DEF RegionsInv
<1>2. CoversItsPoints
  <2> SUFFICES ASSUME NEW h \in RegionHandles PROVE PointsOf(region[h]) = pts[h] /\ Pieces(region[h])
    BY DEF CoversItsPoints
  <2>1. region[h] \in Seq(Rect) /\ Apart(region[h], Separate)
    BY <1>1 DEF Exactly
  <2> QED BY <1>1, <2>1, ExactlyPoints, PiecesAre
<1>3. EqualMeansSame
  <2> SUFFICES ASSUME NEW a \in RegionHandles, NEW b \in RegionHandles
               PROVE  EqualRgn(a, b) <=> pts[a] = pts[b]
    BY DEF EqualMeansSame
  <2> QED BY <1>1, EqualIs DEF EqualRgn
<1> QED BY <1>1, <1>2, <1>3 DEF RegionsExact

\* Whatever regions are made of rectangles, combined, copied and cut out around windows, in
\* whatever order: a region covers the points the calls say, none of them twice, EqualRgn
\* finds two regions equal exactly if they have the same points (canonicalize_rects,
\* drawing.rs), and an inferred frame has the hole of its region inside.
THEOREM RegionsAreExact == RegionsSpec => []RegionsExact
<1>1. RegionsInit => RegionsInv
  BY RegionsStart
<1>2. RegionsInv /\ [RegionsNext]_regionVars => RegionsInv'
  BY RegionsKept
<1>3. RegionsInv => RegionsExact
  BY ExactIsExact
<1> QED BY <1>1, <1>2, <1>3, PTL DEF RegionsSpec
=============================================================================
