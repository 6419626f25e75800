------------------------- MODULE MessageQueue_proof -------------------------
(***************************************************************************)
(* The message queues for every number of threads, windows and messages.   *)
(***************************************************************************)
EXTENDS MessageQueue, FiniteSetTheorems, SequenceTheorems, WellFoundedInduction, TLAPS

----------------------------------------------------------------------------
(* Induction, as the least number of a set. *)

LEMMA Least ==
  ASSUME NEW T \in SUBSET Nat, T # {}
  PROVE  \E m \in T : \A k \in T : m <= k
<1> DEFINE R == OpToRel(<, Nat)
<1>1. IsWellFoundedOn(R, Nat)
  BY NatLessThanWellFounded
<1>2. \A x, y \in Nat : x < y => <<x, y>> \in R
  BY DEF OpToRel
<1> HIDE DEF R
<1>3. PICK m \in T : \A y \in T : ~(<<y, m>> \in R)
  BY <1>1, WFMin
<1>4. \A y \in T : ~(y < m)
  BY <1>2, <1>3, Zenon
<1>5. T \subseteq Nat
  OBVIOUS
<1> QED BY <1>3, <1>4, <1>5

LEMMA UpFrom0 ==
  ASSUME NEW n \in Nat, NEW S, 0 \in S, \A i \in 1 .. n : i - 1 \in S => i \in S
  PROVE  n \in S
<1> DEFINE T == {i \in 0 .. n : i \notin S}
<1> SUFFICES ASSUME T # {} PROVE FALSE
  OBVIOUS
<1>1. T \in SUBSET Nat
  OBVIOUS
<1> HIDE DEF T
<1>2. PICK m \in T : \A k \in T : m <= k
  BY <1>1, Least
<1>3. m \in 0 .. n /\ m \notin S /\ m # 0
  BY <1>2 DEF T
<1>4. m - 1 \in 0 .. n /\ m - 1 \notin T
  BY <1>2, <1>3
<1>5. m - 1 \in S
  BY <1>4 DEF T
<1> QED BY <1>3, <1>5

----------------------------------------------------------------------------
(* What retain() leaves of a queue. *)

\* The function Without defines.
Keeps(q, gone, f, m) ==
  f = [n \in 0 .. m |->
         IF n = 0 THEN <<>>
         ELSE IF q[n] \in gone THEN f[n - 1] ELSE Append(f[n - 1], q[n])]

LEMMA KeptExists ==
  ASSUME NEW q, NEW gone, NEW n \in Nat
  PROVE  \E f : Keeps(q, gone, f, n)
<1> DEFINE S == {m \in 0 .. n : \E f : Keeps(q, gone, f, m)}
<1>1. 0 \in S
  <2>1. Keeps(q, gone, [i \in 0 .. 0 |-> <<>>], 0)
    BY DEF Keeps
  <2> QED BY <2>1
<1>2. ASSUME NEW m \in 1 .. n, m - 1 \in S PROVE m \in S
  <2>1. PICK f : Keeps(q, gone, f, m - 1)
    BY <1>2
  <2> DEFINE last == IF q[m] \in gone THEN f[m - 1] ELSE Append(f[m - 1], q[m])
             g    == [i \in 0 .. m |-> IF i = m THEN last ELSE f[i]]
  <2>2. ASSUME NEW i \in 0 .. m
        PROVE  g[i] = IF i = 0 THEN <<>>
                      ELSE IF q[i] \in gone THEN g[i - 1] ELSE Append(g[i - 1], q[i])
    <3>1. CASE i = m
      <4>1. i # 0 /\ i - 1 \in 0 .. m /\ i - 1 # m
        BY <3>1
      <4>2. g[i - 1] = f[m - 1]
        BY <3>1, <4>1
      <4>3. g[i] = last
        BY <3>1
      <4> HIDE DEF g
      <4> QED BY <3>1, <4>1, <4>2, <4>3
    <3>2. CASE i # m
      <4>1. i \in 0 .. m - 1 /\ (i # 0 => i - 1 \in 0 .. m /\ i - 1 # m)
        BY <3>2
      <4>2. f[i] = IF i = 0 THEN <<>>
                   ELSE IF q[i] \in gone THEN f[i - 1] ELSE Append(f[i - 1], q[i])
        BY <2>1, <4>1 DEF Keeps
      <4>3. g[i] = f[i] /\ (i # 0 => g[i - 1] = f[i - 1])
        BY <3>2, <4>1
      <4> HIDE DEF g
      <4> QED BY <4>2, <4>3
    <3> QED BY <3>1, <3>2
  <2>3. g = [i \in 0 .. m |-> g[i]]
    OBVIOUS
  <2> HIDE DEF g
  <2>4. Keeps(q, gone, g, m)
    BY <2>2, <2>3 DEF Keeps
  <2> QED BY <1>2, <2>4
<1> HIDE DEF S
<1>3. n \in S
  BY <1>1, <1>2, UpFrom0
<1> QED BY <1>3 DEF S

LEMMA WithoutUnfolds ==
  ASSUME NEW q, Len(q) \in Nat, NEW gone
  PROVE  \E f : Keeps(q, gone, f, Len(q)) /\ Without(q, gone) = f[Len(q)]
<1> DEFINE f == CHOOSE f : Keeps(q, gone, f, Len(q))
<1>1. Keeps(q, gone, f, Len(q))
  BY KeptExists
<1>2. Without(q, gone) = f[Len(q)]
  BY DEF Without, Keeps
<1> QED BY <1>1, <1>2

\* The messages of r are some of those of q, in their order.
Drawn(r, q) ==
  /\ \A i \in DOMAIN r : \E k \in DOMAIN q : r[i] = q[k]
  /\ \A i, j \in DOMAIN r : i < j =>
       \E k, l \in DOMAIN q : k < l /\ r[i] = q[k] /\ r[j] = q[l]

\* Those of the first n messages of q that are kept.
KeptOf(r, q, gone, n) ==
  /\ \A i \in DOMAIN r : \E k \in 1 .. n : r[i] = q[k]
  /\ \A i, j \in DOMAIN r : i < j =>
       \E k, l \in 1 .. n : k < l /\ r[i] = q[k] /\ r[j] = q[l]
  /\ \A i \in DOMAIN r : r[i] \notin gone
  /\ \A k \in 1 .. n : q[k] \in gone \/ \E i \in DOMAIN r : r[i] = q[k]

LEMMA KeepsOneMore ==
  ASSUME NEW S, NEW q \in Seq(S), NEW gone, NEW n \in 1 .. Len(q), NEW r \in Seq(S),
         KeptOf(r, q, gone, n - 1),
         NEW all, all = IF q[n] \in gone THEN r ELSE Append(r, q[n])
  PROVE  all \in Seq(S) /\ KeptOf(all, q, gone, n)
<1>1. n \in Nat /\ n - 1 \in Nat /\ q[n] \in S /\ \A k : k \in 1 .. n <=> k \in 1 .. n - 1 \/ k = n
  OBVIOUS
<1>2. CASE q[n] \in gone
  BY <1>1, <1>2 DEF KeptOf
<1>3. CASE q[n] \notin gone
  <2>1. /\ all \in Seq(S) /\ DOMAIN all = 1 .. Len(r) + 1 /\ all[Len(r) + 1] = q[n]
        /\ DOMAIN r = 1 .. Len(r) /\ Len(r) \in Nat
        /\ \A i \in 1 .. Len(r) : all[i] = r[i]
    BY <1>1, <1>3
  <2>2. \A i : i \in DOMAIN all <=> i \in DOMAIN r \/ i = Len(r) + 1
    BY <2>1
  <2>3. \A i \in DOMAIN all : \E k \in 1 .. n : all[i] = q[k]
    BY <1>1, <2>1, <2>2 DEF KeptOf
  <2>4. ASSUME NEW i \in DOMAIN all, NEW j \in DOMAIN all, i < j
        PROVE  \E k, l \in 1 .. n : k < l /\ all[i] = q[k] /\ all[j] = q[l]
    <3>1. i \in DOMAIN r
      BY <2>1, <2>4
    <3>2. CASE j \in DOMAIN r
      BY <1>1, <2>1, <2>4, <3>1, <3>2 DEF KeptOf
    <3>3. CASE j = Len(r) + 1
      <4>1. PICK k \in 1 .. n - 1 : r[i] = q[k]
        BY <3>1 DEF KeptOf
      <4>2. k < n /\ k \in 1 .. n /\ n \in 1 .. n
        BY <1>1, <4>1
      <4> QED BY <2>1, <3>1, <3>3, <4>1, <4>2
    <3> QED BY <2>2, <3>2, <3>3
  <2>5. \A i \in DOMAIN all : all[i] \notin gone
    BY <1>3, <2>1, <2>2 DEF KeptOf
  <2>6. \A k \in 1 .. n : q[k] \in gone \/ \E i \in DOMAIN all : all[i] = q[k]
    BY <1>1, <2>1, <2>2 DEF KeptOf
  <2> QED BY <2>1, <2>3, <2>4, <2>5, <2>6 DEF KeptOf
<1> QED BY <1>2, <1>3

LEMMA KeptAreDrawn ==
  ASSUME NEW r, NEW q, NEW gone, NEW n, KeptOf(r, q, gone, n), DOMAIN q = 1 .. n
  PROVE  Drawn(r, q)
<1>1. \A i \in DOMAIN r : \E k \in DOMAIN q : r[i] = q[k]
  BY DEF KeptOf
<1>2. ASSUME NEW i \in DOMAIN r, NEW j \in DOMAIN r, i < j
      PROVE  \E k, l \in DOMAIN q : k < l /\ r[i] = q[k] /\ r[j] = q[l]
  <2>1. PICK k \in 1 .. n, l \in 1 .. n : k < l /\ r[i] = q[k] /\ r[j] = q[l]
    BY <1>2 DEF KeptOf
  <2> QED BY <2>1
<1> QED BY <1>1, <1>2 DEF Drawn

LEMMA WithoutIs ==
  ASSUME NEW S, NEW q \in Seq(S), NEW gone
  PROVE  /\ Without(q, gone) \in Seq(S) /\ Drawn(Without(q, gone), q)
         /\ \A i \in DOMAIN Without(q, gone) : Without(q, gone)[i] \notin gone
         /\ \A k \in DOMAIN q :
              q[k] \in gone \/ \E i \in DOMAIN Without(q, gone) : Without(q, gone)[i] = q[k]
<1>1. Len(q) \in Nat /\ DOMAIN q = 1 .. Len(q)
  OBVIOUS
<1>2. PICK f : Keeps(q, gone, f, Len(q)) /\ Without(q, gone) = f[Len(q)]
  BY <1>1, WithoutUnfolds
<1>3. \A n \in 0 .. Len(q) :
        f[n] = IF n = 0 THEN <<>>
               ELSE IF q[n] \in gone THEN f[n - 1] ELSE Append(f[n - 1], q[n])
  BY <1>2 DEF Keeps
<1> DEFINE T == {n \in 0 .. Len(q) : f[n] \in Seq(S) /\ KeptOf(f[n], q, gone, n)}
<1>4. 0 \in T
  <2>1. f[0] = <<>> /\ 0 \in 0 .. Len(q) /\ 1 .. 0 = {}
    BY <1>1, <1>3
  <2>2. f[0] \in Seq(S) /\ DOMAIN f[0] = {}
    BY <2>1
  <2>3. KeptOf(f[0], q, gone, 0)
    BY <2>1, <2>2 DEF KeptOf
  <2> QED BY <2>1, <2>2, <2>3
<1>5. ASSUME NEW n \in 1 .. Len(q), n - 1 \in T PROVE n \in T
  <2>1. f[n - 1] \in Seq(S) /\ KeptOf(f[n - 1], q, gone, n - 1) /\ n \in 0 .. Len(q) /\ n # 0
    BY <1>1, <1>5
  <2>2. f[n] = IF q[n] \in gone THEN f[n - 1] ELSE Append(f[n - 1], q[n])
    BY <1>3, <2>1
  <2>3. f[n] \in Seq(S) /\ KeptOf(f[n], q, gone, n)
    BY <2>1, <2>2, KeepsOneMore
  <2> QED BY <2>1, <2>3
<1> HIDE DEF T
<1>6. Len(q) \in T
  BY <1>1, <1>4, <1>5, UpFrom0
<1>7. Without(q, gone) \in Seq(S) /\ KeptOf(Without(q, gone), q, gone, Len(q))
  BY <1>2, <1>6 DEF T
<1> DEFINE r == Without(q, gone)
<1>8. /\ r \in Seq(S) /\ Drawn(r, q)
      /\ \A i \in DOMAIN r : r[i] \notin gone
      /\ \A k \in DOMAIN q : q[k] \in gone \/ \E i \in DOMAIN r : r[i] = q[k]
  <2> HIDE DEF r
  <2>1. r \in Seq(S) /\ KeptOf(r, q, gone, Len(q))
    BY <1>7 DEF r
  <2>2. Drawn(r, q)
    BY <1>1, <2>1, KeptAreDrawn
  <2>3. \A i \in DOMAIN r : r[i] \notin gone
    BY <2>1 DEF KeptOf
  <2>4. \A k \in DOMAIN q : q[k] \in gone \/ \E i \in DOMAIN r : r[i] = q[k]
    BY <1>1, <2>1 DEF KeptOf
  <2> QED BY <2>1, <2>2, <2>3, <2>4
<1> QED BY <1>8

----------------------------------------------------------------------------
(* What the operations on a queue keep true of it. *)

\* Messages of which a queue holds one at most.
Single(q) ==
  \A i, j \in DOMAIN q : i < j =>
    /\ q[i].type \in {"timer", "paint", "size"} => q[i] # q[j]
    /\ q[i].type = "setcursor" => ~(q[j].type = "setcursor" /\ q[j].hwnd = q[i].hwnd)

\* Each message is for a window of thread t, if its window is there.
For(t, q, ws) == \A i \in DOMAIN q : q[i].hwnd \in ws => FirstOwner[q[i].hwnd] = t

QueueOK(t, q, ws) == q \in Seq(Messages) /\ For(t, q, ws) /\ Single(q)

Quits(q) == Has(q, NoWindow, "quit")

LEMMA DrawnOK ==
  ASSUME NEW t, NEW ws, NEW q, QueueOK(t, q, ws), NEW r \in Seq(Messages), Drawn(r, q)
  PROVE  QueueOK(t, r, ws)
<1>1. For(t, r, ws)
  BY DEF QueueOK, For, Drawn
<1>2. Single(r)
  BY DEF QueueOK, Single, Drawn
<1> QED BY <1>1, <1>2 DEF QueueOK

\* A message that may come behind those of a queue.
MayFollow(m, q) ==
  /\ m.type \in {"timer", "paint", "size"} => m \notin ToSet(q)
  /\ m.type = "setcursor" => ~Has(q, m.hwnd, "setcursor")

LEMMA AppendOK ==
  ASSUME NEW t, NEW ws, NEW q, QueueOK(t, q, ws), NEW m \in Messages,
         m.hwnd \in ws => FirstOwner[m.hwnd] = t, MayFollow(m, q)
  PROVE  QueueOK(t, Append(q, m), ws) /\ (Quits(q) => Quits(Append(q, m)))
<1> DEFINE r == Append(q, m)
           n == Len(q)
<1>1. /\ q \in Seq(Messages) /\ n \in Nat /\ DOMAIN q = 1 .. n
      /\ r \in Seq(Messages) /\ DOMAIN r = 1 .. n + 1 /\ r[n + 1] = m
      /\ \A i \in 1 .. n : r[i] = q[i]
  BY DEF QueueOK
<1> HIDE DEF r, n
<1>2. \A i : i \in DOMAIN r <=> i \in DOMAIN q \/ i = n + 1
  BY <1>1
<1>3. For(t, r, ws)
  BY <1>1, <1>2 DEF For, QueueOK
<1>4. ASSUME NEW i \in DOMAIN r, NEW j \in DOMAIN r, i < j
      PROVE  /\ r[i].type \in {"timer", "paint", "size"} => r[i] # r[j]
             /\ r[i].type = "setcursor" =>
                  ~(r[j].type = "setcursor" /\ r[j].hwnd = r[i].hwnd)
  <2>1. i \in DOMAIN q /\ r[i] = q[i]
    BY <1>1, <1>4
  <2>2. CASE j \in DOMAIN q
    BY <1>1, <1>4, <2>1, <2>2 DEF QueueOK, Single
  <2>3. CASE j = n + 1
    BY <1>1, <2>1, <2>3 DEF MayFollow, Has, ToSet
  <2> QED BY <1>2, <2>2, <2>3
<1>5. Single(r)
  BY <1>4 DEF Single
<1>6. Quits(q) => Quits(r)
  BY <1>1, <1>2 DEF Quits, Has
<1> QED BY <1>1, <1>3, <1>5, <1>6 DEF QueueOK, r

LEMMA TailOK ==
  ASSUME NEW t, NEW ws, NEW q, QueueOK(t, q, ws), q # <<>>
  PROVE  /\ QueueOK(t, Tail(q), ws)
         /\ Quits(q) => Quits(Tail(q)) \/ Head(q).type = "quit"
<1> DEFINE r == Tail(q)
<1>1. /\ q \in Seq(Messages) /\ Len(q) \in Nat \ {0} /\ DOMAIN q = 1 .. Len(q)
      /\ r \in Seq(Messages) /\ DOMAIN r = 1 .. Len(q) - 1 /\ Head(q) = q[1]
      /\ \A i \in 1 .. Len(q) - 1 : r[i] = q[i + 1]
  BY DEF QueueOK
<1> HIDE DEF r
<1>2. \A i \in DOMAIN r : i + 1 \in DOMAIN q /\ r[i] = q[i + 1] /\ i \in Nat
  BY <1>1
<1>3. Drawn(r, q)
  BY <1>2 DEF Drawn
<1>4. Quits(q) => Quits(r) \/ q[1].type = "quit"
  <2> SUFFICES ASSUME NEW i \in DOMAIN q, q[i].hwnd = NoWindow, q[i].type = "quit", i # 1
               PROVE  Quits(r)
    BY DEF Quits, Has
  <2>1. i - 1 \in DOMAIN r /\ r[i - 1] = q[i]
    BY <1>1
  <2> QED BY <2>1 DEF Quits, Has
<1> QED BY <1>1, <1>3, <1>4, DrawnOK DEF r

LEMMA RemoveAtOK ==
  ASSUME NEW t, NEW ws, NEW q, QueueOK(t, q, ws), NEW k \in DOMAIN q
  PROVE  /\ QueueOK(t, RemoveAt(q, k), ws)
         /\ Quits(q) => Quits(RemoveAt(q, k)) \/ q[k].type = "quit"
<1> DEFINE front == SubSeq(q, 1, k - 1)
           back  == SubSeq(q, k + 1, Len(q))
           r     == front \o back
<1>1. /\ q \in Seq(Messages) /\ Len(q) \in Nat /\ DOMAIN q = 1 .. Len(q)
      /\ k \in 1 .. Len(q)
  BY DEF QueueOK
<1>2. /\ front \in Seq(Messages) /\ Len(front) = k - 1
      /\ \A i \in 1 .. k - 1 : front[i] = q[i]
  BY <1>1
<1>3. /\ back \in Seq(Messages) /\ Len(back) = Len(q) - k
      /\ \A i \in 1 .. Len(q) - k : back[i] = q[k + i]
  BY <1>1
<1>4. RemoveAt(q, k) = r
  BY DEF RemoveAt
<1> HIDE DEF front, back
<1>5. /\ r \in Seq(Messages) /\ DOMAIN r = 1 .. Len(q) - 1
      /\ \A i \in 1 .. k - 1 : r[i] = front[i]
      /\ \A i \in 1 .. Len(q) - k : r[k - 1 + i] = back[i]
  <2>1. r \in Seq(Messages) /\ Len(r) = Len(front) + Len(back)
    BY <1>2, <1>3, ConcatProperties
  <2>2. \A i \in 1 .. Len(front) + Len(back) :
          r[i] = IF i <= Len(front) THEN front[i] ELSE back[i - Len(front)]
    BY <1>2, <1>3, ConcatProperties
  <2> HIDE DEF r
  <2>3. DOMAIN r = 1 .. Len(q) - 1
    BY <1>1, <1>2, <1>3, <2>1
  <2>4. \A i \in 1 .. k - 1 : r[i] = front[i]
    BY <1>1, <1>2, <1>3, <2>2
  <2>5. ASSUME NEW i \in 1 .. Len(q) - k PROVE r[k - 1 + i] = back[i]
    <3>1. /\ k - 1 + i \in 1 .. Len(front) + Len(back) /\ ~(k - 1 + i <= Len(front))
          /\ k - 1 + i - Len(front) = i
      BY <1>1, <1>2, <1>3
    <3> QED BY <2>2, <3>1
  <2> QED BY <2>1, <2>3, <2>4, <2>5
<1> HIDE DEF r
<1>6. \A i \in DOMAIN r : IF i < k THEN i \in DOMAIN q /\ r[i] = q[i]
                           ELSE i + 1 \in DOMAIN q /\ r[i] = q[i + 1]
  <2> SUFFICES ASSUME NEW i \in DOMAIN r
               PROVE  IF i < k THEN i \in DOMAIN q /\ r[i] = q[i]
                      ELSE i + 1 \in DOMAIN q /\ r[i] = q[i + 1]
    OBVIOUS
  <2>1. CASE i < k
    BY <1>1, <1>2, <1>5, <2>1
  <2>2. CASE ~(i < k)
    <3>1. i - k + 1 \in 1 .. Len(q) - k /\ k - 1 + (i - k + 1) = i /\ k + (i - k + 1) = i + 1
      BY <1>1, <1>5, <2>2
    <3>2. r[i] = q[i + 1]
      BY <1>3, <1>5, <3>1
    <3> QED BY <1>1, <1>5, <2>2, <3>2
  <2> QED BY <2>1, <2>2
<1>7. Drawn(r, q)
  <2>1. DOMAIN r \subseteq Nat /\ k \in Nat
    BY <1>1, <1>5
  <2>2. \A i \in DOMAIN r : \E n \in DOMAIN q : r[i] = q[n]
    BY <1>6
  <2>3. ASSUME NEW i \in DOMAIN r, NEW j \in DOMAIN r, i < j
        PROVE  \E n, l \in DOMAIN q : n < l /\ r[i] = q[n] /\ r[j] = q[l]
    <3> DEFINE n == IF i < k THEN i ELSE i + 1
               l == IF j < k THEN j ELSE j + 1
    <3>1. n \in DOMAIN q /\ l \in DOMAIN q /\ r[i] = q[n] /\ r[j] = q[l]
      BY <1>6
    <3>2. n < l
      BY <2>1, <2>3
    <3> QED BY <3>1, <3>2
  <2> QED BY <2>2, <2>3 DEF Drawn
<1>8. Quits(q) => Quits(r) \/ q[k].type = "quit"
  <2> SUFFICES ASSUME NEW i \in DOMAIN q, q[i].hwnd = NoWindow, q[i].type = "quit", i # k
               PROVE  Quits(r)
    BY DEF Quits, Has
  <2>1. CASE i < k
    <3>1. i \in DOMAIN r /\ r[i] = q[i]
      BY <1>1, <1>2, <1>5, <2>1
    <3> QED BY <3>1 DEF Quits, Has
  <2>2. CASE ~(i < k)
    <3>1. i - 1 \in DOMAIN r /\ ~(i - 1 < k)
      BY <1>1, <1>5, <2>2
    <3>2. r[i - 1] = q[i]
      <4>1. (i - 1) + 1 = i
        BY <1>1
      <4> QED BY <1>6, <3>1, <4>1
    <3> QED BY <3>1, <3>2 DEF Quits, Has
  <2> QED BY <2>1, <2>2
<1> QED BY <1>4, <1>5, <1>7, <1>8, DrawnOK

\* The place FirstOf gives: the message is there, and it is the first of its kind.
LEMMA FirstOfIs ==
  ASSUME NEW q \in Seq(Messages), NEW w, NEW type, Has(q, w, type)
  PROVE  /\ FirstOf(q, w, type) \in DOMAIN q
         /\ q[FirstOf(q, w, type)].hwnd = w /\ q[FirstOf(q, w, type)].type = type
<1> DEFINE T == {i \in DOMAIN q : q[i].hwnd = w /\ q[i].type = type}
<1>1. T \in SUBSET Nat /\ T # {} /\ DOMAIN q = 1 .. Len(q) /\ Len(q) \in Nat
  BY DEF Has
<1>2. PICK m \in T : \A k \in T : m <= k
  <2> HIDE DEF T
  <2> QED BY <1>1, Least
<1>3. \A j \in 1 .. m - 1 : j \notin T /\ j \in DOMAIN q
  BY <1>1, <1>2
<1>4. \E i \in DOMAIN q :
        /\ q[i].hwnd = w /\ q[i].type = type
        /\ \A j \in 1 .. i - 1 : q[j].hwnd # w \/ q[j].type # type
  BY <1>2, <1>3
<1> QED BY <1>4 DEF FirstOf

LEMMA CoalescedOK ==
  ASSUME NEW t, NEW ws, NEW q, QueueOK(t, q, ws), NEW w, NEW p \in Positions,
         NEW type \in {"move", "setcursor"}, Has(q, w, type)
  PROVE  /\ QueueOK(t, Coalesced(q, w, type, p), ws)
         /\ Quits(q) => Quits(Coalesced(q, w, type, p))
         /\ \A x, y : Has(Coalesced(q, w, type, p), x, y) <=> Has(q, x, y)
<1> DEFINE k == FirstOf(q, w, type)
           r == [q EXCEPT ![k].arg = p]
<1>1. q \in Seq(Messages) /\ k \in DOMAIN q /\ q[k].type = type
  BY FirstOfIs DEF QueueOK
<1>2. Coalesced(q, w, type, p) = r
  BY DEF Coalesced
<1> HIDE DEF k
<1>3. q[k] \in Messages /\ [q[k] EXCEPT !.arg = p] \in Messages
  <2>1. q[k] \in Messages
    BY <1>1
  <2> DEFINE m == q[k]
  <2> HIDE DEF m
  <2>2. ASSUME m \in Messages PROVE [m EXCEPT !.arg = p] \in Messages
    BY <2>2 DEF Messages
  <2> QED BY <2>1, <2>2 DEF m
<1>4. r = [q EXCEPT ![k] = [q[k] EXCEPT !.arg = p]]
  OBVIOUS
<1>5. /\ r \in Seq(Messages) /\ DOMAIN r = DOMAIN q
      /\ \A i \in DOMAIN q : i # k => r[i] = q[i]
      /\ r[k].hwnd = q[k].hwnd /\ r[k].type = q[k].type
  <2>1. r[k] = [q[k] EXCEPT !.arg = p] /\ DOMAIN r = DOMAIN q
        /\ \A i \in DOMAIN q : i # k => r[i] = q[i]
    BY <1>1, <1>4
  <2>2. r \in Seq(Messages)
    BY <1>1, <1>3, <1>4
  <2>3. [q[k] EXCEPT !.arg = p].hwnd = q[k].hwnd /\ [q[k] EXCEPT !.arg = p].type = q[k].type
    BY <1>3 DEF Messages
  <2> HIDE DEF r
  <2> QED BY <2>1, <2>2, <2>3
<1> HIDE DEF r
<1>6. \A i \in DOMAIN q : r[i].hwnd = q[i].hwnd /\ r[i].type = q[i].type
  BY <1>1, <1>5
<1>7. For(t, r, ws)
  BY <1>5, <1>6 DEF QueueOK, For
<1>8. Single(r)
  <2>1. ASSUME NEW i \in DOMAIN q, NEW j \in DOMAIN q, i < j,
               r[i].type \in {"timer", "paint", "size"}
        PROVE  r[i] # r[j]
    <3>1. i # k /\ r[i] = q[i] /\ q[i].type \in {"timer", "paint", "size"}
      BY <1>1, <1>5, <1>6, <2>1
    <3>2. CASE j = k
      BY <1>1, <1>6, <3>1, <3>2
    <3>3. CASE j # k
      BY <1>5, <2>1, <3>1, <3>3 DEF QueueOK, Single
    <3> QED BY <3>2, <3>3
  <2>2. ASSUME NEW i \in DOMAIN q, NEW j \in DOMAIN q, i < j, r[i].type = "setcursor"
        PROVE  ~(r[j].type = "setcursor" /\ r[j].hwnd = r[i].hwnd)
    BY <1>6, <2>2 DEF QueueOK, Single
  <2> QED BY <1>5, <2>1, <2>2 DEF Single
<1>9. \A x, y : Has(r, x, y) <=> Has(q, x, y)
  BY <1>5, <1>6 DEF Has
<1> QED BY <1>2, <1>5, <1>7, <1>8, <1>9 DEF QueueOK, Quits

LEMMA InsertAtOK ==
  ASSUME NEW t, NEW ws, NEW q, QueueOK(t, q, ws), NEW k \in DOMAIN q, NEW m \in Messages,
         m.hwnd \in ws => FirstOwner[m.hwnd] = t, m.type = "setcursor", MayFollow(m, q)
  PROVE  /\ QueueOK(t, InsertAt(q, k, m), ws)
         /\ Quits(q) => Quits(InsertAt(q, k, m))
         /\ \A x, y : Has(q, x, y) => Has(InsertAt(q, k, m), x, y)
         /\ \A x, y : y # "setcursor" => (Has(InsertAt(q, k, m), x, y) => Has(q, x, y))
<1> DEFINE front == SubSeq(q, 1, k - 1)
           back  == SubSeq(q, k, Len(q))
           head  == front \o <<m>>
           r     == head \o back
<1>1. /\ q \in Seq(Messages) /\ Len(q) \in Nat /\ DOMAIN q = 1 .. Len(q)
      /\ k \in 1 .. Len(q)
  BY DEF QueueOK
<1>2. /\ front \in Seq(Messages) /\ Len(front) = k - 1
      /\ \A i \in 1 .. k - 1 : front[i] = q[i]
  BY <1>1
<1>3. /\ back \in Seq(Messages) /\ Len(back) = Len(q) - k + 1
      /\ \A i \in 1 .. Len(q) - k + 1 : back[i] = q[k - 1 + i]
  BY <1>1
<1>4. InsertAt(q, k, m) = r
  BY DEF InsertAt
<1> HIDE DEF front, back
<1>5. head = Append(front, m)
  BY <1>2
<1>6. /\ head \in Seq(Messages) /\ Len(head) = k /\ head[k] = m
      /\ \A i \in 1 .. k - 1 : head[i] = q[i]
  <2> HIDE DEF head
  <2> QED BY <1>1, <1>2, <1>5
<1> HIDE DEF head
<1>7. /\ r \in Seq(Messages) /\ Len(r) = Len(q) + 1
      /\ \A i \in 1 .. Len(q) + 1 : r[i] = IF i <= k THEN head[i] ELSE back[i - k]
  <2>1. r \in Seq(Messages) /\ Len(r) = Len(head) + Len(back)
    BY <1>3, <1>6, ConcatProperties
  <2>2. \A i \in 1 .. Len(head) + Len(back) :
          r[i] = IF i <= Len(head) THEN head[i] ELSE back[i - Len(head)]
    BY <1>3, <1>6, ConcatProperties
  <2>3. Len(head) = k /\ Len(head) + Len(back) = Len(q) + 1
    BY <1>1, <1>3, <1>6
  <2> HIDE DEF r
  <2> QED BY <2>1, <2>2, <2>3
<1> HIDE DEF r
\* The place in r of a message of q, and the other way round.
<1> DEFINE to(i)   == IF i < k THEN i ELSE i + 1
           from(i) == IF i < k THEN i ELSE i - 1
<1>8. DOMAIN r = 1 .. Len(q) + 1 /\ k \in DOMAIN r /\ r[k] = m
  BY <1>1, <1>6, <1>7
<1>9. ASSUME NEW i \in DOMAIN r, i # k
      PROVE  from(i) \in DOMAIN q /\ r[i] = q[from(i)] /\ i \in Nat
  <2>1. CASE i < k
    BY <1>1, <1>6, <1>7, <1>8, <2>1
  <2>2. CASE ~(i < k)
    <3>1. i - k \in 1 .. Len(q) - k + 1 /\ ~(i <= k) /\ k - 1 + (i - k) = i - 1
      BY <1>1, <1>8, <1>9, <2>2
    <3>2. r[i] = q[i - 1]
      BY <1>3, <1>7, <1>8, <3>1
    <3> QED BY <1>1, <1>8, <1>9, <2>2, <3>2
  <2> QED BY <2>1, <2>2
<1>10. ASSUME NEW i \in DOMAIN q
       PROVE  to(i) \in DOMAIN r /\ r[to(i)] = q[i]
  <2>1. to(i) \in DOMAIN r /\ to(i) # k /\ from(to(i)) = i
    BY <1>1, <1>8
  <2> HIDE DEF to, from
  <2> QED BY <1>9, <2>1
<1>11. For(t, r, ws)
  <2> SUFFICES ASSUME NEW i \in DOMAIN r, r[i].hwnd \in ws
               PROVE  FirstOwner[r[i].hwnd] = t
    BY DEF For
  <2>1. CASE i = k
    BY <1>8, <2>1
  <2>2. CASE i # k
    <3> HIDE DEF from
    <3> QED BY <1>9, <2>2 DEF QueueOK, For
  <2> QED BY <2>1, <2>2
<1>12. ASSUME NEW i \in DOMAIN r, NEW j \in DOMAIN r, i < j
       PROVE  /\ r[i].type \in {"timer", "paint", "size"} => r[i] # r[j]
              /\ r[i].type = "setcursor" =>
                   ~(r[j].type = "setcursor" /\ r[j].hwnd = r[i].hwnd)
  <2>1. CASE i = k
    <3>1. j # k
      BY <1>12, <1>8, <2>1
    <3>2. from(j) \in DOMAIN q /\ r[j] = q[from(j)]
      BY <1>9, <3>1
    <3> HIDE DEF from
    <3> QED BY <1>8, <2>1, <3>2 DEF MayFollow, Has
  <2>2. CASE j = k
    <3>1. i # k
      BY <1>12, <1>8, <2>2
    <3>2. from(i) \in DOMAIN q /\ r[i] = q[from(i)]
      BY <1>9, <3>1
    <3> HIDE DEF from
    <3> QED BY <1>8, <2>2, <3>2 DEF MayFollow, Has
  <2>3. CASE i # k /\ j # k
    <3>1. /\ from(i) \in DOMAIN q /\ r[i] = q[from(i)]
          /\ from(j) \in DOMAIN q /\ r[j] = q[from(j)]
      BY <1>9, <2>3
    <3>2. from(i) < from(j)
      BY <1>1, <1>8, <1>12, <2>3
    <3> HIDE DEF from
    <3> QED BY <3>1, <3>2 DEF QueueOK, Single
  <2> QED BY <2>1, <2>2, <2>3
<1>13. \A x, y : Has(q, x, y) => Has(r, x, y)
  <2> HIDE DEF to
  <2> QED BY <1>10 DEF Has
<1>14. \A x, y : y # "setcursor" => (Has(r, x, y) => Has(q, x, y))
  <2> HIDE DEF from
  <2> QED BY <1>8, <1>9 DEF Has
<1> QED BY <1>4, <1>7, <1>11, <1>12, <1>13, <1>14 DEF QueueOK, Single, Quits

\* Messages behind those of a queue, none of which is there yet.
LEMMA ConcatOK ==
  ASSUME NEW t, NEW ws, NEW q, QueueOK(t, q, ws), NEW more \in Seq(Messages),
         \A i \in DOMAIN more : more[i].type = "timer" /\ more[i] \notin ToSet(q),
         \A i, j \in DOMAIN more : more[i] = more[j] => i = j,
         For(t, more, ws)
  PROVE  QueueOK(t, q \o more, ws) /\ (Quits(q) => Quits(q \o more))
<1> DEFINE r == q \o more
           n == Len(q)
<1>1. /\ q \in Seq(Messages) /\ n \in Nat /\ DOMAIN q = 1 .. n
      /\ Len(more) \in Nat /\ DOMAIN more = 1 .. Len(more)
  BY DEF QueueOK
<1>2. r \in Seq(Messages) /\ DOMAIN r = 1 .. n + Len(more)
  BY <1>1, ConcatProperties
<1>3. \A i \in 1 .. n + Len(more) : r[i] = IF i <= n THEN q[i] ELSE more[i - n]
  BY <1>1, ConcatProperties
<1> HIDE DEF r, n
<1>4. ASSUME NEW i \in DOMAIN r
      PROVE  IF i <= n THEN i \in DOMAIN q /\ r[i] = q[i]
             ELSE i - n \in DOMAIN more /\ r[i] = more[i - n]
  BY <1>1, <1>2, <1>3
<1>5. For(t, r, ws)
  <2> SUFFICES ASSUME NEW i \in DOMAIN r, r[i].hwnd \in ws PROVE FirstOwner[r[i].hwnd] = t
    BY DEF For
  <2> QED BY <1>4 DEF QueueOK, For
<1>6. ASSUME NEW i \in DOMAIN r, NEW j \in DOMAIN r, i < j
      PROVE  /\ r[i].type \in {"timer", "paint", "size"} => r[i] # r[j]
             /\ r[i].type = "setcursor" =>
                  ~(r[j].type = "setcursor" /\ r[j].hwnd = r[i].hwnd)
  <2>1. CASE j <= n
    <3>1. i <= n
      BY <1>1, <1>2, <1>6, <2>1
    <3>2. i \in DOMAIN q /\ j \in DOMAIN q /\ r[i] = q[i] /\ r[j] = q[j]
      BY <1>4, <2>1, <3>1
    <3> QED BY <1>6, <3>2 DEF QueueOK, Single
  <2>2. CASE ~(j <= n) /\ i <= n
    <3>1. i \in DOMAIN q /\ r[i] = q[i] /\ j - n \in DOMAIN more /\ r[j] = more[j - n]
      BY <1>4, <2>2
    <3>2. q[i] \in ToSet(q) /\ more[j - n] \notin ToSet(q) /\ more[j - n].type = "timer"
      BY <3>1 DEF ToSet
    <3> QED BY <3>1, <3>2
  <2>3. CASE ~(i <= n) /\ ~(j <= n)
    <3>1. /\ i - n \in DOMAIN more /\ r[i] = more[i - n]
          /\ j - n \in DOMAIN more /\ r[j] = more[j - n]
      BY <1>4, <2>3
    <3>2. i - n # j - n
      BY <1>1, <1>2, <1>6
    <3> QED BY <3>1, <3>2
  <2> QED BY <2>1, <2>2, <2>3
<1>7. Quits(q) => Quits(r)
  <2> SUFFICES ASSUME NEW i \in DOMAIN q, q[i].hwnd = NoWindow, q[i].type = "quit"
               PROVE  Quits(r)
    BY DEF Quits, Has
  <2>1. i \in DOMAIN r /\ i <= n
    BY <1>1, <1>2
  <2> QED BY <1>4, <2>1 DEF Quits, Has
<1>8. Single(r)
  BY <1>6 DEF Single
<1> QED BY <1>2, <1>5, <1>7, <1>8 DEF QueueOK, r

LEMMA SetToSeqIs ==
  ASSUME NEW T, IsFiniteSet(T)
  PROVE  /\ SetToSeq(T) \in Seq(T) /\ (SetToSeq(T) = <<>> => T = {})
         /\ \A i, j \in DOMAIN SetToSeq(T) : SetToSeq(T)[i] = SetToSeq(T)[j] => i = j
<1>1. Cardinality(T) \in Nat /\ \E f \in [1 .. Cardinality(T) -> T] : IsInjective(f)
  BY FS_CardinalityType DEF ExistsBijection, Bijection, Injection, IsInjective
<1>2. SetToSeq(T) \in [1 .. Cardinality(T) -> T] /\ IsInjective(SetToSeq(T))
  BY <1>1 DEF SetToSeq
<1>3. SetToSeq(T) = <<>> => T = {}
  <2>1. SetToSeq(T) = <<>> => 1 .. Cardinality(T) = {}
    BY <1>2
  <2>2. 1 .. Cardinality(T) = {} => Cardinality(T) = 0
    BY <1>1
  <2> QED BY <2>1, <2>2, FS_EmptySet
<1> DEFINE r == SetToSeq(T)
<1> HIDE DEF r
<1>4. r \in Seq(T) /\ \A i, j \in DOMAIN r : r[i] = r[j] => i = j
  BY <1>1, <1>2 DEF IsInjective, r
<1> QED BY <1>3, <1>4 DEF r

----------------------------------------------------------------------------
(* What is always true: how the timers, the UI thread's doings and the calls fit *)
(* the windows and the queues. *)

QueuesOK == \A t \in Threads : QueueOK(t, queue[t], windows)

\* A timer belongs to the thread of its window, and there are finitely many.
TimersOK ==
  /\ IsFiniteSet(DOMAIN timers)
  /\ \A i \in DOMAIN timers :
       timers[i].hwnd \in windows => timers[i].owner = FirstOwner[timers[i].hwnd]

LEMMA TimersQueued ==
  ASSUME TypeOK, TimersOK, NEW t \in Threads, NEW q, QueueOK(t, q, windows)
  PROVE  /\ QueueOK(t, WithTimers(t, q), windows)
         /\ Quits(q) => Quits(WithTimers(t, q))
         /\ WithTimers(t, q) = <<>> => q = <<>> /\ Expired(t) = {}
<1> DEFINE msgs == {Msg(timers[i].hwnd, "timer", i) : i \in Expired(t)}
           new  == msgs \ ToSet(q)
           r    == SetToSeq(new)
<1>1. IsFiniteSet(new)
  <2>1. IsFiniteSet(Expired(t))
    BY FS_Subset DEF TimersOK, Expired
  <2>2. IsFiniteSet(msgs)
    <3> DEFINE f == [i \in Expired(t) |-> Msg(timers[i].hwnd, "timer", i)]
    <3>1. f \in Surjection(Expired(t), msgs)
      BY DEF Surjection
    <3> HIDE DEF f, msgs
    <3> QED BY <2>1, <3>1, FS_Surjection
  <2> HIDE DEF msgs
  <2> QED BY <2>2, FS_Subset
<1>2. /\ r \in Seq(new) /\ (r = <<>> => new = {})
      /\ \A i, j \in DOMAIN r : r[i] = r[j] => i = j
  <2> HIDE DEF new
  <2> QED BY <1>1, SetToSeqIs
<1>3. ASSUME NEW m \in msgs
      PROVE  /\ m \in Messages /\ m.type = "timer"
             /\ m.hwnd \in windows => FirstOwner[m.hwnd] = t
  <2>1. PICK i \in Expired(t) : m = Msg(timers[i].hwnd, "timer", i)
    OBVIOUS
  <2>2. i \in DOMAIN timers /\ i \in TimerIds /\ timers[i].owner = t
        /\ timers[i].hwnd \in Windows \cup {NoWindow}
    BY <2>1 DEF Expired, TypeOK
  <2> QED BY <2>1, <2>2 DEF Msg, Messages, TimersOK
<1>4. WithTimers(t, q) = q \o r
  BY DEF WithTimers
<1>5. \A i \in DOMAIN r : r[i] \in msgs /\ r[i] \notin ToSet(q)
  <2>1. \A i \in DOMAIN r : r[i] \in new
    <3> HIDE DEF new, r
    <3> QED BY <1>2
  <2> HIDE DEF r, msgs
  <2> QED BY <2>1
<1>6. r \in Seq(Messages)
  <2>1. new \subseteq Messages
    BY <1>3
  <2> HIDE DEF new, r
  <2> QED BY <1>2, <2>1
<1> HIDE DEF r, new
<1>7. For(t, r, windows) /\ \A i \in DOMAIN r : r[i].type = "timer" /\ r[i] \notin ToSet(q)
  BY <1>3, <1>5 DEF For
<1>8. QueueOK(t, q \o r, windows) /\ (Quits(q) => Quits(q \o r))
  BY <1>2, <1>6, <1>7, ConcatOK
<1>9. ASSUME q \o r = <<>> PROVE q = <<>> /\ Expired(t) = {}
  <2>1. q \in Seq(Messages) /\ q = <<>> /\ r = <<>>
    BY <1>6, <1>9 DEF QueueOK
  <2>2. msgs = {}
    <3>1. ToSet(q) = {}
      BY <2>1 DEF ToSet
    <3> QED BY <1>2, <2>1, <3>1 DEF new
  <2> QED BY <2>1, <2>2
<1> QED BY <1>4, <1>8, <1>9

\* A window's event on its way is for the thread of the window, and only an event that
\* goes on to a WM_MOUSELEAVE has a thread to wake for what it has queued before.
UIOK ==
  ui.step \in {"move", "click", "othermouse", "button", "post", "size", "leave"} =>
    /\ ui.hwnd \in windows => FirstOwner[ui.hwnd] = ui.tid
    /\ ui.step # "leave" => ui.wake = <<>>

\* A thread that sleeps or is about to has nothing to do, or it is known that it has.
Sleeping(t) == Parked(t) \/ parking = t
Noticed ==
  \A t \in Threads : Sleeping(t) =>
    \/ queue[t] = <<>> /\ Owned(t) \cap needsPaint = {}
    \/ t \in unwoken \/ BeingWoken(t)

QueueInv ==
  /\ TypeOK /\ QueuesOK /\ TimersOK /\ UIOK
  /\ LastWindowQuits /\ Noticed /\ TimersWake

LEMMA QueueInvStarts == ASSUME Init PROVE QueueInv
<1> USE MessageAssumption DEF Init
<1>1. TypeOK
  BY DEF TypeOK, Doings, UIIdle, NoWindow
<1>2. QueuesOK
  <2>1. \A t \in Threads : queue[t] = <<>>
    OBVIOUS
  <2> QED BY <2>1 DEF QueuesOK, QueueOK, For, Single
<1>3. TimersOK
  BY FS_EmptySet DEF TimersOK
<1>4. UIOK
  BY DEF UIOK, UIIdle
<1>5. LastWindowQuits
  BY DEF LastWindowQuits, Owned
<1>6. Noticed /\ TimersWake
  BY DEF Noticed, Sleeping, Parked, TimersWake
<1> QED BY <1>1, <1>2, <1>3, <1>4, <1>5, <1>6 DEF QueueInv

----------------------------------------------------------------------------
(* What a step may do to the queues. *)

QueueStep ==
  /\ queue' \in [Threads -> Seq(Messages)]
  /\ \A t \in Threads :
       /\ QueueOK(t, queue'[t], windows')
       /\ Quits(queue[t]) => Quits(queue'[t]) \/ t = 0 \/ t \in quitSeen'

LEMMA OneQueue ==
  ASSUME TypeOK, QueuesOK, windows' = windows, NEW t \in Threads, NEW q,
         queue' = [queue EXCEPT ![t] = q], QueueOK(t, q, windows),
         Quits(queue[t]) => Quits(q) \/ t = 0 \/ t \in quitSeen'
  PROVE  QueueStep
<1>1. queue \in [Threads -> Seq(Messages)] /\ q \in Seq(Messages)
  BY DEF TypeOK, QueueOK
<1>2. \A u \in Threads : queue'[u] = IF u = t THEN q ELSE queue[u]
  BY <1>1
<1>3. queue' \in [Threads -> Seq(Messages)]
  BY <1>1
<1> QED BY <1>2, <1>3 DEF QueueStep, QueuesOK

LEMMA SameQueues ==
  ASSUME TypeOK, QueuesOK, UNCHANGED <<queue, windows>>
  PROVE  QueueStep
BY DEF QueueStep, QueuesOK, TypeOK

\* As long as no window goes, that is all there is to it.
LEMMA QueuesStay ==
  ASSUME QueueInv, QueueStep, windows' = windows, quitSeen \subseteq quitSeen'
  PROVE  QueuesOK' /\ LastWindowQuits'
<1>1. QueuesOK'
  BY DEF QueueStep, QueuesOK, QueueOK, For, Single
<1>2. LastWindowQuits'
  BY DEF QueueInv, LastWindowQuits, QueueStep, Quits, Owned, Has
<1> QED BY <1>1, <1>2

\* A call of a guest thread that does not wait: whoever sleeps on was asleep, and has
\* no more to do than before, or it is known.
GuestSleeps ==
  /\ parking = Never /\ UNCHANGED <<parking, ui, call, deadline>>
  /\ \A t \in Threads : ~ready'[t] => ~ready[t] /\ (t \in unwoken => t \in unwoken')
  /\ \A t \in Threads : ~ready'[t] /\ t \notin unwoken' =>
       /\ queue[t] = <<>> => queue'[t] = <<>>
       /\ Owned(t)' \cap needsPaint' \subseteq Owned(t) \cap needsPaint
       /\ \A i \in DOMAIN timers' :
            timers'[i].owner = t => i \in DOMAIN timers /\ timers'[i] = timers[i]

LEMMA SleepOn ==
  ASSUME QueueInv, GuestSleeps
  PROVE  Noticed' /\ TimersWake'
<1>1. ASSUME NEW t \in Threads, Sleeping(t)', t \notin unwoken'
      PROVE  Parked(t) /\ t \notin unwoken /\ ~ready'[t]
  BY <1>1, MessageAssumption DEF GuestSleeps, Sleeping, Parked
<1>2. Noticed'
  <2> SUFFICES ASSUME NEW t \in Threads, Sleeping(t)', t \notin unwoken', ~BeingWoken(t)'
               PROVE  (queue[t] = <<>> /\ Owned(t) \cap needsPaint = {})'
    BY DEF Noticed
  <2>1. Parked(t) /\ t \notin unwoken /\ ~ready'[t]
    BY <1>1
  <2>2. ~BeingWoken(t)
    BY DEF GuestSleeps, BeingWoken
  <2>3. queue[t] = <<>> /\ Owned(t) \cap needsPaint = {}
    BY <2>1, <2>2 DEF QueueInv, Noticed, Sleeping
  <2> QED BY <2>1, <2>3 DEF GuestSleeps
<1>3. TimersWake'
  <2> SUFFICES ASSUME NEW t \in Threads, NEW i \in DOMAIN timers', Parked(t)',
                      timers'[i].owner = t, t \notin unwoken'
               PROVE  deadline'[t] # Never /\ deadline'[t] <= timers'[i].due
    BY DEF TimersWake
  <2>1. Parked(t) /\ t \notin unwoken /\ ~ready'[t]
    BY <1>1 DEF Sleeping
  <2>2. i \in DOMAIN timers /\ timers'[i] = timers[i] /\ deadline' = deadline
    BY <2>1 DEF GuestSleeps
  <2> QED BY <2>1, <2>2 DEF QueueInv, TimersWake
<1> QED BY <1>2, <1>3

LEMMA RestStays ==
  ASSUME QueueInv
  PROVE  /\ UNCHANGED <<windows, ui>> => UIOK'
         /\ UNCHANGED <<windows, timers>> => TimersOK'
BY DEF QueueInv, UIOK, TimersOK

----------------------------------------------------------------------------
(* Calls of the guest that do not block. *)

LEMMA PostKeeps ==
  ASSUME QueueInv, parking = Never, NEW t \in Threads, NEW m \in Messages,
         m.hwnd \in windows => FirstOwner[m.hwnd] = t, m.type \in {"post", "quit"}, Post(t, m)
  PROVE  QueueInv'
<1>1. TypeOK /\ QueuesOK /\ QueueOK(t, queue[t], windows)
  BY DEF QueueInv, QueuesOK
<1>2. /\ QueueOK(t, Append(queue[t], m), windows)
      /\ Quits(queue[t]) => Quits(Append(queue[t], m))
  BY <1>1, AppendOK DEF MayFollow
<1>3. /\ queue' = [queue EXCEPT ![t] = Append(queue[t], m)]
      /\ UNCHANGED <<timers, windows, needsPaint, quitSeen, call, parking, deadline>>
      /\ UNCHANGED <<hostWindows, mouse, lastSent, lastMoved, track, ui, inputs>>
      /\ UNCHANGED now
      /\ ready' = [ready EXCEPT ![t] = TRUE] /\ unwoken' = unwoken \ {t}
  BY DEF Post, WakeUp, Woken, host
<1>4. QueueStep
  BY <1>1, <1>2, <1>3, OneQueue
<1>5. TypeOK'
  <2>1. queue' \in [Threads -> Seq(Messages)]
    BY <1>4 DEF QueueStep
  <2> QED BY <1>1, <1>3, <2>1 DEF TypeOK
<1>6. GuestSleeps
  BY <1>1, <1>3 DEF GuestSleeps, TypeOK, Owned
<1> QED BY <1>3, <1>4, <1>5, <1>6, QueuesStay, SleepOn, RestStays DEF QueueInv

LEMMA PostMessageKeeps ==
  ASSUME QueueInv, parking = Never, NEW s \in Threads, PostMessage(s)
  PROVE  QueueInv'
<1>1. ASSUME NEW w \in Windows, Post(Owner(w), Msg(w, "post", Never)) PROVE QueueInv'
  <2>1. /\ Msg(w, "post", Never) \in Messages /\ Msg(w, "post", Never).hwnd = w
        /\ Msg(w, "post", Never).type = "post"
    BY DEF Msg, Messages
  <2>2. Owner(w) \in Threads /\ (w \in windows => FirstOwner[w] = Owner(w))
    BY MessageAssumption DEF Owner
  <2> QED BY <1>1, <2>1, <2>2, PostKeeps
<1>2. ASSUME Post(s, Msg(NoWindow, "post", Never)) PROVE QueueInv'
  <2>1. /\ Msg(NoWindow, "post", Never) \in Messages
        /\ Msg(NoWindow, "post", Never).hwnd = NoWindow /\ NoWindow \notin windows
        /\ Msg(NoWindow, "post", Never).type = "post"
    BY MessageAssumption DEF Msg, Messages, NoWindow, QueueInv, TypeOK
  <2> QED BY <1>2, <2>1, PostKeeps
<1> QED BY <1>1, <1>2 DEF PostMessage

LEMMA PostThreadKeeps ==
  ASSUME QueueInv, parking = Never, NEW s \in Threads, PostThreadMessage(s) \/ PostQuit(s)
  PROVE  QueueInv'
<1>1. ASSUME NEW type \in {"post", "quit"}
      PROVE  /\ Msg(NoWindow, type, Never) \in Messages
             /\ Msg(NoWindow, type, Never).hwnd = NoWindow /\ NoWindow \notin windows
             /\ Msg(NoWindow, type, Never).type = type
  BY MessageAssumption DEF Msg, Messages, NoWindow, QueueInv, TypeOK
<1>2. \A id \in Threads \cup {1} : Key(id) \in Threads
  BY MessageAssumption DEF Key
<1>3. CASE PostThreadMessage(s)
  BY <1>1, <1>2, <1>3, PostKeeps DEF PostThreadMessage
<1>4. CASE PostQuit(s)
  BY <1>1, <1>4, PostKeeps DEF PostQuit
<1> QED BY <1>3, <1>4

LEMMA QueueOnlyKeeps ==
  ASSUME QueueInv, parking = Never, NEW ws \in SUBSET Windows, QueueOnly(ws)
  PROVE  QueueInv'
<1>1. PICK w \in ws :
        /\ queue' = [queue EXCEPT ![Owner(w)] = Append(@, Msg(w, "post", Never))]
        /\ unwoken' = IF ready[Owner(w)] THEN unwoken ELSE unwoken \cup {Owner(w)}
  BY DEF QueueOnly
<1> DEFINE t == Owner(w)
           m == Msg(w, "post", Never)
<1>2. /\ UNCHANGED <<timers, windows, needsPaint, quitSeen, call, parking, ready, deadline>>
      /\ UNCHANGED <<hostWindows, mouse, lastSent, lastMoved, track, ui, inputs>>
      /\ UNCHANGED now
  BY DEF QueueOnly, host
<1>3. TypeOK /\ QueuesOK /\ w \in Windows
  BY DEF QueueInv
<1>4. t \in Threads /\ (w \in windows => FirstOwner[w] = t)
  BY <1>3, MessageAssumption DEF Owner
<1>5. m \in Messages /\ m.hwnd = w /\ m.type = "post"
  BY <1>3 DEF Msg, Messages
<1>6. queue' = [queue EXCEPT ![t] = Append(queue[t], m)]
      /\ unwoken' = IF ready[t] THEN unwoken ELSE unwoken \cup {t}
  BY <1>1
<1> HIDE DEF t, m
<1>7. /\ QueueOK(t, Append(queue[t], m), windows)
      /\ Quits(queue[t]) => Quits(Append(queue[t], m))
  BY <1>3, <1>4, <1>5, AppendOK DEF MayFollow, QueuesOK
<1>8. QueueStep
  BY <1>2, <1>3, <1>4, <1>6, <1>7, OneQueue
<1>9. TypeOK'
  <2>1. queue' \in [Threads -> Seq(Messages)]
    BY <1>8 DEF QueueStep
  <2> QED BY <1>2, <1>3, <1>4, <1>6, <2>1 DEF TypeOK
<1>10. GuestSleeps
  BY <1>2, <1>3, <1>6 DEF GuestSleeps, TypeOK, Owned
<1> QED BY <1>2, <1>8, <1>9, <1>10, QueuesStay, SleepOn, RestStays DEF QueueInv

LEMMA TranslateKeeps ==
  ASSUME QueueInv, parking = Never, NEW s \in Threads, TranslateMessage(s) \/ DefWindowProc(s)
  PROVE  QueueInv'
<1>1. Owned(s) \cup (Windows \ windows) \subseteq Windows
  BY DEF QueueInv, TypeOK, Owned
<1> QED BY <1>1, QueueOnlyKeeps DEF TranslateMessage, DefWindowProc

LEMMA SetTimerKeeps ==
  ASSUME QueueInv, parking = Never, NEW s \in Threads, SetTimer(s)
  PROVE  QueueInv'
<1>1. PICK w \in windows \cup {NoWindow}, i \in TimerIds :
        /\ timers' = [j \in DOMAIN timers \cup {i} |->
              IF j = i THEN [hwnd |-> w, owner |-> Owner(w), elapse |-> 1, due |-> now + 1]
              ELSE timers[j]]
        /\ unwoken' = IF ready[Owner(w)] THEN unwoken ELSE unwoken \cup {Owner(w)}
  BY DEF SetTimer
<1>2. /\ UNCHANGED <<queue, windows, needsPaint, quitSeen, call, parking, ready, deadline>>
      /\ UNCHANGED <<hostWindows, mouse, lastSent, lastMoved, track, ui, inputs>>
      /\ UNCHANGED now
  BY DEF SetTimer, host
<1>3. TypeOK /\ QueuesOK /\ TimersOK
  BY DEF QueueInv
<1>4. Owner(w) \in Threads /\ (w \in windows => FirstOwner[w] = Owner(w))
  BY <1>3, MessageAssumption DEF Owner, TypeOK
<1>5. QueueStep
  BY <1>2, <1>3, SameQueues
<1>6. /\ DOMAIN timers' = DOMAIN timers \cup {i}
      /\ timers'[i] = [hwnd |-> w, owner |-> Owner(w), elapse |-> 1, due |-> now + 1]
      /\ \A j \in DOMAIN timers : j # i => timers'[j] = timers[j]
  BY <1>1
<1>7. TypeOK'
  <2>1. now + 1 \in Nat /\ DOMAIN timers' \subseteq TimerIds
    BY <1>3, <1>6, MessageAssumption DEF TypeOK
  <2>2. \A j \in DOMAIN timers' : timers'[j] \in
          [hwnd : windows \cup {NoWindow}, owner : Threads, elapse : Nat, due : Nat]
    BY <1>3, <1>4, <1>6, <2>1 DEF TypeOK
  <2> QED BY <1>1, <1>2, <1>3, <1>4, <2>1, <2>2 DEF TypeOK
<1>8. TimersOK'
  <2>1. IsFiniteSet(DOMAIN timers')
    BY <1>3, <1>6, FS_AddElement DEF TimersOK
  <2> QED BY <1>2, <1>3, <1>4, <1>6, <2>1 DEF TimersOK
<1>9. GuestSleeps
  BY <1>1, <1>2, <1>3, <1>4, <1>6 DEF GuestSleeps, TypeOK, Owned
<1> QED BY <1>2, <1>5, <1>7, <1>8, <1>9, QueuesStay, SleepOn, RestStays DEF QueueInv

\* Fewer timers are no trouble.
LEMMA TimersLess ==
  ASSUME TimersOK, TypeOK, DOMAIN timers' \subseteq DOMAIN timers,
         \A i \in DOMAIN timers' : timers'[i] = timers[i], windows' \subseteq windows
  PROVE  TimersOK'
<1>1. IsFiniteSet(DOMAIN timers')
  BY FS_Subset DEF TimersOK
<1> QED BY <1>1 DEF TimersOK

LEMMA KillTimerKeeps ==
  ASSUME QueueInv, parking = Never, NEW s \in Threads, KillTimer(s)
  PROVE  QueueInv'
<1>1. PICK i \in DOMAIN timers : timers' = [j \in DOMAIN timers \ {i} |-> timers[j]]
  BY DEF KillTimer
<1>2. /\ UNCHANGED <<queue, windows, needsPaint, quitSeen, call, parking, ready, deadline, unwoken>>
      /\ UNCHANGED <<hostWindows, mouse, lastSent, lastMoved, track, ui, inputs>>
      /\ UNCHANGED now
  BY DEF KillTimer, host, waits
<1>3. TypeOK /\ QueuesOK /\ TimersOK
  BY DEF QueueInv
<1>4. QueueStep
  BY <1>2, <1>3, SameQueues
<1>5. DOMAIN timers' \subseteq DOMAIN timers /\ \A j \in DOMAIN timers' : timers'[j] = timers[j]
  BY <1>1
<1>6. TypeOK'
  BY <1>2, <1>3, <1>5 DEF TypeOK
<1>7. TimersOK'
  BY <1>2, <1>3, <1>5, TimersLess
<1>8. GuestSleeps
  BY <1>2, <1>3, <1>5 DEF GuestSleeps, TypeOK, Owned
<1> QED BY <1>2, <1>4, <1>6, <1>7, <1>8, QueuesStay, SleepOn, RestStays DEF QueueInv
LEMMA QuitQueuedOK ==
  ASSUME NEW t, NEW ws, NoWindow \notin ws, NEW q, QueueOK(t, q, ws)
  PROVE  QueueOK(t, QuitQueued(q), ws) /\ Quits(QuitQueued(q))
<1> DEFINE m == Msg(NoWindow, "quit", Never)
<1>1. m \in Messages /\ m.hwnd = NoWindow /\ m.type = "quit"
  BY DEF Msg, Messages
<1>2. QuitQueued(q) = IF Quits(q) THEN q ELSE Append(q, m)
  BY DEF QuitQueued, Quits
<1> HIDE DEF m
<1>3. CASE Quits(q)
  BY <1>2, <1>3
<1>4. CASE ~Quits(q)
  <2>1. QueueOK(t, Append(q, m), ws)
    BY <1>1, AppendOK DEF MayFollow
  <2>2. Append(q, m)[Len(q) + 1] = m /\ Len(q) + 1 \in DOMAIN Append(q, m)
    BY <1>1 DEF QueueOK
  <2>3. Quits(Append(q, m))
    BY <1>1, <2>2 DEF Quits, Has
  <2> QED BY <1>2, <1>4, <2>1, <2>3
<1> QED BY <1>3, <1>4

\* What is left of a queue when the messages of a window are gone.
LEMMA PurgedIs ==
  ASSUME QueueInv, NEW w \in windows, NEW t \in Threads
  PROVE  /\ QueueOK(t, Purged(w)[t], windows \ {w})
         /\ Quits(queue[t]) => Quits(Purged(w)[t])
         /\ queue[t] = <<>> => Purged(w)[t] = <<>>
<1> DEFINE q    == queue[t]
           gone == {m \in ToSet(q) : m.hwnd = w}
           r    == Without(q, gone)
<1>1. q \in Seq(Messages) /\ QueueOK(t, q, windows) /\ w # NoWindow
  BY MessageAssumption DEF QueueInv, QueuesOK, QueueOK, NoWindow, TypeOK
<1>2. Purged(w)[t] = r
  BY DEF Purged
<1>3. \A i \in DOMAIN q : q[i] \in gone <=> q[i].hwnd = w
  BY DEF ToSet
<1> HIDE DEF q, gone
<1>4. /\ r \in Seq(Messages) /\ Drawn(r, q)
      /\ \A k \in DOMAIN q : q[k] \in gone \/ \E i \in DOMAIN r : r[i] = q[k]
  BY <1>1, WithoutIs
<1> HIDE DEF r
<1>5. QueueOK(t, r, windows)
  BY <1>1, <1>4, DrawnOK
<1>6. QueueOK(t, r, windows \ {w})
  BY <1>5 DEF QueueOK, For
<1>7. Quits(q) => Quits(r)
  BY <1>1, <1>3, <1>4 DEF Quits, Has
<1>8. q = <<>> => r = <<>>
  <2> SUFFICES ASSUME q = <<>> PROVE r = <<>>
    OBVIOUS
  <2>1. DOMAIN q = {}
    OBVIOUS
  <2>2. DOMAIN r = {}
    BY <1>4, <2>1 DEF Drawn
  <2>3. Len(r) \in Nat /\ DOMAIN r = 1 .. Len(r)
    BY <1>4
  <2>4. Len(r) = 0
    BY <2>2, <2>3
  <2> QED BY <1>4, <2>4, EmptySeq
<1> QED BY <1>2, <1>6, <1>7, <1>8 DEF q

LEMMA DestroyWindowKeeps ==
  ASSUME QueueInv, parking = Never, NEW s \in Threads, DestroyWindow(s)
  PROVE  QueueInv'
<1>1. PICK w \in windows :
        /\ timers' = TimersLeft(w)
        /\ windows' = windows \ {w} /\ needsPaint' = needsPaint \ {w}
        /\ IF Orphaned(w)
           THEN queue' = [Purged(w) EXCEPT ![FirstOwner[w]] = QuitQueued(@)]
                /\ WakeUp(FirstOwner[w])
           ELSE queue' = Purged(w) /\ UNCHANGED <<ready, unwoken>>
  BY DEF DestroyWindow
<1> DEFINE t == FirstOwner[w]
           q == Purged(w)
<1>2. /\ UNCHANGED <<quitSeen, call, parking, deadline>>
      /\ UNCHANGED <<hostWindows, mouse, lastSent, lastMoved, track, ui, inputs>>
      /\ UNCHANGED now
  BY DEF DestroyWindow, host
<1>3. TypeOK /\ QueuesOK /\ TimersOK /\ UIOK /\ LastWindowQuits
  BY DEF QueueInv
<1>4. t \in Threads /\ NoWindow \notin windows'
  BY <1>1, <1>3, MessageAssumption DEF TypeOK, NoWindow
<1>5. \A u \in Threads :
        /\ QueueOK(u, q[u], windows')
        /\ Quits(queue[u]) => Quits(q[u])
        /\ queue[u] = <<>> => q[u] = <<>>
  <2> HIDE DEF q
  <2> QED BY <1>1, PurgedIs DEF q
<1>6. DOMAIN q = Threads
  BY DEF Purged
<1>7. /\ DOMAIN queue' = Threads
      /\ \A u \in Threads : queue'[u] = IF Orphaned(w) /\ u = t THEN QuitQueued(q[u]) ELSE q[u]
      /\ queue' = [u \in Threads |-> queue'[u]]
  <2>1. queue' = IF Orphaned(w) THEN [q EXCEPT ![t] = QuitQueued(q[t])] ELSE q
    BY <1>1
  <2>2. q = [u \in Threads |-> q[u]]
    BY DEF Purged
  <2> HIDE DEF q, t
  <2> QED BY <1>4, <1>6, <2>1, <2>2
<1>8. /\ ready' = IF Orphaned(w) THEN [ready EXCEPT ![t] = TRUE] ELSE ready
      /\ unwoken' = IF Orphaned(w) THEN unwoken \ {t} ELSE unwoken
  BY <1>1 DEF WakeUp, Woken
<1> HIDE DEF q
<1>9. \A u \in Threads :
        /\ QueueOK(u, queue'[u], windows')
        /\ Quits(queue[u]) => Quits(queue'[u])
  BY <1>4, <1>5, <1>7, QuitQueuedOK
<1>10. QueuesOK' /\ queue' \in [Threads -> Seq(Messages)]
  <2>1. \A u \in Threads : queue'[u] \in Seq(Messages)
    BY <1>9 DEF QueueOK
  <2>2. queue' \in [Threads -> Seq(Messages)]
    BY <1>7, <2>1
  <2>3. QueuesOK'
    BY <1>9 DEF QueuesOK, QueueOK, For, Single
  <2> QED BY <2>2, <2>3
<1>11. LastWindowQuits'
  <2> SUFFICES ASSUME NEW u \in Threads \ {0}, Owned(u)' = {}, NEW x \in Windows, FirstOwner[x] = u
               PROVE  u \in quitSeen' \/ Quits(queue'[u])
    BY DEF LastWindowQuits, Quits, Has
  <2>1. CASE Owned(u) = {}
    <3>1. u \in quitSeen \/ Quits(queue[u])
      BY <1>3, <2>1 DEF LastWindowQuits, Quits
    <3> QED BY <1>2, <1>9, <3>1
  <2>2. CASE Owned(u) # {}
    <3>1. Owned(u) = {w} /\ t = u
      BY <1>1, <2>2 DEF Owned
    <3>2. Orphaned(w)
      BY <3>1 DEF Orphaned
    <3>3. queue'[u] = QuitQueued(q[u])
      BY <1>7, <3>1, <3>2
    <3>4. QueueOK(u, q[u], windows')
      BY <1>5
    <3>5. Quits(QuitQueued(q[u]))
      BY <1>4, <3>4, QuitQueuedOK
    <3> QED BY <3>3, <3>5
  <2> QED BY <2>1, <2>2
<1>12. DOMAIN timers' \subseteq DOMAIN timers /\ \A i \in DOMAIN timers' :
         timers'[i] = timers[i] /\ timers'[i].hwnd # w
  BY <1>1 DEF TimersLeft
<1>13. TimersOK'
  BY <1>1, <1>3, <1>12, TimersLess
<1>14. TypeOK'
  <2>1. \A i \in DOMAIN timers' : timers'[i] \in
          [hwnd : windows' \cup {NoWindow}, owner : Threads, elapse : Nat, due : Nat]
    BY <1>1, <1>3, <1>12 DEF TypeOK
  <2>2. ready' \in [Threads -> BOOLEAN] /\ unwoken' \subseteq Threads
    BY <1>3, <1>4, <1>8 DEF TypeOK
  <2> QED BY <1>1, <1>2, <1>3, <1>10, <1>12, <2>1, <2>2 DEF TypeOK
<1>15. UIOK'
  BY <1>1, <1>2, <1>3 DEF UIOK
<1>16. GuestSleeps
  <2>1. \A u \in Threads : ~ready'[u] => u # t \/ ~Orphaned(w)
    BY <1>3, <1>4, <1>8 DEF TypeOK
  <2>2. \A u \in Threads : ~ready'[u] => ~ready[u] /\ (u \in unwoken => u \in unwoken')
    BY <1>3, <1>4, <1>8 DEF TypeOK
  <2>3. \A u \in Threads : ~ready'[u] /\ queue[u] = <<>> => queue'[u] = <<>>
    BY <1>5, <1>7, <2>1
  <2>4. \A u \in Threads : Owned(u)' \cap needsPaint' \subseteq Owned(u) \cap needsPaint
    BY <1>1 DEF Owned
  <2> QED BY <1>2, <1>12, <2>2, <2>3, <2>4 DEF GuestSleeps
<1> QED BY <1>10, <1>11, <1>13, <1>14, <1>15, <1>16, SleepOn DEF QueueInv

LEMMA InvalidateRectKeeps ==
  ASSUME QueueInv, parking = Never, NEW s \in Threads, InvalidateRect(s)
  PROVE  QueueInv'
<1>1. PICK w \in windows : needsPaint' = needsPaint \cup {w} /\ WakeUp(Owner(w))
  BY DEF InvalidateRect
<1> DEFINE t == Owner(w)
<1>2. /\ UNCHANGED <<queue, timers, windows, quitSeen, call, parking, deadline>>
      /\ UNCHANGED <<hostWindows, mouse, lastSent, lastMoved, track, ui, inputs>>
      /\ UNCHANGED now
  BY DEF InvalidateRect, host
<1>3. TypeOK /\ QueuesOK
  BY DEF QueueInv
<1>4. t \in Threads /\ FirstOwner[w] = t
  BY <1>3, MessageAssumption DEF Owner, TypeOK
<1>5. ready' = [ready EXCEPT ![t] = TRUE] /\ unwoken' = unwoken \ {t}
  BY <1>1 DEF WakeUp, Woken
<1> HIDE DEF t
<1>6. QueueStep
  BY <1>2, <1>3, SameQueues
<1>7. TypeOK'
  BY <1>1, <1>2, <1>3, <1>5 DEF TypeOK
<1>8. GuestSleeps
  BY <1>1, <1>2, <1>3, <1>4, <1>5 DEF GuestSleeps, TypeOK, Owned
<1> QED BY <1>2, <1>6, <1>7, <1>8, QueuesStay, SleepOn, RestStays DEF QueueInv

LEMMA ScrollWindowExKeeps ==
  ASSUME QueueInv, parking = Never, NEW s \in Threads, ScrollWindowEx(s)
  PROVE  QueueInv'
<1>1. PICK w \in windows :
        /\ needsPaint' = needsPaint \cup {w}
        /\ unwoken' = IF ready[Owner(w)] THEN unwoken ELSE unwoken \cup {Owner(w)}
  BY DEF ScrollWindowEx
<1> DEFINE t == Owner(w)
<1>2. /\ UNCHANGED <<queue, timers, windows, quitSeen, call, parking, ready, deadline>>
      /\ UNCHANGED <<hostWindows, mouse, lastSent, lastMoved, track, ui, inputs>>
      /\ UNCHANGED now
  BY DEF ScrollWindowEx, host
<1>3. TypeOK /\ QueuesOK
  BY DEF QueueInv
<1>4. t \in Threads /\ FirstOwner[w] = t
  BY <1>3, MessageAssumption DEF Owner, TypeOK
<1>5. unwoken' = IF ready[t] THEN unwoken ELSE unwoken \cup {t}
  BY <1>1
<1> HIDE DEF t
<1>6. QueueStep
  BY <1>2, <1>3, SameQueues
<1>7. TypeOK'
  <2>1. needsPaint' \subseteq windows /\ unwoken' \subseteq Threads
    BY <1>1, <1>3, <1>4, <1>5 DEF TypeOK
  <2> QED BY <1>2, <1>3, <2>1 DEF TypeOK
<1>8. GuestSleeps
  BY <1>1, <1>2, <1>3, <1>4, <1>5 DEF GuestSleeps, TypeOK, Owned
<1> QED BY <1>2, <1>6, <1>7, <1>8, QueuesStay, SleepOn, RestStays DEF QueueInv

LEMMA UpdateWindowKeeps ==
  ASSUME QueueInv, parking = Never, NEW s \in Threads, UpdateWindow(s)
  PROVE  QueueInv'
<1>1. PICK w \in needsPaint :
        /\ queue' = IF Has(queue[Owner(w)], w, "paint") THEN queue
                    ELSE [queue EXCEPT ![Owner(w)] = Append(@, Msg(w, "paint", Never))]
        /\ WakeUp(Owner(w))
  BY DEF UpdateWindow
<1> DEFINE t == Owner(w)
           m == Msg(w, "paint", Never)
<1>2. /\ UNCHANGED <<timers, windows, needsPaint, quitSeen, call, parking, deadline>>
      /\ UNCHANGED <<hostWindows, mouse, lastSent, lastMoved, track, ui, inputs>>
      /\ UNCHANGED now
  BY DEF UpdateWindow, host
<1>3. TypeOK /\ QueuesOK
  BY DEF QueueInv
<1>4. t \in Threads /\ w \in windows /\ w \in Windows /\ FirstOwner[w] = t
  BY <1>3, MessageAssumption DEF Owner, TypeOK
<1>5. ready' = [ready EXCEPT ![t] = TRUE] /\ unwoken' = unwoken \ {t}
  BY <1>1 DEF WakeUp, Woken
<1>6. m \in Messages /\ m.hwnd = w /\ m.type = "paint"
  BY <1>4 DEF Msg, Messages
<1>7. queue' = IF Has(queue[t], w, "paint") THEN queue
               ELSE [queue EXCEPT ![t] = Append(queue[t], m)]
  BY <1>1
<1> HIDE DEF t, m
<1>8. QueueStep
  <2>1. CASE Has(queue[t], w, "paint")
    BY <1>2, <1>3, <1>7, <2>1, SameQueues
  <2>2. CASE ~Has(queue[t], w, "paint")
    <3>1. MayFollow(m, queue[t])
      BY <1>6, <2>2 DEF MayFollow, Has, ToSet
    <3>2. /\ QueueOK(t, Append(queue[t], m), windows)
          /\ Quits(queue[t]) => Quits(Append(queue[t], m))
      BY <1>3, <1>4, <1>6, <3>1, AppendOK DEF QueuesOK
    <3> QED BY <1>2, <1>3, <1>4, <1>7, <2>2, <3>2, OneQueue
  <2> QED BY <2>1, <2>2
<1>9. TypeOK'
  <2>1. queue' \in [Threads -> Seq(Messages)]
    BY <1>8 DEF QueueStep
  <2> QED BY <1>2, <1>3, <1>5, <2>1 DEF TypeOK
<1>10. GuestSleeps
  BY <1>2, <1>3, <1>4, <1>5, <1>7 DEF GuestSleeps, TypeOK, Owned
<1> QED BY <1>2, <1>8, <1>9, <1>10, QueuesStay, SleepOn, RestStays DEF QueueInv

LEMMA QuietKeeps ==
  ASSUME QueueInv, parking = Never, NEW s \in Threads, ValidateRect(s) \/ TrackMouseEvent(s)
  PROVE  QueueInv'
<1>1. /\ UNCHANGED <<queue, timers, windows, quitSeen, call, parking, ready, deadline, unwoken>>
      /\ UNCHANGED <<hostWindows, mouse, lastSent, lastMoved, ui, inputs>>
      /\ UNCHANGED now
  BY DEF ValidateRect, TrackMouseEvent, pump, waits, host
<1>2. TypeOK /\ QueuesOK
  BY DEF QueueInv
<1>3. needsPaint' \subseteq needsPaint /\ track' \in Windows \cup {NoWindow}
  BY <1>2 DEF ValidateRect, TrackMouseEvent, pump, host, TypeOK
<1>4. QueueStep
  BY <1>1, <1>2, SameQueues
<1>5. TypeOK'
  BY <1>1, <1>2, <1>3 DEF TypeOK
<1>6. GuestSleeps
  BY <1>1, <1>2, <1>3 DEF GuestSleeps, TypeOK, Owned
<1> QED BY <1>1, <1>4, <1>5, <1>6, QueuesStay, SleepOn, RestStays DEF QueueInv

----------------------------------------------------------------------------
(* Fetching messages. *)

LEMMA RearmedIs ==
  ASSUME TypeOK, TimersOK, NEW t \in Threads, timers' = Rearmed(t), UNCHANGED windows
  PROVE  /\ TimersOK' /\ DOMAIN timers' = DOMAIN timers
         /\ \A i \in DOMAIN timers :
              /\ timers'[i].owner = timers[i].owner
              /\ timers[i].owner # t => timers'[i] = timers[i]
              /\ timers'[i] \in
                   [hwnd : windows \cup {NoWindow}, owner : Threads, elapse : Nat, due : Nat]
<1>1. DOMAIN timers' = DOMAIN timers
  BY DEF Rearmed
<1>2. ASSUME NEW i \in DOMAIN timers
      PROVE  /\ timers'[i].owner = timers[i].owner /\ timers'[i].hwnd = timers[i].hwnd
             /\ timers[i].owner # t => timers'[i] = timers[i]
             /\ timers'[i] \in
                  [hwnd : windows \cup {NoWindow}, owner : Threads, elapse : Nat, due : Nat]
  <2> DEFINE m == timers[i]
  <2>1. m \in [hwnd : windows \cup {NoWindow}, owner : Threads, elapse : Nat, due : Nat]
        /\ now \in Nat
    BY MessageAssumption DEF TypeOK
  <2>2. timers'[i] = IF i \in Expired(t) THEN [m EXCEPT !.due = now + m.elapse] ELSE m
    BY DEF Rearmed
  <2>3. i \in Expired(t) => m.owner = t
    BY DEF Expired
  <2> HIDE DEF m
  <2>4. timers'[i].owner = m.owner /\ timers'[i].hwnd = m.hwnd
        /\ (m.owner # t => timers'[i] = m)
        /\ timers'[i] \in
             [hwnd : windows \cup {NoWindow}, owner : Threads, elapse : Nat, due : Nat]
    BY <2>1, <2>2, <2>3
  <2> QED BY <2>4 DEF m
<1> HIDE DEF Rearmed
<1>3. TimersOK'
  BY <1>1, <1>2 DEF TimersOK
<1> QED BY <1>1, <1>2, <1>3

\* Thread t has fetched or looked, and is not waiting.
FetchStep(t) ==
  /\ parking = Never
  /\ Leave(t) \/ (call[t] = "none" /\ UNCHANGED waits)
  /\ timers' = Rearmed(t)
  /\ needsPaint' \subseteq needsPaint
  /\ quitSeen \subseteq quitSeen' /\ quitSeen' \subseteq Threads
  /\ UNCHANGED <<windows, host, now>>

LEMMA FetchKeeps ==
  ASSUME QueueInv, NEW t \in Threads, FetchStep(t), NEW q, QueueOK(t, q, windows),
         queue' = [queue EXCEPT ![t] = q],
         Quits(queue[t]) => Quits(q) \/ t = 0 \/ t \in quitSeen'
  PROVE  QueueInv'
<1>1. TypeOK /\ QueuesOK /\ TimersOK
  BY DEF QueueInv
<1>2. /\ UNCHANGED <<windows, parking>>
      /\ UNCHANGED <<hostWindows, mouse, lastSent, lastMoved, track, ui, inputs>>
      /\ UNCHANGED now
  BY DEF FetchStep, host, waits, Leave
<1>3. QueueStep
  BY <1>1, <1>2, OneQueue
<1>4. /\ call' \in [Threads -> {"none", "get", "msgwait", "msgforever"}]
      /\ ready' \in [Threads -> BOOLEAN] /\ deadline' \in [Threads -> Nat \cup {Never}]
      /\ unwoken' \subseteq Threads /\ call'[t] = "none"
      /\ \A u \in Threads : u # t =>
           /\ call'[u] = call[u] /\ ready'[u] = ready[u] /\ deadline'[u] = deadline[u]
           /\ u \in unwoken' <=> u \in unwoken
  <2>1. CASE Leave(t)
    BY <1>1, <2>1 DEF Leave, TypeOK
  <2>2. CASE call[t] = "none" /\ UNCHANGED waits
    BY <1>1, <2>2 DEF waits, TypeOK
  <2> QED BY <2>1, <2>2 DEF FetchStep
<1>5. /\ TimersOK' /\ DOMAIN timers' = DOMAIN timers
      /\ \A i \in DOMAIN timers :
           /\ timers'[i].owner = timers[i].owner
           /\ timers[i].owner # t => timers'[i] = timers[i]
           /\ timers'[i] \in
                [hwnd : windows \cup {NoWindow}, owner : Threads, elapse : Nat, due : Nat]
  BY <1>1, <1>2, RearmedIs DEF FetchStep
<1>6. TypeOK'
  <2>1. queue' \in [Threads -> Seq(Messages)]
    BY <1>3 DEF QueueStep
  <2> QED BY <1>1, <1>2, <1>4, <1>5, <2>1 DEF TypeOK, FetchStep
<1>7. Noticed'
  <2> SUFFICES ASSUME NEW u \in Threads, Sleeping(u)', u \notin unwoken', ~BeingWoken(u)'
               PROVE  (queue[u] = <<>> /\ Owned(u) \cap needsPaint = {})'
    BY DEF Noticed
  <2>1. u # t /\ Parked(u) /\ u \notin unwoken /\ ~BeingWoken(u)
    BY <1>2, <1>4, MessageAssumption DEF Sleeping, Parked, FetchStep, BeingWoken
  <2>2. queue[u] = <<>> /\ Owned(u) \cap needsPaint = {}
    BY <2>1 DEF QueueInv, Noticed, Sleeping
  <2>3. queue'[u] = queue[u]
    BY <1>1, <2>1 DEF TypeOK
  <2> QED BY <1>2, <2>2, <2>3 DEF FetchStep, Owned
<1>8. TimersWake'
  <2> SUFFICES ASSUME NEW u \in Threads, NEW i \in DOMAIN timers', Parked(u)',
                      timers'[i].owner = u, u \notin unwoken'
               PROVE  deadline'[u] # Never /\ deadline'[u] <= timers'[i].due
    BY DEF TimersWake
  <2>1. u # t /\ Parked(u) /\ u \notin unwoken
    BY <1>4 DEF Parked
  <2>2. i \in DOMAIN timers /\ timers'[i] = timers[i] /\ deadline'[u] = deadline[u]
    BY <1>4, <1>5, <2>1
  <2> QED BY <2>1, <2>2 DEF QueueInv, TimersWake
<1>9. QueuesOK' /\ LastWindowQuits'
  BY <1>2, <1>3, QueuesStay DEF FetchStep
<1>10. UIOK'
  BY <1>2, RestStays
<1> QED BY <1>5, <1>6, <1>7, <1>8, <1>9, <1>10 DEF QueueInv

LEMMA DeliveredIs ==
  ASSUME TypeOK, NEW t \in Threads, NEW m, Delivered(t, m)
  PROVE  /\ needsPaint' \subseteq needsPaint
         /\ quitSeen \subseteq quitSeen' /\ quitSeen' \subseteq Threads
         /\ m.type = "quit" => t = 0 \/ t \in quitSeen'
BY DEF Delivered, TypeOK

LEMMA GetMessageKeeps ==
  ASSUME QueueInv, NEW t \in Threads, GetMessage(t)
  PROVE  QueueInv'
<1> DEFINE q == WithTimers(t, queue[t])
<1>1. TypeOK /\ TimersOK /\ QueuesOK
  BY DEF QueueInv
<1>2. QueueOK(t, q, windows) /\ (Quits(queue[t]) => Quits(q)) /\ (q = <<>> => queue[t] = <<>>)
  BY <1>1, TimersQueued DEF QueuesOK
<1>3. /\ parking = Never /\ Leave(t) /\ timers' = Rearmed(t) /\ UNCHANGED <<windows, host, now>>
      /\ \/ q # <<>> /\ queue' = [queue EXCEPT ![t] = Tail(q)] /\ Delivered(t, Head(q))
         \/ q = <<>> /\ UNCHANGED queue /\ \E m : Delivered(t, m)
  BY DEF GetMessage, MayRun
<1> HIDE DEF q
<1>4. FetchStep(t)
  BY <1>1, <1>3, DeliveredIs DEF FetchStep
<1>5. CASE q # <<>> /\ queue' = [queue EXCEPT ![t] = Tail(q)] /\ Delivered(t, Head(q))
  <2>1. QueueOK(t, Tail(q), windows) /\ (Quits(q) => Quits(Tail(q)) \/ Head(q).type = "quit")
    BY <1>2, <1>5, TailOK
  <2>2. Quits(queue[t]) => Quits(Tail(q)) \/ t = 0 \/ t \in quitSeen'
    BY <1>1, <1>2, <1>5, <2>1, DeliveredIs
  <2> QED BY <1>4, <1>5, <2>1, <2>2, FetchKeeps
<1>6. CASE UNCHANGED queue
  <2>1. queue' = [queue EXCEPT ![t] = queue[t]] /\ QueueOK(t, queue[t], windows)
    BY <1>1, <1>6 DEF TypeOK, QueuesOK
  <2> QED BY <1>4, <2>1, FetchKeeps
<1> QED BY <1>3, <1>5, <1>6

LEMMA PeekMessageKeeps ==
  ASSUME QueueInv, NEW t \in Threads, PeekMessage(t)
  PROVE  QueueInv'
<1> DEFINE q == WithTimers(t, queue[t])
           Hits(w) == {i \in DOMAIN q : Matches(q[i], w)}
           Hit(w)  == CHOOSE i \in Hits(w) : \A j \in Hits(w) : i <= j
<1>1. TypeOK /\ TimersOK /\ QueuesOK
  BY DEF QueueInv
<1>2. QueueOK(t, q, windows) /\ (Quits(queue[t]) => Quits(q)) /\ DOMAIN q \subseteq Nat
  <2>1. QueueOK(t, q, windows) /\ (Quits(queue[t]) => Quits(q))
    BY <1>1, TimersQueued DEF QueuesOK
  <2> HIDE DEF q
  <2> QED BY <2>1 DEF QueueOK
<1>3. PICK w \in windows \cup {NoWindow}, remove \in BOOLEAN :
        /\ queue' = [queue EXCEPT ![t] = IF remove /\ Hits(w) # {} THEN RemoveAt(q, Hit(w)) ELSE q]
        /\ \/ remove /\ Hits(w) # {} /\ Delivered(t, q[Hit(w)])
           \/ remove /\ Hits(w) = {} /\ \E m : Delivered(t, m)
           \/ /\ ~remove \/ Hits(w) = {}
              /\ UNCHANGED <<needsPaint, quitSeen>>
  BY DEF PeekMessage
<1> DEFINE hits == Hits(w)
           hit  == Hit(w)
<1>4. hits \in SUBSET Nat /\ hits \subseteq DOMAIN q /\ (hits # {} => hit \in hits)
  <2>1. hits \in SUBSET Nat /\ hits \subseteq DOMAIN q
    <3> HIDE DEF q
    <3> QED BY <1>2
  <2>2. hit = CHOOSE i \in hits : \A j \in hits : i <= j
    OBVIOUS
  <2> HIDE DEF hits, hit, Hits, Hit, q
  <2>3. hits # {} => \E i \in hits : \A j \in hits : i <= j
    BY <2>1, Least
  <2> QED BY <2>1, <2>2, <2>3
<1>5. /\ queue' = [queue EXCEPT ![t] = IF remove /\ hits # {} THEN RemoveAt(q, hit) ELSE q]
      /\ \/ remove /\ hits # {} /\ Delivered(t, q[hit])
         \/ remove /\ hits = {} /\ \E m : Delivered(t, m)
         \/ /\ ~remove \/ hits = {}
            /\ UNCHANGED <<needsPaint, quitSeen>>
  BY <1>3
<1>6. parking = Never /\ call[t] = "none" /\ UNCHANGED waits /\ timers' = Rearmed(t)
      /\ UNCHANGED <<windows, host, now>>
  BY DEF PeekMessage, Free, MayRun
<1> HIDE DEF q, hits, hit, Hits, Hit
<1>7. FetchStep(t)
  <2>1. CASE UNCHANGED <<needsPaint, quitSeen>>
    BY <1>1, <1>6, <2>1 DEF FetchStep, TypeOK
  <2>2. CASE \E m : Delivered(t, m)
    BY <1>1, <1>6, <2>2, DeliveredIs DEF FetchStep
  <2> QED BY <1>5, <2>1, <2>2
<1>8. CASE remove /\ hits # {}
  <2>1. queue' = [queue EXCEPT ![t] = RemoveAt(q, hit)] /\ Delivered(t, q[hit]) /\ hit \in DOMAIN q
    BY <1>4, <1>5, <1>8
  <2>2. QueueOK(t, RemoveAt(q, hit), windows)
        /\ (Quits(q) => Quits(RemoveAt(q, hit)) \/ q[hit].type = "quit")
    BY <1>2, <2>1, RemoveAtOK
  <2>3. Quits(queue[t]) => Quits(RemoveAt(q, hit)) \/ t = 0 \/ t \in quitSeen'
    BY <1>1, <1>2, <2>1, <2>2, DeliveredIs
  <2> QED BY <1>7, <2>1, <2>2, <2>3, FetchKeeps
<1>9. CASE ~(remove /\ hits # {})
  <2>1. queue' = [queue EXCEPT ![t] = q]
    BY <1>5, <1>9
  <2> QED BY <1>2, <1>7, <2>1, FetchKeeps
<1> QED BY <1>8, <1>9

LEMMA MsgWaitReturnsKeeps ==
  ASSUME QueueInv, NEW t \in Threads, MsgWaitReturns(t)
  PROVE  QueueInv'
<1> DEFINE q == WithTimers(t, queue[t])
<1>1. TypeOK /\ TimersOK /\ QueuesOK
  BY DEF QueueInv
<1>2. QueueOK(t, q, windows) /\ (Quits(queue[t]) => Quits(q))
  BY <1>1, TimersQueued DEF QueuesOK
<1>3. queue' = [queue EXCEPT ![t] = q]
  BY DEF MsgWaitReturns
<1>4. FetchStep(t)
  BY <1>1 DEF MsgWaitReturns, MayRun, FetchStep, TypeOK
<1> HIDE DEF q
<1> QED BY <1>2, <1>3, <1>4, FetchKeeps

\* A thread that finds nothing has no message, no window to paint and no timer that is due.
LEMMA EmptyKeeps ==
  ASSUME QueueInv, NEW t \in Threads, NEW kind \in {"get", "msgwait", "msgforever"},
         Empty(t, kind)
  PROVE  QueueInv'
<1>1. TypeOK /\ QueuesOK /\ TimersOK
  BY DEF QueueInv
<1>2. /\ UNCHANGED <<queue, timers, windows, needsPaint, quitSeen, ready, deadline>>
      /\ UNCHANGED <<hostWindows, mouse, lastSent, lastMoved, track, ui, inputs>>
      /\ UNCHANGED now
      /\ parking = Never /\ parking' = t /\ unwoken' = unwoken \ {t}
      /\ call' = [call EXCEPT ![t] = kind] /\ (ready[t] \/ Due(t))
  BY DEF Empty, MayRun, pump, host
<1>3. queue[t] = <<>> /\ Expired(t) = {} /\ Owned(t) \cap needsPaint = {}
  <2>1. WithTimers(t, queue[t]) = <<>> /\ Owned(t) \cap needsPaint = {}
    BY DEF Empty, Pending
  <2> QED BY <1>1, <2>1, TimersQueued DEF QueuesOK
<1>4. TypeOK'
  BY <1>1, <1>2 DEF TypeOK
<1>5. QueueStep
  BY <1>1, <1>2, SameQueues
<1>6. Noticed'
  <2> SUFFICES ASSUME NEW u \in Threads, Sleeping(u)', u \notin unwoken', ~BeingWoken(u)'
               PROVE  (queue[u] = <<>> /\ Owned(u) \cap needsPaint = {})'
    BY DEF Noticed
  <2>1. CASE u = t
    BY <1>2, <1>3, <2>1 DEF Owned
  <2>2. CASE u # t
    <3>1. Parked(u) /\ u \notin unwoken /\ ~BeingWoken(u)
      BY <1>1, <1>2, <2>2 DEF Sleeping, Parked, BeingWoken, TypeOK
    <3> QED BY <1>2, <3>1 DEF QueueInv, Noticed, Sleeping, Owned
  <2> QED BY <2>1, <2>2
<1>7. TimersWake'
  <2> SUFFICES ASSUME NEW u \in Threads, NEW i \in DOMAIN timers', Parked(u)',
                      timers'[i].owner = u, u \notin unwoken'
               PROVE  deadline'[u] # Never /\ deadline'[u] <= timers'[i].due
    BY DEF TimersWake
  <2>1. CASE u = t
    <3>1. Due(t) /\ i \notin Expired(t)
      BY <1>2, <1>3, <2>1 DEF Parked
    <3>2. deadline[t] # Never /\ now >= deadline[t] /\ ~(now >= timers[i].due)
      BY <1>2, <2>1, <3>1 DEF Due, Expired
    <3>3. deadline[t] \in Nat /\ now \in Nat /\ timers[i].due \in Nat
      BY <1>1, <1>2, <3>2, MessageAssumption DEF TypeOK
    <3> QED BY <1>2, <2>1, <3>2, <3>3
  <2>2. CASE u # t
    <3>1. Parked(u) /\ u \notin unwoken
      BY <1>1, <1>2, <2>2 DEF Parked, TypeOK
    <3> QED BY <1>2, <3>1 DEF QueueInv, TimersWake
  <2> QED BY <2>1, <2>2
<1> QED BY <1>2, <1>4, <1>5, <1>6, <1>7, QueuesStay, RestStays DEF QueueInv

\* next_timer_deadline is the time of the thread's first timer.
LEMMA NextTimerIs ==
  ASSUME TypeOK, NEW t \in Threads
  PROVE  /\ NextTimer(timers, t) \in Nat \cup {Never}
         /\ \A i \in DOMAIN timers : timers[i].owner = t =>
              NextTimer(timers, t) \in Nat /\ NextTimer(timers, t) <= timers[i].due
<1> DEFINE due == {timers[i].due : i \in {j \in DOMAIN timers : timers[j].owner = t}}
           first == CHOOSE d \in due : \A e \in due : d <= e
<1>1. due \in SUBSET Nat
  BY DEF TypeOK
<1>2. NextTimer(timers, t) = IF due = {} THEN Never ELSE first
  BY DEF NextTimer
<1>3. \A i \in DOMAIN timers : timers[i].owner = t => timers[i].due \in due
  OBVIOUS
<1>4. due # {} => first \in due /\ \A e \in due : first <= e
  <2> HIDE DEF due
  <2>1. due # {} => \E d \in due : \A e \in due : d <= e
    BY <1>1, Least
  <2> QED BY <2>1
<1> HIDE DEF due, first
<1> QED BY <1>1, <1>2, <1>3, <1>4

LEMMA ParkKeeps ==
  ASSUME QueueInv, NEW t \in Threads, Park(t)
  PROVE  QueueInv'
<1>1. TypeOK /\ QueuesOK /\ TimersOK
  BY DEF QueueInv
<1>2. /\ UNCHANGED <<queue, timers, windows, needsPaint, quitSeen, call, unwoken>>
      /\ UNCHANGED <<hostWindows, mouse, lastSent, lastMoved, track, ui, inputs>>
      /\ UNCHANGED now
      /\ parking = t /\ parking' = Never
      /\ ready' = [ready EXCEPT ![t] = FALSE]
  BY DEF Park, pump, host
<1>3. PICK limit \in Limits(t) :
        deadline' = [deadline EXCEPT ![t] = Earlier(limit, NextTimer(timers, t))]
  BY DEF Park
<1> DEFINE next == NextTimer(timers, t)
           soon == Earlier(limit, next)
<1>4. limit \in Nat \cup {Never}
  BY <1>1, <1>3, MessageAssumption DEF Limits, TypeOK
<1>5. /\ next \in Nat \cup {Never}
      /\ \A i \in DOMAIN timers : timers[i].owner = t => next \in Nat /\ next <= timers[i].due
  BY <1>1, NextTimerIs
<1> HIDE DEF next
<1>6. /\ soon \in Nat \cup {Never} /\ Never \notin Nat
      /\ next \in Nat => soon \in Nat /\ soon <= next
  BY <1>4, <1>5, MessageAssumption DEF Earlier
<1>7. deadline' = [deadline EXCEPT ![t] = soon]
  BY <1>3 DEF next
<1> HIDE DEF soon
<1>8. TypeOK'
  BY <1>1, <1>2, <1>6, <1>7 DEF TypeOK
<1>9. QueueStep
  BY <1>1, <1>2, SameQueues
<1>10. Noticed'
  <2> SUFFICES ASSUME NEW u \in Threads, Sleeping(u)', u \notin unwoken', ~BeingWoken(u)'
               PROVE  (queue[u] = <<>> /\ Owned(u) \cap needsPaint = {})'
    BY DEF Noticed
  <2>1. Sleeping(u) /\ u \notin unwoken /\ ~BeingWoken(u)
    BY <1>1, <1>2, MessageAssumption DEF Sleeping, Parked, BeingWoken, TypeOK
  <2> QED BY <1>2, <2>1 DEF QueueInv, Noticed, Owned
<1>11. TimersWake'
  <2> SUFFICES ASSUME NEW u \in Threads, NEW i \in DOMAIN timers', Parked(u)',
                      timers'[i].owner = u, u \notin unwoken'
               PROVE  deadline'[u] # Never /\ deadline'[u] <= timers'[i].due
    BY DEF TimersWake
  <2>1. CASE u = t
    <3>1. deadline'[t] = soon /\ next \in Nat /\ next <= timers[i].due /\ timers[i].due \in Nat
      BY <1>1, <1>2, <1>5, <1>7, <2>1 DEF TypeOK
    <3> QED BY <1>2, <1>6, <2>1, <3>1
  <2>2. CASE u # t
    <3>1. Parked(u) /\ u \notin unwoken /\ deadline'[u] = deadline[u]
      BY <1>1, <1>2, <1>7, <2>2 DEF Parked, TypeOK
    <3> QED BY <1>2, <3>1 DEF QueueInv, TimersWake
  <2> QED BY <2>1, <2>2
<1> QED BY <1>2, <1>8, <1>9, <1>10, <1>11, QueuesStay, RestStays DEF QueueInv

----------------------------------------------------------------------------
(* The UI thread. *)

\* A step of the UI thread: whoever gets a message that sleeps or is about to is woken,
\* or is going to be, or it is known that the code does not.
HostSleeps ==
  /\ UNCHANGED <<timers, windows, needsPaint, quitSeen, call, parking, deadline, now>>
  /\ \A t \in Threads : ready[t] => ready'[t]
  /\ \A t \in Threads : ~ready'[t] \/ parking = t =>
       /\ t \in unwoken => t \in unwoken'
       /\ queue'[t] = queue[t] \/ t \in unwoken' \/ BeingWoken(t)'
       /\ BeingWoken(t) => BeingWoken(t)' \/ t \in unwoken'

LEMMA HostKeeps ==
  ASSUME QueueInv, QueueStep, HostSleeps, UIOK', ui' \in Doings,
         ready' \in [Threads -> BOOLEAN], unwoken' \subseteq Threads, mouse' \in Positions,
         lastMoved' \in Windows \cup {NoWindow}, track' \in Windows \cup {NoWindow},
         windows \subseteq hostWindows', hostWindows' \subseteq hostWindows
  PROVE  QueueInv'
<1>1. TypeOK /\ TimersOK
  BY DEF QueueInv
<1>2. TypeOK'
  <2>1. queue' \in [Threads -> Seq(Messages)]
    BY DEF QueueStep
  <2> QED BY <1>1, <2>1 DEF TypeOK, HostSleeps
<1>3. ASSUME NEW t \in Threads, Sleeping(t)', t \notin unwoken'
      PROVE  Sleeping(t) /\ t \notin unwoken /\ (~ready'[t] \/ parking = t)
             /\ (Parked(t)' => Parked(t))
  BY <1>1, <1>2, <1>3 DEF Sleeping, Parked, HostSleeps, TypeOK
<1>4. Noticed'
  <2> SUFFICES ASSUME NEW t \in Threads, Sleeping(t)', t \notin unwoken', ~BeingWoken(t)'
               PROVE  (queue[t] = <<>> /\ Owned(t) \cap needsPaint = {})'
    BY DEF Noticed
  <2>1. Sleeping(t) /\ t \notin unwoken /\ (~ready'[t] \/ parking = t)
    BY <1>3
  <2>2. queue'[t] = queue[t] /\ ~BeingWoken(t)
    BY <2>1 DEF HostSleeps
  <2>3. queue[t] = <<>> /\ Owned(t) \cap needsPaint = {}
    BY <2>1, <2>2 DEF QueueInv, Noticed
  <2> QED BY <2>2, <2>3 DEF HostSleeps, Owned
<1>5. TimersWake'
  <2> SUFFICES ASSUME NEW t \in Threads, NEW i \in DOMAIN timers', Parked(t)',
                      timers'[i].owner = t, t \notin unwoken'
               PROVE  deadline'[t] # Never /\ deadline'[t] <= timers'[i].due
    BY DEF TimersWake
  <2>1. Parked(t) /\ t \notin unwoken
    BY <1>3 DEF Sleeping
  <2> QED BY <2>1 DEF QueueInv, TimersWake, HostSleeps
<1>6. QueuesOK' /\ LastWindowQuits'
  BY QueuesStay DEF HostSleeps
<1>7. TimersOK'
  BY <1>1 DEF TimersOK, HostSleeps
<1> QED BY <1>2, <1>4, <1>5, <1>6, <1>7 DEF QueueInv

Event(step, w, tids) == [step |-> step, hwnd |-> w, tid |-> Owner(w), wake |-> tids]

LEMMA EventIs ==
  ASSUME TypeOK, NEW w \in Windows,
         NEW step \in {"move", "click", "othermouse", "post", "size", "leave"},
         NEW tids \in Seq(Threads)
  PROVE  /\ Event(step, w, tids) \in Doings /\ Event(step, w, tids) # UIIdle
         /\ Event(step, w, tids).step = step /\ Event(step, w, tids).hwnd = w
         /\ Event(step, w, tids).wake = tids
         /\ w \in windows => FirstOwner[w] = Event(step, w, tids).tid
<1> DEFINE doing == Event(step, w, tids)
<1>1. Owner(w) \in Threads /\ (w \in windows => FirstOwner[w] = Owner(w))
  BY MessageAssumption DEF Owner
<1>2. doing.step = step /\ doing.hwnd = w /\ doing.wake = tids /\ doing.tid = Owner(w)
  BY DEF Event
<1>3. doing \in Doings
  BY <1>1 DEF Doings, Event
<1> QED BY <1>1, <1>2, <1>3 DEF UIIdle

LEMMA WakeIs ==
  ASSUME NEW tids \in Seq(Threads), tids # <<>>, NEW doing, doing = Wake(tids)
  PROVE  doing \in Doings /\ doing # UIIdle /\ doing.step = "wake" /\ doing.wake = tids
<1>1. doing.step = "wake" /\ doing.wake = tids
  BY DEF Wake
<1>2. doing \in Doings
  BY DEF Wake, Doings
<1> QED BY <1>1, <1>2 DEF UIIdle

\* The user does something; nothing is queued yet.
LEMMA InputKeeps ==
  ASSUME QueueInv, CursorThrottled \/ CursorMoved \/ MouseInput \/ OtherInput \/ CursorLeft
  PROVE  QueueInv'
<1>1. TypeOK /\ QueuesOK /\ UIOK
  BY DEF QueueInv
<1>2. /\ UNCHANGED <<queue, timers, windows, needsPaint, quitSeen, call, parking, ready>>
      /\ UNCHANGED <<deadline, unwoken, hostWindows, track, now>>
      /\ ui = UIIdle
  BY DEF CursorThrottled, CursorMoved, MouseInput, OtherInput, CursorLeft, pump, waits
<1>3. mouse' \in Positions /\ lastMoved' \in Windows \cup {NoWindow}
  BY <1>1 DEF CursorThrottled, CursorMoved, MouseInput, OtherInput, CursorLeft, TypeOK
<1>4. ui' = ui \/ \E w \in hostWindows, step \in {"move", "click", "othermouse", "post", "size", "leave"} :
                     ui' = Input(step, w)
  BY DEF CursorThrottled, CursorMoved, MouseInput, OtherInput, CursorLeft
<1>5. ui' \in Doings /\ UIOK'
  <2>1. CASE ui' = ui
    BY <1>1, <1>2, <2>1, RestStays DEF TypeOK
  <2>2. ASSUME NEW w \in hostWindows,
               NEW step \in {"move", "click", "othermouse", "post", "size", "leave"},
               ui' = Input(step, w)
        PROVE  ui' \in Doings /\ UIOK'
    <3> DEFINE nobody == <<>>
               doing  == Event(step, w, nobody)
    <3>1. w \in Windows /\ nobody \in Seq(Threads)
      BY <1>1 DEF TypeOK
    <3>2. ui' = doing
      BY <2>2 DEF Input, Event
    <3> HIDE DEF nobody
    <3>3. /\ doing \in Doings /\ doing.step = step /\ doing.hwnd = w /\ doing.wake = nobody
          /\ w \in windows => FirstOwner[w] = doing.tid
      BY <1>1, <3>1, EventIs
    <3> HIDE DEF doing
    <3>4. /\ ui' \in Doings /\ ui'.step = step /\ ui'.hwnd = w /\ ui'.wake = <<>>
          /\ w \in windows => FirstOwner[w] = ui'.tid
      BY <3>2, <3>3 DEF nobody
    <3> QED BY <1>2, <3>4 DEF UIOK
  <2> QED BY <1>4, <2>1, <2>2
<1>6. HostSleeps
  BY <1>2 DEF HostSleeps, BeingWoken
<1>7. QueueStep
  BY <1>1, <1>2, SameQueues
<1> QED BY <1>1, <1>2, <1>3, <1>5, <1>6, <1>7, HostKeeps DEF TypeOK

LEMMA UIDestroysKeeps ==
  ASSUME QueueInv, UIDestroys
  PROVE  QueueInv'
<1>1. TypeOK /\ QueuesOK /\ UIOK
  BY DEF QueueInv
<1>2. /\ UNCHANGED <<queue, timers, windows, needsPaint, quitSeen, call, parking, ready>>
      /\ UNCHANGED <<deadline, unwoken, mouse, lastMoved, ui, track, now>>
  BY DEF UIDestroys, pump, waits
<1>3. windows \subseteq hostWindows' /\ hostWindows' \subseteq hostWindows
  BY <1>1 DEF UIDestroys, TypeOK
<1>4. HostSleeps
  BY <1>2 DEF HostSleeps, BeingWoken
<1>5. QueueStep /\ UIOK'
  BY <1>1, <1>2, SameQueues, RestStays
<1> QED BY <1>1, <1>2, <1>3, <1>4, <1>5, HostKeeps DEF TypeOK

\* What an event does to the queue it looked up.
LEMMA MovePushedOK ==
  ASSUME NEW t, NEW ws, NEW q, QueueOK(t, q, ws), NEW w \in Windows,
         w \in ws => FirstOwner[w] = t, NEW p \in Positions, NEW captured \in BOOLEAN
  PROVE  /\ QueueOK(t, MovePushed(q, w, p, captured), ws)
         /\ Quits(q) => Quits(MovePushed(q, w, p, captured))
<1> DEFINE cursor == Msg(w, "setcursor", p)
           move   == Msg(w, "move", p)
           q1 == IF captured THEN q
                 ELSE IF Has(q, w, "setcursor") THEN Coalesced(q, w, "setcursor", p)
                 ELSE IF Has(q, w, "move") THEN InsertAt(q, FirstOf(q, w, "move"), cursor)
                 ELSE Append(q, cursor)
<1>1. /\ cursor \in Messages /\ cursor.hwnd = w /\ cursor.type = "setcursor"
      /\ move \in Messages /\ move.hwnd = w /\ move.type = "move"
  BY DEF Msg, Messages
<1>2. MovePushed(q, w, p, captured) =
        IF Has(q, w, "move") THEN Coalesced(q1, w, "move", p) ELSE Append(q1, move)
  BY DEF MovePushed
<1>3. /\ q1 = q \/ (Has(q, w, "setcursor") /\ q1 = Coalesced(q, w, "setcursor", p))
         \/ (~Has(q, w, "setcursor") /\ Has(q, w, "move")
              /\ q1 = InsertAt(q, FirstOf(q, w, "move"), cursor))
         \/ (~Has(q, w, "setcursor") /\ ~Has(q, w, "move") /\ q1 = Append(q, cursor))
  OBVIOUS
<1> HIDE DEF cursor, move, q1
<1>4. QueueOK(t, q1, ws) /\ (Quits(q) => Quits(q1)) /\ (Has(q, w, "move") => Has(q1, w, "move"))
  <2>1. CASE q1 = q
    BY <2>1
  <2>2. CASE Has(q, w, "setcursor") /\ q1 = Coalesced(q, w, "setcursor", p)
    BY <2>2, CoalescedOK
  <2>3. CASE ~Has(q, w, "setcursor") /\ Has(q, w, "move")
              /\ q1 = InsertAt(q, FirstOf(q, w, "move"), cursor)
    <3>1. FirstOf(q, w, "move") \in DOMAIN q
      BY <2>3, FirstOfIs DEF QueueOK
    <3>2. MayFollow(cursor, q)
      BY <1>1, <2>3 DEF MayFollow
    <3> QED BY <1>1, <2>3, <3>1, <3>2, InsertAtOK
  <2>4. CASE ~Has(q, w, "setcursor") /\ ~Has(q, w, "move") /\ q1 = Append(q, cursor)
    <3>1. MayFollow(cursor, q)
      BY <1>1, <2>4 DEF MayFollow
    <3> QED BY <1>1, <2>4, <3>1, AppendOK
  <2> QED BY <1>3, <2>1, <2>2, <2>3, <2>4
<1>5. CASE Has(q, w, "move")
  BY <1>2, <1>4, <1>5, CoalescedOK
<1>6. CASE ~Has(q, w, "move")
  <2>1. MayFollow(move, q1)
    BY <1>1 DEF MayFollow
  <2> QED BY <1>1, <1>2, <1>4, <1>6, <2>1, AppendOK
<1> QED BY <1>5, <1>6

LEMMA SizePushedOK ==
  ASSUME NEW t, NEW ws, NEW q, QueueOK(t, q, ws), NEW w \in Windows,
         w \in ws => FirstOwner[w] = t
  PROVE  /\ QueueOK(t, SizePushed(q, w), ws)
         /\ Quits(q) => Quits(SizePushed(q, w))
<1> DEFINE sizes == {m \in ToSet(q) : m.hwnd = w /\ m.type = "size"}
           r     == Without(q, sizes)
           m     == Msg(w, "size", Never)
<1>1. m \in Messages /\ m.hwnd = w /\ m.type = "size"
  BY DEF Msg, Messages
<1>2. SizePushed(q, w) = Append(r, m)
  BY DEF SizePushed
<1>3. \A i \in DOMAIN q : q[i] \in sizes <=> q[i].hwnd = w /\ q[i].type = "size"
  BY DEF ToSet
<1> HIDE DEF sizes, m
<1>4. /\ r \in Seq(Messages) /\ Drawn(r, q)
      /\ \A i \in DOMAIN r : r[i] \notin sizes
      /\ \A k \in DOMAIN q : q[k] \in sizes \/ \E i \in DOMAIN r : r[i] = q[k]
  BY WithoutIs DEF QueueOK
<1> HIDE DEF r
<1>5. QueueOK(t, r, ws)
  BY <1>4, DrawnOK
<1>6. Quits(q) => Quits(r)
  BY <1>3, <1>4 DEF Quits, Has
<1>7. MayFollow(m, r)
  <2>1. \A i \in DOMAIN r : r[i] # m
    BY <1>1, <1>3, <1>4 DEF Drawn
  <2> QED BY <1>1, <2>1 DEF MayFollow, ToSet
<1> QED BY <1>1, <1>2, <1>5, <1>6, <1>7, AppendOK

\* The event on its way is a record of the second kind.
LEMMA DoingIs ==
  ASSUME TypeOK, UIOK, QueuesOK,
         ui.step \in {"move", "click", "othermouse", "button", "post", "size", "leave"}
  PROVE  /\ ui \in [step : {"move", "click", "othermouse", "button", "post", "size", "leave"},
                    hwnd : Windows, tid : Threads, wake : Seq(Threads)]
         /\ ui.hwnd \in windows => FirstOwner[ui.hwnd] = ui.tid
         /\ ui.step # "leave" => ui.wake = <<>>
         /\ QueueOK(ui.tid, queue[ui.tid], windows)
<1>1. ui \in [step : {"move", "click", "othermouse", "button", "post", "size", "leave"},
              hwnd : Windows, tid : Threads, wake : Seq(Threads)]
  BY DEF TypeOK, Doings, UIIdle
<1> QED BY <1>1 DEF UIOK, QueuesOK

\* The event is queued, and the thread is going to be woken unless it is known to be
\* left out.
LEMMA UIQueueKeeps ==
  ASSUME QueueInv, NEW step \in {"move", "click", "othermouse", "button", "post", "size", "leave"},
         NEW q, NEW next, UIQueue(step, q, next), NEW tid, tid = ui.tid,
         QueueOK(tid, q, windows), Quits(queue[tid]) => Quits(q), next \in Doings, UIOK',
         track' \in Windows \cup {NoWindow}, unwoken \subseteq unwoken', unwoken' \subseteq Threads,
         \A t \in Threads : BeingWoken(t) => BeingWoken(t)',
         BeingWoken(tid)' \/ tid \in unwoken' \/ (ready[tid] /\ parking # tid)
  PROVE  QueueInv'
<1>1. TypeOK /\ QueuesOK /\ UIOK
  BY DEF QueueInv
<1>2. /\ UNCHANGED <<timers, windows, needsPaint, quitSeen, call, parking, ready, deadline>>
      /\ UNCHANGED <<hostWindows, mouse, lastMoved, now>>
      /\ ui.step = step /\ ui' = next /\ queue' = [queue EXCEPT ![tid] = q]
  BY DEF UIQueue
<1>3. tid \in Threads
  BY <1>1, <1>2, DoingIs
<1>4. QueueStep
  BY <1>1, <1>2, <1>3, OneQueue
<1>5. HostSleeps
  <2>1. \A t \in Threads : t # tid => queue'[t] = queue[t]
    BY <1>1, <1>2 DEF TypeOK
  <2> HIDE DEF BeingWoken
  <2>2. ASSUME NEW t \in Threads, ~ready'[t] \/ parking = t
        PROVE  /\ t \in unwoken => t \in unwoken'
               /\ queue'[t] = queue[t] \/ t \in unwoken' \/ BeingWoken(t)'
               /\ BeingWoken(t) => BeingWoken(t)' \/ t \in unwoken'
    <3>1. CASE t # tid
      BY <1>2, <2>1, <3>1
    <3>2. CASE t = tid
      <4>1. ~(ready[tid] /\ parking # tid)
        BY <1>2, <2>2, <3>2
      <4> QED BY <1>2, <3>2, <4>1
    <3> QED BY <3>1, <3>2
  <2> QED BY <1>2, <2>2 DEF HostSleeps
<1> QED BY <1>1, <1>2, <1>4, <1>5, HostKeeps DEF TypeOK

LEMMA WokenNext ==
  ASSUME NEW tids, ui' # UIIdle, ui'.wake = tids, NEW i \in DOMAIN tids, NEW t, tids[i] = t
  PROVE  BeingWoken(t)'
BY DEF BeingWoken

\* The event is queued, and its thread is woken next.
LEMMA WakesNext ==
  ASSUME QueueInv, NEW step \in {"move", "button", "post", "size"}, NEW tid, tid = ui.tid,
         NEW q, UIQueue(step, q, Wake(<<tid>>)), QueueOK(tid, q, windows),
         Quits(queue[tid]) => Quits(q), UNCHANGED <<track, unwoken>>
  PROVE  QueueInv'
<1>1. TypeOK /\ QueuesOK /\ UIOK
  BY DEF QueueInv
<1>2. ui.step = step /\ ui' = Wake(<<tid>>)
  BY DEF UIQueue
<1>3. tid \in Threads /\ ui.wake = <<>>
  BY <1>1, <1>2, DoingIs
<1> DEFINE tids == <<tid>>
<1>4. tids \in Seq(Threads) /\ tids # <<>> /\ 1 \in DOMAIN tids /\ tids[1] = tid
  BY <1>3
<1> HIDE DEF tids
<1>5. ui' \in Doings /\ ui' # UIIdle /\ ui'.step = "wake" /\ ui'.wake = tids
  BY <1>2, <1>4, WakeIs DEF tids
<1>6. UIOK' /\ Wake(<<tid>>) \in Doings
  BY <1>2, <1>5 DEF UIOK
<1>7. BeingWoken(tid)'
  BY <1>4, <1>5, WokenNext
<1>8. \A t \in Threads : BeingWoken(t) => t = tid
  BY <1>3 DEF BeingWoken
<1>9. \A t \in Threads : BeingWoken(t) => BeingWoken(t)'
  BY <1>7, <1>8
<1>10. track' \in Windows \cup {NoWindow} /\ unwoken \subseteq unwoken' /\ unwoken' \subseteq Threads
  BY <1>1 DEF TypeOK
<1> HIDE DEF BeingWoken
<1> QED BY <1>6, <1>7, <1>9, <1>10, UIQueueKeeps

LEMMA MoveQueuedKeeps ==
  ASSUME QueueInv, MoveQueued
  PROVE  QueueInv'
<1>1. TypeOK /\ QueuesOK /\ UIOK
  BY DEF QueueInv
<1>0. PICK tid : tid = ui.tid
  OBVIOUS
<1> DEFINE next == IF track \in {NoWindow, ui.hwnd} THEN Wake(<<tid>>)
                   ELSE [Input("leave", track) EXCEPT !.wake = <<tid>>]
<1>2. PICK captured \in BOOLEAN :
        UIQueue("move", MovePushed(queue[tid], ui.hwnd, mouse, captured), next)
  BY <1>0 DEF MoveQueued
<1> DEFINE q == MovePushed(queue[tid], ui.hwnd, mouse, captured)
<1>3. ui.step = "move" /\ ui' = next /\ UNCHANGED <<track, unwoken>>
  BY <1>2 DEF MoveQueued, UIQueue
<1>4. /\ tid \in Threads /\ ui.hwnd \in Windows /\ ui.wake = <<>>
      /\ ui.hwnd \in windows => FirstOwner[ui.hwnd] = tid
      /\ QueueOK(tid, queue[tid], windows)
  BY <1>0, <1>1, <1>3, DoingIs
<1>5. QueueOK(tid, q, windows) /\ (Quits(queue[tid]) => Quits(q))
  BY <1>1, <1>4, MovePushedOK DEF TypeOK
<1> HIDE DEF q
<1>6. CASE track \in {NoWindow, ui.hwnd}
  <2>1. UIQueue("move", q, Wake(<<tid>>))
    BY <1>2, <1>6 DEF q
  <2> QED BY <1>0, <1>3, <1>5, <2>1, WakesNext
<1>7. CASE track \notin {NoWindow, ui.hwnd}
  <2> DEFINE tids  == <<tid>>
             doing == Event("leave", track, tids)
  <2>1. tids \in Seq(Threads) /\ 1 \in DOMAIN tids /\ tids[1] = tid /\ track \in Windows
    BY <1>1, <1>4, <1>7 DEF TypeOK
  <2>2. next = doing
    BY <1>7 DEF Input, Event
  <2> HIDE DEF tids, next
  <2>3. /\ doing \in Doings /\ doing # UIIdle /\ doing.step = "leave" /\ doing.hwnd = track
        /\ doing.wake = tids /\ (track \in windows => FirstOwner[track] = doing.tid)
    BY <1>1, <2>1, EventIs
  <2> HIDE DEF doing
  <2>4. UNCHANGED windows
    BY <1>2 DEF UIQueue
  <2>5. UIOK' /\ next \in Doings
    BY <1>3, <2>2, <2>3, <2>4 DEF UIOK
  <2>6. BeingWoken(tid)'
    BY <1>3, <2>1, <2>2, <2>3, WokenNext
  <2>7. \A t \in Threads : ~BeingWoken(t)
    BY <1>3, <1>4 DEF BeingWoken
  <2>8. track' \in Windows \cup {NoWindow} /\ unwoken \subseteq unwoken' /\ unwoken' \subseteq Threads
    BY <1>1, <1>3 DEF TypeOK
  <2>9. UIQueue("move", q, next) /\ tid = ui.tid
    BY <1>0, <1>2 DEF q
  <2> HIDE DEF BeingWoken
  <2> QED BY <1>5, <2>5, <2>6, <2>7, <2>8, <2>9, UIQueueKeeps
<1> QED BY <1>6, <1>7

\* A message of an event that may be there more than once.
LEMMA EventQueued ==
  ASSUME TypeOK, NEW t \in Threads, NEW q, QueueOK(t, q, windows), NEW w \in Windows,
         w \in windows => FirstOwner[w] = t, NEW type \in {"post", "move", "button"},
         NEW arg \in Positions \cup {Never}
  PROVE  /\ QueueOK(t, Append(q, Msg(w, type, arg)), windows)
         /\ Quits(q) => Quits(Append(q, Msg(w, type, arg)))
<1> DEFINE m == Msg(w, type, arg)
<1>1. m \in Messages /\ m.hwnd = w /\ m.type = type
  BY DEF Msg, Messages
<1> HIDE DEF m
<1>2. QueueOK(t, Append(q, m), windows) /\ (Quits(q) => Quits(Append(q, m)))
  BY <1>1, AppendOK DEF MayFollow
<1> QED BY <1>2 DEF m

LEMMA LeaveQueuedKeeps ==
  ASSUME QueueInv, LeaveQueued
  PROVE  QueueInv'
<1>1. TypeOK /\ QueuesOK /\ UIOK
  BY DEF QueueInv
<1>0. PICK tid : tid = ui.tid
  OBVIOUS
<1> DEFINE tids == <<tid>> \o ui.wake
           q    == Append(queue[tid], Msg(ui.hwnd, "post", Never))
<1>2. /\ UIQueue("leave", q, Wake(tids)) /\ track' = NoWindow /\ unwoken' = unwoken
      /\ ui.step = "leave" /\ ui' = Wake(tids)
  BY <1>0 DEF LeaveQueued, UIQueue
<1>3. /\ tid \in Threads /\ ui.hwnd \in Windows /\ ui.wake \in Seq(Threads)
      /\ ui.hwnd \in windows => FirstOwner[ui.hwnd] = tid
      /\ QueueOK(tid, queue[tid], windows)
  BY <1>0, <1>1, <1>2, DoingIs
<1>4. QueueOK(tid, q, windows) /\ (Quits(queue[tid]) => Quits(q))
  BY <1>1, <1>3, EventQueued
<1> HIDE DEF q
<1>5. /\ tids \in Seq(Threads) /\ tids # <<>> /\ 1 \in DOMAIN tids /\ tids[1] = tid
      /\ \A i \in DOMAIN ui.wake : i + 1 \in DOMAIN tids /\ tids[i + 1] = ui.wake[i]
  <2> DEFINE first == <<tid>>
             later == ui.wake
  <2>1. first \in Seq(Threads) /\ Len(first) = 1 /\ first[1] = tid
        /\ later \in Seq(Threads) /\ Len(later) \in Nat /\ DOMAIN later = 1 .. Len(later)
    BY <1>3
  <2> HIDE DEF first, later
  <2>2. first \o later \in Seq(Threads) /\ Len(first \o later) = Len(first) + Len(later)
    BY <2>1, ConcatProperties
  <2>3. \A i \in 1 .. Len(first) + Len(later) :
          (first \o later)[i] = IF i <= Len(first) THEN first[i] ELSE later[i - Len(first)]
    BY <2>1, ConcatProperties
  <2> DEFINE r == first \o later
  <2> HIDE DEF r
  <2>4. r \in Seq(Threads) /\ DOMAIN r = 1 .. 1 + Len(later) /\ r[1] = tid
        /\ \A i \in DOMAIN later : i + 1 \in DOMAIN r /\ r[i + 1] = later[i]
    <3>1. r \in Seq(Threads) /\ Len(r) = 1 + Len(later)
      BY <2>1, <2>2 DEF r
    <3>2. \A i \in 1 .. 1 + Len(later) : r[i] = IF i <= 1 THEN first[i] ELSE later[i - 1]
      BY <2>1, <2>3 DEF r
    <3> QED BY <2>1, <3>1, <3>2
  <2>5. 1 \in DOMAIN r /\ r # <<>>
    BY <2>1, <2>4
  <2>6. tids = r
    BY DEF r, first, later
  <2> QED BY <2>4, <2>5, <2>6 DEF later
<1> HIDE DEF tids
<1>6. ui' \in Doings /\ ui' # UIIdle /\ ui'.step = "wake" /\ ui'.wake = tids
  BY <1>2, <1>5, WakeIs
<1>7. UIOK' /\ Wake(tids) \in Doings
  BY <1>2, <1>6 DEF UIOK
<1>8. BeingWoken(tid)'
  BY <1>5, <1>6, WokenNext
<1>9. ASSUME NEW t \in Threads, BeingWoken(t) PROVE BeingWoken(t)'
  <2>1. PICK i \in DOMAIN ui.wake : ui.wake[i] = t
    BY <1>2, <1>9 DEF BeingWoken
  <2>2. i + 1 \in DOMAIN tids /\ tids[i + 1] = t
    BY <1>5, <2>1
  <2> QED BY <1>6, <2>2, WokenNext
<1>10. track' \in Windows \cup {NoWindow} /\ unwoken \subseteq unwoken' /\ unwoken' \subseteq Threads
  BY <1>1, <1>2 DEF TypeOK
<1> HIDE DEF BeingWoken
<1> QED BY <1>0, <1>2, <1>4, <1>7, <1>8, <1>9, <1>10, UIQueueKeeps

LEMMA MoveBeforeClickKeeps ==
  ASSUME QueueInv, MoveBeforeClick
  PROVE  QueueInv'
<1>1. TypeOK /\ QueuesOK /\ UIOK
  BY DEF QueueInv
<1>0. PICK tid : tid = ui.tid
  OBVIOUS
<1> DEFINE q   == IF lastSent = <<ui.hwnd, mouse>> THEN queue[tid]
                  ELSE Append(queue[tid], Msg(ui.hwnd, "move", mouse))
           button == [ui EXCEPT !.step = "button"]
<1>2. PICK step \in {"click", "othermouse"} :
        UIQueue(step, q, IF step = "click" THEN button ELSE UIIdle)
  BY <1>0 DEF MoveBeforeClick
<1>3. /\ ui.step = step /\ ui' = (IF step = "click" THEN button ELSE UIIdle)
      /\ track' = track /\ windows' = windows
      /\ unwoken' = IF step = "othermouse" /\ (parking = tid \/ ~ready[tid])
                    THEN unwoken \cup {tid} ELSE unwoken
  BY <1>0, <1>2 DEF MoveBeforeClick, UIQueue
<1>4. /\ ui \in [step : {"move", "click", "othermouse", "button", "post", "size", "leave"},
                 hwnd : Windows, tid : Threads, wake : Seq(Threads)]
      /\ tid \in Threads /\ ui.hwnd \in Windows /\ ui.wake = <<>>
      /\ ui.hwnd \in windows => FirstOwner[ui.hwnd] = tid
      /\ QueueOK(tid, queue[tid], windows)
  BY <1>0, <1>1, <1>3, DoingIs
<1>5. QueueOK(tid, q, windows) /\ (Quits(queue[tid]) => Quits(q))
  <2>1. mouse \in Positions \cup {Never}
    BY <1>1 DEF TypeOK
  <2>2. /\ QueueOK(tid, Append(queue[tid], Msg(ui.hwnd, "move", mouse)), windows)
        /\ Quits(queue[tid]) => Quits(Append(queue[tid], Msg(ui.hwnd, "move", mouse)))
    BY <1>1, <1>4, <2>1, EventQueued
  <2> QED BY <1>4, <2>2
<1>6. /\ button \in Doings /\ button # UIIdle /\ button.step = "button"
      /\ button.hwnd = ui.hwnd /\ button.tid = tid /\ button.wake = ui.wake
  BY <1>0, <1>4 DEF Doings, UIIdle
<1> HIDE DEF q, button
<1>7. UIIdle \in Doings /\ UIIdle.step = "idle"
  BY DEF UIIdle, Doings
<1>8. \A t \in Threads : ~BeingWoken(t)
  BY <1>3, <1>4 DEF BeingWoken
<1>9. track' \in Windows \cup {NoWindow} /\ unwoken \subseteq unwoken' /\ unwoken' \subseteq Threads
  BY <1>1, <1>3, <1>4 DEF TypeOK
<1>10. CASE step = "click"
  <2>1. UIQueue("click", q, button) /\ ui' = button
    BY <1>2, <1>3, <1>10
  <2>2. UIOK'
    BY <1>3, <1>4, <1>6, <2>1 DEF UIOK
  <2>3. BeingWoken(tid)'
    BY <1>6, <2>1 DEF BeingWoken
  <2> HIDE DEF BeingWoken
  <2> QED BY <1>5, <1>6, <1>8, <1>9, <1>0, <2>1, <2>2, <2>3, UIQueueKeeps
<1>11. CASE step = "othermouse"
  <2>1. UIQueue("othermouse", q, UIIdle) /\ ui' = UIIdle
    BY <1>2, <1>3, <1>11
  <2>2. UIOK'
    BY <1>7, <2>1 DEF UIOK
  <2>3. tid \in unwoken' \/ (ready[tid] /\ parking # tid)
    BY <1>3, <1>11
  <2> HIDE DEF BeingWoken
  <2> QED BY <1>5, <1>7, <1>8, <1>9, <1>0, <2>1, <2>2, <2>3, UIQueueKeeps
<1> QED BY <1>10, <1>11

LEMMA OthersQueuedKeep ==
  ASSUME QueueInv, ButtonQueued \/ OtherQueued
  PROVE  QueueInv'
<1>1. TypeOK /\ QueuesOK /\ UIOK
  BY DEF QueueInv
<1> DEFINE tid == ui.tid
<1>2. /\ UNCHANGED <<track, unwoken>>
      /\ \/ UIQueue("button", Append(queue[tid], Msg(ui.hwnd, "button", mouse)), Wake(<<tid>>))
         \/ UIQueue("post", Append(queue[tid], Msg(ui.hwnd, "post", Never)), Wake(<<tid>>))
         \/ UIQueue("size", SizePushed(queue[tid], ui.hwnd), Wake(<<tid>>))
  BY DEF ButtonQueued, OtherQueued
<1>3. ui.step \in {"button", "post", "size"}
  BY <1>2 DEF UIQueue
<1>4. /\ tid \in Threads /\ ui.hwnd \in Windows
      /\ ui.hwnd \in windows => FirstOwner[ui.hwnd] = tid
      /\ QueueOK(tid, queue[tid], windows) /\ mouse \in Positions
  BY <1>1, <1>3, DoingIs DEF TypeOK
<1>5. CASE UIQueue("button", Append(queue[tid], Msg(ui.hwnd, "button", mouse)), Wake(<<tid>>))
  <2>1. /\ QueueOK(tid, Append(queue[tid], Msg(ui.hwnd, "button", mouse)), windows)
        /\ Quits(queue[tid]) => Quits(Append(queue[tid], Msg(ui.hwnd, "button", mouse)))
    BY <1>1, <1>4, EventQueued
  <2> QED BY <1>2, <1>5, <2>1, WakesNext
<1>6. CASE UIQueue("post", Append(queue[tid], Msg(ui.hwnd, "post", Never)), Wake(<<tid>>))
  <2>1. /\ QueueOK(tid, Append(queue[tid], Msg(ui.hwnd, "post", Never)), windows)
        /\ Quits(queue[tid]) => Quits(Append(queue[tid], Msg(ui.hwnd, "post", Never)))
    BY <1>1, <1>4, EventQueued
  <2> QED BY <1>2, <1>6, <2>1, WakesNext
<1>7. CASE UIQueue("size", SizePushed(queue[tid], ui.hwnd), Wake(<<tid>>))
  <2>1. /\ QueueOK(tid, SizePushed(queue[tid], ui.hwnd), windows)
        /\ Quits(queue[tid]) => Quits(SizePushed(queue[tid], ui.hwnd))
    BY <1>4, SizePushedOK
  <2> QED BY <1>2, <1>7, <2>1, WakesNext
<1> QED BY <1>2, <1>5, <1>6, <1>7

LEMMA UIWakeKeeps ==
  ASSUME QueueInv, UIWake
  PROVE  QueueInv'
<1>1. TypeOK /\ QueuesOK /\ UIOK
  BY DEF QueueInv
<1> DEFINE tids == ui.wake
           t    == Head(tids)
<1>2. /\ UNCHANGED <<queue, timers, windows, needsPaint, quitSeen, call, parking, deadline>>
      /\ UNCHANGED <<hostWindows, mouse, lastMoved, track, now>>
      /\ ui # UIIdle /\ ui.step = "wake"
      /\ IF parking = t THEN unwoken' = unwoken \cup {t} /\ ready' = ready
         ELSE ready' = [ready EXCEPT ![t] = TRUE] /\ unwoken' = unwoken \ {t}
      /\ ui' = IF Len(tids) = 1 THEN UIIdle ELSE Wake(Tail(tids))
  BY DEF UIWake, WakeUp, Woken, pump
<1>3. tids \in Seq(Threads) /\ tids # <<>>
  BY <1>1, <1>2 DEF TypeOK, Doings
<1> HIDE DEF tids
<1>4. /\ t \in Threads /\ Len(tids) \in Nat \ {0} /\ DOMAIN tids = 1 .. Len(tids) /\ t = tids[1]
      /\ Tail(tids) \in Seq(Threads) /\ DOMAIN Tail(tids) = 1 .. Len(tids) - 1
      /\ \A i \in DOMAIN Tail(tids) : Tail(tids)[i] = tids[i + 1]
  BY <1>3
<1> HIDE DEF t
<1>5. UIIdle \in Doings /\ UIIdle.step = "idle"
  BY DEF UIIdle, Doings
<1>6. ASSUME Len(tids) # 1
      PROVE  ui' \in Doings /\ ui' # UIIdle /\ ui'.step = "wake" /\ ui'.wake = Tail(tids)
  <2> DEFINE rest == Tail(tids)
  <2>1. rest \in Seq(Threads) /\ DOMAIN rest = 1 .. Len(tids) - 1 /\ 1 \in DOMAIN rest
    BY <1>4, <1>6
  <2>2. ui' = Wake(rest)
    BY <1>2, <1>6
  <2> HIDE DEF rest
  <2>3. rest # <<>>
    BY <2>1
  <2> QED BY <2>1, <2>2, <2>3, WakeIs DEF rest
<1>7. ui' \in Doings /\ UIOK'
  <2>1. CASE Len(tids) = 1
    BY <1>2, <1>5, <2>1 DEF UIOK
  <2>2. CASE Len(tids) # 1
    BY <1>6, <2>2 DEF UIOK
  <2> QED BY <2>1, <2>2
<1>8. /\ ready' \in [Threads -> BOOLEAN] /\ unwoken' \subseteq Threads
      /\ \A u \in Threads : ready[u] => ready'[u]
      /\ \A u \in Threads : u # t => (u \in unwoken => u \in unwoken')
      /\ parking = t => t \in unwoken'
      /\ parking # t => ready'[t]
  <2>1. ready \in [Threads -> BOOLEAN] /\ unwoken \subseteq Threads /\ t \in Threads
    BY <1>1, <1>4 DEF TypeOK
  <2>2. CASE parking = t
    <3>1. unwoken' = unwoken \cup {t} /\ ready' = ready
      BY <1>2, <2>2
    <3> QED BY <2>1, <2>2, <3>1
  <2>3. CASE parking # t
    <3>1. ready' = [ready EXCEPT ![t] = TRUE] /\ unwoken' = unwoken \ {t}
      BY <1>2, <2>3
    <3>2. /\ ready' \in [Threads -> BOOLEAN] /\ ready'[t]
          /\ \A u \in Threads : ready[u] => ready'[u]
      BY <2>1, <3>1
    <3> QED BY <2>1, <2>3, <3>1, <3>2
  <2> QED BY <2>2, <2>3
<1>9. ASSUME NEW u \in Threads, u # t, BeingWoken(u) PROVE BeingWoken(u)'
  <2>1. PICK i \in DOMAIN tids : tids[i] = u
    BY <1>2, <1>9 DEF BeingWoken, tids
  <2>2. i - 1 \in DOMAIN Tail(tids) /\ (i - 1) + 1 = i
    BY <1>4, <1>9, <2>1
  <2>3. Tail(tids)[i - 1] = u /\ Len(tids) # 1
    BY <1>4, <2>1, <2>2
  <2> QED BY <1>6, <2>2, <2>3, WokenNext
<1>10. HostSleeps
  <2> HIDE DEF BeingWoken
  <2>1. ASSUME NEW u \in Threads, ~ready'[u] \/ parking = u
        PROVE  /\ u \in unwoken => u \in unwoken'
               /\ BeingWoken(u) => BeingWoken(u)' \/ u \in unwoken'
    <3>1. CASE u = t
      BY <1>8, <2>1, <3>1
    <3>2. CASE u # t
      BY <1>8, <1>9, <3>2
    <3> QED BY <3>1, <3>2
  <2> QED BY <1>2, <1>8, <2>1 DEF HostSleeps
<1>11. QueueStep
  BY <1>1, <1>2, SameQueues
<1> QED BY <1>1, <1>2, <1>7, <1>8, <1>10, <1>11, HostKeeps DEF TypeOK

LEMMA TickKeeps ==
  ASSUME QueueInv, Tick
  PROVE  QueueInv'
<1>1. TypeOK /\ QueuesOK /\ UIOK
  BY DEF QueueInv
<1>2. /\ UNCHANGED <<queue, timers, windows, needsPaint, quitSeen, call, parking, ready>>
      /\ UNCHANGED <<deadline, unwoken, hostWindows, mouse, lastMoved, track, ui>>
      /\ now' = now + 1 /\ now < MaxTime
  BY DEF Tick, pump, waits, host
<1>3. TypeOK'
  <2>1. now' \in 0 .. MaxTime
    BY <1>1, <1>2, MessageAssumption DEF TypeOK
  <2> QED BY <1>1, <1>2, <2>1 DEF TypeOK
<1>4. Noticed' /\ TimersWake'
  BY <1>2 DEF QueueInv, Noticed, Sleeping, Parked, BeingWoken, Owned, TimersWake
<1>5. QueueStep
  BY <1>1, <1>2, SameQueues
<1> QED BY <1>2, <1>3, <1>4, <1>5, QueuesStay, RestStays DEF QueueInv

----------------------------------------------------------------------------
(* The theorems. *)

LEMMA GuestKeeps ==
  ASSUME QueueInv, NEW s \in Threads, GuestCall(s)
  PROVE  QueueInv'
<1>1. parking = Never
  BY DEF GuestCall, Free, MayRun
<1> QED BY <1>1, PostMessageKeeps, PostThreadKeeps, TranslateKeeps, SetTimerKeeps, KillTimerKeeps,
           DestroyWindowKeeps, InvalidateRectKeeps, ScrollWindowExKeeps,
           UpdateWindowKeeps, QuietKeeps DEF GuestCall

LEMMA FetchesKeep ==
  ASSUME QueueInv, NEW t \in Threads, Fetch(t)
  PROVE  QueueInv'
BY GetMessageKeeps, PeekMessageKeeps, MsgWaitReturnsKeeps, EmptyKeeps, ParkKeeps DEF Fetch

LEMMA HostStepsKeep == ASSUME QueueInv, Host PROVE QueueInv'
BY InputKeeps, UIDestroysKeeps, MoveQueuedKeeps, LeaveQueuedKeeps, MoveBeforeClickKeeps,
   OthersQueuedKeep, UIWakeKeeps DEF Host

\* What the queues, the timers, the sleeping threads and the events on their way have in
\* common is always so: no call of the guest and no step of the UI thread (user32/message.rs,
\* win_frame.rs) breaks it.
THEOREM QueueInvHolds == Spec => []QueueInv
<1>1. QueueInv /\ [Next]_vars => QueueInv'
  <2> SUFFICES ASSUME QueueInv, [Next]_vars PROVE QueueInv'
    OBVIOUS
  <2>1. CASE UNCHANGED vars
    BY <2>1 DEF vars, pump, waits, host, QueueInv, TypeOK, QueuesOK, QueueOK, For, Single, TimersOK,
                UIOK, LastWindowQuits, Noticed, Sleeping, Parked, BeingWoken, Owned, Has, TimersWake
  <2>2. CASE Next
    BY <2>2, TickKeeps, GuestKeeps, FetchesKeep, HostStepsKeep DEF Next, Run
  <2> QED BY <2>1, <2>2
<1> QED BY <1>1, QueueInvStarts, PTL DEF Spec

\* A message for a window is in the queue of the thread the window belongs to and no other,
\* whoever sends it and whatever becomes of other windows: window_owner_thread_id is asked
\* before every push, and the windows' messages go with them (cleanup_window_runtime_state).
THEOREM MessagesReachTheirOwners == Spec => []MessagesAtOwner
<1>1. QueueInv => MessagesAtOwner
  BY DEF QueueInv, QueuesOK, QueueOK, For, MessagesAtOwner
<1> QED BY <1>1, QueueInvHolds, PTL

\* A queue holds one WM_TIMER for a timer and one WM_PAINT, WM_SIZE and WM_SETCURSOR for a
\* window (enqueue_elapsed_timer_messages, enqueue_window_message, enqueue_mouse_move).
THEOREM NothingPilesUp == Spec => []OneOfEach
<1>1. QueueInv => OneOfEach
  BY DEF QueueInv, QueuesOK, QueueOK, Single, OneOfEach
<1> QED BY <1>1, QueueInvHolds, PTL

\* A worker that has lost its last window has taken a WM_QUIT or finds one: DestroyWindow of
\* other windows and the coalescing of input do not take it away (queue_thread_quit).
THEOREM LoopsLearnOfTheirEnd == Spec => []LastWindowQuits
BY QueueInvHolds, PTL DEF QueueInv

\* No thread sleeps in GetMessage or MsgWaitForMultipleObjects on messages, windows to paint or
\* timers, but for the places where the code does not wake it.
THEOREM NobodySleepsWhileThereIsWork == Spec => []NobodySleepsOnWork
<1>1. QueueInv => NobodySleepsOnWork
  BY DEF QueueInv, Noticed, Sleeping, NobodySleepsOnWork, NoSleepOnMessages
<1> QED BY <1>1, QueueInvHolds, PTL

=============================================================================
