-------------------------- MODULE DNetServer_proof --------------------------
(***************************************************************************)
(* The game server for every client: frames of any length, cut into chunks *)
(* in any way, and any number of channels and users.                       *)
(***************************************************************************)
EXTENDS DNetServer, SequenceTheorems, WellFoundedInduction, TLAPS

----------------------------------------------------------------------------
(* Induction over sequences, by the length of the shortest exception: a library theorem *)
(* with a predicate as its parameter cannot be used. *)

LEMMA Least ==
  ASSUME NEW T \in SUBSET Nat, T # {}
  PROVE  \E m \in T : \A k \in T : m <= k
<1> DEFINE R == OpToRel(<, Nat)
<1>1. IsWellFoundedOn(R, Nat)
  BY NatLessThanWellFounded
<1>2. \A x, y \in Nat : x < y => <<x, y>> \in R
  BY DEF OpToRel
<1> HIDE DEF R
<1>3. PICK m \in T : \A y \in T : ~(<<y, m>> \in R)
  BY <1>1, WFMin
<1>4. \A y \in T : ~(y < m)
  BY <1>2, <1>3, Zenon
<1>5. T \subseteq Nat
  OBVIOUS
<1> QED BY <1>3, <1>4, <1>5

LEMMA Grown ==
  ASSUME NEW B, NEW s \in Seq(B), s # <<>>
  PROVE  \E t \in Seq(B), b \in B :
           /\ s = Append(t, b) /\ Len(s) = Len(t) + 1 /\ s[Len(s)] = b
           /\ \A i \in 1 .. Len(t) : s[i] = t[i]
<1> DEFINE t == SubSeq(s, 1, Len(s) - 1)
<1>1. Len(s) \in Nat /\ Len(s) # 0 /\ s[Len(s)] \in B
  OBVIOUS
<1>2. t \in Seq(B) /\ Len(t) = Len(s) - 1 /\ \A i \in 1 .. Len(s) - 1 : t[i] = s[i]
  <2>1. t \in Seq(B) /\ Len(t) = Len(s) - 1
    <3> DEFINE n == Len(s) - 1
    <3>1. 1 \in Int /\ n \in Int /\ n >= 0 /\ \A i \in 1 .. n : s[i] \in B
      BY <1>1
    <3> HIDE DEF n
    <3>2. SubSeq(s, 1, n) \in Seq(B) /\ Len(SubSeq(s, 1, n)) = n
      BY <3>1, SubSeqProperties
    <3> QED BY <3>2 DEF n
  <2>2. \A i \in 1 .. Len(s) - 1 : t[i] = s[i]
    BY <1>1
  <2> HIDE DEF t
  <2> QED BY <2>1, <2>2
<1> HIDE DEF t
<1>3. s = Append(t, s[Len(s)])
  BY <1>1, <1>2
<1> QED BY <1>1, <1>2, <1>3

LEMMA SeqInduction ==
  ASSUME NEW B, NEW S, <<>> \in S, \A t \in Seq(B) : t \in S => \A b \in B : Append(t, b) \in S
  PROVE  Seq(B) \subseteq S
<1> DEFINE T == {n \in Nat : \E t \in Seq(B) : Len(t) = n /\ t \notin S}
<1> SUFFICES ASSUME NEW s \in Seq(B), s \notin S PROVE FALSE
  OBVIOUS
<1>1. Len(s) \in T /\ T \in SUBSET Nat
  OBVIOUS
<1>2. PICK m \in T : \A n \in T : m <= n
  <2> HIDE DEF T
  <2> QED BY <1>1, Least
<1>3. PICK u \in Seq(B) : Len(u) = m /\ u \notin S
  OBVIOUS
<1>7. u # <<>>
  BY <1>3
<1>4. PICK t \in Seq(B), b \in B :
        /\ u = Append(t, b) /\ Len(u) = Len(t) + 1 /\ u[Len(u)] = b
        /\ \A i \in 1 .. Len(t) : u[i] = t[i]
  BY <1>7, Grown
<1>5. Len(t) \in Nat /\ ~(m <= Len(t))
  BY <1>3, <1>4
<1>6. t \in S
  <2>1. Len(t) \notin T
    <3> HIDE DEF T
    <3> QED BY <1>2, <1>5
  <2> QED BY <1>5, <2>1
<1> QED BY <1>3, <1>4, <1>6

LEMMA Joining ==
  ASSUME NEW B, NEW r \in Seq(B), NEW s \in Seq(B), NEW t \in Seq(B)
  PROVE  (r \o s) \o t = r \o (s \o t)
OBVIOUS

LEMMA JoiningOne ==
  ASSUME NEW B, NEW r \in Seq(B), NEW s \in Seq(B), NEW b \in B
  PROVE  r \o Append(s, b) = Append(r \o s, b)
OBVIOUS

----------------------------------------------------------------------------
(* The chunks on the wire, joined. *)

\* The function FlattenSeq defines.
Joined(w, f) == f = [i \in 1 .. Len(w) |-> IF i = 1 THEN w[i] ELSE f[i - 1] \o w[i]]

LEMMA JoinedNext ==
  ASSUME NEW C, NEW w \in Seq(C), w # <<>>, NEW c \in C, NEW f, Joined(w, f)
  PROVE  Joined(Append(w, c),
                [i \in 1 .. Len(w) + 1 |-> IF i = Len(w) + 1 THEN f[Len(w)] \o c ELSE f[i]])
<1> DEFINE n == Len(w)
           v == Append(w, c)
           g == [i \in 1 .. n + 1 |-> IF i = n + 1 THEN f[n] \o c ELSE f[i]]
<1>1. n \in Nat /\ n # 0 /\ Len(v) = n + 1 /\ v[n + 1] = c /\ \A i \in 1 .. n : v[i] = w[i]
  OBVIOUS
<1>2. \A i \in 1 .. n : f[i] = IF i = 1 THEN w[i] ELSE f[i - 1] \o w[i]
  BY DEF Joined
<1> HIDE DEF n, v
<1>3. ASSUME NEW i \in 1 .. n + 1
      PROVE  g[i] = IF i = 1 THEN v[i] ELSE g[i - 1] \o v[i]
  <2>1. CASE i = n + 1
    <3>1. i # 1 /\ i - 1 = n /\ n # n + 1 /\ n \in 1 .. n + 1
      BY <1>1, <2>1
    <3> QED BY <1>1, <2>1, <3>1
  <2>2. CASE i # n + 1
    <3>1. i \in 1 .. n /\ (i # 1 => i - 1 \in 1 .. n + 1 /\ i - 1 # n + 1)
      BY <1>1, <2>2
    <3> QED BY <1>1, <1>2, <2>2, <3>1
  <2> QED BY <2>1, <2>2
<1>4. g = [i \in 1 .. n + 1 |-> g[i]]
  OBVIOUS
<1> HIDE DEF g
<1>5. Joined(v, g)
  BY <1>1, <1>3, <1>4 DEF Joined
<1> QED BY <1>5 DEF n, v, g

LEMMA JoinedExists ==
  ASSUME NEW C, NEW w \in Seq(C), w # <<>>
  PROVE  \E f : Joined(w, f)
<1> DEFINE S == {u \in Seq(C) : u # <<>> => \E f : Joined(u, f)}
<1>1. <<>> \in S
  OBVIOUS
<1>2. ASSUME NEW u \in Seq(C), u \in S, NEW c \in C PROVE Append(u, c) \in S
  <2>1. CASE u = <<>>
    <3>1. Joined(<<c>>, [i \in 1 .. 1 |-> c])
      BY DEF Joined
    <3>2. Append(u, c) = <<c>> /\ Append(u, c) \in Seq(C)
      BY <2>1
    <3> QED BY <3>1, <3>2
  <2>2. CASE u # <<>>
    <3>1. PICK f : Joined(u, f)
      BY <1>2, <2>2
    <3>2. \E g : Joined(Append(u, c), g)
      BY <2>2, <3>1, JoinedNext
    <3> QED BY <3>2
  <2> QED BY <2>1, <2>2
<1> HIDE DEF S
<1>3. w \in S
  BY <1>1, <1>2, SeqInduction
<1> QED BY <1>3 DEF S

\* There is one such function.
LEMMA JoinedAgree ==
  ASSUME NEW w, NEW v, Len(w) \in Nat, Len(v) \in Nat, Len(w) <= Len(v),
         \A i \in 1 .. Len(w) : v[i] = w[i],
         NEW f, Joined(w, f), NEW g, Joined(v, g)
  PROVE  \A i \in 1 .. Len(w) : g[i] = f[i]
<1> DEFINE T == {i \in 1 .. Len(w) : g[i] # f[i]}
<1> SUFFICES ASSUME T # {} PROVE FALSE
  OBVIOUS
<1>1. T \in SUBSET Nat
  OBVIOUS
<1> HIDE DEF T
<1>2. PICK m \in T : \A k \in T : m <= k
  BY <1>1, Least
<1>3. m \in 1 .. Len(w) /\ m \in 1 .. Len(v) /\ g[m] # f[m]
  BY <1>1, <1>2 DEF T
<1>4. /\ f[m] = IF m = 1 THEN w[m] ELSE f[m - 1] \o w[m]
      /\ g[m] = IF m = 1 THEN v[m] ELSE g[m - 1] \o v[m]
  BY <1>3 DEF Joined
<1>5. m # 1 /\ m - 1 \in 1 .. Len(w)
  BY <1>3, <1>4
<1>6. m - 1 \notin T
  BY <1>2, <1>3
<1>7. g[m - 1] = f[m - 1]
  BY <1>5, <1>6 DEF T
<1> QED BY <1>3, <1>4, <1>5, <1>7

LEMMA FlattenIs ==
  ASSUME NEW C, NEW w \in Seq(C), w # <<>>
  PROVE  \E f : Joined(w, f) /\ FlattenSeq(w) = f[Len(w)]
<1> DEFINE f == CHOOSE f : Joined(w, f)
<1>1. Joined(w, f)
  BY JoinedExists
<1>2. FlattenSeq(w) = f[Len(w)]
  <2>1. Len(w) # 0
    OBVIOUS
  <2> QED BY <2>1 DEF FlattenSeq, Joined
<1> QED BY <1>1, <1>2

LEMMA FlattenAppend ==
  ASSUME NEW B, NEW w \in Seq(Seq(B)), NEW c \in Seq(B)
  PROVE  /\ FlattenSeq(<<>>) = <<>>
         /\ FlattenSeq(Append(w, c)) = IF w = <<>> THEN c ELSE FlattenSeq(w) \o c
<1> DEFINE C == Seq(B)
           v == Append(w, c)
<1>1. FlattenSeq(<<>>) = <<>>
  BY DEF FlattenSeq
<1>2. w \in Seq(C) /\ c \in C /\ v \in Seq(C) /\ v # <<>> /\ Len(v) = Len(w) + 1 /\ Len(w) \in Nat
  <2>1. w \in Seq(C) /\ c \in C
    OBVIOUS
  <2> HIDE DEF C
  <2> QED BY <2>1
<1>3. v[Len(v)] = c /\ (w = <<>> => Len(v) = 1) /\ \A i \in 1 .. Len(w) : v[i] = w[i]
  OBVIOUS
<1> HIDE DEF C, v
<1>4. PICK g : Joined(v, g) /\ FlattenSeq(v) = g[Len(v)]
  BY <1>2, FlattenIs
<1>5. g[Len(v)] = IF Len(v) = 1 THEN v[Len(v)] ELSE g[Len(v) - 1] \o v[Len(v)]
  <2>1. Len(v) \in 1 .. Len(v)
    BY <1>2
  <2> QED BY <1>4, <2>1 DEF Joined
<1>6. CASE w = <<>>
  BY <1>1, <1>3, <1>4, <1>5, <1>6 DEF v
<1>7. CASE w # <<>>
  <2>1. PICK f : Joined(w, f) /\ FlattenSeq(w) = f[Len(w)]
    BY <1>2, <1>7, FlattenIs
  <2>2. Len(w) # 0
    BY <1>2, <1>7
  <2>3. g[Len(w)] = f[Len(w)]
    <3>1. \A i \in 1 .. Len(w) : g[i] = f[i]
      <4>1. Len(w) <= Len(v)
        BY <1>2
      <4>2. Joined(w, f) /\ Joined(v, g)
        BY <1>4, <2>1
      <4> HIDE DEF v
      <4>3. Len(w) \in Nat /\ Len(v) \in Nat /\ \A i \in 1 .. Len(w) : v[i] = w[i]
        BY <1>2, <1>3
      <4> QED BY <4>1, <4>2, <4>3, JoinedAgree
    <3> QED BY <1>2, <2>2, <3>1
  <2>4. Len(v) # 1 /\ Len(v) - 1 = Len(w)
    BY <1>2, <2>2
  <2> QED BY <1>1, <1>3, <1>4, <1>5, <1>7, <2>1, <2>3, <2>4 DEF v
<1> QED BY <1>6, <1>7

LEMMA FlattenEmpty == FlattenSeq(<<>>) = <<>>
BY DEF FlattenSeq

LEMMA FlattenType ==
  ASSUME NEW B, NEW w \in Seq(Seq(B))
  PROVE  FlattenSeq(w) \in Seq(B)
<1> DEFINE C == Seq(B)
           S == {u \in Seq(C) : FlattenSeq(u) \in Seq(B)}
<1>1. <<>> \in S
  <2>1. <<>> \in Seq(B) /\ <<>> \in Seq(C)
    OBVIOUS
  <2>2. FlattenSeq(<<>>) \in Seq(B)
    BY <2>1, FlattenEmpty
  <2> QED BY <2>1, <2>2
<1>2. ASSUME NEW u \in Seq(C), u \in S, NEW c \in C PROVE Append(u, c) \in S
  <2>1. FlattenSeq(Append(u, c)) = IF u = <<>> THEN c ELSE FlattenSeq(u) \o c
    BY FlattenAppend
  <2>2. FlattenSeq(u) \in Seq(B)
    BY <1>2
  <2>3. FlattenSeq(Append(u, c)) \in Seq(B)
    BY <2>1, <2>2
  <2>4. Append(u, c) \in Seq(C)
    <3> HIDE DEF C
    <3> QED OBVIOUS
  <2> QED BY <2>3, <2>4
<1> HIDE DEF S
<1>3. w \in S
  BY <1>1, <1>2, SeqInduction
<1> QED BY <1>3 DEF S

LEMMA FlattenSnoc ==
  ASSUME NEW B, NEW w \in Seq(Seq(B)), NEW c \in Seq(B)
  PROVE  FlattenSeq(Append(w, c)) = FlattenSeq(w) \o c
<1>1. CASE w = <<>>
  <2>1. FlattenSeq(w) = <<>> /\ FlattenSeq(Append(w, c)) = c
    BY <1>1, FlattenAppend
  <2>2. <<>> \o c = c
    OBVIOUS
  <2> QED BY <2>1, <2>2
<1>2. CASE w # <<>>
  BY <1>2, FlattenAppend
<1> QED BY <1>1, <1>2

LEMMA FlattenCons ==
  ASSUME NEW B, NEW w \in Seq(Seq(B)), NEW c \in Seq(B)
  PROVE  FlattenSeq(<<c>> \o w) = c \o FlattenSeq(w)
<1> DEFINE C == Seq(B)
           S == {u \in Seq(C) : FlattenSeq(<<c>> \o u) = c \o FlattenSeq(u)}
<1>1. <<>> \in S
  <2>1. <<c>> \o <<>> = Append(<<>>, c) /\ <<>> \in Seq(C)
    OBVIOUS
  <2>2. FlattenSeq(Append(<<>>, c)) = c /\ FlattenSeq(<<>>) = <<>>
    BY <2>1, FlattenAppend
  <2> QED BY <2>1, <2>2
<1>2. ASSUME NEW u \in Seq(C), u \in S, NEW d \in C PROVE Append(u, d) \in S
  <2>1. <<c>> \o Append(u, d) = Append(<<c>> \o u, d) /\ <<c>> \o u \in Seq(C)
    OBVIOUS
  <2>2. FlattenSeq(Append(<<c>> \o u, d)) = FlattenSeq(<<c>> \o u) \o d
    BY <2>1, FlattenSnoc
  <2>3. FlattenSeq(Append(u, d)) = FlattenSeq(u) \o d
    BY FlattenSnoc
  <2>4. FlattenSeq(<<c>> \o u) = c \o FlattenSeq(u)
    BY <1>2
  <2>5. (c \o FlattenSeq(u)) \o d = c \o (FlattenSeq(u) \o d)
    BY FlattenType, Joining
  <2>6. Append(u, d) \in Seq(C)
    <3> HIDE DEF C
    <3> QED OBVIOUS
  <2>7. FlattenSeq(<<c>> \o Append(u, d)) = c \o FlattenSeq(Append(u, d))
    BY <2>1, <2>2, <2>3, <2>4, <2>5
  <2> QED BY <2>6, <2>7
<1> HIDE DEF S
<1>3. w \in S
  BY <1>1, <1>2, SeqInduction
<1> QED BY <1>3 DEF S

----------------------------------------------------------------------------
(* The frames that are complete in a sequence of bytes. *)

\* The function Whole defines.
Upto(s, f) ==
  f = [n \in 0 .. Len(s) |->
         IF n = 0 THEN <<>>
         ELSE IF Ready(s[n]) THEN Append(f[n - 1], FrameOf(s[n])) ELSE f[n - 1]]

LEMMA UptoExists ==
  ASSUME NEW B, NEW s \in Seq(B)
  PROVE  \E f : Upto(s, f)
<1> DEFINE S == {u \in Seq(B) : \E f : Upto(u, f)}
<1>1. <<>> \in S
  <2>1. Upto(<<>>, [n \in 0 .. 0 |-> <<>>])
    BY DEF Upto
  <2> QED BY <2>1
<1>2. ASSUME NEW u \in Seq(B), u \in S, NEW b \in B PROVE Append(u, b) \in S
  <2>1. PICK f : Upto(u, f)
    BY <1>2
  <2> DEFINE m == Len(u)
             v == Append(u, b)
             g == [n \in 0 .. m + 1 |->
                     IF n = m + 1 THEN IF Ready(b) THEN Append(f[m], FrameOf(b)) ELSE f[m]
                     ELSE f[n]]
  <2>2. m \in Nat /\ Len(v) = m + 1 /\ v[m + 1] = b /\ v \in Seq(B) /\ \A i \in 1 .. m : v[i] = u[i]
    OBVIOUS
  <2>3. \A n \in 0 .. m : f[n] = IF n = 0 THEN <<>>
          ELSE IF Ready(u[n]) THEN Append(f[n - 1], FrameOf(u[n])) ELSE f[n - 1]
    BY <2>1 DEF Upto
  <2> HIDE DEF m, v
  <2>4. ASSUME NEW n \in 0 .. m + 1
        PROVE  g[n] = IF n = 0 THEN <<>>
                 ELSE IF Ready(v[n]) THEN Append(g[n - 1], FrameOf(v[n])) ELSE g[n - 1]
    <3>1. CASE n = m + 1
      <4>1. n # 0 /\ n - 1 = m /\ m # m + 1 /\ m \in 0 .. m + 1
        BY <2>2, <3>1
      <4> QED BY <2>2, <3>1, <4>1
    <3>2. CASE n # m + 1
      <4>1. n \in 0 .. m /\ (n # 0 => n \in 1 .. m /\ n - 1 \in 0 .. m + 1 /\ n - 1 # m + 1)
        BY <2>2, <3>2
      <4> QED BY <2>2, <2>3, <3>2, <4>1
    <3> QED BY <3>1, <3>2
  <2>5. g = [n \in 0 .. m + 1 |-> g[n]]
    OBVIOUS
  <2> HIDE DEF g
  <2>6. Upto(v, g)
    BY <2>2, <2>4, <2>5 DEF Upto
  <2> QED BY <2>2, <2>6 DEF v
<1> HIDE DEF S
<1>3. s \in S
  BY <1>1, <1>2, SeqInduction
<1> QED BY <1>3 DEF S

LEMMA UptoAgree ==
  ASSUME NEW s, NEW t, Len(s) \in Nat, Len(t) \in Nat, Len(s) <= Len(t),
         \A i \in 1 .. Len(s) : t[i] = s[i],
         NEW f, Upto(s, f), NEW g, Upto(t, g)
  PROVE  \A i \in 0 .. Len(s) : g[i] = f[i]
<1> DEFINE T == {i \in 0 .. Len(s) : g[i] # f[i]}
<1> SUFFICES ASSUME T # {} PROVE FALSE
  OBVIOUS
<1>1. T \in SUBSET Nat
  OBVIOUS
<1> HIDE DEF T
<1>2. PICK m \in T : \A k \in T : m <= k
  BY <1>1, Least
<1>3. m \in 0 .. Len(s) /\ m \in 0 .. Len(t) /\ g[m] # f[m]
  BY <1>2 DEF T
<1>4. /\ f[m] = IF m = 0 THEN <<>>
                ELSE IF Ready(s[m]) THEN Append(f[m - 1], FrameOf(s[m])) ELSE f[m - 1]
      /\ g[m] = IF m = 0 THEN <<>>
                ELSE IF Ready(t[m]) THEN Append(g[m - 1], FrameOf(t[m])) ELSE g[m - 1]
  BY <1>3 DEF Upto
<1>5. m # 0 /\ m \in 1 .. Len(s) /\ m - 1 \in 0 .. Len(s)
  BY <1>3, <1>4
<1>6. m - 1 \notin T
  BY <1>2, <1>3
<1>7. g[m - 1] = f[m - 1]
  BY <1>5, <1>6 DEF T
<1> QED BY <1>3, <1>4, <1>5, <1>7

LEMMA WholeUnfolds ==
  ASSUME NEW B, NEW s \in Seq(B)
  PROVE  \E f : Upto(s, f) /\ Whole(s) = f[Len(s)]
<1> DEFINE f == CHOOSE f : Upto(s, f)
<1>1. Upto(s, f)
  BY UptoExists
<1>2. Whole(s) = f[Len(s)]
  BY DEF Whole, Upto
<1> QED BY <1>1, <1>2

LEMMA WholeEmpty == Whole(<<>>) = <<>>
<1>1. <<>> \in Seq({}) /\ Len(<<>>) = 0
  OBVIOUS
<1>2. PICK f : Upto(<<>>, f) /\ Whole(<<>>) = f[0]
  BY <1>1, WholeUnfolds
<1> QED BY <1>1, <1>2 DEF Upto

LEMMA WholeSnoc ==
  ASSUME NEW B, NEW s \in Seq(B), NEW b \in B
  PROVE  Whole(Append(s, b)) = IF Ready(b) THEN Append(Whole(s), FrameOf(b)) ELSE Whole(s)
<1> DEFINE t == Append(s, b)
<1>2. /\ t \in Seq(B) /\ Len(t) = Len(s) + 1 /\ Len(s) \in Nat /\ t[Len(s) + 1] = b
      /\ \A i \in 1 .. Len(s) : t[i] = s[i]
  OBVIOUS
<1> HIDE DEF t
<1>3. PICK f : Upto(s, f) /\ Whole(s) = f[Len(s)]
  BY WholeUnfolds
<1>4. PICK g : Upto(t, g) /\ Whole(t) = g[Len(t)]
  BY <1>2, WholeUnfolds
<1>5. g[Len(s)] = f[Len(s)]
  <2>1. Len(s) <= Len(t) /\ Len(t) \in Nat /\ Len(s) \in 0 .. Len(s)
    BY <1>2
  <2>2. \A i \in 0 .. Len(s) : g[i] = f[i]
    BY <1>2, <1>3, <1>4, <2>1, UptoAgree
  <2> QED BY <2>1, <2>2
<1>6. Len(t) \in 0 .. Len(t) /\ Len(t) # 0 /\ Len(t) - 1 = Len(s)
  BY <1>2
<1>7. g[Len(t)] = IF Ready(t[Len(t)]) THEN Append(g[Len(t) - 1], FrameOf(t[Len(t)]))
                  ELSE g[Len(t) - 1]
  BY <1>4, <1>6 DEF Upto
<1> QED BY <1>2, <1>3, <1>4, <1>5, <1>6, <1>7 DEF t

\* The bytes of a set belong to the frames of another.
Belong(B, F) == \A b \in B : FrameOf(b) \in F

LEMMA WholeJoins ==
  ASSUME NEW F, NEW B, Belong(B, F), NEW s \in Seq(B), NEW t \in Seq(B)
  PROVE  Whole(s) \in Seq(F) /\ Whole(s \o t) = Whole(s) \o Whole(t)
<1>1. ASSUME NEW u \in Seq(B) PROVE Whole(u) \in Seq(F)
  <2> DEFINE S == {v \in Seq(B) : Whole(v) \in Seq(F)}
  <2>1. <<>> \in S
    <3>1. Whole(<<>>) = <<>> /\ <<>> \in Seq(B) /\ <<>> \in Seq(F)
      BY WholeEmpty, EmptySeq
    <3> QED BY <3>1
  <2>2. ASSUME NEW v \in Seq(B), v \in S, NEW b \in B PROVE Append(v, b) \in S
    <3>1. Whole(Append(v, b)) = IF Ready(b) THEN Append(Whole(v), FrameOf(b)) ELSE Whole(v)
      BY WholeSnoc
    <3>2. Whole(v) \in Seq(F) /\ FrameOf(b) \in F
      BY <2>2 DEF Belong
    <3>3. Append(v, b) \in Seq(B) /\ Append(Whole(v), FrameOf(b)) \in Seq(F)
      BY <3>2
    <3> QED BY <3>1, <3>2, <3>3
  <2> HIDE DEF S
  <2>3. u \in S
    BY <2>1, <2>2, SeqInduction
  <2> QED BY <2>3 DEF S
<1>2. Whole(s \o t) = Whole(s) \o Whole(t)
  <2> DEFINE S == {v \in Seq(B) : Whole(s \o v) = Whole(s) \o Whole(v)}
  <2>1. <<>> \in S
    <3>1. s \o <<>> = s /\ Whole(<<>>) = <<>> /\ <<>> \in Seq(B)
      BY WholeEmpty, EmptySeq
    <3>2. Whole(s) \o <<>> = Whole(s)
      BY <1>1
    <3> QED BY <3>1, <3>2
  <2>2. ASSUME NEW v \in Seq(B), v \in S, NEW b \in B PROVE Append(v, b) \in S
    <3>1. Whole(Append(v, b)) = IF Ready(b) THEN Append(Whole(v), FrameOf(b)) ELSE Whole(v)
      BY WholeSnoc
    <3>2. Whole(Append(s \o v, b)) =
            IF Ready(b) THEN Append(Whole(s \o v), FrameOf(b)) ELSE Whole(s \o v)
      <4>1. s \o v \in Seq(B)
        OBVIOUS
      <4> QED BY <4>1, WholeSnoc
    <3>3. s \o Append(v, b) = Append(s \o v, b) /\ Append(v, b) \in Seq(B)
      BY JoiningOne
    <3>4. Whole(s \o v) = Whole(s) \o Whole(v)
      BY <2>2
    <3>5. Whole(s) \o Append(Whole(v), FrameOf(b)) = Append(Whole(s) \o Whole(v), FrameOf(b))
      <4>1. FrameOf(b) \in F /\ Whole(s) \in Seq(F) /\ Whole(v) \in Seq(F)
        BY <1>1 DEF Belong
      <4> QED BY <4>1, JoiningOne
    <3> QED BY <3>1, <3>2, <3>3, <3>4, <3>5
  <2> HIDE DEF S
  <2>3. t \in S
    BY <2>1, <2>2, SeqInduction
  <2> QED BY <2>3 DEF S
<1> QED BY <1>1, <1>2

\* A frame without its last byte is no frame.
LEMMA NoneWhole ==
  ASSUME NEW B, NEW s \in Seq(B), \A i \in 1 .. Len(s) : ~Ready(s[i])
  PROVE  Whole(s) = <<>>
<1> DEFINE S == {u \in Seq(B) : (\A i \in 1 .. Len(u) : ~Ready(u[i])) => Whole(u) = <<>>}
<1>1. <<>> \in S
  BY WholeEmpty, EmptySeq
<1>2. ASSUME NEW u \in Seq(B), u \in S, NEW b \in B PROVE Append(u, b) \in S
  <2> DEFINE v == Append(u, b)
  <2>1. /\ v \in Seq(B) /\ Len(v) = Len(u) + 1 /\ Len(u) \in Nat /\ v[Len(u) + 1] = b
        /\ \A i \in 1 .. Len(u) : v[i] = u[i]
    OBVIOUS
  <2>2. Whole(v) = IF Ready(b) THEN Append(Whole(u), FrameOf(b)) ELSE Whole(u)
    BY WholeSnoc
  <2> HIDE DEF v
  <2>3. ASSUME \A i \in 1 .. Len(v) : ~Ready(v[i]) PROVE Whole(v) = <<>>
    <3>1. ~Ready(b)
      BY <2>1, <2>3
    <3>2. \A i \in 1 .. Len(u) : ~Ready(u[i])
      BY <2>1, <2>3
    <3> QED BY <1>2, <2>2, <3>1, <3>2
  <2> QED BY <2>1, <2>3 DEF v
<1> HIDE DEF S
<1>3. s \in S
  BY <1>1, <1>2, SeqInduction
<1> QED BY <1>3 DEF S

----------------------------------------------------------------------------
(* Bytes in step. *)

LEMMA SplitAt ==
  ASSUME NEW B, NEW s \in Seq(B), NEW n \in 0 .. Len(s)
  PROVE  LET u == SubSeq(s, 1, n)
             t == SubSeq(s, n + 1, Len(s))
         IN  /\ u \in Seq(B) /\ t \in Seq(B) /\ s = u \o t
             /\ Len(u) = n /\ \A i \in 1 .. n : u[i] = s[i]
<1> DEFINE m == Len(s)
           u == SubSeq(s, 1, n)
           t == SubSeq(s, n + 1, m)
<1>1. m \in Nat /\ n \in Nat /\ n <= m /\ \A i \in 1 .. m : s[i] \in B
  OBVIOUS
<1>2. u \in Seq(B) /\ Len(u) = n /\ \A i \in 1 .. n : u[i] = s[i]
  <2>1. u \in Seq(B) /\ Len(u) = IF 1 <= n THEN n - 1 + 1 ELSE 0
    <3> HIDE DEF m
    <3> QED BY <1>1, SubSeqProperties
  <2>2. \A i \in 1 .. n : u[i] = s[i]
    BY <1>1
  <2> HIDE DEF u
  <2> QED BY <1>1, <2>1, <2>2
<1>3. t \in Seq(B) /\ Len(t) = m - n /\ \A i \in 1 .. m - n : t[i] = s[n + i]
  <2>1. t \in Seq(B) /\ Len(t) = IF n + 1 <= m THEN m - (n + 1) + 1 ELSE 0
    <3> HIDE DEF m
    <3>1. n + 1 \in Int /\ m \in Int /\ \A i \in n + 1 .. m : s[i] \in B
      BY <1>1
    <3> QED BY <3>1, SubSeqProperties
  <2>2. \A i \in 1 .. m - n : t[i] = s[n + i]
    BY <1>1
  <2> HIDE DEF t, m
  <2> QED BY <1>1, <2>1, <2>2
<1> HIDE DEF u, t
<1>4. s = u \o t
  <2>1. u \o t \in Seq(B) /\ Len(u \o t) = m
    <3>1. Len(u) = n /\ Len(t) = m - n /\ u \in Seq(B) /\ t \in Seq(B)
      BY <1>2, <1>3
    <3>2. u \o t \in Seq(B) /\ Len(u \o t) = Len(u) + Len(t)
      BY <3>1
    <3> HIDE DEF m
    <3> QED BY <1>1, <3>1, <3>2
  <2>2. \A i \in 1 .. m : (u \o t)[i] = s[i]
    <3>1. ASSUME NEW i \in 1 .. m PROVE (u \o t)[i] = s[i]
      <4>1. CASE i <= n
        BY <1>1, <1>2, <1>3, <4>1
      <4>2. CASE ~(i <= n)
        <5>1. i - n \in 1 .. m - n /\ n + (i - n) = i /\ i > n
          BY <1>1, <4>2
        <5>2. (u \o t)[i] = t[i - n]
          BY <1>1, <1>2, <1>3, <5>1
        <5> QED BY <1>3, <5>1, <5>2
      <4> QED BY <4>1, <4>2
    <3> QED BY <3>1
  <2> DEFINE v == u \o t
  <2>3. v \in Seq(B) /\ Len(v) = Len(s) /\ \A i \in 1 .. Len(s) : v[i] = s[i]
    BY <2>1, <2>2
  <2> HIDE DEF v
  <2>4. v = s
    BY <2>3, SeqEqual
  <2> QED BY <2>4 DEF v
<1> QED BY <1>2, <1>3, <1>4 DEF u, t

Frames == ValidFrames \cup BadFrames
Octets == {b \in Frames \X Nat : b[2] \in 1 .. HeaderLen + b[1].len}

Follows(a, b) == b = <<a[1], a[2] + 1>> \/ (b[2] = 1 /\ a[2] = HeaderLen + a[1].len)
Ends(b)       == b[2] = HeaderLen + b[1].len

\* A sequence of bytes that begins with the first of a frame and leaves none out, and one
\* that ends with a last byte, too.
Fits(s) ==
  /\ s \in Seq(Octets)
  /\ s # <<>> => s[1][2] = 1
  /\ \A i \in 1 .. Len(s) - 1 : Follows(s[i], s[i + 1])
EndsWhole(s) == Fits(s) /\ (s # <<>> => Ends(s[Len(s)]))

LEMMA OctetsAre ==
  ASSUME NEW b \in Octets
  PROVE  /\ b[1] \in Frames /\ b[2] \in Nat /\ b[1].len \in Nat /\ b = <<b[1], b[2]>>
         /\ 1 <= b[2] /\ b[2] <= HeaderLen + b[1].len /\ HeaderLen \in Nat
BY FrameAssumption DEF Octets, Frames

LEMMA BytesFit ==
  ASSUME NEW f \in Frames
  PROVE  EndsWhole(Bytes(f)) /\ Bytes(f) # <<>>
<1> DEFINE n == HeaderLen + f.len
           s == Bytes(f)
           O == Octets
<1>1. n \in Nat /\ n # 0 /\ \A i \in 1 .. n : <<f, i>> \in O
  BY FrameAssumption DEF Octets, Frames
<1>2. s = [i \in 1 .. n |-> <<f, i>>]
  BY DEF Bytes
<1>3. n = HeaderLen + f.len
  OBVIOUS
<1> HIDE DEF n, s, O
<1>4. s \in Seq(O) /\ Len(s) = n /\ s # <<>>
  <2>1. s \in [1 .. n -> O]
    BY <1>1, <1>2
  <2>2. s \in Seq(O) /\ Len(s) = n
    BY <1>1, <1>2, <2>1, SeqDef
  <2> QED BY <1>1, <2>2
<1>5. \A i \in 1 .. n : s[i] = <<f, i>>
  BY <1>2
<1>6. s[1][2] = 1 /\ Ends(s[n])
  BY <1>1, <1>3, <1>5 DEF Ends
<1>7. \A i \in 1 .. n - 1 : Follows(s[i], s[i + 1])
  BY <1>1, <1>5 DEF Follows
<1> QED BY <1>4, <1>6, <1>7 DEF EndsWhole, Fits, s, O

LEMMA FitsJoin ==
  ASSUME NEW s, NEW t, EndsWhole(s), EndsWhole(t)
  PROVE  EndsWhole(s \o t)
<1> DEFINE O == Octets
           a == s \o t
<1>1. s \in Seq(O) /\ t \in Seq(O)
  BY DEF EndsWhole, Fits
<1> HIDE DEF O
<1>2. /\ a \in Seq(O) /\ Len(a) = Len(s) + Len(t) /\ Len(s) \in Nat /\ Len(t) \in Nat
      /\ \A i \in 1 .. Len(s) : a[i] = s[i]
      /\ \A i \in 1 .. Len(t) : a[Len(s) + i] = t[i]
      /\ (s = <<>> <=> Len(s) = 0) /\ (t = <<>> <=> Len(t) = 0) /\ (a = <<>> <=> Len(a) = 0)
  BY <1>1
<1> HIDE DEF a
<1>3. a # <<>> => a[1][2] = 1
  <2>1. CASE s # <<>>
    BY <1>2, <2>1 DEF EndsWhole, Fits
  <2>2. CASE s = <<>>
    <3>1. a # <<>> => a[1] = t[1] /\ t # <<>>
      <4>1. Len(s) = 0 /\ (a # <<>> => 1 \in 1 .. Len(t))
        BY <1>2, <2>2
      <4> QED BY <1>2, <4>1
    <3> QED BY <3>1 DEF EndsWhole, Fits
  <2> QED BY <2>1, <2>2
<1>4. ASSUME NEW i \in 1 .. Len(a) - 1 PROVE Follows(a[i], a[i + 1])
  <2>1. CASE i < Len(s)
    <3>1. a[i] = s[i] /\ a[i + 1] = s[i + 1] /\ i \in 1 .. Len(s) - 1
      BY <1>2, <2>1
    <3> QED BY <3>1 DEF EndsWhole, Fits
  <2>2. CASE i = Len(s)
    <3>1. a[i] = s[Len(s)] /\ s # <<>> /\ t # <<>> /\ a[i + 1] = t[1]
      BY <1>2, <2>2
    <3> QED BY <3>1 DEF EndsWhole, Fits, Ends, Follows
  <2>3. CASE i > Len(s)
    <3> DEFINE k == i - Len(s)
    <3>1. k \in 1 .. Len(t) - 1 /\ k + 1 \in 1 .. Len(t) /\ k \in 1 .. Len(t)
          /\ i = Len(s) + k /\ i + 1 = Len(s) + (k + 1)
      BY <1>2, <2>3
    <3> HIDE DEF k
    <3>2. a[i] = t[k] /\ a[i + 1] = t[k + 1]
      BY <1>2, <3>1
    <3> QED BY <3>1, <3>2 DEF EndsWhole, Fits
  <2> QED BY <1>2, <2>1, <2>2, <2>3
<1>5. a # <<>> => Ends(a[Len(a)])
  <2>1. CASE t # <<>>
    <3>1. a[Len(a)] = t[Len(t)]
      BY <1>2, <2>1
    <3> QED BY <2>1, <3>1 DEF EndsWhole
  <2>2. CASE t = <<>>
    <3>1. a # <<>> => a[Len(a)] = s[Len(s)] /\ s # <<>>
      BY <1>2, <2>2
    <3> QED BY <3>1 DEF EndsWhole
  <2> QED BY <2>1, <2>2
<1> QED BY <1>2, <1>3, <1>4, <1>5 DEF EndsWhole, Fits, O, a

LEMMA FitsBefore ==
  ASSUME NEW s \in Seq(Octets), NEW t \in Seq(Octets), Fits(s \o t)
  PROVE  Fits(s)
<1> DEFINE O == Octets
           a == s \o t
<1>1. s \in Seq(O) /\ t \in Seq(O)
  OBVIOUS
<1> HIDE DEF O
<1>2. /\ Len(a) = Len(s) + Len(t) /\ Len(s) \in Nat /\ Len(t) \in Nat
      /\ \A i \in 1 .. Len(s) : a[i] = s[i]
      /\ (s = <<>> <=> Len(s) = 0) /\ (a = <<>> <=> Len(a) = 0)
  BY <1>1
<1>3. (a # <<>> => a[1][2] = 1) /\ \A i \in 1 .. Len(a) - 1 : Follows(a[i], a[i + 1])
  BY DEF Fits
<1> HIDE DEF a
<1>4. s # <<>> => s[1][2] = 1
  BY <1>2, <1>3
<1>5. ASSUME NEW i \in 1 .. Len(s) - 1 PROVE Follows(s[i], s[i + 1])
  <2>1. i \in 1 .. Len(a) - 1 /\ a[i] = s[i] /\ a[i + 1] = s[i + 1]
    BY <1>2
  <2> QED BY <1>3, <2>1
<1> QED BY <1>4, <1>5 DEF Fits

LEMMA FitsAfter ==
  ASSUME NEW s \in Seq(Octets), NEW t \in Seq(Octets), EndsWhole(s \o t), s # <<>>, Ends(s[Len(s)])
  PROVE  EndsWhole(t)
<1> DEFINE O == Octets
           a == s \o t
<1>1. s \in Seq(O) /\ t \in Seq(O) /\ \A i \in 1 .. Len(s) : s[i] \in O
  OBVIOUS
<1>6. \A i \in 1 .. Len(t) : t[i] \in O
  OBVIOUS
<1> HIDE DEF O
<1>2. /\ Len(a) = Len(s) + Len(t) /\ Len(s) \in Nat /\ Len(t) \in Nat /\ Len(s) # 0
      /\ \A i \in 1 .. Len(s) : a[i] = s[i]
      /\ \A i \in 1 .. Len(t) : a[Len(s) + i] = t[i]
      /\ (t = <<>> <=> Len(t) = 0) /\ a # <<>>
  BY <1>1
<1>3. (\A i \in 1 .. Len(a) - 1 : Follows(a[i], a[i + 1])) /\ Ends(a[Len(a)])
  BY <1>2 DEF EndsWhole, Fits
<1> HIDE DEF a
<1>4. t # <<>> => t[1][2] = 1
  <2> SUFFICES ASSUME t # <<>> PROVE t[1][2] = 1
    OBVIOUS
  <2>1. Len(s) \in 1 .. Len(a) - 1 /\ a[Len(s)] = s[Len(s)] /\ a[Len(s) + 1] = t[1]
        /\ Len(s) \in 1 .. Len(s) /\ 1 \in 1 .. Len(t)
    BY <1>2
  <2>2. Follows(s[Len(s)], t[1])
    BY <1>3, <2>1
  <2>3. s[Len(s)] \in Octets /\ t[1] \in Octets
    BY <1>1, <1>6, <2>1 DEF O
  <2>4. t[1] # <<s[Len(s)][1], s[Len(s)][2] + 1>>
    <3> DEFINE b == s[Len(s)]
               c == t[1]
    <3>1. b \in Octets /\ c \in Octets /\ b[2] = HeaderLen + b[1].len
      BY <2>3 DEF Ends
    <3> HIDE DEF b, c
    <3>2. b[2] \in Nat /\ c[2] <= HeaderLen + c[1].len
      BY <3>1, OctetsAre
    <3>3. c # <<b[1], b[2] + 1>>
      BY <3>1, <3>2
    <3> QED BY <3>3 DEF b, c
  <2> QED BY <2>2, <2>4 DEF Follows
<1>5. ASSUME NEW i \in 1 .. Len(t) - 1 PROVE Follows(t[i], t[i + 1])
  <2>1. /\ Len(s) + i \in 1 .. Len(a) - 1 /\ a[Len(s) + i] = t[i]
        /\ (Len(s) + i) + 1 = Len(s) + (i + 1) /\ a[Len(s) + (i + 1)] = t[i + 1]
    BY <1>2
  <2> QED BY <1>3, <2>1
<1>7. t # <<>> => Ends(t[Len(t)])
  <2>1. t # <<>> => Len(t) \in 1 .. Len(t)
    BY <1>2
  <2> QED BY <1>2, <1>3, <2>1
<1> QED BY <1>4, <1>5, <1>7 DEF EndsWhole, Fits

\* The bytes of the first frame come one after the other.
LEMMA FirstFrame ==
  ASSUME NEW s, Fits(s), s # <<>>, NEW n, n = HeaderLen + s[1][1].len, n <= Len(s)
  PROVE  /\ n \in 1 .. Len(s) /\ s[1][1] \in Frames
         /\ \A i \in 1 .. n : s[i] = <<s[1][1], i>>
<1> DEFINE H == s[1][1]
           T == {i \in 1 .. n : s[i] # <<H, i>>}
<1>1. s \in Seq(Octets) /\ Len(s) \in Nat /\ Len(s) # 0 /\ \A i \in 1 .. Len(s) : s[i] \in Octets
  BY DEF Fits
<1>2. s[1] \in Octets /\ s[1][2] = 1
  BY <1>1 DEF Fits
<1>3. H \in Frames /\ H.len \in Nat /\ s[1] = <<H, 1>>
  BY <1>2, OctetsAre
<1>4. HeaderLen \in Nat \ {0}
  BY FrameAssumption
<1> HIDE DEF H
<1>5. n \in 1 .. Len(s)
  <2>1. n = HeaderLen + H.len
    BY DEF H
  <2> QED BY <1>1, <1>3, <1>4, <2>1
<1>6. ASSUME T # {} PROVE FALSE
  <2>1. T \in SUBSET Nat
    BY <1>5
  <2> HIDE DEF T
  <2>2. PICK m \in T : \A k \in T : m <= k
    BY <1>6, <2>1, Least
  <2>3. m \in 1 .. n /\ s[m] # <<H, m>>
    BY <2>2 DEF T
  <2>4. m # 1 /\ m - 1 \in 1 .. n /\ m - 1 \in 1 .. Len(s) - 1 /\ (m - 1) + 1 = m
    BY <1>3, <1>5, <2>3
  <2>5. m - 1 \notin T
    BY <2>2, <2>3
  <2>6. s[m - 1] = <<H, m - 1>>
    BY <2>4, <2>5 DEF T
  <2>7. Follows(s[m - 1], s[m])
    BY <2>4 DEF Fits
  <2>8. n = HeaderLen + H.len
    BY DEF H
  <2> QED BY <1>5, <2>3, <2>4, <2>6, <2>7, <2>8 DEF Follows
<1> QED BY <1>3, <1>5, <1>6 DEF H

LEMMA OneWhole ==
  ASSUME NEW H \in ValidFrames, NEW u \in Seq(Octets), Len(u) = HeaderLen + H.len,
         \A i \in 1 .. Len(u) : u[i] = <<H, i>>
  PROVE  Whole(u) = <<H>>
<1> DEFINE O == Octets
<1>1. u \in Seq(O) /\ Len(u) \in Nat /\ Len(u) # 0 /\ u # <<>>
  <2>1. Len(u) # 0
    BY FrameAssumption
  <2> QED BY <2>1
<1> HIDE DEF O
<1>2. PICK t \in Seq(O), b \in O :
        /\ u = Append(t, b) /\ Len(u) = Len(t) + 1 /\ u[Len(u)] = b
        /\ \A i \in 1 .. Len(t) : u[i] = t[i]
  BY <1>1, Grown
<1>3. Len(t) \in Nat
  OBVIOUS
<1>4. b = <<H, Len(u)>> /\ \A i \in 1 .. Len(t) : t[i] = <<H, i>>
  <2>1. Len(u) \in 1 .. Len(u) /\ \A i \in 1 .. Len(t) : i \in 1 .. Len(u)
    BY <1>1, <1>2, <1>3
  <2>2. u[Len(u)] = <<H, Len(u)>>
    BY <2>1
  <2>3. \A i \in 1 .. Len(t) : u[i] = <<H, i>>
    BY <2>1
  <2> QED BY <1>2, <2>2, <2>3
<1>5. Ready(b) /\ \A i \in 1 .. Len(t) : ~Ready(t[i])
  <2>1. \A i \in 1 .. Len(t) : i # HeaderLen + H.len
    BY <1>2, <1>3
  <2> QED BY <1>4, <2>1 DEF Ready
<1>6. Whole(t) = <<>>
  BY <1>5, NoneWhole
<1>7. Whole(u) = Append(Whole(t), FrameOf(b))
  BY <1>2, <1>5, WholeSnoc
<1> QED BY <1>4, <1>6, <1>7 DEF FrameOf

----------------------------------------------------------------------------
(* The stream, between the client's writes and the handler. *)

Stream ==
  /\ buf \in Seq(Octets) /\ wire \in Seq(Seq(Octets)) /\ rest \in Seq(Octets)
  /\ EndsWhole(InTransit \o rest)
  /\ sent \in 0 .. MaxFrames /\ connected \in BOOLEAN
  /\ phase \in {"recv", "frames", "ended"}

LEMMA InTransitIs == ASSUME Stream PROVE InTransit \in Seq(Octets) /\ FlattenSeq(wire) \in Seq(Octets)
<1>1. FlattenSeq(wire) \in Seq(Octets)
  BY FlattenType DEF Stream
<1>2. buf \in Seq(Octets)
  BY DEF Stream
<1> QED BY <1>1, <1>2 DEF InTransit

LEMMA StreamFits == ASSUME Stream PROVE Fits(InTransit) /\ Fits(buf) /\ InStep
<1>1. InTransit \in Seq(Octets) /\ FlattenSeq(wire) \in Seq(Octets) /\ rest \in Seq(Octets)
      /\ buf \in Seq(Octets)
  BY InTransitIs DEF Stream
<1>2. Fits(InTransit \o rest)
  BY DEF Stream, EndsWhole
<1>3. Fits(InTransit)
  BY <1>1, <1>2, FitsBefore
<1>4. Fits(buf)
  BY <1>1, <1>3, FitsBefore DEF InTransit
<1>5. InStep
  BY <1>4 DEF Fits, Follows, InStep
<1> QED BY <1>3, <1>4, <1>5

LEMMA StreamStarts == ASSUME Init PROVE Stream
<1>1. buf = <<>> /\ wire = <<>> /\ rest = <<>> /\ FlattenSeq(wire) = <<>>
  BY FlattenEmpty DEF Init
<1>2. InTransit \o rest = <<>>
  BY <1>1 DEF InTransit
<1>3. <<>> \in Seq(Octets) /\ <<>> \in Seq(Seq(Octets)) /\ Len(<<>>) = 0
  OBVIOUS
<1>4. EndsWhole(<<>>)
  BY <1>3 DEF EndsWhole, Fits
<1> QED BY <1>1, <1>2, <1>3, <1>4, FrameAssumption DEF Init, Stream

LEMMA FrameGrowsStream ==
  ASSUME Stream, ClientFrame
  PROVE  Stream' /\ InTransit' = InTransit
<1>1. PICK f \in Frames : rest' = rest \o Bytes(f)
  BY DEF ClientFrame, Frames
<1>2. InTransit' = InTransit
  BY DEF ClientFrame, InTransit
<1>3. EndsWhole(Bytes(f)) /\ Bytes(f) \in Seq(Octets)
  BY BytesFit DEF EndsWhole, Fits
<1>4. EndsWhole((InTransit \o rest) \o Bytes(f))
  BY <1>3, FitsJoin DEF Stream
<1>5. rest \in Seq(Octets) /\ InTransit \in Seq(Octets)
  BY InTransitIs DEF Stream
<1>6. (InTransit \o rest) \o Bytes(f) = InTransit \o rest'
  BY <1>1, <1>3, <1>5, Joining
<1>7. rest' \in Seq(Octets)
  BY <1>1, <1>3, <1>5
<1>8. sent' \in 0 .. MaxFrames
  <2>1. sent \in 0 .. MaxFrames /\ sent < MaxFrames /\ MaxFrames \in Nat
    BY FrameAssumption DEF Stream, ClientFrame
  <2>2. sent + 1 \in 0 .. MaxFrames
    BY <2>1
  <2> QED BY <2>2 DEF ClientFrame
<1> QED BY <1>2, <1>4, <1>6, <1>7, <1>8 DEF Stream, ClientFrame

LEMMA WriteMovesStream ==
  ASSUME Stream, ClientWrite
  PROVE  Stream' /\ \E c \in Seq(Octets) : InTransit' = InTransit \o c
<1>1. PICK n \in 1 .. Len(rest) :
        wire' = Append(wire, SubSeq(rest, 1, n)) /\ rest' = SubSeq(rest, n + 1, Len(rest))
  BY DEF ClientWrite
<1> DEFINE c == SubSeq(rest, 1, n)
           O == Octets
<1>2. rest \in Seq(O) /\ InTransit \in Seq(O) /\ FlattenSeq(wire) \in Seq(O) /\ buf \in Seq(O)
      /\ wire \in Seq(Seq(O))
  BY InTransitIs DEF Stream
<1> HIDE DEF O
<1>3. c \in Seq(O) /\ rest' \in Seq(O) /\ rest = c \o rest'
  <2>1. n \in 0 .. Len(rest)
    OBVIOUS
  <2> QED BY <1>1, <1>2, <2>1, SplitAt
<1> HIDE DEF c
<1>4. wire' = Append(wire, c) /\ buf' = buf
  BY <1>1 DEF ClientWrite, c
<1>5. FlattenSeq(wire') = FlattenSeq(wire) \o c
  BY <1>2, <1>3, <1>4, FlattenSnoc
<1>6. InTransit' = InTransit \o c
  <2>1. InTransit' = buf \o (FlattenSeq(wire) \o c)
    BY <1>4, <1>5 DEF InTransit
  <2>2. buf \o (FlattenSeq(wire) \o c) = (buf \o FlattenSeq(wire)) \o c
    <3> DEFINE w == FlattenSeq(wire)
    <3>1. buf \in Seq(O) /\ w \in Seq(O) /\ c \in Seq(O)
      BY <1>2, <1>3
    <3> HIDE DEF w
    <3>2. (buf \o w) \o c = buf \o (w \o c)
      BY <3>1, Joining
    <3> QED BY <3>2 DEF w
  <2> QED BY <2>1, <2>2 DEF InTransit
<1>7. InTransit' \o rest' = InTransit \o rest
  <2>1. InTransit \in Seq(O) /\ c \in Seq(O) /\ rest' \in Seq(O)
    BY <1>2, <1>3
  <2>2. (InTransit \o c) \o rest' = InTransit \o (c \o rest')
    BY <2>1, Joining
  <2> QED BY <1>3, <1>6, <2>2
<1>8. wire' \in Seq(Seq(O))
  <2> DEFINE C == Seq(O)
  <2>1. wire \in Seq(C) /\ c \in C
    BY <1>2, <1>3
  <2> HIDE DEF C
  <2>2. wire' \in Seq(C)
    BY <1>4, <2>1
  <2> QED BY <2>2 DEF C
<1>9. Stream'
  BY <1>2, <1>3, <1>4, <1>7, <1>8 DEF Stream, ClientWrite, O
<1> QED BY <1>3, <1>6, <1>9 DEF O

LEMMA ReceiveKeepsStream ==
  ASSUME Stream, Receive
  PROVE  Stream' /\ InTransit' = InTransit
<1> DEFINE O == Octets
           C == Seq(O)
           c == Head(wire)
           w == Tail(wire)
<1>1. wire \in Seq(C) /\ wire # <<>> /\ buf \in Seq(O)
  BY DEF Stream, Receive
<1>2. c \in C /\ w \in Seq(C) /\ wire = <<c>> \o w
  <2> HIDE DEF C
  <2> QED BY <1>1
<1> HIDE DEF c, w
<1>3. wire' = w /\ buf' = buf \o c /\ rest' = rest
  BY DEF Receive, c, w
<1>4. FlattenSeq(wire) = c \o FlattenSeq(w) /\ FlattenSeq(w) \in Seq(O)
  BY <1>2, FlattenCons, FlattenType
<1>5. InTransit' = InTransit
  <2>1. (buf \o c) \o FlattenSeq(w) = buf \o (c \o FlattenSeq(w))
    <3>1. buf \in Seq(O) /\ c \in Seq(O) /\ FlattenSeq(w) \in Seq(O)
      BY <1>1, <1>2, <1>4
    <3> HIDE DEF O
    <3> QED BY <3>1, Joining
  <2> QED BY <1>3, <1>4, <2>1 DEF InTransit
<1>6. buf' \in Seq(O)
  BY <1>1, <1>2, <1>3
<1> QED BY <1>2, <1>3, <1>5, <1>6 DEF Stream, Receive

\* A turn of the loop takes one frame off the front of the stream.
LEMMA HandleTakesFrame ==
  ASSUME Stream, HandleFrame
  PROVE  /\ Stream' /\ Header \in ValidFrames
         /\ \E u \in Seq(Octets) : InTransit = u \o InTransit' /\ Whole(u) = <<Header>>
         /\ InTransit' \in Seq(Octets)
<1> DEFINE O == Octets
           n == HeaderLen + buf[1][1].len
           u == SubSeq(buf, 1, n)
<1>1. /\ buf \in Seq(O) /\ Fits(buf) /\ FlattenSeq(wire) \in Seq(O) /\ rest \in Seq(O)
      /\ InTransit \in Seq(O)
  BY StreamFits, InTransitIs DEF Stream
<1>2. /\ Header \in ValidFrames /\ Len(buf) >= HeaderLen /\ ~(Len(buf) < n)
      /\ buf' = SubSeq(buf, n + 1, Len(buf)) /\ wire' = wire /\ rest' = rest
  BY DEF HandleFrame, HeaderOK, HaveHeader, WantsMore, Needed, Header
<1>3. Len(buf) \in Nat /\ buf # <<>>
  <2>1. HeaderLen \in Nat /\ HeaderLen # 0 /\ Len(buf) \in Nat
    BY <1>1, FrameAssumption
  <2> QED BY <1>2, <2>1
<1>4. n \in Nat /\ n <= Len(buf)
  <2>1. buf[1] \in Octets
    BY <1>1, <1>3
  <2>2. buf[1][1].len \in Nat /\ HeaderLen \in Nat
    BY <2>1, OctetsAre
  <2> QED BY <1>2, <1>3, <2>2
<1>5. /\ n \in 1 .. Len(buf) /\ \A i \in 1 .. n : buf[i] = <<buf[1][1], i>>
  <2> DEFINE m == n
  <2>1. m = HeaderLen + buf[1][1].len /\ m <= Len(buf)
    BY <1>4
  <2> HIDE DEF m
  <2>2. m \in 1 .. Len(buf) /\ \A i \in 1 .. m : buf[i] = <<buf[1][1], i>>
    BY <1>1, <1>3, <2>1, FirstFrame
  <2> QED BY <2>2 DEF m
<1> HIDE DEF O
<1>6. /\ u \in Seq(O) /\ buf' \in Seq(O) /\ buf = u \o buf'
      /\ Len(u) = n /\ \A i \in 1 .. n : u[i] = buf[i]
  <2>1. n \in 0 .. Len(buf)
    BY <1>5
  <2> HIDE DEF n
  <2> QED BY <1>1, <1>2, <2>1, SplitAt
<1>7. Header = buf[1][1]
  BY DEF Header
<1> HIDE DEF u
<1>8. Whole(u) = <<Header>>
  <2>1. u \in Seq(Octets) /\ Len(u) = HeaderLen + Header.len
    BY <1>6, <1>7 DEF O
  <2>2. \A i \in 1 .. Len(u) : u[i] = <<Header, i>>
    BY <1>5, <1>6, <1>7
  <2> QED BY <1>2, <2>1, <2>2, OneWhole
<1>9. InTransit = u \o InTransit' /\ InTransit' \in Seq(O)
  <2>1. (u \o buf') \o FlattenSeq(wire) = u \o (buf' \o FlattenSeq(wire))
    <3>1. u \in Seq(O) /\ buf' \in Seq(O) /\ FlattenSeq(wire) \in Seq(O)
      BY <1>1, <1>6
    <3> QED BY <3>1, Joining
  <2>2. InTransit' = buf' \o FlattenSeq(wire)
    BY <1>2 DEF InTransit
  <2>3. buf' \o FlattenSeq(wire) \in Seq(O)
    BY <1>1, <1>6
  <2> QED BY <1>6, <2>1, <2>2, <2>3 DEF InTransit
<1>10. EndsWhole(InTransit' \o rest')
  <2>1. EndsWhole(InTransit \o rest)
    BY DEF Stream
  <2>2. (u \o InTransit') \o rest = u \o (InTransit' \o rest)
    <3>1. u \in Seq(O) /\ InTransit' \in Seq(O) /\ rest \in Seq(O)
      BY <1>1, <1>6, <1>9
    <3> QED BY <3>1, Joining
  <2>3. InTransit' \o rest \in Seq(O)
    BY <1>1, <1>9
  <2>4. EndsWhole(u \o (InTransit' \o rest))
    BY <1>9, <2>1, <2>2
  <2>5. u # <<>> /\ Ends(u[Len(u)])
    <3>1. Len(u) \in 1 .. n /\ u[Len(u)] = <<buf[1][1], n>> /\ u # <<>>
      BY <1>5, <1>6
    <3>2. n = HeaderLen + buf[1][1].len
      OBVIOUS
    <3> HIDE DEF n
    <3> QED BY <3>1, <3>2 DEF Ends
  <2> QED BY <1>2, <1>6, <2>3, <2>4, <2>5, FitsAfter DEF O
<1>11. Stream'
  <2>1. buf' \in Seq(Octets) /\ wire' = wire /\ rest' = rest /\ UNCHANGED <<sent, phase, connected>>
    BY <1>2, <1>6 DEF O, HandleFrame
  <2> QED BY <1>10, <2>1 DEF Stream
<1> QED BY <1>2, <1>6, <1>8, <1>9, <1>11 DEF O

LEMMA StreamKept ==
  ASSUME Stream, UNCHANGED stream, phase' \in {"recv", "frames", "ended"}, connected' \in BOOLEAN
  PROVE  Stream' /\ InTransit' = InTransit
<1>1. UNCHANGED <<sent, rest, wire, buf>> /\ InTransit' = InTransit
  BY DEF stream, InTransit
<1> QED BY <1>1 DEF Stream

LEMMA StreamSteps == ASSUME Stream, [Next]_vars PROVE Stream'
<1>1. CASE ClientFrame
  BY <1>1, FrameGrowsStream
<1>2. CASE ClientWrite
  BY <1>2, WriteMovesStream
<1>3. CASE Receive
  BY <1>3, ReceiveKeepsStream
<1>4. CASE HandleFrame
  BY <1>4, HandleTakesFrame
<1>5. CASE ClientDisconnect
  BY <1>5, StreamKept DEF ClientDisconnect, Stream
<1>6. CASE ReceiveFails \/ WaitForMore \/ InvalidHeader \/ SendFails
  BY <1>6, StreamKept DEF ReceiveFails, WaitForMore, InvalidHeader, SendFails, Stream
<1>7. CASE UNCHANGED vars
  BY <1>7, StreamKept DEF vars, Stream
<1> QED BY <1>1, <1>2, <1>3, <1>4, <1>5, <1>6, <1>7 DEF Next, Client, Handler

\* The inductive invariant of the stream: what the client has written or is writing, up to
\* the handler's buffer, is a sequence of whole frames.
LEMMA StreamHolds == Spec => []Stream
<1>1. Init => Stream
  BY StreamStarts
<1>2. Stream /\ [Next]_vars => Stream'
  BY StreamSteps
<1> QED BY <1>1, <1>2, PTL DEF Spec

----------------------------------------------------------------------------
(* The handler is a FrameServer. *)

LEMMA TodoIs ==
  ASSUME NEW s \in Seq(Octets), NEW t \in Seq(Octets)
  PROVE  Whole(s) \in Seq(Frames) /\ Whole(s \o t) = Whole(s) \o Whole(t)
<1>1. \A b \in Octets : FrameOf(b) \in Frames
  BY OctetsAre DEF FrameOf
<1> DEFINE F == Frames
           B == Octets
<1>2. Belong(B, F) /\ s \in Seq(B) /\ t \in Seq(B)
  BY <1>1 DEF Belong
<1> HIDE DEF F, B
<1>3. Whole(s) \in Seq(F) /\ Whole(s \o t) = Whole(s) \o Whole(t)
  BY <1>2, WholeJoins
<1> QED BY <1>3 DEF F

LEMMA Prefix ==
  ASSUME NEW B, NEW s \in Seq(B), NEW t \in Seq(B)
  PROVE  IsPrefix(s, s \o t)
<1> DEFINE a == s \o t
<1>1. /\ a \in Seq(B) /\ Len(s) \in Nat /\ Len(a) \in Nat /\ Len(s) <= Len(a)
      /\ \A i \in 1 .. Len(s) : a[i] = s[i]
  OBVIOUS
<1> HIDE DEF a
<1> DEFINE u == SubSeq(s, 1, Len(s))
           v == SubSeq(a, 1, Len(s))
<1>2. /\ u \in Seq(B) /\ Len(u) = Len(s) /\ \A i \in 1 .. Len(s) : u[i] = s[i]
  <2>1. Len(s) \in 0 .. Len(s)
    BY <1>1
  <2> QED BY <2>1, SplitAt
<1>3. /\ v \in Seq(B) /\ Len(v) = Len(s) /\ \A i \in 1 .. Len(s) : v[i] = a[i]
  <2>1. Len(s) \in 0 .. Len(a)
    BY <1>1
  <2> QED BY <1>1, <2>1, SplitAt
<1> HIDE DEF u, v
<1>4. u = v
  BY <1>1, <1>2, <1>3, SeqEqual
<1> QED BY <1>1, <1>4 DEF u, v, a, IsPrefix

LEMMA SameHandle == ASSUME NEW f PROVE Handle(f) => Server!Handle(f)
BY DEF Handle, Server!Handle, OpenRequest, Server!OpenRequest, CloseRequest, Server!CloseRequest,
       OtherControl, Server!OtherControl, Refuse, Server!Refuse, Refused, Server!Refused,
       Auth, Server!Auth, AuthLogin, Server!AuthLogin, AuthSubmit, Server!AuthSubmit,
       AuthAvatar, Server!AuthAvatar, AuthLogout, Server!AuthLogout, AuthQuery, Server!AuthQuery,
       Dispatch, Server!Dispatch, SystemLogin, Server!SystemLogin, OtherMain, Server!OtherMain,
       LoginResult, Server!LoginResult, Answer, Server!Answer, Quiet, Server!Quiet,
       Got, Server!Got, Ctrl, Server!Ctrl, App, Server!App

LEMMA ServerStarts == ASSUME Init PROVE Server!Init
<1>1. InTransit = <<>>
  BY FlattenEmpty DEF Init, InTransit
<1>2. Todo = <<>>
  BY <1>1, WholeEmpty DEF Todo
<1> QED BY <1>2 DEF Init, SessionInit, Server!Init, Server!SessionInit

\* A step that leaves the stream in place and the session alone is a stutter.
LEMMA Stutters ==
  ASSUME InTransit' = InTransit, UNCHANGED session, (phase = "ended")' = (phase = "ended")
  PROVE  UNCHANGED <<Server!session, Todo, phase = "ended">>
BY DEF Todo, session, Server!session

LEMMA WriteArrives == ASSUME Stream, ClientWrite PROVE Server!Arrive
<1>1. PICK c \in Seq(Octets) : InTransit' = InTransit \o c
  BY WriteMovesStream
<1>2. /\ Todo \in Seq(Frames) /\ Whole(c) \in Seq(Frames) /\ Todo' = Todo \o Whole(c)
  <2>1. InTransit \in Seq(Octets)
    BY InTransitIs
  <2>2. Whole(InTransit) \in Seq(Frames) /\ Whole(c) \in Seq(Frames)
        /\ Whole(InTransit \o c) = Whole(InTransit) \o Whole(c)
    BY <2>1, TodoIs
  <2> QED BY <1>1, <2>2 DEF Todo
<1>3. Todo' \in Seq(Frames) /\ IsPrefix(Todo, Todo')
  <2> DEFINE F == Frames
  <2>1. Todo \in Seq(F) /\ Whole(c) \in Seq(F)
    BY <1>2
  <2> HIDE DEF F
  <2>2. Todo \o Whole(c) \in Seq(F) /\ IsPrefix(Todo, Todo \o Whole(c))
    BY <2>1, Prefix
  <2> QED BY <1>2, <2>2 DEF F
<1>4. Frames = ValidFrames \cup BadFrames
  BY DEF Frames
<1>5. UNCHANGED <<session, phase>>
  BY DEF ClientWrite
<1>6. Server!IsPrefix(Todo, Todo')
  BY <1>3 DEF IsPrefix, Server!IsPrefix
<1> QED BY <1>3, <1>4, <1>5, <1>6 DEF Server!Arrive, Server!session, session

LEMMA HandlesFirst == ASSUME Stream, HandleFrame PROVE Server!HandleFirst
<1>1. Stream' /\ Header \in ValidFrames
  BY HandleTakesFrame
<1>2. PICK u \in Seq(Octets) : InTransit = u \o InTransit' /\ Whole(u) = <<Header>>
  BY HandleTakesFrame
<1>3. InTransit' \in Seq(Octets)
  BY HandleTakesFrame
<1>4. Todo = <<Header>> \o Todo' /\ Todo' \in Seq(Frames)
  <2> DEFINE t == InTransit'
  <2>1. t \in Seq(Octets) /\ u \in Seq(Octets) /\ InTransit = u \o t
    BY <1>2, <1>3
  <2> HIDE DEF t
  <2>2. Whole(t) \in Seq(Frames) /\ Whole(u \o t) = Whole(u) \o Whole(t)
    BY <2>1, TodoIs
  <2>3. Todo' = Whole(t)
    BY DEF Todo, t
  <2> QED BY <1>2, <2>1, <2>2, <2>3 DEF Todo
<1>5. Todo # <<>> /\ Head(Todo) = Header /\ Tail(Todo) = Todo'
  <2> DEFINE t == Todo'
             F == Frames
             h == Header
  <2>1. t \in Seq(F) /\ h \in F /\ Todo = <<h>> \o t
    BY <1>1, <1>4 DEF Frames
  <2> HIDE DEF t, F, h
  <2>2. <<h>> \o t # <<>> /\ Head(<<h>> \o t) = h /\ Tail(<<h>> \o t) = t
    BY <2>1
  <2> QED BY <2>1, <2>2 DEF t, h
<1>6. Server!Handle(Header)
  BY SameHandle DEF HandleFrame
<1>7. phase = "frames" /\ phase' = phase
  BY DEF HandleFrame
<1> QED BY <1>1, <1>5, <1>6, <1>7 DEF Server!HandleFirst

LEMMA StepsServe ==
  ASSUME Stream, [Next]_vars
  PROVE  [Server!Next]_<<Server!session, Todo, phase = "ended">>
<1>1. CASE ClientFrame
  BY <1>1, FrameGrowsStream, Stutters DEF ClientFrame
<1>2. CASE ClientWrite
  BY <1>2, WriteArrives DEF Server!Next
<1>3. CASE ClientDisconnect
  BY <1>3, Stutters DEF ClientDisconnect, stream, InTransit
<1>4. CASE Receive
  BY <1>4, ReceiveKeepsStream, Stutters DEF Receive
<1>5. CASE WaitForMore
  BY <1>5, Stutters DEF WaitForMore, stream, InTransit
<1>6. CASE HandleFrame
  BY <1>6, HandlesFirst DEF Server!Next
<1>7. CASE ReceiveFails \/ InvalidHeader \/ SendFails
  <2>1. phase' = "ended" /\ UNCHANGED <<session, stream>>
    BY <1>7 DEF ReceiveFails, InvalidHeader, SendFails
  <2>2. Server!End
    BY <2>1 DEF Server!End, Todo, InTransit, stream, session, Server!session
  <2> QED BY <2>2 DEF Server!Next
<1>8. CASE UNCHANGED vars
  BY <1>8, Stutters DEF vars, stream, InTransit
<1> QED BY <1>1, <1>2, <1>3, <1>4, <1>5, <1>6, <1>7, <1>8 DEF Next, Client, Handler

\* However the client cuts its frames into chunks, and wherever the thread is scheduled
\* between two of them, run_dnet_handler does what a server does to which every frame
\* arrives whole: each is handled once, in the order of sending, and none is lost.
THEOREM HandlerIsFrameServer == Spec => ImplementsFrameServer
<1>1. Init => Server!Init
  BY ServerStarts
<1>2. Stream /\ [Next]_vars => [Server!Next]_<<Server!session, Todo, phase = "ended">>
  BY StepsServe
<1> QED BY <1>1, <1>2, StreamHolds, PTL DEF Spec, ImplementsFrameServer, Server!Spec

----------------------------------------------------------------------------
(* The conversation: channels and their users. *)

\* In the log l, the last word on channel c is the server's OPEN_OK.
InUse(l, c) ==
  \E j \in 1 .. Len(l) : /\ l[j] = Ctrl("open_ok", c)
                         /\ \A k \in j .. Len(l) : ~ClientEnds(l[k], c)

\* DataOnlyWhileOpen of a log l.
DataAt(l, i) ==
  l[i].from = "server" /\ l[i].ch # 0 =>
    \E j \in 1 .. i : /\ l[j] = Ctrl("open_ok", l[i].ch)
                      /\ \A k \in j .. i : ~ClientEnds(l[k], l[i].ch)

TwiceAt(l, i, j) ==
  (i < j /\ l[i] = l[j] /\ l[i].from = "server" /\ l[i].ch = 0 /\ l[i].body.type = "open_ok") =>
    \E k \in i .. j : ClientEnds(l[k], l[i].body.ch)

Orderly(l) == \A i \in 1 .. Len(l) : DataAt(l, i) /\ \A j \in 1 .. Len(l) : TwiceAt(l, i, j)

Linked(l, O) == \A c \in Channels : c \in O <=> InUse(l, c)

IsLog(l) == \E S : l \in Seq(S)

\* What the handlers keep: the log is orderly, and open_channels are the channels in use.
Conversation(l, O) == IsLog(l) /\ Orderly(l) /\ Linked(l, O)

\* What the server may add to its log.
Allowed(l, e) ==
  /\ e.from = "server" /\ e.ch # 0 => InUse(l, e.ch)
  /\ (e.from = "server" /\ e.ch = 0 /\ e.body.type = "open_ok") =>
       ~InUse(l, e.body.ch) /\ e = Ctrl("open_ok", e.body.ch)

LEMMA Longer ==
  ASSUME NEW l, IsLog(l), NEW e
  PROVE  LET m == Append(l, e)
         IN  /\ IsLog(m) /\ Len(l) \in Nat /\ Len(m) = Len(l) + 1 /\ m[Len(m)] = e
             /\ \A i \in 1 .. Len(l) : m[i] = l[i]
<1>1. PICK S : l \in Seq(S)
  BY DEF IsLog
<1> DEFINE T == S \cup {e}
<1>2. l \in Seq(T) /\ e \in T
  BY <1>1
<1> HIDE DEF T
<1>3. Append(l, e) \in Seq(T)
  BY <1>2
<1>4. IsLog(Append(l, e))
  BY <1>3 DEF IsLog
<1> QED BY <1>2, <1>4

LEMMA InUseLonger ==
  ASSUME NEW l, IsLog(l), NEW e, NEW c
  PROVE  InUse(Append(l, e), c)
           <=> e = Ctrl("open_ok", c) \/ (InUse(l, c) /\ ~ClientEnds(e, c))
<1> DEFINE m == Append(l, e)
<1>1. /\ Len(l) \in Nat /\ Len(m) = Len(l) + 1 /\ m[Len(m)] = e
      /\ \A i \in 1 .. Len(l) : m[i] = l[i]
  BY Longer
<1> HIDE DEF m
<1>2. ASSUME InUse(m, c) PROVE e = Ctrl("open_ok", c) \/ (InUse(l, c) /\ ~ClientEnds(e, c))
  <2>1. PICK j \in 1 .. Len(m) : m[j] = Ctrl("open_ok", c) /\ \A k \in j .. Len(m) : ~ClientEnds(m[k], c)
    BY <1>2 DEF InUse
  <2>2. ~ClientEnds(e, c)
    <3>1. Len(m) \in j .. Len(m)
      BY <1>1
    <3> QED BY <1>1, <2>1, <3>1
  <2>3. CASE j = Len(m)
    BY <1>1, <2>1, <2>3
  <2>4. CASE j # Len(m)
    <3>1. j \in 1 .. Len(l) /\ \A k \in j .. Len(l) : k \in j .. Len(m) /\ k \in 1 .. Len(l)
      BY <1>1, <2>4
    <3>2. l[j] = Ctrl("open_ok", c) /\ \A k \in j .. Len(l) : ~ClientEnds(l[k], c)
      BY <1>1, <2>1, <3>1
    <3> QED BY <2>2, <3>1, <3>2 DEF InUse
  <2> QED BY <2>3, <2>4
<1>3. ASSUME e = Ctrl("open_ok", c) PROVE InUse(m, c)
  <2>1. ~ClientEnds(e, c)
    BY <1>3 DEF Ctrl, ClientEnds
  <2>2. Len(m) \in 1 .. Len(m) /\ \A k \in Len(m) .. Len(m) : k = Len(m)
    BY <1>1
  <2> QED BY <1>1, <1>3, <2>1, <2>2 DEF InUse
<1>4. ASSUME InUse(l, c), ~ClientEnds(e, c) PROVE InUse(m, c)
  <2>1. PICK j \in 1 .. Len(l) : l[j] = Ctrl("open_ok", c) /\ \A k \in j .. Len(l) : ~ClientEnds(l[k], c)
    BY <1>4 DEF InUse
  <2>2. j \in 1 .. Len(m)
    BY <1>1
  <2>3. ASSUME NEW k \in j .. Len(m) PROVE ~ClientEnds(m[k], c)
    <3>1. CASE k = Len(m)
      BY <1>1, <1>4, <3>1
    <3>2. CASE k # Len(m)
      <4>1. k \in j .. Len(l) /\ k \in 1 .. Len(l)
        BY <1>1, <3>2
      <4> QED BY <1>1, <2>1, <4>1
    <3> QED BY <3>1, <3>2
  <2> QED BY <1>1, <2>1, <2>2, <2>3 DEF InUse
<1> QED BY <1>2, <1>3, <1>4 DEF m

LEMMA OrderlyLonger ==
  ASSUME NEW l, IsLog(l), Orderly(l), NEW e, Allowed(l, e)
  PROVE  Orderly(Append(l, e))
<1> DEFINE m == Append(l, e)
<1>1. /\ Len(l) \in Nat /\ Len(m) = Len(l) + 1 /\ m[Len(m)] = e
      /\ \A i \in 1 .. Len(l) : m[i] = l[i]
  BY Longer
<1> HIDE DEF m
<1>2. ASSUME NEW i \in 1 .. Len(m) PROVE DataAt(m, i)
  <2>1. CASE i # Len(m)
    <3>1. i \in 1 .. Len(l) /\ \A k \in 1 .. i : k \in 1 .. Len(l)
      BY <1>1, <2>1
    <3>2. DataAt(l, i) /\ m[i] = l[i]
      BY <1>1, <3>1 DEF Orderly
    <3>3. SUFFICES ASSUME m[i].from = "server", m[i].ch # 0
                   PROVE  \E j \in 1 .. i : /\ m[j] = Ctrl("open_ok", m[i].ch)
                                            /\ \A k \in j .. i : ~ClientEnds(m[k], m[i].ch)
      BY DEF DataAt
    <3>4. PICK j \in 1 .. i : l[j] = Ctrl("open_ok", l[i].ch)
                              /\ \A k \in j .. i : ~ClientEnds(l[k], l[i].ch)
      BY <3>2, <3>3 DEF DataAt
    <3>5. \A k \in j .. i : k \in 1 .. i
      OBVIOUS
    <3> QED BY <1>1, <3>1, <3>2, <3>4, <3>5
  <2>2. CASE i = Len(m)
    <3>1. SUFFICES ASSUME e.from = "server", e.ch # 0
                   PROVE  \E j \in 1 .. i : /\ m[j] = Ctrl("open_ok", e.ch)
                                            /\ \A k \in j .. i : ~ClientEnds(m[k], e.ch)
      BY <1>1, <2>2 DEF DataAt
    <3>2. ~ClientEnds(e, e.ch)
      BY <3>1 DEF ClientEnds
    <3>3. InUse(l, e.ch)
      BY <3>1 DEF Allowed
    <3>4. InUse(m, e.ch)
      BY <3>2, <3>3, InUseLonger DEF m
    <3> QED BY <2>2, <3>4 DEF InUse
  <2> QED BY <2>1, <2>2
<1>3. ASSUME NEW i \in 1 .. Len(m), NEW j \in 1 .. Len(m) PROVE TwiceAt(m, i, j)
  <2>1. SUFFICES ASSUME i < j, m[i] = m[j], m[i].from = "server", m[i].ch = 0,
                        m[i].body.type = "open_ok"
                 PROVE  \E k \in i .. j : ClientEnds(m[k], m[i].body.ch)
    BY DEF TwiceAt
  <2>2. i \in 1 .. Len(l) /\ m[i] = l[i]
    BY <1>1, <2>1
  <2>3. CASE j # Len(m)
    <3>1. j \in 1 .. Len(l) /\ \A k \in i .. j : k \in 1 .. Len(l)
      BY <1>1, <2>3
    <3>2. TwiceAt(l, i, j) /\ m[j] = l[j]
      BY <1>1, <2>2, <3>1 DEF Orderly
    <3>3. PICK k \in i .. j : ClientEnds(l[k], l[i].body.ch)
      BY <2>1, <2>2, <3>2 DEF TwiceAt
    <3>4. m[k] = l[k]
      BY <1>1, <3>1
    <3> QED BY <2>2, <3>3, <3>4
  <2>4. CASE j = Len(m)
    <3>1. m[i] = e
      BY <1>1, <2>1, <2>4
    <3> DEFINE c == e.body.ch
    <3>2. ~InUse(l, c) /\ e = Ctrl("open_ok", c)
      BY <2>1, <3>1 DEF Allowed
    <3> HIDE DEF c
    <3>3. PICK k \in i .. Len(l) : ClientEnds(l[k], c)
      BY <2>2, <3>1, <3>2 DEF InUse
    <3>4. k \in i .. j /\ k \in 1 .. Len(l)
      BY <1>1, <2>2, <2>4
    <3>5. ClientEnds(m[k], c)
      BY <1>1, <3>3, <3>4
    <3> QED BY <3>1, <3>4, <3>5 DEF c
  <2> QED BY <2>3, <2>4
<1> QED BY <1>2, <1>3 DEF Orderly, m

\* The server's control messages other than OPEN_OK change nothing.
LEMMA SaysNothing ==
  ASSUME NEW l, NEW O, Conversation(l, O), NEW t, t # "open_ok", NEW c
  PROVE  Conversation(Append(l, Ctrl(t, c)), O)
<1> DEFINE e == Ctrl(t, c)
<1>1. Allowed(l, e)
  BY DEF Allowed, Ctrl
<1>2. \A d : ~ClientEnds(e, d) /\ e # Ctrl("open_ok", d)
  <2>1. e.from = "server" /\ e.body.type # "open_ok"
    BY DEF Ctrl
  <2>2. \A d : Ctrl("open_ok", d).body.type = "open_ok"
    BY DEF Ctrl
  <2> HIDE DEF e
  <2> QED BY <2>1, <2>2 DEF ClientEnds
<1> HIDE DEF e
<1>3. Linked(Append(l, e), O)
  BY <1>2, InUseLonger DEF Linked, Conversation
<1> QED BY <1>1, <1>3, OrderlyLonger, Longer DEF Conversation, e

\* Application data goes out on a channel that is open.
LEMMA SaysData ==
  ASSUME NEW l, NEW O, Conversation(l, O), NEW c \in Channels \cap O, NEW w
  PROVE  Conversation(Append(l, App(c, w)), O)
<1> DEFINE e == App(c, w)
<1>1. c # 0 /\ InUse(l, c)
  BY SessionAssumption DEF Conversation, Linked
<1>2. Allowed(l, e)
  BY <1>1 DEF Allowed, App
<1>3. \A d : ~ClientEnds(e, d) /\ e # Ctrl("open_ok", d)
  <2>1. e.from = "server" /\ e.ch # 0
    BY <1>1 DEF App
  <2>2. \A d : Ctrl("open_ok", d).ch = 0
    BY DEF Ctrl
  <2> HIDE DEF e
  <2> QED BY <2>1, <2>2 DEF ClientEnds
<1> HIDE DEF e
<1>4. Linked(Append(l, e), O)
  BY <1>3, InUseLonger DEF Linked, Conversation
<1> QED BY <1>2, <1>4, OrderlyLonger, Longer DEF Conversation, e

LEMMA Opens ==
  ASSUME NEW l, NEW O, Conversation(l, O), NEW c \in Channels \ O
  PROVE  Conversation(Append(l, Ctrl("open_ok", c)), O \cup {c})
<1> DEFINE e == Ctrl("open_ok", c)
<1>1. ~InUse(l, c)
  BY DEF Conversation, Linked
<1>2. Allowed(l, e)
  BY <1>1 DEF Allowed, Ctrl
<1>3. \A d : ~ClientEnds(e, d) /\ (e = Ctrl("open_ok", d) <=> d = c)
  <2>1. e.from = "server" /\ e.body.ch = c
    BY DEF Ctrl
  <2>2. \A d : Ctrl("open_ok", d).body.ch = d
    BY DEF Ctrl
  <2>3. \A d : ~ClientEnds(e, d)
    <3> HIDE DEF e
    <3> QED BY <2>1 DEF ClientEnds
  <2>4. \A d : e = Ctrl("open_ok", d) => d = c
    <3> HIDE DEF e
    <3> QED BY <2>1, <2>2
  <2> QED BY <2>3, <2>4
<1> HIDE DEF e
<1>4. Linked(Append(l, e), O \cup {c})
  BY <1>3, InUseLonger DEF Linked, Conversation
<1> QED BY <1>2, <1>4, OrderlyLonger, Longer DEF Conversation, e

\* A frame of the client ends the use of the channel it closes or aborts.
LEMMA Hears ==
  ASSUME NEW l, NEW O, Conversation(l, O), NEW f
  PROVE  Conversation(Append(l, Got(f)),
           IF f.ch = 0 /\ f.body.type \in {"abort", "close"} THEN O \ {f.body.ch} ELSE O)
<1> DEFINE e == Got(f)
           P == IF f.ch = 0 /\ f.body.type \in {"abort", "close"} THEN O \ {f.body.ch} ELSE O
<1>1. e.from = "client" /\ e.ch = f.ch /\ e.body = f.body
  BY DEF Got
<1> HIDE DEF e
<1>2. Allowed(l, e)
  BY <1>1 DEF Allowed
<1>3. \A d : e # Ctrl("open_ok", d)
  <2>1. \A d : Ctrl("open_ok", d).from = "server"
    BY DEF Ctrl
  <2> QED BY <1>1, <2>1
<1>4. ASSUME NEW d \in Channels PROVE d \in P <=> InUse(Append(l, e), d)
  <2>1. InUse(Append(l, e), d) <=> InUse(l, d) /\ ~ClientEnds(e, d)
    BY <1>3, InUseLonger DEF Conversation
  <2>2. ClientEnds(e, d) <=> f.ch = 0 /\ f.body.ch = d /\ f.body.type \in {"abort", "close"}
    BY <1>1 DEF ClientEnds
  <2> QED BY <2>1, <2>2 DEF Conversation, Linked
<1>5. Linked(Append(l, e), P)
  BY <1>4 DEF Linked
<1> QED BY <1>2, <1>5, OrderlyLonger, Longer DEF Conversation, e

\* What every step keeps of the session.
SessionInv ==
  /\ openChannels \subseteq Channels
  /\ DOMAIN profile \subseteq Users /\ \A u \in DOMAIN profile : profile[u] \in Passwords
  /\ info \in Users \cup {NoSession}
  /\ Conversation(log, openChannels)

LEMMA SessionStarts == ASSUME SessionInit PROVE SessionInv
<1>1. log \in Seq({}) /\ Len(log) = 0
  BY DEF SessionInit
<1>2. Conversation(log, openChannels)
  BY <1>1 DEF SessionInit, Conversation, IsLog, Orderly, Linked, InUse
<1> QED BY <1>2, SessionAssumption DEF SessionInit, SessionInv

\* The packets of an answer, one by one.
LEMMA Answers ==
  ASSUME IsLog(log), NEW f
  PROVE  /\ Answer(f, <<>>) => log' = Append(log, Got(f))
         /\ \A a : Answer(f, <<a>>) => log' = Append(Append(log, Got(f)), a)
         /\ \A a, b : Answer(f, <<a, b>>) => log' = Append(Append(Append(log, Got(f)), a), b)
<1> DEFINE l == Append(log, Got(f))
<1>1. IsLog(l)
  BY Longer
<1> HIDE DEF l
<1>2. PICK S : l \in Seq(S)
  BY <1>1 DEF IsLog
<1>3. l \o <<>> = l
  BY <1>2
<1>4. ASSUME NEW a PROVE l \o <<a>> = Append(l, a)
  BY <1>2
<1>5. ASSUME NEW a, NEW b PROVE l \o <<a, b>> = Append(Append(l, a), b)
  <2> DEFINE T == S \cup {a, b}
  <2>1. l \in Seq(T) /\ a \in T /\ b \in T
    BY <1>2
  <2> HIDE DEF T
  <2> QED BY <2>1
<1> QED BY <1>3, <1>4, <1>5 DEF Answer, l

\* The handlers of an open channel answer with data of that channel alone.
LEMMA DataAnswers ==
  ASSUME Conversation(log, openChannels), NEW f, f.ch \in Channels \cap openChannels,
         UNCHANGED openChannels,
         \/ Answer(f, <<>>) \/ (\E v : Answer(f, <<App(f.ch, v)>>))
         \/ (\E v, w : Answer(f, <<App(f.ch, v), App(f.ch, w)>>))
  PROVE  Conversation(log', openChannels')
<1> DEFINE l == Append(log, Got(f))
<1>1. Conversation(l, openChannels)
  <2>1. f.ch # 0
    BY SessionAssumption
  <2> QED BY <2>1, Hears
<1>2. IsLog(log)
  BY DEF Conversation
<1> HIDE DEF l
<1>3. CASE Answer(f, <<>>)
  BY <1>1, <1>2, <1>3, Answers DEF l
<1>4. CASE \E v : Answer(f, <<App(f.ch, v)>>)
  <2>1. PICK v : log' = Append(l, App(f.ch, v))
    BY <1>2, <1>4, Answers DEF l
  <2> QED BY <1>1, <2>1, SaysData
<1>5. CASE \E v, w : Answer(f, <<App(f.ch, v), App(f.ch, w)>>)
  <2>1. PICK v, w : log' = Append(Append(l, App(f.ch, v)), App(f.ch, w))
    BY <1>2, <1>5, Answers DEF l
  <2>2. Conversation(Append(l, App(f.ch, v)), openChannels)
    BY <1>1, SaysData
  <2> QED BY <2>1, <2>2, SaysData
<1> QED BY <1>3, <1>4, <1>5

LEMMA OpenKeeps ==
  ASSUME SessionInv, NEW f, OpenRequest(f)
  PROVE  SessionInv'
<1> DEFINE l == Append(log, Got(f))
           c == f.body.ch
<1>1. IsLog(log) /\ f.ch = 0 /\ f.body.type = "open" /\ UNCHANGED <<profile, info>>
  BY DEF SessionInv, Conversation, OpenRequest
<1>2. Conversation(l, openChannels)
  BY <1>1, Hears DEF SessionInv
<1>3. CASE c \in Channels \ openChannels
  <2>1. openChannels' = openChannels \cup {c}
    BY <1>3 DEF OpenRequest
  <2>2. log' = IF c = WorldChannel
               THEN Append(Append(l, Ctrl("open_ok", c)), App(c, "world_map"))
               ELSE Append(l, Ctrl("open_ok", c))
    <3>1. CASE c = WorldChannel
      <4>1. Answer(f, <<Ctrl("open_ok", c), App(c, "world_map")>>)
        BY <1>3, <3>1 DEF OpenRequest
      <4>2. \A a, b : Answer(f, <<a, b>>) => log' = Append(Append(l, a), b)
        BY <1>1, Answers
      <4>3. log' = Append(Append(l, Ctrl("open_ok", c)), App(c, "world_map"))
        BY <4>1, <4>2
      <4> HIDE DEF l
      <4> QED BY <3>1, <4>3
    <3>2. CASE c # WorldChannel
      <4>1. Answer(f, <<Ctrl("open_ok", c)>>)
        BY <1>3, <3>2 DEF OpenRequest
      <4> QED BY <1>1, <3>2, <4>1, Answers
    <3> QED BY <3>1, <3>2
  <2> DEFINE m == Append(l, Ctrl("open_ok", c))
  <2>3. Conversation(m, openChannels \cup {c})
    BY <1>2, <1>3, Opens
  <2> HIDE DEF m, l
  <2>4. Conversation(Append(m, App(c, "world_map")), openChannels \cup {c})
    BY <1>3, <2>3, SaysData
  <2>5. Conversation(log', openChannels')
    BY <2>1, <2>2, <2>3, <2>4 DEF m
  <2> QED BY <1>1, <1>3, <2>1, <2>5 DEF SessionInv
<1>4. CASE c \notin Channels \ openChannels
  <2>1. Answer(f, <<Ctrl("abort", c)>>) /\ UNCHANGED openChannels
    BY <1>4 DEF OpenRequest
  <2>2. log' = Append(l, Ctrl("abort", c))
    BY <1>1, <2>1, Answers
  <2>3. Conversation(log', openChannels')
    BY <1>2, <2>1, <2>2, SaysNothing
  <2> QED BY <1>1, <2>1, <2>3 DEF SessionInv
<1> QED BY <1>3, <1>4

LEMMA CloseKeeps ==
  ASSUME SessionInv, NEW f, CloseRequest(f)
  PROVE  SessionInv'
<1> DEFINE l == Append(log, Got(f))
           c == f.body.ch
<1>1. /\ IsLog(log) /\ f.ch = 0 /\ f.body.type \in {"abort", "close"} /\ UNCHANGED <<profile, info>>
      /\ openChannels' = openChannels \ {c}
  BY DEF SessionInv, Conversation, CloseRequest
<1>2. Conversation(l, openChannels')
  BY <1>1, Hears DEF SessionInv
<1>3. log' = l \/ log' = Append(l, Ctrl("close", c))
  <2>1. CASE f.body.type = "close" /\ c \in openChannels
    <3>1. Answer(f, <<Ctrl("close", c)>>)
      BY <2>1 DEF CloseRequest
    <3> QED BY <1>1, <3>1, Answers
  <2>2. CASE ~(f.body.type = "close" /\ c \in openChannels)
    <3>1. Answer(f, <<>>)
      BY <2>2 DEF CloseRequest
    <3> QED BY <1>1, <3>1, Answers
  <2> QED BY <2>1, <2>2
<1> HIDE DEF l
<1>4. Conversation(log', openChannels')
  BY <1>2, <1>3, SaysNothing
<1> QED BY <1>1, <1>4 DEF SessionInv

LEMMA OthersKeep ==
  ASSUME SessionInv, NEW f, OtherControl(f) \/ Refuse(f)
  PROVE  SessionInv'
<1> DEFINE l == Append(log, Got(f))
<1>1. IsLog(log) /\ UNCHANGED <<openChannels, profile, info>>
  BY DEF SessionInv, Conversation, OtherControl, Refuse, Quiet
<1>2. Conversation(l, openChannels)
  BY Hears DEF SessionInv, OtherControl, Refuse, Refused
<1>3. log' = l \/ log' = Append(l, Ctrl("abort", f.ch))
  BY <1>1, Answers DEF OtherControl, Refuse
<1> HIDE DEF l
<1>4. Conversation(log', openChannels')
  BY <1>1, <1>2, <1>3, SaysNothing
<1> QED BY <1>1, <1>4 DEF SessionInv

LEMMA AuthKeeps ==
  ASSUME SessionInv, NEW f \in ValidFrames, Auth(f)
  PROVE  SessionInv'
<1>1. f.ch \in Channels \cap openChannels /\ f.ch = AuthChannel /\ f.ch # 0
  BY SessionAssumption DEF Auth, Refused
<1>2. IsLog(log) /\ Conversation(log, openChannels) /\ info \in Users \cup {NoSession}
  BY DEF SessionInv, Conversation
<1>3. f.body.control \in {"login", "submit"} => f.body.user \in Users \cup {NoUser} /\ f.body.pass \in Passwords
  BY <1>1, FrameAssumption
<1>4. CASE AuthLogin(f)
  <2>1. Answer(f, <<App(f.ch, "avatars"), App(f.ch, "legacy_login")>>) /\ UNCHANGED <<openChannels, profile>>
    BY <1>4 DEF AuthLogin
  <2>2. info' \in Users \cup {NoSession}
    BY <1>3, <1>4, SessionAssumption DEF AuthLogin
  <2>3. Conversation(log', openChannels')
    BY <1>1, <1>2, <2>1, DataAnswers
  <2> QED BY <2>1, <2>2, <2>3 DEF SessionInv
<1>5. CASE AuthSubmit(f)
  <2>1. UNCHANGED openChannels /\ \E v : Answer(f, <<App(f.ch, v)>>)
    BY <1>5 DEF AuthSubmit
  <2>2. Conversation(log', openChannels')
    BY <1>1, <1>2, <2>1, DataAnswers
  <2>3. CASE f.body.user = NoUser \/ f.body.user \in DOMAIN profile
    <3>1. UNCHANGED <<profile, info>>
      BY <1>5, <2>3 DEF AuthSubmit
    <3> QED BY <2>1, <2>2, <3>1 DEF SessionInv
  <2>4. CASE ~(f.body.user = NoUser \/ f.body.user \in DOMAIN profile)
    <3> DEFINE u == f.body.user
    <3>1. /\ profile' = [v \in DOMAIN profile \cup {u} |-> IF v = u THEN f.body.pass ELSE profile[v]]
          /\ info' = u
      BY <1>5, <2>4 DEF AuthSubmit
    <3>2. u \in Users /\ f.body.pass \in Passwords
      BY <1>3, <1>5, <2>4 DEF AuthSubmit
    <3> HIDE DEF u
    <3>3. DOMAIN profile' \subseteq Users /\ \A v \in DOMAIN profile' : profile'[v] \in Passwords
      BY <3>1, <3>2 DEF SessionInv
    <3> QED BY <2>1, <2>2, <3>1, <3>2, <3>3 DEF SessionInv
  <2> QED BY <2>3, <2>4
<1>6. CASE AuthAvatar(f)
  <2>1. UNCHANGED <<openChannels, profile, info>>
    BY <1>6 DEF AuthAvatar, Quiet
  <2>2. \/ \E v : Answer(f, <<App(f.ch, v)>>)
        \/ \E v, w : Answer(f, <<App(f.ch, v), App(f.ch, w)>>)
    BY <1>6 DEF AuthAvatar
  <2>3. Conversation(log', openChannels')
    BY <1>1, <1>2, <2>1, <2>2, DataAnswers
  <2> QED BY <2>1, <2>3 DEF SessionInv
<1>7. CASE AuthLogout(f)
  <2> DEFINE l == Append(log, Got(f))
  <2>1. Answer(f, <<Ctrl("close", f.ch)>>) /\ UNCHANGED <<openChannels, profile>> /\ info' = NoSession
    BY <1>7 DEF AuthLogout
  <2>2. log' = Append(l, Ctrl("close", f.ch))
    BY <1>2, <2>1, Answers
  <2>3. Conversation(l, openChannels)
    BY <1>1, <1>2, Hears
  <2> HIDE DEF l
  <2>4. Conversation(log', openChannels')
    BY <2>1, <2>2, <2>3, SaysNothing
  <2> QED BY <2>1, <2>4 DEF SessionInv
<1>8. CASE AuthQuery(f)
  <2>1. UNCHANGED <<openChannels, profile, info>>
    BY <1>8 DEF AuthQuery, Quiet
  <2>2. Answer(f, <<>>) \/ \E v : Answer(f, <<App(f.ch, v)>>)
    BY <1>8 DEF AuthQuery
  <2>3. Conversation(log', openChannels')
    BY <1>1, <1>2, <2>1, <2>2, DataAnswers
  <2> QED BY <2>1, <2>3 DEF SessionInv
<1> QED BY <1>4, <1>5, <1>6, <1>7, <1>8 DEF Auth

LEMMA DispatchKeeps ==
  ASSUME SessionInv, NEW f \in ValidFrames, Dispatch(f)
  PROVE  SessionInv'
<1>1. f.ch \in Channels \cap openChannels
  BY DEF Dispatch, Refused
<1>2. Conversation(log, openChannels)
  BY DEF SessionInv
<1>3. UNCHANGED <<openChannels, profile>> /\ (Answer(f, <<>>) \/ \E v : Answer(f, <<App(f.ch, v)>>))
  BY DEF Dispatch, SystemLogin, OtherMain, Quiet
<1>4. Conversation(log', openChannels')
  BY <1>1, <1>2, <1>3, DataAnswers
<1>5. info' \in Users \cup {NoSession}
  <2>1. CASE SystemLogin(f)
    <3>1. f.body.user \in Users \cup {NoUser}
      BY <2>1, FrameAssumption DEF Dispatch, SystemLogin
    <3>2. (info' = f.body.user /\ f.body.user # NoUser) \/ info' = NoSession
      BY <2>1 DEF SystemLogin
    <3> QED BY <3>1, <3>2
  <2>2. CASE OtherMain(f)
    BY <2>2 DEF OtherMain, Quiet, SessionInv
  <2> QED BY <2>1, <2>2 DEF Dispatch
<1> QED BY <1>3, <1>4, <1>5 DEF SessionInv

LEMMA SessionSteps == ASSUME SessionInv, [Next]_vars PROVE SessionInv'
<1>1. CASE HandleFrame
  <2>1. Header \in ValidFrames /\ Handle(Header)
    BY <1>1 DEF HandleFrame, HeaderOK
  <2> QED BY <2>1, OpenKeeps, CloseKeeps, OthersKeep, AuthKeeps, DispatchKeeps DEF Handle
<1>2. ASSUME UNCHANGED session PROVE SessionInv'
  BY <1>2 DEF session, SessionInv
<1> QED BY <1>1, <1>2
    DEF Next, Client, Handler, vars, ClientFrame, ClientWrite, ClientDisconnect, Receive,
        ReceiveFails, WaitForMore, InvalidHeader, SendFails

LEMMA SessionHolds == Spec => []SessionInv
<1>1. Init => SessionInv
  BY SessionStarts DEF Init
<1>2. SessionInv /\ [Next]_vars => SessionInv'
  BY SessionSteps
<1> QED BY <1>1, <1>2, PTL DEF Spec

LEMMA DataIsOrderly == ASSUME SessionInv PROVE DataOnlyWhileOpen
<1>1. PICK S : log \in Seq(S)
  BY DEF SessionInv, Conversation, IsLog
<1>2. DOMAIN log = 1 .. Len(log)
  BY <1>1
<1>3. Orderly(log)
  BY DEF SessionInv, Conversation
<1> QED BY <1>2, <1>3 DEF Orderly, DataAt, TwiceAt, DataOnlyWhileOpen

\* The buffer stays in step with the frames, whatever their lengths and wherever the
\* stream is cut; the server sends data on a channel only while it is open, and opens it
\* again only after the client ended its first use, for any number of channels and users.
THEOREM ChannelsStayInOrder == Spec => []ChannelsKeepOrder
<1>1. Stream => InStep
  BY StreamFits
<1>2. SessionInv => DataOnlyWhileOpen
  BY DataIsOrderly
<1>3. Stream /\ SessionInv => TypeOK
  BY DEF Stream, SessionInv, TypeOK
<1>4. Stream /\ SessionInv => ChannelsKeepOrder
  BY <1>1, <1>2, <1>3 DEF ChannelsKeepOrder
<1> QED BY <1>4, StreamHolds, SessionHolds, PTL
=============================================================================
