---------------------------- MODULE Sockets_proof ----------------------------
(***************************************************************************)
(* The virtual sockets for every number of threads, sockets, connections   *)
(* and bytes: the guest receives every byte once and in order, and nobody  *)
(* sleeps on data that the feeder has announced.                           *)
(***************************************************************************)
EXTENDS Sockets, SequenceTheorems, WellFoundedInduction, TLAPS

----------------------------------------------------------------------------
(* Induction over sequences, by the length of the shortest exception: a library theorem *)
(* with a predicate as its parameter cannot be used. *)

LEMMA Least ==
  ASSUME NEW T \in SUBSET Nat, T # {}
  PROVE  \E m \in T : \A k \in T : m <= k
<1> DEFINE R == OpToRel(<, Nat)
<1>1. IsWellFoundedOn(R, Nat)
  BY NatLessThanWellFounded
<1>2. \A x, y \in Nat : x < y => <<x, y>> \in R
  BY DEF OpToRel
<1> HIDE DEF R
<1>3. PICK m \in T : \A y \in T : ~(<<y, m>> \in R)
  BY <1>1, WFMin
<1>4. \A y \in T : ~(y < m)
  BY <1>2, <1>3, Zenon
<1>5. T \subseteq Nat
  OBVIOUS
<1> QED BY <1>3, <1>4, <1>5

LEMMA Grown ==
  ASSUME NEW B, NEW s \in Seq(B), s # <<>>
  PROVE  \E t \in Seq(B), b \in B :
           /\ s = Append(t, b) /\ Len(s) = Len(t) + 1 /\ s[Len(s)] = b
           /\ \A i \in 1 .. Len(t) : s[i] = t[i]
<1> DEFINE t == SubSeq(s, 1, Len(s) - 1)
<1>1. Len(s) \in Nat /\ Len(s) # 0 /\ s[Len(s)] \in B
  OBVIOUS
<1>2. t \in Seq(B) /\ Len(t) = Len(s) - 1 /\ \A i \in 1 .. Len(s) - 1 : t[i] = s[i]
  <2>1. t \in Seq(B) /\ Len(t) = Len(s) - 1
    <3> DEFINE n == Len(s) - 1
    <3>1. 1 \in Int /\ n \in Int /\ n >= 0 /\ \A i \in 1 .. n : s[i] \in B
      BY <1>1
    <3> HIDE DEF n
    <3>2. SubSeq(s, 1, n) \in Seq(B) /\ Len(SubSeq(s, 1, n)) = n
      BY <3>1, SubSeqProperties
    <3> QED BY <3>2 DEF n
  <2>2. \A i \in 1 .. Len(s) - 1 : t[i] = s[i]
    BY <1>1
  <2> HIDE DEF t
  <2> QED BY <2>1, <2>2
<1> HIDE DEF t
<1>3. s = Append(t, s[Len(s)])
  BY <1>1, <1>2
<1> QED BY <1>1, <1>2, <1>3

LEMMA SeqInduction ==
  ASSUME NEW B, NEW S, <<>> \in S, \A t \in Seq(B) : t \in S => \A b \in B : Append(t, b) \in S
  PROVE  Seq(B) \subseteq S
<1> DEFINE T == {n \in Nat : \E t \in Seq(B) : Len(t) = n /\ t \notin S}
<1> SUFFICES ASSUME NEW s \in Seq(B), s \notin S PROVE FALSE
  OBVIOUS
<1>1. Len(s) \in T /\ T \in SUBSET Nat
  OBVIOUS
<1>2. PICK m \in T : \A n \in T : m <= n
  <2> HIDE DEF T
  <2> QED BY <1>1, Least
<1>3. PICK u \in Seq(B) : Len(u) = m /\ u \notin S
  OBVIOUS
<1>7. u # <<>>
  BY <1>3
<1>4. PICK t \in Seq(B), b \in B :
        /\ u = Append(t, b) /\ Len(u) = Len(t) + 1 /\ u[Len(u)] = b
        /\ \A i \in 1 .. Len(t) : u[i] = t[i]
  BY <1>7, Grown
<1>5. Len(t) \in Nat /\ ~(m <= Len(t))
  BY <1>3, <1>4
<1>6. t \in S
  <2>1. Len(t) \notin T
    <3> HIDE DEF T
    <3> QED BY <1>2, <1>5
  <2> QED BY <1>5, <2>1
<1> QED BY <1>3, <1>4, <1>6

LEMMA Joining ==
  ASSUME NEW B, NEW r \in Seq(B), NEW s \in Seq(B), NEW t \in Seq(B)
  PROVE  (r \o s) \o t = r \o (s \o t)
OBVIOUS

LEMMA JoiningOne ==
  ASSUME NEW B, NEW r \in Seq(B), NEW s \in Seq(B), NEW b \in B
  PROVE  r \o Append(s, b) = Append(r \o s, b)
OBVIOUS

----------------------------------------------------------------------------
(* The chunks of a channel, joined. *)

\* The function FlattenSeq defines.
Joined(w, f) == f = [i \in 1 .. Len(w) |-> IF i = 1 THEN w[i] ELSE f[i - 1] \o w[i]]

LEMMA JoinedNext ==
  ASSUME NEW C, NEW w \in Seq(C), w # <<>>, NEW c \in C, NEW f, Joined(w, f)
  PROVE  Joined(Append(w, c),
                [i \in 1 .. Len(w) + 1 |-> IF i = Len(w) + 1 THEN f[Len(w)] \o c ELSE f[i]])
<1> DEFINE n == Len(w)
           v == Append(w, c)
           g == [i \in 1 .. n + 1 |-> IF i = n + 1 THEN f[n] \o c ELSE f[i]]
<1>1. n \in Nat /\ n # 0 /\ Len(v) = n + 1 /\ v[n + 1] = c /\ \A i \in 1 .. n : v[i] = w[i]
  OBVIOUS
<1>2. \A i \in 1 .. n : f[i] = IF i = 1 THEN w[i] ELSE f[i - 1] \o w[i]
  BY DEF Joined
<1> HIDE DEF n, v
<1>3. ASSUME NEW i \in 1 .. n + 1
      PROVE  g[i] = IF i = 1 THEN v[i] ELSE g[i - 1] \o v[i]
  <2>1. CASE i = n + 1
    <3>1. i # 1 /\ i - 1 = n /\ n # n + 1 /\ n \in 1 .. n + 1
      BY <1>1, <2>1
    <3> QED BY <1>1, <2>1, <3>1
  <2>2. CASE i # n + 1
    <3>1. i \in 1 .. n /\ (i # 1 => i - 1 \in 1 .. n + 1 /\ i - 1 # n + 1)
      BY <1>1, <2>2
    <3> QED BY <1>1, <1>2, <2>2, <3>1
  <2> QED BY <2>1, <2>2
<1>4. g = [i \in 1 .. n + 1 |-> g[i]]
  OBVIOUS
<1> HIDE DEF g
<1>5. Joined(v, g)
  BY <1>1, <1>3, <1>4 DEF Joined
<1> QED BY <1>5 DEF n, v, g

LEMMA JoinedExists ==
  ASSUME NEW C, NEW w \in Seq(C), w # <<>>
  PROVE  \E f : Joined(w, f)
<1> DEFINE S == {u \in Seq(C) : u # <<>> => \E f : Joined(u, f)}
<1>1. <<>> \in S
  OBVIOUS
<1>2. ASSUME NEW u \in Seq(C), u \in S, NEW c \in C PROVE Append(u, c) \in S
  <2>1. CASE u = <<>>
    <3>1. Joined(<<c>>, [i \in 1 .. 1 |-> c])
      BY DEF Joined
    <3>2. Append(u, c) = <<c>> /\ Append(u, c) \in Seq(C)
      BY <2>1
    <3> QED BY <3>1, <3>2
  <2>2. CASE u # <<>>
    <3>1. PICK f : Joined(u, f)
      BY <1>2, <2>2
    <3>2. \E g : Joined(Append(u, c), g)
      BY <2>2, <3>1, JoinedNext
    <3> QED BY <3>2
  <2> QED BY <2>1, <2>2
<1> HIDE DEF S
<1>3. w \in S
  BY <1>1, <1>2, SeqInduction
<1> QED BY <1>3 DEF S

\* There is one such function.
LEMMA JoinedAgree ==
  ASSUME NEW w, NEW v, Len(w) \in Nat, Len(v) \in Nat, Len(w) <= Len(v),
         \A i \in 1 .. Len(w) : v[i] = w[i],
         NEW f, Joined(w, f), NEW g, Joined(v, g)
  PROVE  \A i \in 1 .. Len(w) : g[i] = f[i]
<1> DEFINE T == {i \in 1 .. Len(w) : g[i] # f[i]}
<1> SUFFICES ASSUME T # {} PROVE FALSE
  OBVIOUS
<1>1. T \in SUBSET Nat
  OBVIOUS
<1> HIDE DEF T
<1>2. PICK m \in T : \A k \in T : m <= k
  BY <1>1, Least
<1>3. m \in 1 .. Len(w) /\ m \in 1 .. Len(v) /\ g[m] # f[m]
  BY <1>1, <1>2 DEF T
<1>4. /\ f[m] = IF m = 1 THEN w[m] ELSE f[m - 1] \o w[m]
      /\ g[m] = IF m = 1 THEN v[m] ELSE g[m - 1] \o v[m]
  BY <1>3 DEF Joined
<1>5. m # 1 /\ m - 1 \in 1 .. Len(w)
  BY <1>3, <1>4
<1>6. m - 1 \notin T
  BY <1>2, <1>3
<1>7. g[m - 1] = f[m - 1]
  BY <1>5, <1>6 DEF T
<1> QED BY <1>3, <1>4, <1>5, <1>7

LEMMA FlattenIs ==
  ASSUME NEW C, NEW w \in Seq(C), w # <<>>
  PROVE  \E f : Joined(w, f) /\ FlattenSeq(w) = f[Len(w)]
<1> DEFINE f == CHOOSE f : Joined(w, f)
<1>1. Joined(w, f)
  BY JoinedExists
<1>2. FlattenSeq(w) = f[Len(w)]
  <2>1. Len(w) # 0
    OBVIOUS
  <2> QED BY <2>1 DEF FlattenSeq, Joined
<1> QED BY <1>1, <1>2

LEMMA FlattenAppend ==
  ASSUME NEW B, NEW w \in Seq(Seq(B)), NEW c \in Seq(B)
  PROVE  /\ FlattenSeq(<<>>) = <<>>
         /\ FlattenSeq(Append(w, c)) = IF w = <<>> THEN c ELSE FlattenSeq(w) \o c
<1> DEFINE C == Seq(B)
           v == Append(w, c)
<1>1. FlattenSeq(<<>>) = <<>>
  BY DEF FlattenSeq
<1>2. w \in Seq(C) /\ c \in C /\ v \in Seq(C) /\ v # <<>> /\ Len(v) = Len(w) + 1 /\ Len(w) \in Nat
  <2>1. w \in Seq(C) /\ c \in C
    OBVIOUS
  <2> HIDE DEF C
  <2> QED BY <2>1
<1>3. v[Len(v)] = c /\ (w = <<>> => Len(v) = 1) /\ \A i \in 1 .. Len(w) : v[i] = w[i]
  OBVIOUS
<1> HIDE DEF C, v
<1>4. PICK g : Joined(v, g) /\ FlattenSeq(v) = g[Len(v)]
  BY <1>2, FlattenIs
<1>5. g[Len(v)] = IF Len(v) = 1 THEN v[Len(v)] ELSE g[Len(v) - 1] \o v[Len(v)]
  <2>1. Len(v) \in 1 .. Len(v)
    BY <1>2
  <2> QED BY <1>4, <2>1 DEF Joined
<1>6. CASE w = <<>>
  BY <1>1, <1>3, <1>4, <1>5, <1>6 DEF v
<1>7. CASE w # <<>>
  <2>1. PICK f : Joined(w, f) /\ FlattenSeq(w) = f[Len(w)]
    BY <1>2, <1>7, FlattenIs
  <2>2. Len(w) # 0
    BY <1>2, <1>7
  <2>3. g[Len(w)] = f[Len(w)]
    <3>1. \A i \in 1 .. Len(w) : g[i] = f[i]
      <4>1. Len(w) <= Len(v)
        BY <1>2
      <4>2. Joined(w, f) /\ Joined(v, g)
        BY <1>4, <2>1
      <4> HIDE DEF v
      <4>3. Len(w) \in Nat /\ Len(v) \in Nat /\ \A i \in 1 .. Len(w) : v[i] = w[i]
        BY <1>2, <1>3
      <4> QED BY <4>1, <4>2, <4>3, JoinedAgree
    <3> QED BY <1>2, <2>2, <3>1
  <2>4. Len(v) # 1 /\ Len(v) - 1 = Len(w)
    BY <1>2, <2>2
  <2> QED BY <1>1, <1>3, <1>4, <1>5, <1>7, <2>1, <2>3, <2>4 DEF v
<1> QED BY <1>6, <1>7

LEMMA FlattenEmpty == FlattenSeq(<<>>) = <<>>
BY DEF FlattenSeq

LEMMA FlattenType ==
  ASSUME NEW B, NEW w \in Seq(Seq(B))
  PROVE  FlattenSeq(w) \in Seq(B)
<1> DEFINE C == Seq(B)
           S == {u \in Seq(C) : FlattenSeq(u) \in Seq(B)}
<1>1. <<>> \in S
  <2>1. <<>> \in Seq(B) /\ <<>> \in Seq(C)
    OBVIOUS
  <2>2. FlattenSeq(<<>>) \in Seq(B)
    BY <2>1, FlattenEmpty
  <2> QED BY <2>1, <2>2
<1>2. ASSUME NEW u \in Seq(C), u \in S, NEW c \in C PROVE Append(u, c) \in S
  <2>1. FlattenSeq(Append(u, c)) = IF u = <<>> THEN c ELSE FlattenSeq(u) \o c
    BY FlattenAppend
  <2>2. FlattenSeq(u) \in Seq(B)
    BY <1>2
  <2>3. FlattenSeq(Append(u, c)) \in Seq(B)
    BY <2>1, <2>2
  <2>4. Append(u, c) \in Seq(C)
    <3> HIDE DEF C
    <3> QED OBVIOUS
  <2> QED BY <2>3, <2>4
<1> HIDE DEF S
<1>3. w \in S
  BY <1>1, <1>2, SeqInduction
<1> QED BY <1>3 DEF S

LEMMA FlattenSnoc ==
  ASSUME NEW B, NEW w \in Seq(Seq(B)), NEW c \in Seq(B)
  PROVE  FlattenSeq(Append(w, c)) = FlattenSeq(w) \o c
<1>1. CASE w = <<>>
  <2>1. FlattenSeq(w) = <<>> /\ FlattenSeq(Append(w, c)) = c
    BY <1>1, FlattenAppend
  <2>2. <<>> \o c = c
    OBVIOUS
  <2> QED BY <2>1, <2>2
<1>2. CASE w # <<>>
  BY <1>2, FlattenAppend
<1> QED BY <1>1, <1>2

LEMMA FlattenCons ==
  ASSUME NEW B, NEW w \in Seq(Seq(B)), NEW c \in Seq(B)
  PROVE  FlattenSeq(<<c>> \o w) = c \o FlattenSeq(w)
<1> DEFINE C == Seq(B)
           S == {u \in Seq(C) : FlattenSeq(<<c>> \o u) = c \o FlattenSeq(u)}
<1>1. <<>> \in S
  <2>1. <<c>> \o <<>> = Append(<<>>, c) /\ <<>> \in Seq(C)
    OBVIOUS
  <2>2. FlattenSeq(Append(<<>>, c)) = c /\ FlattenSeq(<<>>) = <<>>
    BY <2>1, FlattenAppend
  <2> QED BY <2>1, <2>2
<1>2. ASSUME NEW u \in Seq(C), u \in S, NEW d \in C PROVE Append(u, d) \in S
  <2>1. <<c>> \o Append(u, d) = Append(<<c>> \o u, d) /\ <<c>> \o u \in Seq(C)
    OBVIOUS
  <2>2. FlattenSeq(Append(<<c>> \o u, d)) = FlattenSeq(<<c>> \o u) \o d
    BY <2>1, FlattenSnoc
  <2>3. FlattenSeq(Append(u, d)) = FlattenSeq(u) \o d
    BY FlattenSnoc
  <2>4. FlattenSeq(<<c>> \o u) = c \o FlattenSeq(u)
    BY <1>2
  <2>5. (c \o FlattenSeq(u)) \o d = c \o (FlattenSeq(u) \o d)
    BY FlattenType, Joining
  <2>6. Append(u, d) \in Seq(C)
    <3> HIDE DEF C
    <3> QED OBVIOUS
  <2>7. FlattenSeq(<<c>> \o Append(u, d)) = c \o FlattenSeq(Append(u, d))
    BY <2>1, <2>2, <2>3, <2>4, <2>5
  <2> QED BY <2>6, <2>7
<1> HIDE DEF S
<1>3. w \in S
  BY <1>1, <1>2, SeqInduction
<1> QED BY <1>3 DEF S

LEMMA SplitAt ==
  ASSUME NEW B, NEW s \in Seq(B), NEW n \in 0 .. Len(s)
  PROVE  LET u == SubSeq(s, 1, n)
             t == SubSeq(s, n + 1, Len(s))
         IN  /\ u \in Seq(B) /\ t \in Seq(B) /\ s = u \o t
             /\ Len(u) = n /\ \A i \in 1 .. n : u[i] = s[i]
<1> DEFINE m == Len(s)
           u == SubSeq(s, 1, n)
           t == SubSeq(s, n + 1, m)
<1>1. m \in Nat /\ n \in Nat /\ n <= m /\ \A i \in 1 .. m : s[i] \in B
  OBVIOUS
<1>2. u \in Seq(B) /\ Len(u) = n /\ \A i \in 1 .. n : u[i] = s[i]
  <2>1. u \in Seq(B) /\ Len(u) = IF 1 <= n THEN n - 1 + 1 ELSE 0
    <3> HIDE DEF m
    <3> QED BY <1>1, SubSeqProperties
  <2>2. \A i \in 1 .. n : u[i] = s[i]
    BY <1>1
  <2> HIDE DEF u
  <2> QED BY <1>1, <2>1, <2>2
<1>3. t \in Seq(B) /\ Len(t) = m - n /\ \A i \in 1 .. m - n : t[i] = s[n + i]
  <2>1. t \in Seq(B) /\ Len(t) = IF n + 1 <= m THEN m - (n + 1) + 1 ELSE 0
    <3> HIDE DEF m
    <3>1. n + 1 \in Int /\ m \in Int /\ \A i \in n + 1 .. m : s[i] \in B
      BY <1>1
    <3> QED BY <3>1, SubSeqProperties
  <2>2. \A i \in 1 .. m - n : t[i] = s[n + i]
    BY <1>1
  <2> HIDE DEF t, m
  <2> QED BY <1>1, <2>1, <2>2
<1> HIDE DEF u, t
<1>4. s = u \o t
  <2>1. u \o t \in Seq(B) /\ Len(u \o t) = m
    <3>1. Len(u) = n /\ Len(t) = m - n /\ u \in Seq(B) /\ t \in Seq(B)
      BY <1>2, <1>3
    <3>2. u \o t \in Seq(B) /\ Len(u \o t) = Len(u) + Len(t)
      BY <3>1
    <3> HIDE DEF m
    <3> QED BY <1>1, <3>1, <3>2
  <2>2. \A i \in 1 .. m : (u \o t)[i] = s[i]
    <3>1. ASSUME NEW i \in 1 .. m PROVE (u \o t)[i] = s[i]
      <4>1. CASE i <= n
        BY <1>1, <1>2, <1>3, <4>1
      <4>2. CASE ~(i <= n)
        <5>1. i - n \in 1 .. m - n /\ n + (i - n) = i /\ i > n
          BY <1>1, <4>2
        <5>2. (u \o t)[i] = t[i - n]
          BY <1>1, <1>2, <1>3, <5>1
        <5> QED BY <1>3, <5>1, <5>2
      <4> QED BY <4>1, <4>2
    <3> QED BY <3>1
  <2> DEFINE v == u \o t
  <2>3. v \in Seq(B) /\ Len(v) = Len(s) /\ \A i \in 1 .. Len(s) : v[i] = s[i]
    BY <2>1, <2>2
  <2> HIDE DEF v
  <2>4. v = s
    BY <2>3, SeqEqual
  <2> QED BY <2>4 DEF v
<1> QED BY <1>2, <1>3, <1>4 DEF u, t

LEMMA Prefix ==
  ASSUME NEW B, NEW s \in Seq(B), NEW t \in Seq(B)
  PROVE  IsPrefix(s, s \o t)
<1> DEFINE a == s \o t
<1>1. /\ a \in Seq(B) /\ Len(s) \in Nat /\ Len(a) \in Nat /\ Len(s) <= Len(a)
      /\ \A i \in 1 .. Len(s) : a[i] = s[i]
  OBVIOUS
<1> HIDE DEF a
<1> DEFINE u == SubSeq(s, 1, Len(s))
           v == SubSeq(a, 1, Len(s))
<1>2. /\ u \in Seq(B) /\ Len(u) = Len(s) /\ \A i \in 1 .. Len(s) : u[i] = s[i]
  <2>1. Len(s) \in 0 .. Len(s)
    BY <1>1
  <2> QED BY <2>1, SplitAt
<1>3. /\ v \in Seq(B) /\ Len(v) = Len(s) /\ \A i \in 1 .. Len(s) : v[i] = a[i]
  <2>1. Len(s) \in 0 .. Len(a)
    BY <1>1
  <2> QED BY <1>1, <2>1, SplitAt
<1> HIDE DEF u, v
<1>4. u = v
  BY <1>1, <1>2, <1>3, SeqEqual
<1> QED BY <1>1, <1>4 DEF u, v, a, IsPrefix

----------------------------------------------------------------------------
(* The invariants. *)

Ending == {"endWake", "endMark", "endEvents", "ended", "gone"}

\* A connection belongs to one handle; one not made yet has nothing.
Numbered ==
  /\ \A s \in Socks : Open(s) => ConnOf(s) \in 1 .. conns /\ home[ConnOf(s)] = s
  /\ \A c \in conns + 1 .. MaxConns :
       /\ sent[c] = 0 /\ got[c] = <<>> /\ out[c] = <<>> /\ chan[c] = <<>>
       /\ feeder[c] = "gone" /\ ~server[c] /\ c \notin eof

\* A feeder that ends leaves nothing behind, unless its socket is gone.
EndsEmpty ==
  /\ \A s \in Socks : Open(s) /\ feeder[ConnOf(s)] \in Ending =>
       out[ConnOf(s)] = <<>> /\ ~server[ConnOf(s)]
  /\ \A c \in eof : c \in 1 .. conns /\ feeder[c] = "gone"

Streams == TypeOK /\ Numbered /\ StreamIntact /\ EndsEmpty /\ EofMeansAll

\* A thread out of the run loop's reach is registered for its call.
Parked(t)  == call[t] # NoCall /\ t \notin ready /\ mid.t # t
Registered ==
  \A t \in Threads : Parked(t) => waitS[t] = SocksOf(call[t]) /\ waitH[t] = EventsOf(call[t])

\* A thread that sleeps, or has looked and is about to, has nothing to receive that is
\* not announced: the feeder is still to come to its waking steps.
Announced(e, s) ==
  \E c \in Conns : /\ home[c] = s
                   /\ \/ feeder[c] = "mark"
                      \/ feeder[c] \in {"wakeSock", "wakeEvents"} /\ e \in toWake[c]
Attended(t) ==
  /\ call[t].op \in {"recv", "wsarecv"} =>
       (HasData(call[t].s) => FeederAt(call[t].s, {"mark", "wakeSock"}))
  /\ call[t].op = "wait" =>
       LET entry == wsa[call[t].e]
       IN  entry # NoEntry /\ "read" \in entry.interest /\ HasData(entry.sock)
             => Announced(call[t].e, entry.sock)
SleepersAttended == \A t \in Threads \ unwoken : Parked(t) \/ Parking(t) => Attended(t)

Waits == TypeOK /\ Registered /\ SleepersAttended

----------------------------------------------------------------------------
(* The steps, and the types of the variables. *)

LEMMA StepIs ==
  ASSUME [Next]_vars
  PROVE  \/ UNCHANGED vars
         \/ \E t \in Threads : \E k \in CallsOf[t] :
              \/ RecvData(t, k) \/ RecvEof(t, k) \/ RecvFails(t, k) \/ RecvWouldBlock(t, k)
              \/ RecvBlocks(t, k) \/ SelectReturns(t, k) \/ SelectFindsNothing(t, k)
              \/ WaitReturns(t, k) \/ WaitFindsNothing(t, k)
         \/ \E t \in Threads, s \in Socks :
              \/ Connect(t, s) \/ CloseSocket(t, s) \/ Send(t, s)
              \/ \E nb \in BOOLEAN : IoctlSocket(t, s, nb)
              \/ \E e \in WsaEvents, i \in Interests : WsaEventSelect(t, s, e, i)
         \/ \E t \in Threads, e \in WsaEvents : EnumNetworkEvents(t, e)
         \/ \E t \in Threads : WakeForMessage(t)
         \/ Park \/ EnumClears
         \/ \E c \in Conns :
              \/ \E ends \in Answers : Serve(c, ends)
              \/ Quit(c) \/ HandlerEnds(c) \/ Forward(c) \/ MarkRead(c)
              \/ FeederWakesSocket(c) \/ FeederListsEvents(c) \/ FeederWakesEvents(c)
              \/ FeederSeesEnd(c) \/ FeederDrops(c)
BY Zenon DEF Next, Blocking, Handler, Feeder

LEMMA CallIs ==
  ASSUME NEW k \in Calls
  PROVE  /\ k.op \in {"recv", "wsarecv", "select", "wait"} /\ k.finite \in BOOLEAN /\ k # NoCall
         /\ k.op \in {"recv", "wsarecv"} => k.s \in Socks /\ k.n \in Asks /\ k.peek \in BOOLEAN
         /\ k.op = "select" => k.fds \in SUBSET Socks
         /\ k.op = "wait" => k.e \in WsaEvents
         /\ SocksOf(k) \in SUBSET Socks /\ EventsOf(k) \in SUBSET WsaEvents
<1>1. CASE k \in [op : {"recv", "wsarecv"}, s : Socks, n : Asks, peek : BOOLEAN, finite : {FALSE}]
  BY <1>1, CallAssumption DEF Calls, SocksOf, EventsOf
<1>2. CASE k \in [op : {"select"}, fds : {{s} : s \in Socks}, writes : BOOLEAN, finite : BOOLEAN]
  <2>1. k.op = "select" /\ k.finite \in BOOLEAN /\ k.fds \in {{s} : s \in Socks} /\ k \in Calls
    BY <1>2
  <2>2. k.fds \in SUBSET Socks
    BY <2>1
  <2> QED BY <2>1, <2>2, CallAssumption DEF SocksOf, EventsOf
<1>3. CASE k \in [op : {"wait"}, e : WsaEvents, finite : BOOLEAN]
  BY <1>3, CallAssumption DEF Calls, SocksOf, EventsOf
<1> QED BY <1>1, <1>2, <1>3 DEF Calls

LEMMA Made ==
  ASSUME TypeOK, NEW t \in Threads, NEW k \in CallsOf[t], Executes(t, k)
  PROVE  k \in Calls /\ mid = Idle /\ call[t] \in {NoCall, k}
BY CallAssumption DEF TypeOK, Executes, MayRun

NetOK ==
  /\ sock \in [Socks -> [conn : 0 .. MaxConns, nb : BOOLEAN] \cup {NoSock}]
  /\ buf \in [Socks -> Bytes]
  /\ conns \in 0 .. MaxConns /\ home \in [Conns -> Socks \cup {NoSock}]
  /\ inbox \in [Conns -> 0 .. MaxSends] /\ server \in [Conns -> BOOLEAN]
  /\ out \in [Conns -> Seq(Bytes)] /\ chan \in [Conns -> Seq(Bytes)]
  /\ feeder \in [Conns -> {"recv", "mark", "wakeSock", "wakeEvents", "endWake", "endMark",
                           "endEvents", "ended", "gone"}]
  /\ toWake \in [Conns -> SUBSET WsaEvents]
  /\ sent \in [Conns -> 0 .. MaxBytes] /\ got \in [Conns -> Bytes]
  /\ eof \subseteq Conns /\ quit \subseteq Conns

GuestOK ==
  /\ wsa \in [WsaEvents -> Entries \cup {NoEntry}]
  /\ call \in [Threads -> Calls \cup {NoCall}] /\ ready \subseteq Threads
  /\ waitS \in [Threads -> SUBSET Socks] /\ waitH \in [Threads -> SUBSET WsaEvents]
  /\ unwoken \subseteq Threads
  /\ \/ mid = Idle
     \/ mid \in [t : Threads, at : {"park"}] /\ call[mid.t] # NoCall
     \/ /\ mid \in [t : Threads, at : {"clear"}, e : WsaEvents]
        /\ call[mid.t] = NoCall /\ wsa[mid.e] # NoEntry

LEMMA TypesAre == TypeOK <=> NetOK /\ GuestOK
BY DEF TypeOK, NetOK, GuestOK

LEMMA GuestStarts == Init => GuestOK
BY DEF Init, GuestOK

\* What a call does to the thread that makes it.
LEMMA ReturnTypes ==
  ASSUME GuestOK, NEW t \in Threads, mid = Idle, Return(t)
  PROVE  wsa' \in [WsaEvents -> Entries \cup {NoEntry}] => GuestOK'
BY DEF GuestOK, Return, Idle

LEMMA ErrorTypes ==
  ASSUME GuestOK, NEW t \in Threads, mid = Idle, ReturnError(t), wsa' = wsa
  PROVE  GuestOK'
BY DEF GuestOK, ReturnError, Idle

LEMMA SleepTypes ==
  ASSUME GuestOK, NEW t \in Threads, NEW k \in Calls, mid = Idle, GoToSleep(t, k), wsa' = wsa
  PROVE  GuestOK'
BY CallAssumption DEF GuestOK, GoToSleep, Idle

LEMMA WakeTypes ==
  ASSUME GuestOK, NEW woken \in SUBSET Threads, NEW missed \in SUBSET Threads,
         Wakes(woken, missed), UNCHANGED <<call, waitS, waitH, mid>>,
         wsa' \in [WsaEvents -> Entries \cup {NoEntry}],
         \A e \in WsaEvents : wsa[e] # NoEntry => wsa'[e] # NoEntry
  PROVE  GuestOK'
BY DEF GuestOK, Wakes

\* Marking an event pending keeps its entry otherwise.
LEMMA PendingTypes ==
  ASSUME wsa \in [WsaEvents -> Entries \cup {NoEntry}], NEW es \in SUBSET WsaEvents,
         NEW kind \in {"connect", "read"}, \A e \in es : wsa[e] # NoEntry
  PROVE  /\ Pending(es, kind) \in [WsaEvents -> Entries \cup {NoEntry}]
         /\ \A e \in WsaEvents :
              /\ wsa[e] = NoEntry => Pending(es, kind)[e] = NoEntry
              /\ wsa[e] # NoEntry =>
                   /\ Pending(es, kind)[e] # NoEntry
                   /\ Pending(es, kind)[e].sock = wsa[e].sock
                   /\ Pending(es, kind)[e].interest = wsa[e].interest
<1>1. ASSUME NEW e \in WsaEvents, wsa[e] # NoEntry
      PROVE  /\ [wsa[e] EXCEPT !.pending = @ \cup {kind}] \in Entries
             /\ [wsa[e] EXCEPT !.pending = @ \cup {kind}].sock = wsa[e].sock
             /\ [wsa[e] EXCEPT !.pending = @ \cup {kind}].interest = wsa[e].interest
  <2>1. wsa[e] \in Entries
    BY <1>1
  <2> QED BY <2>1 DEF Entries
<1> QED BY <1>1, EntryAssumption DEF Pending

LEMMA WatchingIs ==
  ASSUME NEW s, NEW kind
  PROVE  Watching(s, kind) \in SUBSET WsaEvents /\ \A e \in Watching(s, kind) : wsa[e] # NoEntry
BY DEF Watching

LEMMA GuestTypes ==
  ASSUME TypeOK, [Next]_vars
  PROVE  GuestOK'
<1> USE TypesAre
<1>1. CASE UNCHANGED <<guest, wsa, mid>>
  BY <1>1 DEF GuestOK, guest
<1>2. ASSUME NEW t \in Threads, NEW k \in CallsOf[t], k \in Calls, mid = Idle,
             \/ RecvData(t, k) \/ RecvEof(t, k) \/ RecvFails(t, k) \/ RecvWouldBlock(t, k)
             \/ RecvBlocks(t, k) \/ SelectReturns(t, k) \/ SelectFindsNothing(t, k)
             \/ WaitReturns(t, k) \/ WaitFindsNothing(t, k)
      PROVE  GuestOK'
  <2>1. wsa \in [WsaEvents -> Entries \cup {NoEntry}]
    BY DEF GuestOK
  <2>2. CASE RecvData(t, k) \/ RecvEof(t, k) \/ RecvWouldBlock(t, k) \/ SelectReturns(t, k)
    <3>1. Return(t) /\ wsa' = wsa
      BY <2>2 DEF RecvData, RecvEof, RecvWouldBlock, SelectReturns
    <3> QED BY <1>2, <2>1, <3>1, ReturnTypes
  <2>3. CASE RecvFails(t, k)
    BY <1>2, <2>3, ErrorTypes DEF RecvFails
  <2>4. CASE RecvBlocks(t, k)
    BY <1>2, <2>4, SleepTypes DEF RecvBlocks
  <2>5. CASE SelectFindsNothing(t, k) \/ WaitFindsNothing(t, k)
    <3>1. GoToSleep(t, k) \/ Return(t)
      BY <2>5 DEF SelectFindsNothing, WaitFindsNothing
    <3>2. wsa' = wsa
      BY <2>5 DEF SelectFindsNothing, WaitFindsNothing
    <3> QED BY <1>2, <2>1, <3>1, <3>2, ReturnTypes, SleepTypes
  <2>6. CASE WaitReturns(t, k)
    <3>1. Return(t) /\ wsa' \in {wsa, Pending({k.e}, "read")} /\ k.op = "wait" /\ wsa[k.e] # NoEntry
      BY <2>6 DEF WaitReturns, Signaled
    <3>2. k.e \in WsaEvents
      BY <1>2, <3>1, CallIs
    <3>3. Pending({k.e}, "read") \in [WsaEvents -> Entries \cup {NoEntry}]
      BY <2>1, <3>1, <3>2, PendingTypes
    <3> QED BY <1>2, <2>1, <3>1, <3>3, ReturnTypes
  <2> QED BY <1>2, <2>2, <2>3, <2>4, <2>5, <2>6
<1>3. ASSUME NEW t \in Threads, NEW s \in Socks, Connect(t, s) PROVE GuestOK'
  <2> DEFINE es == Watching(s, "connect")
  <2>1. wsa' = Pending(es, "connect") /\ WakeEvents(es) /\ UNCHANGED <<call, waitS, waitH, mid>>
    BY <1>3 DEF Connect
  <2>2. es \in SUBSET WsaEvents /\ \A e \in es : wsa[e] # NoEntry
    BY WatchingIs
  <2>3. GuestOK /\ wsa \in [WsaEvents -> Entries \cup {NoEntry}]
    BY DEF GuestOK
  <2> HIDE DEF es
  <2>4. /\ wsa' \in [WsaEvents -> Entries \cup {NoEntry}]
        /\ \A e \in WsaEvents : wsa[e] # NoEntry => wsa'[e] # NoEntry
    BY <2>1, <2>2, <2>3, PendingTypes
  <2> QED BY <2>1, <2>3, <2>4, WakeTypes DEF WakeEvents
<1>4. ASSUME NEW t \in Threads, NEW s \in Socks, NEW e \in WsaEvents, NEW i \in Interests,
             WsaEventSelect(t, s, e, i)
      PROVE  GuestOK'
  <2> DEFINE entry == [sock |-> s, interest |-> i,
                       pending |-> IF Open(s) /\ "connect" \in i THEN {"connect"} ELSE {}]
  <2>1. entry \in Entries
    BY DEF Entries
  <2>2. /\ wsa' = [wsa EXCEPT ![e] = entry] /\ UNCHANGED <<call, ready, waitS, waitH, mid>>
        /\ unwoken' = unwoken \cup {u \in Threads \ ready : e \in waitH[u]}
    BY <1>4 DEF WsaEventSelect
  <2>3. mid = Idle
    BY <1>4 DEF WsaEventSelect, Calling, MayRun
  <2> HIDE DEF entry
  <2> QED BY <2>1, <2>2, <2>3 DEF GuestOK, Idle
<1>5. ASSUME NEW t \in Threads, NEW e \in WsaEvents, EnumNetworkEvents(t, e) PROVE GuestOK'
  <2>1. call[t] = NoCall /\ wsa[e] # NoEntry /\ mid' = [t |-> t, at |-> "clear", e |-> e]
        /\ UNCHANGED <<guest, wsa>>
    BY <1>5 DEF EnumNetworkEvents, Calling
  <2> QED BY <2>1 DEF GuestOK, guest
<1>6. ASSUME NEW t \in Threads, WakeForMessage(t) PROVE GuestOK'
  BY <1>6 DEF WakeForMessage, GuestOK
<1>7. CASE Park
  <2>1. mid.at = "park" /\ mid' = Idle /\ UNCHANGED <<call, unwoken, wsa>>
    BY <1>7 DEF Park
  <2>2. mid \in [t : Threads, at : {"park"}] /\ call[mid.t] # NoCall
    BY <2>1 DEF GuestOK, Idle
  <2>3. PICK t \in Threads : t = mid.t
    BY <2>2
  <2>4. /\ ready' = ready \ {t}
        /\ waitS' = [waitS EXCEPT ![t] = SocksOf(call[t])]
        /\ waitH' = [waitH EXCEPT ![t] = EventsOf(call[t])]
    BY <1>7, <2>3 DEF Park
  <2>5. call[t] \in Calls
    BY <2>2, <2>3 DEF GuestOK
  <2>6. SocksOf(call[t]) \in SUBSET Socks /\ EventsOf(call[t]) \in SUBSET WsaEvents
    BY <2>5, CallIs
  <2> QED BY <2>1, <2>4, <2>6 DEF GuestOK
<1>8. CASE EnumClears
  <2>1. mid.at = "clear" /\ mid' = Idle /\ UNCHANGED <<call, ready, waitS, waitH, unwoken>>
        /\ wsa' = [wsa EXCEPT ![mid.e].pending = {}]
    BY <1>8 DEF EnumClears, guest
  <2>2. mid.e \in WsaEvents /\ wsa[mid.e] # NoEntry
    BY <2>1 DEF GuestOK, Idle
  <2>3. wsa[mid.e] \in Entries
    BY <2>2 DEF GuestOK
  <2>4. [wsa[mid.e] EXCEPT !.pending = {}] \in Entries
    BY <2>3 DEF Entries
  <2>5. wsa' = [wsa EXCEPT ![mid.e] = [wsa[mid.e] EXCEPT !.pending = {}]]
    BY <2>1
  <2> QED BY <2>1, <2>2, <2>4, <2>5 DEF GuestOK
<1>9. ASSUME NEW c \in Conns, MarkRead(c) PROVE GuestOK'
  <2> DEFINE es == Watching(home[c], "read")
  <2>1. wsa' = Pending(es, "read") /\ UNCHANGED <<guest, mid>>
    BY <1>9 DEF MarkRead, unfed
  <2>2. es \in SUBSET WsaEvents /\ \A e \in es : wsa[e] # NoEntry
    BY WatchingIs
  <2>3. GuestOK /\ wsa \in [WsaEvents -> Entries \cup {NoEntry}]
    BY DEF GuestOK
  <2> HIDE DEF es
  <2>4. /\ wsa' \in [WsaEvents -> Entries \cup {NoEntry}]
        /\ \A e \in WsaEvents : wsa[e] # NoEntry => wsa'[e] # NoEntry
    BY <2>1, <2>2, <2>3, PendingTypes
  <2> QED BY <2>1, <2>3, <2>4 DEF GuestOK, guest
<1>10. ASSUME NEW c \in Conns, FeederWakesSocket(c) \/ FeederWakesEvents(c) PROVE GuestOK'
  <2>1. \E woken, missed \in SUBSET Threads : Wakes(woken, missed)
    <3>1. CASE FeederWakesSocket(c)
      BY <3>1 DEF FeederWakesSocket, WakeSocket
    <3>2. CASE FeederWakesEvents(c)
      BY <3>2 DEF FeederWakesEvents, WakeEvents
    <3> QED BY <1>10, <3>1, <3>2
  <2>2. UNCHANGED <<call, waitS, waitH, mid, wsa>>
    BY <1>10 DEF FeederWakesSocket, FeederWakesEvents, unfed
  <2> QED BY <2>1, <2>2, WakeTypes DEF GuestOK
<1>11. ASSUME NEW t \in Threads, NEW s \in Socks,
              CloseSocket(t, s) \/ Send(t, s) \/ \E nb \in BOOLEAN : IoctlSocket(t, s, nb)
       PROVE  GuestOK'
  BY <1>1, <1>11 DEF CloseSocket, Send, IoctlSocket
<1>12. ASSUME NEW c \in Conns,
              \/ \E ends \in Answers : Serve(c, ends)
              \/ Quit(c) \/ HandlerEnds(c) \/ Forward(c) \/ FeederListsEvents(c)
              \/ FeederSeesEnd(c) \/ FeederDrops(c)
       PROVE  GuestOK'
  <2>1. UNCHANGED <<guest, wsa, mid>>
    BY <1>12 DEF Serve, Quit, HandlerEnds, Forward, FeederListsEvents, FeederSeesEnd, FeederDrops,
                 unhandled, unfed
  <2> QED BY <1>1, <2>1
<1>13. CASE UNCHANGED vars
  BY <1>1, <1>13 DEF vars
<1>14. ASSUME NEW t \in Threads, NEW k \in CallsOf[t],
              \/ RecvData(t, k) \/ RecvEof(t, k) \/ RecvFails(t, k) \/ RecvWouldBlock(t, k)
              \/ RecvBlocks(t, k) \/ SelectReturns(t, k) \/ SelectFindsNothing(t, k)
              \/ WaitReturns(t, k) \/ WaitFindsNothing(t, k)
       PROVE  GuestOK'
  <2>1. Executes(t, k)
    BY <1>14 DEF RecvData, RecvEof, RecvFails, RecvWouldBlock, RecvBlocks, Receives, SelectReturns,
                 SelectFindsNothing, WaitReturns, WaitFindsNothing
  <2> QED BY <1>2, <1>14, <2>1, Made
<1> QED BY StepIs, <1>3, <1>4, <1>5, <1>6, <1>7, <1>8, <1>9, <1>10, <1>11, <1>12, <1>13, <1>14, Zenon

----------------------------------------------------------------------------
(* Taking bytes. *)

B == Conns \X (1 .. MaxBytes)

LEMMA BytesAre == Bytes = Seq(B)
BY DEF Bytes, B

LEMMA JoinBytes ==
  ASSUME NEW x \in Bytes, NEW y \in Bytes
  PROVE  x \o y \in Bytes /\ x \o <<>> = x /\ <<>> \o x = x
<1>1. x \in Seq(B) /\ y \in Seq(B)
  BY BytesAre
<1>2. x \o y \in Seq(B)
  BY <1>1
<1>3. x \o <<>> = x /\ <<>> \o x = x
  BY <1>1
<1> QED BY <1>2, <1>3, BytesAre

LEMMA JoinThree ==
  ASSUME NEW x \in Bytes, NEW y \in Bytes, NEW z \in Bytes
  PROVE  (x \o y) \o z = x \o (y \o z)
<1>1. x \in Seq(B) /\ y \in Seq(B) /\ z \in Seq(B)
  BY BytesAre
<1> QED BY <1>1, Joining

LEMMA FlatBytes == ASSUME NEW w \in Seq(Bytes) PROVE FlattenSeq(w) \in Bytes
BY FlattenType, BytesAre

LEMMA NothingIsBytes == <<>> \in Bytes /\ <<>> \in Seq(Bytes)
BY DEF Bytes

LEMMA ConnIs ==
  ASSUME TypeOK, NEW s \in Socks, Open(s)
  PROVE  ConnOf(s) \in Conns /\ sock[s] \in [conn : 0 .. MaxConns, nb : BOOLEAN]
<1>1. sock[s] \in [conn : 0 .. MaxConns, nb : BOOLEAN]
  BY DEF TypeOK, Open
<1> QED BY <1>1, SocketAssumption DEF Open, ConnOf, Conns

\* A step that moves the bytes a socket has towards the guest: in the same order, and
\* none appears or is lost.
Moved(s) ==
  /\ Open(s)
  /\ \E b, d \in Bytes, q \in Seq(Bytes) :
       /\ buf' = [buf EXCEPT ![s] = b]
       /\ chan' = [chan EXCEPT ![ConnOf(s)] = q]
       /\ got' = [got EXCEPT ![ConnOf(s)] = got[ConnOf(s)] \o d]
       /\ d \o (b \o FlattenSeq(q)) = buf[s] \o FlattenSeq(chan[ConnOf(s)])
       /\ ~HasData(s) => b = <<>> /\ q = <<>>
  /\ UNCHANGED <<sock, conns, home, inbox, server, out, feeder, toWake, sent, quit, eof>>

\* The chunks of a channel, but for the first.
LEMMA HeadJoins ==
  ASSUME NEW S, NEW w \in Seq(Seq(S)), w # <<>>
  PROVE  /\ Head(w) \in Seq(S) /\ Tail(w) \in Seq(Seq(S))
         /\ FlattenSeq(w) = Head(w) \o FlattenSeq(Tail(w))
<1> DEFINE C == Seq(S)
<1>1. w \in Seq(C)
  OBVIOUS
<1> HIDE DEF C
<1>2. Head(w) \in C /\ Tail(w) \in Seq(C) /\ w = <<Head(w)>> \o Tail(w)
  BY <1>1
<1> USE DEF C
<1>3. FlattenSeq(<<Head(w)>> \o Tail(w)) = Head(w) \o FlattenSeq(Tail(w))
  BY <1>2, FlattenCons
<1> QED BY <1>2, <1>3

\* What recv_pending_data leaves where.
LEMMA SourceIs ==
  ASSUME TypeOK, NEW s \in Socks, Open(s), NEW n \in Nat
  PROVE  /\ Source(s, n) \in Bytes /\ ChanLeft(s, n) \in Seq(Bytes)
         /\ Source(s, n) \o FlattenSeq(ChanLeft(s, n)) = buf[s] \o FlattenSeq(ChanOf(s))
<1>1. buf[s] \in Seq(B) /\ ChanOf(s) \in Seq(Seq(B))
  BY ConnIs, BytesAre DEF TypeOK, ChanOf
<1>2. CASE Len(buf[s]) >= n \/ ChanOf(s) = <<>>
  BY <1>1, <1>2, BytesAre DEF Source, ChanLeft
<1>3. CASE ~(Len(buf[s]) >= n \/ ChanOf(s) = <<>>)
  <2> DEFINE h == Head(ChanOf(s))
             r == Tail(ChanOf(s))
  <2>1. h \in Seq(B) /\ r \in Seq(Seq(B)) /\ FlattenSeq(ChanOf(s)) = h \o FlattenSeq(r)
    BY <1>1, <1>3, HeadJoins
  <2>2. Source(s, n) = buf[s] \o h /\ ChanLeft(s, n) = r
    BY <1>3 DEF Source, ChanLeft
  <2> HIDE DEF h, r
  <2>3. FlattenSeq(r) \in Seq(B)
    BY <2>1, FlattenType
  <2>4. (buf[s] \o h) \o FlattenSeq(r) = buf[s] \o (h \o FlattenSeq(r))
    <3>1. buf[s] \in Bytes /\ h \in Bytes /\ FlattenSeq(r) \in Bytes
      BY <1>1, <2>1, <2>3, BytesAre
    <3> QED BY <3>1, JoinThree
  <2>5. buf[s] \o h \in Seq(B)
    BY <1>1, <2>1
  <2> QED BY <2>1, <2>2, <2>4, <2>5, BytesAre
<1> QED BY <1>2, <1>3

\* The first bytes of a sequence, and the rest.
LEMMA CutInTwo ==
  ASSUME NEW S, NEW q \in Seq(S), NEW n \in 0 .. Len(q)
  PROVE  /\ SubSeq(q, 1, n) \in Seq(S) /\ Len(SubSeq(q, 1, n)) = n
         /\ SubSeq(q, n + 1, Len(q)) \in Seq(S)
         /\ SubSeq(q, 1, n) \o SubSeq(q, n + 1, Len(q)) = q
<1>1. Len(q) \in Nat /\ n \in Nat /\ n <= Len(q) /\ \A i \in 1 .. Len(q) : q[i] \in S
  OBVIOUS
<1>2. /\ SubSeq(q, 1, n) \in Seq(S)
      /\ Len(SubSeq(q, 1, n)) = IF 1 <= n THEN n - 1 + 1 ELSE 0
  <2>1. 1 \in Int /\ n \in Int /\ \A i \in 1 .. n : q[i] \in S
    BY <1>1
  <2> QED BY <2>1, SubSeqProperties
<1>3. SubSeq(q, n + 1, Len(q)) \in Seq(S)
  <2>1. n + 1 \in Int /\ Len(q) \in Int /\ \A i \in n + 1 .. Len(q) : q[i] \in S
    BY <1>1
  <2> QED BY <2>1, SubSeqProperties
<1>4. SubSeq(q, 1, n) \o SubSeq(q, n + 1, Len(q)) = SubSeq(q, 1, Len(q))
  <2>1. 1 \in 1 .. Len(q) + 1 /\ n \in 1 - 1 .. Len(q) /\ Len(q) \in n .. Len(q)
    BY <1>1
  <2> QED BY <2>1, ConcatAdjacentSubSeq
<1>5. SubSeq(q, 1, Len(q)) = q
  OBVIOUS
<1>6. Len(SubSeq(q, 1, n)) = n
  BY <1>1, <1>2
<1> QED BY <1>2, <1>3, <1>4, <1>5, <1>6

LEMMA TakenIs ==
  ASSUME TypeOK, NEW s \in Socks, Open(s), NEW n \in Nat
  PROVE  LET d == Taken(s, n)
             b == SubSeq(Source(s, n), Len(d) + 1, Len(Source(s, n)))
         IN  d \in Bytes /\ b \in Bytes /\ d \o b = Source(s, n)
<1> DEFINE src == Source(s, n)
           m == IF Len(src) < n THEN Len(src) ELSE n
<1>1. src \in Seq(B)
  BY SourceIs, BytesAre
<1>2. Taken(s, n) = SubSeq(src, 1, m)
  BY DEF Taken
<1> HIDE DEF src
<1>3. m \in 0 .. Len(src)
  BY <1>1
<1> HIDE DEF m
<1>4. /\ SubSeq(src, 1, m) \in Seq(B) /\ Len(SubSeq(src, 1, m)) = m
      /\ SubSeq(src, m + 1, Len(src)) \in Seq(B)
      /\ SubSeq(src, 1, m) \o SubSeq(src, m + 1, Len(src)) = src
  BY <1>1, <1>3, CutInTwo
<1> QED BY <1>2, <1>4, BytesAre DEF src

LEMMA RecvMoves ==
  ASSUME TypeOK, NEW t \in Threads, NEW k \in Calls, RecvData(t, k)
  PROVE  Moved(k.s) /\ k.s \in Socks
<1>1. k.s \in Socks /\ k.n \in Nat /\ Open(k.s) /\ HasData(k.s)
  BY CallIs, SocketAssumption DEF RecvData, Receives, HasData
<1> DEFINE s == k.s
           c == ConnOf(s)
           src == Source(s, k.n)
           d == Taken(s, k.n)
           r == SubSeq(src, Len(d) + 1, Len(src))
           q == ChanLeft(s, k.n)
<1>2. /\ buf' = [buf EXCEPT ![s] = IF k.peek THEN src ELSE r]
      /\ chan' = [chan EXCEPT ![c] = q]
      /\ got' = IF k.peek THEN got ELSE [got EXCEPT ![c] = got[c] \o d]
      /\ UNCHANGED <<sock, conns, home, inbox, server, out, feeder, toWake, sent, quit, eof>>
  BY DEF RecvData
<1>3. src \in Bytes /\ q \in Seq(Bytes) /\ src \o FlattenSeq(q) = buf[s] \o FlattenSeq(chan[c])
  BY <1>1, SourceIs DEF ChanOf
<1>4. d \in Bytes /\ r \in Bytes /\ d \o r = src
  BY <1>1, TakenIs
<1>5. c \in Conns /\ got[c] \in Seq(B) /\ got \in [Conns -> Bytes]
  BY <1>1, ConnIs, BytesAre DEF TypeOK
<1>6. Open(s) /\ HasData(s) /\ s \in Socks
  BY <1>1
<1> HIDE DEF s, c, src, d, r, q
<1>7. FlattenSeq(q) \in Seq(B)
  BY <1>3, FlattenType, BytesAre
<1>8. CASE k.peek
  <2>1. got' = [got EXCEPT ![c] = got[c] \o <<>>]
    <3>1. got[c] \o <<>> = got[c]
      BY <1>5, ConcatEmptySeq
    <3> QED BY <1>2, <1>5, <1>8, <3>1
  <2>2. <<>> \o (src \o FlattenSeq(q)) = src \o FlattenSeq(q)
    <3>1. src \o FlattenSeq(q) \in Seq(B)
      BY <1>3, <1>7, JoinBytes, BytesAre
    <3> QED BY <3>1, ConcatEmptySeq
  <2>3. buf' = [buf EXCEPT ![s] = src]
    BY <1>2, <1>8
  <2>4. \E b, e \in Bytes, p \in Seq(Bytes) :
           /\ buf' = [buf EXCEPT ![s] = b] /\ chan' = [chan EXCEPT ![c] = p]
           /\ got' = [got EXCEPT ![c] = got[c] \o e]
           /\ e \o (b \o FlattenSeq(p)) = buf[s] \o FlattenSeq(chan[c])
    <3>1. <<>> \in Bytes /\ <<>> \o (src \o FlattenSeq(q)) = buf[s] \o FlattenSeq(chan[c])
      BY <1>3, <2>2, NothingIsBytes
    <3> QED BY <1>2, <1>3, <2>1, <2>3, <3>1
  <2> QED BY <1>1, <1>2, <1>6, <2>4 DEF Moved, s, c
<1>9. CASE ~k.peek
  <2>1. d \o (r \o FlattenSeq(q)) = src \o FlattenSeq(q)
    <3>1. FlattenSeq(q) \in Bytes
      BY <1>7, BytesAre
    <3>2. (d \o r) \o FlattenSeq(q) = d \o (r \o FlattenSeq(q))
      BY <1>4, <3>1, JoinThree
    <3> QED BY <1>4, <3>2
  <2>2. \E b, e \in Bytes, p \in Seq(Bytes) :
           /\ buf' = [buf EXCEPT ![s] = b] /\ chan' = [chan EXCEPT ![c] = p]
           /\ got' = [got EXCEPT ![c] = got[c] \o e]
           /\ e \o (b \o FlattenSeq(p)) = buf[s] \o FlattenSeq(chan[c])
    BY <1>2, <1>3, <1>4, <1>9, <2>1
  <2> QED BY <1>1, <1>2, <1>6, <2>2 DEF Moved, s, c
<1> QED BY <1>8, <1>9

\* select and the waits move a chunk to an empty recv_buf, or nothing.
LEMMA LookMoves ==
  ASSUME TypeOK, NEW s \in Socks, Look(s), UNCHANGED unlooked
  PROVE  Moved(s) \/ UNCHANGED <<net, got, eof>>
<1>1. CASE Open(s) /\ buf[s] = <<>> /\ ChanOf(s) # <<>>
  <2> DEFINE c == ConnOf(s)
             h == Head(chan[c])
             r == Tail(chan[c])
  <2>1. c \in Conns /\ chan[c] \in Seq(Seq(B)) /\ chan[c] # <<>> /\ got[c] \in Bytes
        /\ got \in [Conns -> Bytes]
    BY <1>1, ConnIs, BytesAre DEF TypeOK, ChanOf
  <2>2. h \in Bytes /\ r \in Seq(Bytes) /\ FlattenSeq(chan[c]) = h \o FlattenSeq(r)
    BY <2>1, HeadJoins, BytesAre
  <2>3. /\ buf' = [buf EXCEPT ![s] = h] /\ chan' = [chan EXCEPT ![c] = r]
        /\ UNCHANGED <<sock, conns, home, inbox, server, out, feeder, toWake, sent, quit, eof, got>>
    BY <1>1 DEF Look, ChanOf, unlooked
  <2>4. HasData(s) /\ Open(s) /\ buf[s] = <<>>
    BY <1>1 DEF HasData
  <2> HIDE DEF c, h, r
  <2>5. got' = [got EXCEPT ![c] = got[c] \o <<>>]
    <3>1. got[c] \o <<>> = got[c]
      BY <2>1, JoinBytes
    <3> QED BY <2>1, <2>3, <3>1
  <2>6. <<>> \o (h \o FlattenSeq(r)) = buf[s] \o FlattenSeq(chan[c])
    <3>1. FlattenSeq(r) \in Bytes /\ <<>> \in Bytes
      BY <2>2, FlatBytes, NothingIsBytes
    <3>2. h \o FlattenSeq(r) \in Bytes
      BY <2>2, <3>1, JoinBytes
    <3> QED BY <2>2, <2>4
  <2>7. \E b, d \in Bytes, q \in Seq(Bytes) :
           /\ buf' = [buf EXCEPT ![s] = b] /\ chan' = [chan EXCEPT ![c] = q]
           /\ got' = [got EXCEPT ![c] = got[c] \o d]
           /\ d \o (b \o FlattenSeq(q)) = buf[s] \o FlattenSeq(chan[c])
    BY <2>2, <2>3, <2>5, <2>6, NothingIsBytes
  <2> QED BY <2>3, <2>4, <2>7 DEF Moved, c
<1>2. CASE ~(Open(s) /\ buf[s] = <<>> /\ ChanOf(s) # <<>>)
  BY <1>2 DEF Look, unlooked, net
<1> QED BY <1>1, <1>2

LEMMA SelectMoves ==
  ASSUME TypeOK, NEW t \in Threads, NEW k \in Calls, SelectReturns(t, k)
  PROVE  (\E s \in Socks : Moved(s)) \/ UNCHANGED <<net, got, eof>>
<1>1. k.op = "select" /\ UNCHANGED unlooked /\ \E s \in k.fds : Look(s)
  BY DEF SelectReturns
<1>2. k.fds \in SUBSET Socks
  BY <1>1, CallIs
<1> QED BY <1>1, <1>2, LookMoves

LEMMA WaitMoves ==
  ASSUME TypeOK, NEW t \in Threads, NEW k \in Calls, WaitReturns(t, k)
  PROVE  (\E s \in Socks : Moved(s)) \/ UNCHANGED <<net, got, eof>>
<1>1. /\ k.op = "wait" /\ UNCHANGED unlooked /\ wsa[k.e] # NoEntry
      /\ UNCHANGED <<buf, chan>> \/ Look(wsa[k.e].sock)
  BY DEF WaitReturns, Signaled
<1>2. wsa[k.e].sock \in Socks
  <2>1. k.e \in WsaEvents
    BY <1>1, CallIs
  <2>2. wsa[k.e] \in Entries
    BY <1>1, <2>1 DEF TypeOK
  <2> QED BY <2>2 DEF Entries
<1>3. CASE UNCHANGED <<buf, chan>>
  BY <1>1, <1>3 DEF unlooked, net
<1> QED BY <1>1, <1>2, <1>3, LookMoves

LEMMA EnumMoves ==
  ASSUME TypeOK, NEW t \in Threads, NEW e \in WsaEvents, EnumNetworkEvents(t, e)
  PROVE  (\E s \in Socks : Moved(s)) \/ UNCHANGED <<net, got, eof>>
<1> DEFINE s == wsa[e].sock
           c == ConnOf(s)
           f == FlattenSeq(chan[c])
<1>1. s \in Socks
  <2>1. wsa[e] \in Entries
    BY DEF TypeOK, EnumNetworkEvents
  <2> QED BY <2>1 DEF Entries
<1>2. CASE Open(s)
  <2>1. /\ buf' = [buf EXCEPT ![s] = buf[s] \o f] /\ chan' = [chan EXCEPT ![c] = <<>>]
        /\ UNCHANGED <<sock, conns, home, inbox, server, out, feeder, toWake, sent, quit, eof, got>>
    BY <1>2 DEF EnumNetworkEvents, ChanOf
  <2>2. c \in Conns /\ chan[c] \in Seq(Bytes) /\ buf[s] \in Bytes /\ got[c] \in Bytes
        /\ got \in [Conns -> Bytes]
    BY <1>1, <1>2, ConnIs DEF TypeOK
  <2>3. f \in Bytes
    BY <2>2, FlatBytes
  <2>4. HasData(s) \/ (buf[s] = <<>> /\ f = <<>>)
    BY <1>2, FlattenEmpty DEF HasData, ChanOf
  <2> HIDE DEF f, c, s
  <2>5. got' = [got EXCEPT ![c] = got[c] \o <<>>]
    <3>1. got[c] \o <<>> = got[c]
      BY <2>2, JoinBytes
    <3> QED BY <2>1, <2>2, <3>1
  <2>6. buf[s] \o f \in Bytes /\ (~HasData(s) => buf[s] \o f = <<>>)
    BY <2>2, <2>3, <2>4, JoinBytes, NothingIsBytes
  <2>7. <<>> \o ((buf[s] \o f) \o FlattenSeq(<<>>)) = buf[s] \o f
    <3>1. <<>> \in Bytes /\ FlattenSeq(<<>>) = <<>>
      BY NothingIsBytes, FlattenEmpty
    <3>2. (buf[s] \o f) \o <<>> = buf[s] \o f /\ <<>> \o (buf[s] \o f) = buf[s] \o f
      BY <2>6, JoinBytes
    <3> QED BY <3>1, <3>2
  <2>8. \E b, d \in Bytes, q \in Seq(Bytes) :
           /\ buf' = [buf EXCEPT ![s] = b] /\ chan' = [chan EXCEPT ![c] = q]
           /\ got' = [got EXCEPT ![c] = got[c] \o d]
           /\ d \o (b \o FlattenSeq(q)) = buf[s] \o f
           /\ ~HasData(s) => b = <<>> /\ q = <<>>
    BY <2>1, <2>2, <2>5, <2>6, <2>7, NothingIsBytes
  <2> QED BY <1>1, <1>2, <2>1, <2>8 DEF Moved, c, f
<1>3. CASE ~Open(s)
  BY <1>3 DEF EnumNetworkEvents, net
<1> QED BY <1>1, <1>2, <1>3

\* What the calls that receive, look and wait do to the sockets.
LEMMA ReadingMoves ==
  ASSUME TypeOK, NEW t \in Threads, NEW k \in CallsOf[t],
         \/ RecvData(t, k) \/ RecvEof(t, k) \/ RecvFails(t, k) \/ RecvWouldBlock(t, k)
         \/ RecvBlocks(t, k) \/ SelectReturns(t, k) \/ SelectFindsNothing(t, k)
         \/ WaitReturns(t, k) \/ WaitFindsNothing(t, k)
  PROVE  /\ k \in Calls /\ mid = Idle
         /\ \/ \E s \in Socks : Moved(s)
            \/ UNCHANGED <<net, got, eof>>
            \/ RecvEof(t, k)
<1>1. Executes(t, k)
  BY DEF RecvData, RecvEof, RecvFails, RecvWouldBlock, RecvBlocks, Receives, SelectReturns,
         SelectFindsNothing, WaitReturns, WaitFindsNothing
<1>2. k \in Calls /\ mid = Idle
  BY <1>1, Made
<1>3. CASE RecvData(t, k)
  BY <1>2, <1>3, RecvMoves
<1>4. CASE SelectReturns(t, k)
  BY <1>2, <1>4, SelectMoves
<1>5. CASE WaitReturns(t, k)
  BY <1>2, <1>5, WaitMoves
<1>6. CASE RecvFails(t, k) \/ RecvWouldBlock(t, k) \/ RecvBlocks(t, k) \/ SelectFindsNothing(t, k)
           \/ WaitFindsNothing(t, k)
  BY <1>2, <1>6 DEF RecvFails, RecvWouldBlock, RecvBlocks, SelectFindsNothing, WaitFindsNothing
<1> QED BY <1>2, <1>3, <1>4, <1>5, <1>6

LEMMA MovedTypes ==
  ASSUME NetOK, TypeOK, NEW s \in Socks, Moved(s)
  PROVE  NetOK'
<1>1. PICK b \in Bytes, d \in Bytes, q \in Seq(Bytes) :
        /\ buf' = [buf EXCEPT ![s] = b] /\ chan' = [chan EXCEPT ![ConnOf(s)] = q]
        /\ got' = [got EXCEPT ![ConnOf(s)] = got[ConnOf(s)] \o d]
  BY DEF Moved
<1>2. ConnOf(s) \in Conns
  BY ConnIs DEF Moved
<1>3. got[ConnOf(s)] \o d \in Bytes
  BY <1>2, JoinBytes DEF NetOK
<1>4. UNCHANGED <<sock, conns, home, inbox, server, out, feeder, toWake, sent, quit, eof>>
  BY DEF Moved
<1> QED BY <1>1, <1>2, <1>3, <1>4 DEF NetOK

\* The bytes of c from a on, as far as b.
Run(c, a, b) == [j \in 1 .. b - a |-> Byte(c, a + j)]

LEMMA RunIs ==
  ASSUME NEW c \in Conns, NEW a \in 0 .. MaxBytes, NEW b \in 0 .. MaxBytes, a <= b
  PROVE  Run(c, a, b) \in Bytes /\ Len(Run(c, a, b)) = b - a
<1>1. b - a \in Nat /\ \A j \in 1 .. b - a : Byte(c, a + j) \in B
  BY SocketAssumption DEF Byte, B
<1>2. Run(c, a, b) \in Seq(B) /\ Len(Run(c, a, b)) = b - a
  BY <1>1 DEF Run
<1> QED BY <1>2, BytesAre

LEMMA RunJoins ==
  ASSUME NEW c \in Conns, NEW a \in 0 .. MaxBytes, NEW b \in 0 .. MaxBytes, NEW d \in 0 .. MaxBytes,
         a <= b, b <= d
  PROVE  Run(c, a, b) \o Run(c, b, d) = Run(c, a, d)
<1> DEFINE x == Run(c, a, b)
           y == Run(c, b, d)
           z == Run(c, a, d)
<1>1. a \in Nat /\ b \in Nat /\ d \in Nat /\ a <= d
  BY SocketAssumption
<1>2. /\ x \in Seq(B) /\ y \in Seq(B) /\ z \in Seq(B)
      /\ Len(x) = b - a /\ Len(y) = d - b /\ Len(z) = d - a
  BY <1>1, RunIs, BytesAre
<1>3. /\ \A j \in 1 .. b - a : x[j] = Byte(c, a + j)
      /\ \A j \in 1 .. d - b : y[j] = Byte(c, b + j)
      /\ \A j \in 1 .. d - a : z[j] = Byte(c, a + j)
  BY DEF Run
<1> HIDE DEF x, y, z
<1>4. /\ x \o y \in Seq(B) /\ Len(x \o y) = Len(x) + Len(y)
      /\ \A i \in 1 .. Len(x) + Len(y) : (x \o y)[i] = IF i <= Len(x) THEN x[i] ELSE y[i - Len(x)]
  BY <1>2, ConcatProperties
<1>5. Len(x \o y) = d - a
  BY <1>1, <1>2, <1>4
<1>6. ASSUME NEW i \in 1 .. d - a PROVE (x \o y)[i] = z[i]
  <2>1. i \in 1 .. Len(x) + Len(y) /\ z[i] = Byte(c, a + i)
    BY <1>1, <1>2, <1>3
  <2>2. CASE i <= b - a
    <3>1. x[i] = Byte(c, a + i)
      BY <1>1, <1>3, <2>2
    <3> QED BY <1>2, <1>4, <2>1, <2>2, <3>1
  <2>3. CASE ~(i <= b - a)
    <3>1. i - (b - a) \in 1 .. d - b /\ b + (i - (b - a)) = a + i
      BY <1>1, <2>3
    <3>2. y[i - (b - a)] = Byte(c, a + i)
      BY <1>3, <3>1
    <3> QED BY <1>2, <1>4, <2>1, <2>3, <3>2
  <2> QED BY <2>2, <2>3
<1>7. x \o y = z
  BY <1>2, <1>4, <1>5, <1>6, SeqEqual
<1> QED BY <1>7 DEF x, y, z

LEMMA RunEmpty == ASSUME NEW c \in Conns, NEW a \in 0 .. MaxBytes PROVE Run(c, a, a) = <<>>
<1>1. a - a = 0 /\ 0 <= MaxBytes
  BY SocketAssumption
<1>2. Run(c, a, a) = [j \in 1 .. 0 |-> Byte(c, a + j)]
  BY <1>1 DEF Run
<1> QED BY <1>2

\* One more chunk in a channel.
LEMMA ChunkJoins ==
  ASSUME NEW c \in Conns, NEW w \in Seq(Bytes), NEW x \in Bytes,
         NEW a \in 0 .. MaxBytes, NEW b \in 0 .. MaxBytes, NEW d \in 0 .. MaxBytes,
         a <= b, b <= d, FlattenSeq(w) = x \o Run(c, a, b)
  PROVE  /\ Append(w, Run(c, b, d)) \in Seq(Bytes)
         /\ FlattenSeq(Append(w, Run(c, b, d))) = x \o Run(c, a, d)
<1> DEFINE y == Run(c, a, b)
           z == Run(c, b, d)
<1>1. y \in Bytes /\ z \in Bytes /\ y \o z = Run(c, a, d)
  BY RunIs, RunJoins
<1> HIDE DEF y, z
<1>2. FlattenSeq(Append(w, z)) = FlattenSeq(w) \o z
  BY <1>1, BytesAre, FlattenSnoc
<1>3. (x \o y) \o z = x \o (y \o z)
  BY <1>1, JoinThree
<1>4. Append(w, z) \in Seq(Bytes)
  BY <1>1
<1> QED BY <1>1, <1>2, <1>3, <1>4 DEF y, z

LEMMA TwoMore ==
  ASSUME NEW S, NEW q \in Seq(S), NEW x \in S, NEW y \in S
  PROVE  q \o <<x, y>> = Append(Append(q, x), y)
<1>1. <<x, y>> = <<x>> \o <<y>> /\ <<x>> \in Seq(S) /\ <<y>> \in Seq(S)
  <2>1. <<x>> \in Seq(S) /\ <<y>> \in Seq(S)
    OBVIOUS
  <2>2. Append(<<x>>, y) = <<x>> \o <<y>>
    BY <2>1, AppendIsConcat
  <2>3. Append(<<x>>, y) = <<x, y>>
    <3> DEFINE u == Append(<<x>>, y)
               v == <<x, y>>
               w == <<x>>
    <3>1. w \in Seq(S) /\ Len(w) = 1 /\ w[1] = x /\ u = Append(w, y)
      BY <2>1
    <3>2. v \in Seq(S) /\ Len(v) = 2 /\ v[1] = x /\ v[2] = y
      OBVIOUS
    <3> HIDE DEF u, v, w
    <3>3. u \in Seq(S) /\ Len(u) = 2 /\ u[1] = x /\ u[2] = y
      <4>1. /\ Append(w, y) \in Seq(S) /\ Len(Append(w, y)) = Len(w) + 1
            /\ \A i \in 1 .. Len(w) : Append(w, y)[i] = w[i]
            /\ Append(w, y)[Len(w) + 1] = y
        BY <3>1, AppendProperties
      <4>2. Len(w) + 1 = 2 /\ 1 \in 1 .. Len(w)
        BY <3>1
      <4> QED BY <3>1, <4>1, <4>2
    <3>4. \A i \in 1 .. 2 : u[i] = v[i]
      BY <3>2, <3>3
    <3>5. u = v
      BY <3>2, <3>3, <3>4, SeqEqual
    <3> QED BY <3>5 DEF u, v
  <2> QED BY <2>1, <2>2, <2>3
<1>2. (q \o <<x>>) \o <<y>> = q \o (<<x>> \o <<y>>)
  BY <1>1, Joining
<1>3. Append(q, x) = q \o <<x>> /\ Append(q, x) \in Seq(S)
  BY AppendIsConcat
<1>4. Append(Append(q, x), y) = Append(q, x) \o <<y>>
  BY <1>3, AppendIsConcat
<1> QED BY <1>1, <1>2, <1>3, <1>4

\* The handler's answers are the next bytes of its stream.
LEMMA ServeIs ==
  ASSUME TypeOK, NEW c \in Conns, NEW ends \in Answers, Serve(c, ends)
  PROVE  /\ server[c] /\ inbox[c] > 0 /\ inbox' = [inbox EXCEPT ![c] = @ - 1]
         /\ UNCHANGED <<unhandled, quit>>
         /\ \/ feeder[c] = "gone" /\ server' = [server EXCEPT ![c] = FALSE] /\ UNCHANGED <<out, sent>>
            \/ UNCHANGED <<server, out, sent>>
            \/ /\ feeder[c] # "gone" /\ server' = server
               /\ \E n \in 0 .. MaxBytes, w \in Seq(Bytes) :
                    /\ n >= sent[c] /\ sent' = [sent EXCEPT ![c] = n]
                    /\ out' = [out EXCEPT ![c] = w]
                    /\ FlattenSeq(w) = FlattenSeq(out[c]) \o Run(c, sent[c], n)
<1> DEFINE from(i) == IF i = 1 THEN sent[c] ELSE ends[i - 1]
           chunks == [i \in 1 .. Len(ends) |->
                        [j \in 1 .. ends[i] - from(i) |-> Byte(c, from(i) + j)]]
<1>1. /\ server[c] /\ inbox[c] > 0 /\ inbox' = [inbox EXCEPT ![c] = @ - 1]
      /\ UNCHANGED <<unhandled, quit>>
      /\ \A i \in 1 .. Len(ends) : ends[i] > from(i)
      /\ IF ends # <<>> /\ feeder[c] = "gone"
         THEN server' = [server EXCEPT ![c] = FALSE] /\ UNCHANGED <<out, sent>>
         ELSE /\ out' = [out EXCEPT ![c] = @ \o chunks]
              /\ sent' = [sent EXCEPT ![c] = from(Len(ends) + 1)]
              /\ UNCHANGED server
  BY DEF Serve
<1>2. PICK m \in 0 .. 2 : ends \in [1 .. m -> 1 .. MaxBytes]
  BY DEF Answers, BoundedSeq, SeqOf
<1>3. Len(ends) = m /\ sent[c] \in 0 .. MaxBytes /\ out[c] \in Seq(Bytes)
  BY <1>2 DEF TypeOK
<1>4. FlattenSeq(out[c]) \in Bytes
  BY <1>3, FlatBytes
<1>5. CASE ends # <<>> /\ feeder[c] = "gone"
  BY <1>1, <1>5
<1>6. CASE ~(ends # <<>> /\ feeder[c] = "gone") /\ m = 0
  <2>1. chunks = <<>> /\ from(Len(ends) + 1) = sent[c]
    BY <1>3, <1>6
  <2>2. out' = [out EXCEPT ![c] = out[c] \o <<>>] /\ sent' = [sent EXCEPT ![c] = sent[c]]
    BY <1>1, <1>6, <2>1
  <2>3. out[c] \o <<>> = out[c]
    BY <1>3
  <2>4. out' = out /\ sent' = sent
    BY <2>2, <2>3 DEF TypeOK
  <2> QED BY <1>1, <1>6, <2>4
<1>7. CASE ~(ends # <<>> /\ feeder[c] = "gone") /\ m # 0
  <2>1. feeder[c] # "gone" /\ server' = server /\ out' = [out EXCEPT ![c] = out[c] \o chunks]
        /\ sent' = [sent EXCEPT ![c] = ends[m]]
    <3>1. ends # <<>> /\ from(Len(ends) + 1) = ends[m]
      BY <1>2, <1>3, <1>7
    <3> QED BY <1>1, <1>7, <3>1
  <2>2. ends[1] \in 1 .. MaxBytes /\ ends[1] > sent[c]
    BY <1>1, <1>2, <1>3, <1>7
  <2>3. FlattenSeq(out[c]) = FlattenSeq(out[c]) \o Run(c, sent[c], sent[c])
    BY <1>3, <1>4, RunEmpty, JoinBytes
  <2> DEFINE w == Append(out[c], Run(c, sent[c], ends[1]))
  <2>4. w \in Seq(Bytes) /\ FlattenSeq(w) = FlattenSeq(out[c]) \o Run(c, sent[c], ends[1])
    <3>1. ends[1] \in 0 .. MaxBytes /\ sent[c] <= ends[1] /\ sent[c] <= sent[c]
      BY <1>3, <2>2, SocketAssumption
    <3> QED BY <1>3, <1>4, <2>3, <3>1, ChunkJoins
  <2>5. chunks[1] = Run(c, sent[c], ends[1])
    <3>1. 1 \in 1 .. Len(ends) /\ from(1) = sent[c]
      BY <1>3, <1>7
    <3>2. chunks[1] = [j \in 1 .. ends[1] - from(1) |-> Byte(c, from(1) + j)]
      BY <3>1
    <3> HIDE DEF chunks, from
    <3> QED BY <3>1, <3>2 DEF Run
  <2>6. CASE m = 1
    <3>1. chunks = <<Run(c, sent[c], ends[1])>>
      BY <1>3, <2>5, <2>6
    <3>2. out[c] \o chunks = w
      <4> DEFINE x == Run(c, sent[c], ends[1])
      <4> HIDE DEF x
      <4>1. out[c] \o <<x>> = Append(out[c], x)
        BY <1>3
      <4> QED BY <3>1, <4>1 DEF x
    <3>3. ends[m] = ends[1] /\ ends[1] \in 0 .. MaxBytes /\ ends[1] >= sent[c]
      BY <1>3, <2>2, <2>6, SocketAssumption
    <3> HIDE DEF w, chunks
    <3> QED BY <1>1, <2>1, <2>4, <3>2, <3>3
  <2>7. CASE m = 2
    <3>1. ends[2] \in 1 .. MaxBytes /\ ends[2] > ends[1]
      BY <1>1, <1>2, <1>3, <2>7
    <3>2. chunks[2] = Run(c, ends[1], ends[2])
      <4>1. 2 \in 1 .. Len(ends) /\ from(2) = ends[1]
        BY <1>3, <2>7
      <4>2. chunks[2] = [j \in 1 .. ends[2] - from(2) |-> Byte(c, from(2) + j)]
        BY <4>1
      <4> HIDE DEF chunks, from
      <4> QED BY <4>1, <4>2 DEF Run
    <3> DEFINE x == Run(c, sent[c], ends[1])
               y == Run(c, ends[1], ends[2])
               v == Append(w, y)
    <3>3. v \in Seq(Bytes) /\ FlattenSeq(v) = FlattenSeq(out[c]) \o Run(c, sent[c], ends[2])
      <4>1. /\ ends[1] \in 0 .. MaxBytes /\ ends[2] \in 0 .. MaxBytes
            /\ sent[c] <= ends[1] /\ ends[1] <= ends[2]
        BY <1>3, <2>2, <3>1, SocketAssumption
      <4> HIDE DEF w
      <4>2. /\ Append(w, Run(c, ends[1], ends[2])) \in Seq(Bytes)
            /\ FlattenSeq(Append(w, Run(c, ends[1], ends[2]))) = FlattenSeq(out[c]) \o Run(c, sent[c], ends[2])
        <5> DEFINE a == sent[c]
                   b == ends[1]
                   d == ends[2]
                   z == FlattenSeq(out[c])
        <5>1. /\ a \in 0 .. MaxBytes /\ b \in 0 .. MaxBytes /\ d \in 0 .. MaxBytes
              /\ a <= b /\ b <= d /\ z \in Bytes /\ w \in Seq(Bytes)
              /\ FlattenSeq(w) = z \o Run(c, a, b)
          BY <1>3, <1>4, <2>4, <4>1
        <5> HIDE DEF a, b, d, z
        <5>2. /\ Append(w, Run(c, b, d)) \in Seq(Bytes)
              /\ FlattenSeq(Append(w, Run(c, b, d))) = z \o Run(c, a, d)
          BY <5>1, ChunkJoins
        <5> QED BY <5>2 DEF a, b, d, z
      <4> QED BY <4>2
    <3>4. chunks = <<x, y>>
      <4>1. chunks = [i \in 1 .. 2 |-> chunks[i]]
        BY <1>3, <2>7
      <4> HIDE DEF chunks, x, y
      <4>2. chunks[1] = x /\ chunks[2] = y
        BY <2>5, <3>2 DEF x, y
      <4> QED BY <4>1, <4>2
    <3>5. out[c] \o chunks = v
      <4> HIDE DEF x, y, chunks
      <4>1. out[c] \o <<x, y>> = Append(Append(out[c], x), y)
        <5>1. x \in Bytes /\ y \in Bytes
          <6>1. /\ sent[c] \in 0 .. MaxBytes /\ ends[1] \in 0 .. MaxBytes /\ ends[2] \in 0 .. MaxBytes
                /\ sent[c] <= ends[1] /\ ends[1] <= ends[2]
            BY <1>3, <2>2, <3>1, SocketAssumption
          <6> QED BY <6>1, RunIs DEF x, y
        <5> QED BY <1>3, <5>1, TwoMore
      <4>2. v = Append(Append(out[c], x), y)
        BY DEF x
      <4> QED BY <3>4, <4>1, <4>2
    <3>6. ends[m] = ends[2] /\ ends[2] \in 0 .. MaxBytes /\ ends[2] >= sent[c]
      BY <1>3, <2>2, <2>7, <3>1, SocketAssumption
    <3> HIDE DEF w, v, chunks
    <3> QED BY <1>1, <2>1, <3>3, <3>5, <3>6
  <2>8. m = 1 \/ m = 2
    BY <1>2, <1>7
  <2> QED BY <2>6, <2>7, <2>8
<1> QED BY <1>5, <1>6, <1>7

LEMMA NetTypes ==
  ASSUME TypeOK, [Next]_vars
  PROVE  NetOK'
<1>0. NetOK
  BY TypesAre
<1>1. CASE UNCHANGED <<net, got, eof>>
  BY <1>0, <1>1 DEF NetOK, net
<1>2. ASSUME NEW t \in Threads, NEW k \in CallsOf[t],
             \/ RecvData(t, k) \/ RecvEof(t, k) \/ RecvFails(t, k) \/ RecvWouldBlock(t, k)
             \/ RecvBlocks(t, k) \/ SelectReturns(t, k) \/ SelectFindsNothing(t, k)
             \/ WaitReturns(t, k) \/ WaitFindsNothing(t, k)
      PROVE  NetOK'
  <2>1. CASE RecvEof(t, k)
    <3>1. k.s \in Socks /\ Open(k.s) /\ eof' = eof \cup {ConnOf(k.s)} /\ UNCHANGED <<net, got>>
      BY <1>2, <2>1, ReadingMoves, CallIs DEF RecvEof, Receives
    <3>2. ConnOf(k.s) \in Conns
      BY <3>1, ConnIs
    <3> QED BY <1>0, <3>1, <3>2 DEF NetOK, net
  <2>2. CASE \E s \in Socks : Moved(s)
    BY <1>0, <2>2, MovedTypes
  <2> QED BY <1>1, <1>2, <2>1, <2>2, ReadingMoves
<1>3. ASSUME NEW t \in Threads, NEW s \in Socks, Connect(t, s) PROVE NetOK'
  <2> DEFINE c == conns + 1
  <2>1. c \in Conns /\ c \in 0 .. MaxConns
    BY <1>0, <1>3, SocketAssumption DEF NetOK, Conns, Connect
  <2>2. /\ conns' = c
        /\ sock' = [sock EXCEPT ![s] = [conn |-> c, nb |-> IF sock[s] = NoSock THEN FALSE ELSE sock[s].nb]]
        /\ home' = [home EXCEPT ![c] = s]
        /\ server' = [server EXCEPT ![c] = TRUE]
        /\ feeder' = [feeder EXCEPT ![c] = "recv"]
        /\ buf' = [buf EXCEPT ![s] = <<>>]
        /\ chan' = IF Open(s) THEN [chan EXCEPT ![ConnOf(s)] = <<>>] ELSE chan
        /\ UNCHANGED <<inbox, out, toWake, sent, quit, got, eof>>
    BY <1>3 DEF Connect, Drop
  <2> HIDE DEF c
  <2>3. (IF sock[s] = NoSock THEN FALSE ELSE sock[s].nb) \in BOOLEAN
    BY <1>0 DEF NetOK
  <2>4. chan' \in [Conns -> Seq(Bytes)] /\ buf' \in [Socks -> Bytes]
    BY <1>0, <2>2, NothingIsBytes DEF NetOK
  <2> QED BY <1>0, <2>1, <2>2, <2>3, <2>4 DEF NetOK
<1>4. ASSUME NEW t \in Threads, NEW s \in Socks, CloseSocket(t, s) PROVE NetOK'
  <2>1. /\ sock' = [sock EXCEPT ![s] = NoSock] /\ buf' = [buf EXCEPT ![s] = <<>>]
        /\ chan' = IF Open(s) THEN [chan EXCEPT ![ConnOf(s)] = <<>>] ELSE chan
        /\ UNCHANGED <<conns, home, inbox, server, out, feeder, toWake, sent, quit, got, eof>>
    BY <1>4 DEF CloseSocket, Drop
  <2>2. chan' \in [Conns -> Seq(Bytes)] /\ buf' \in [Socks -> Bytes]
    BY <1>0, <2>1, NothingIsBytes DEF NetOK
  <2> QED BY <1>0, <2>1, <2>2 DEF NetOK
<1>5. ASSUME NEW t \in Threads, NEW s \in Socks, NEW nb \in BOOLEAN, IoctlSocket(t, s, nb)
      PROVE  NetOK'
  <2>1. /\ sock' = [sock EXCEPT ![s] =
                      [conn |-> IF sock[s] = NoSock THEN 0 ELSE sock[s].conn, nb |-> nb]]
        /\ UNCHANGED <<buf, conns, home, inbox, server, out, chan, feeder, toWake, sent, quit,
                       got, eof>>
    BY <1>5 DEF IoctlSocket
  <2>2. (IF sock[s] = NoSock THEN 0 ELSE sock[s].conn) \in 0 .. MaxConns
    BY <1>0, SocketAssumption DEF NetOK
  <2> QED BY <1>0, <2>1, <2>2 DEF NetOK
<1>6. ASSUME NEW t \in Threads, NEW s \in Socks, Send(t, s) PROVE NetOK'
  <2>1. /\ ConnOf(s) \in Conns /\ inbox[ConnOf(s)] < MaxSends
        /\ inbox' = [inbox EXCEPT ![ConnOf(s)] = @ + 1]
        /\ UNCHANGED <<sock, buf, conns, home, server, out, chan, feeder, toWake, sent, quit,
                       got, eof>>
    BY <1>6, ConnIs DEF Send
  <2> QED BY <1>0, <2>1, SocketAssumption DEF NetOK
<1>7. ASSUME NEW t \in Threads, NEW e \in WsaEvents, EnumNetworkEvents(t, e) PROVE NetOK'
  BY <1>0, <1>1, <1>7, EnumMoves, MovedTypes
<1>8. ASSUME NEW t \in Threads, NEW s \in Socks, NEW e \in WsaEvents, NEW i \in Interests,
             WsaEventSelect(t, s, e, i)
      PROVE  NetOK'
  BY <1>1, <1>8 DEF WsaEventSelect
<1>9. CASE Park \/ EnumClears \/ UNCHANGED vars \/ \E t \in Threads : WakeForMessage(t)
  BY <1>1, <1>9 DEF Park, EnumClears, WakeForMessage, vars
<1>10. ASSUME NEW c \in Conns, NEW ends \in Answers, Serve(c, ends) PROVE NetOK'
  <2>1. inbox[c] > 0 /\ inbox' = [inbox EXCEPT ![c] = @ - 1] /\ UNCHANGED <<unhandled, quit>>
    BY <1>10, ServeIs
  <2>2. inbox' \in [Conns -> 0 .. MaxSends]
    BY <1>0, <2>1, SocketAssumption DEF NetOK
  <2>3. /\ server' \in [Conns -> BOOLEAN] /\ sent' \in [Conns -> 0 .. MaxBytes]
        /\ out' \in [Conns -> Seq(Bytes)]
    <3>1. /\ server \in [Conns -> BOOLEAN] /\ sent \in [Conns -> 0 .. MaxBytes]
          /\ out \in [Conns -> Seq(Bytes)]
      BY <1>0 DEF NetOK
    <3>2. \/ server' = [server EXCEPT ![c] = FALSE] /\ UNCHANGED <<out, sent>>
          \/ UNCHANGED <<server, out, sent>>
          \/ /\ server' = server
             /\ \E n \in 0 .. MaxBytes, w \in Seq(Bytes) :
                  sent' = [sent EXCEPT ![c] = n] /\ out' = [out EXCEPT ![c] = w]
      BY <1>10, ServeIs
    <3> QED BY <3>1, <3>2
  <2> QED BY <1>0, <2>1, <2>2, <2>3 DEF NetOK, unhandled
<1>11. ASSUME NEW c \in Conns, Quit(c) \/ HandlerEnds(c) PROVE NetOK'
  <2>1. server' = [server EXCEPT ![c] = FALSE] /\ UNCHANGED <<unhandled, out, sent>>
        /\ inbox' \in {inbox, [inbox EXCEPT ![c] = 0]} /\ quit' \in {quit, quit \cup {c}}
    BY <1>11 DEF Quit, HandlerEnds
  <2>2. inbox' \in [Conns -> 0 .. MaxSends] /\ server' \in [Conns -> BOOLEAN]
    BY <1>0, <2>1, SocketAssumption DEF NetOK
  <2> QED BY <1>0, <2>1, <2>2 DEF NetOK, unhandled
<1>12. ASSUME NEW c \in Conns, Forward(c) PROVE NetOK'
  <2>1. /\ out[c] # <<>> /\ out' = [out EXCEPT ![c] = Tail(out[c])] /\ UNCHANGED <<unfed, toWake>>
        /\ chan' \in {chan, [chan EXCEPT ![c] = Append(chan[c], Head(out[c]))]}
        /\ feeder' \in {[feeder EXCEPT ![c] = "mark"], [feeder EXCEPT ![c] = "endWake"]}
    BY <1>12 DEF Forward, Goes
  <2>2. Tail(out[c]) \in Seq(Bytes) /\ Append(chan[c], Head(out[c])) \in Seq(Bytes)
    BY <1>0, <2>1 DEF NetOK
  <2> QED BY <1>0, <2>1, <2>2 DEF NetOK, unfed
<1>13. ASSUME NEW c \in Conns,
              \/ MarkRead(c) \/ FeederWakesSocket(c) \/ FeederListsEvents(c) \/ FeederWakesEvents(c)
              \/ FeederSeesEnd(c) \/ FeederDrops(c)
       PROVE  NetOK'
  <2>1. /\ UNCHANGED <<unfed, chan>>
        /\ \E at \in {"wakeSock", "wakeEvents", "recv", "endWake", "endMark", "endEvents", "ended", "gone"} :
             Goes(c, at)
    BY <1>13 DEF MarkRead, FeederWakesSocket, FeederListsEvents, FeederWakesEvents, FeederSeesEnd,
                 FeederDrops
  <2>2. out' \in {out, [out EXCEPT ![c] = <<>>]}
    BY <1>13 DEF MarkRead, FeederWakesSocket, FeederListsEvents, FeederWakesEvents, FeederSeesEnd,
                 FeederDrops
  <2>3. \E es \in SUBSET WsaEvents : toWake' = [toWake EXCEPT ![c] = es]
    <3>1. toWake = [toWake EXCEPT ![c] = toWake[c]] /\ toWake[c] \in SUBSET WsaEvents
      BY <1>0 DEF NetOK
    <3> QED BY <1>13, <3>1, WatchingIs
          DEF MarkRead, FeederWakesSocket, FeederListsEvents, FeederWakesEvents, FeederSeesEnd,
              FeederDrops
  <2>4. out' \in [Conns -> Seq(Bytes)]
    BY <1>0, <2>2, NothingIsBytes DEF NetOK
  <2>5. feeder' \in [Conns -> {"recv", "mark", "wakeSock", "wakeEvents", "endWake", "endMark",
                              "endEvents", "ended", "gone"}]
    BY <1>0, <2>1 DEF NetOK, Goes
  <2>6. toWake' \in [Conns -> SUBSET WsaEvents]
    BY <1>0, <2>3 DEF NetOK
  <2> QED BY <1>0, <2>1, <2>4, <2>5, <2>6 DEF NetOK, unfed
<1> QED BY StepIs, <1>2, <1>3, <1>4, <1>5, <1>6, <1>7, <1>8, <1>9, <1>10, <1>11, <1>12, <1>13, Zenon

LEMMA TypesKept == ASSUME TypeOK, [Next]_vars PROVE TypeOK'
<1>1. NetOK' /\ GuestOK'
  BY GuestTypes, NetTypes
<1> QED BY <1>1 DEF TypeOK, NetOK, GuestOK

LEMMA TypesStart == Init => TypeOK
<1> SUFFICES ASSUME Init PROVE NetOK
  BY GuestStarts, TypesAre
<1>1. 0 \in 0 .. MaxConns /\ 0 \in 0 .. MaxSends /\ 0 \in 0 .. MaxBytes
  BY SocketAssumption
<1>2. Fresh \in [conn : 0 .. MaxConns, nb : BOOLEAN]
  BY <1>1 DEF Fresh
<1> HIDE DEF Fresh
<1> QED BY <1>1, <1>2, NothingIsBytes DEF Init, NetOK

----------------------------------------------------------------------------
(* The bytes of a connection, in order: received, in recv_buf, on the way to the guest, on *)
(* the way to the feeder. *)

\* Named, so that the provers need not look into them to use a lemma.
LeftThree(x, y, z)     == (x \o y) \o z
RightThree(x, y, z)    == x \o (y \o z)
LeftFour(g, d, b, f)   == ((g \o d) \o b) \o f
RightFour(g, d, b, f)  == g \o (d \o (b \o f))
Flow(g, b, f, o)       == ((g \o b) \o f) \o o
Apart(g, f, h, o)      == (g \o f) \o (h \o o)
Joint(g, f, h, o)      == (g \o (f \o h)) \o o
Passes(d, b, f, x, y)  == d \o (b \o f) = x \o y

LEMMA JoinsThree ==
  ASSUME NEW x \in Bytes, NEW y \in Bytes, NEW z \in Bytes
  PROVE  LeftThree(x, y, z) = RightThree(x, y, z)
BY JoinThree DEF LeftThree, RightThree

LEMMA JoinFour ==
  ASSUME NEW g \in Bytes, NEW d \in Bytes, NEW b \in Bytes, NEW f \in Bytes
  PROVE  LeftFour(g, d, b, f) = RightFour(g, d, b, f)
<1>1. g \o d \in Bytes
  BY JoinBytes
<1>2. ((g \o d) \o b) \o f = (g \o d) \o (b \o f)
  BY <1>1, JoinThree
<1>3. b \o f \in Bytes
  BY JoinBytes
<1>4. (g \o d) \o (b \o f) = g \o (d \o (b \o f))
  <2> DEFINE u == b \o f
  <2>1. u \in Bytes
    BY <1>3
  <2> HIDE DEF u
  <2>2. (g \o d) \o u = g \o (d \o u)
    BY <2>1, JoinThree
  <2> QED BY <2>2 DEF u
<1> QED BY <1>2, <1>4 DEF LeftFour, RightFour

LEMMA FlowMoves ==
  ASSUME NEW g \in Bytes, NEW x \in Bytes, NEW y \in Bytes, NEW o,
         NEW d \in Bytes, NEW b \in Bytes, NEW f \in Bytes, Passes(d, b, f, x, y)
  PROVE  Flow(g \o d, b, f, o) = Flow(g, x, y, o)
<1>1. LeftFour(g, d, b, f) = RightFour(g, d, b, f)
  BY JoinFour
<1>2. LeftThree(g, x, y) = RightThree(g, x, y)
  BY JoinsThree
<1>3. LeftFour(g, d, b, f) = LeftThree(g, x, y)
  BY <1>1, <1>2 DEF RightFour, RightThree, Passes
<1> QED BY <1>3 DEF LeftFour, LeftThree, Flow

LEMMA FlowForward ==
  ASSUME NEW g \in Bytes, NEW f \in Bytes, NEW h \in Bytes, NEW o \in Bytes
  PROVE  Joint(g, f, h, o) = Apart(g, f, h, o)
<1>1. g \o f \in Bytes
  BY JoinBytes
<1>2. g \o (f \o h) = (g \o f) \o h
  BY JoinThree
<1>3. ((g \o f) \o h) \o o = (g \o f) \o (h \o o)
  BY <1>1, JoinThree
<1> QED BY <1>2, <1>3 DEF Joint, Apart

LEMMA FlowPrefix ==
  ASSUME NEW g \in Bytes, NEW b \in Bytes, NEW f \in Bytes, NEW o \in Bytes
  PROVE  IsPrefix(g, ((g \o b) \o f) \o o)
<1>1. g \o b \in Bytes /\ b \o f \in Bytes
  BY JoinBytes
<1>2. (b \o f) \o o \in Bytes
  BY <1>1, JoinBytes
<1>3. (g \o b) \o f = g \o (b \o f)
  BY JoinThree
<1>4. (g \o (b \o f)) \o o = g \o ((b \o f) \o o)
  BY <1>1, JoinThree
<1>5. IsPrefix(g, g \o ((b \o f) \o o))
  BY <1>2, BytesAre, Prefix
<1> QED BY <1>3, <1>4, <1>5

\* Where all is received nothing more can be.
LEMMA FlowEnds ==
  ASSUME NEW g \in Bytes, NEW d \in Bytes, NEW b \in Bytes, NEW f \in Bytes, NEW o \in Bytes,
         (((g \o d) \o b) \o f) \o o = g
  PROVE  d = <<>>
<1> DEFINE x == g \o d
           y == x \o b
           z == y \o f
<1>1. x \in Bytes
  BY JoinBytes
<1>2. y \in Bytes
  BY <1>1, JoinBytes
<1>3. z \in Bytes
  BY <1>2, JoinBytes
<1>4. Len(x) = Len(g) + Len(d)
  BY BytesAre, ConcatProperties
<1> HIDE DEF x
<1>5. Len(y) = Len(x) + Len(b)
  BY <1>1, BytesAre, ConcatProperties
<1> HIDE DEF y
<1>6. Len(z) = Len(y) + Len(f)
  BY <1>2, BytesAre, ConcatProperties
<1> HIDE DEF z
<1>7. Len(z \o o) = Len(z) + Len(o)
  BY <1>3, BytesAre, ConcatProperties
<1>8. z \o o = g
  BY DEF x, y, z
<1>9. /\ Len(g) \in Nat /\ Len(d) \in Nat /\ Len(b) \in Nat /\ Len(f) \in Nat /\ Len(o) \in Nat
      /\ d \in Seq(B)
  BY BytesAre
<1>10. Len(d) = 0
  BY <1>4, <1>5, <1>6, <1>7, <1>8, <1>9
<1> QED BY <1>9, <1>10

LEMMA PrefixGrows ==
  ASSUME NEW g \in Bytes, NEW s \in Bytes, NEW r \in Bytes, IsPrefix(g, s)
  PROVE  IsPrefix(g, s \o r)
<1> DEFINE n == Len(g)
           a == s \o r
<1>1. /\ g \in Seq(B) /\ s \in Seq(B) /\ r \in Seq(B) /\ n \in Nat
      /\ Len(s) \in Nat /\ Len(r) \in Nat /\ n <= Len(s)
  BY BytesAre DEF IsPrefix
<1>2. /\ a \in Seq(B) /\ Len(a) = Len(s) + Len(r)
      /\ \A i \in 1 .. Len(s) : a[i] = s[i]
  BY <1>1, ConcatProperties
<1> HIDE DEF a, n
<1> DEFINE u == SubSeq(s, 1, n)
           v == SubSeq(a, 1, n)
<1>3. u \in Seq(B) /\ Len(u) = n /\ \A i \in 1 .. n : u[i] = s[i]
  <2>1. n \in 0 .. Len(s)
    BY <1>1
  <2> QED BY <1>1, <2>1, SplitAt
<1>4. v \in Seq(B) /\ Len(v) = n /\ \A i \in 1 .. n : v[i] = a[i]
  <2>1. n \in 0 .. Len(a)
    BY <1>1, <1>2
  <2> QED BY <1>2, <2>1, SplitAt
<1> HIDE DEF u, v
<1>5. ASSUME NEW i \in 1 .. n PROVE u[i] = v[i]
  <2>1. i \in 1 .. Len(s)
    BY <1>1
  <2>2. a[i] = s[i]
    BY <1>2, <2>1
  <2> QED BY <1>3, <1>4, <2>2
<1>6. u = v
  BY <1>3, <1>4, <1>5, SeqEqual
<1>7. n <= Len(a)
  BY <1>1, <1>2
<1>8. SubSeq(g, 1, n) = u
  BY DEF IsPrefix, u, n
<1> QED BY <1>6, <1>7, <1>8 DEF u, v, a, n, IsPrefix

LEMMA SentIs ==
  ASSUME TypeOK, NEW c \in Conns
  PROVE  SentBy(c) = Run(c, 0, sent[c]) /\ SentBy(c) \in Bytes /\ sent[c] \in 0 .. MaxBytes
<1>1. sent[c] \in 0 .. MaxBytes /\ 0 \in 0 .. MaxBytes /\ sent[c] - 0 = sent[c] /\ 0 <= sent[c]
      /\ \A j \in 1 .. sent[c] : 0 + j = j
  BY SocketAssumption DEF TypeOK
<1>2. SentBy(c) = Run(c, 0, sent[c])
  BY <1>1 DEF SentBy, Run
<1>3. Run(c, 0, sent[c]) \in Bytes
  BY <1>1, RunIs
<1> QED BY <1>1, <1>2, <1>3

\* The bytes of the connection of an open socket.
Whole(s) == ((got[ConnOf(s)] \o buf[s]) \o FlattenSeq(chan[ConnOf(s)])) \o FlattenSeq(out[ConnOf(s)])

LEMMA IntactIs ==
  StreamIntact <=>
    /\ \A s \in Socks : Open(s) => Whole(s) = SentBy(ConnOf(s))
    /\ \A c \in Conns : IsPrefix(got[c], SentBy(c))
    /\ \A s \in Socks : ~Open(s) => buf[s] = <<>>
BY DEF StreamIntact, Whole

LEMMA PartsAre ==
  ASSUME TypeOK, NEW s \in Socks, Open(s)
  PROVE  /\ ConnOf(s) \in Conns /\ got[ConnOf(s)] \in Bytes /\ buf[s] \in Bytes
         /\ chan[ConnOf(s)] \in Seq(Bytes) /\ out[ConnOf(s)] \in Seq(Bytes)
         /\ FlattenSeq(chan[ConnOf(s)]) \in Bytes /\ FlattenSeq(out[ConnOf(s)]) \in Bytes
BY ConnIs, FlatBytes DEF TypeOK

\* A step of the handler or the feeder that moves no byte.
LEMMA StreamsQuiet ==
  ASSUME Streams, TypeOK', UNCHANGED <<sock, buf, conns, home, out, chan, sent, got, eof>>,
         \A c \in Conns :
           /\ server'[c] => server[c]
           /\ feeder[c] = "gone" => feeder'[c] = "gone"
           /\ feeder'[c] \in Ending => feeder[c] \in Ending \/ (out[c] = <<>> /\ ~server'[c])
  PROVE  Streams'
<1>1. StreamIntact' /\ EofMeansAll'
  BY DEF Streams, StreamIntact, EofMeansAll, Open, ConnOf, SentBy
<1>2. Numbered'
  <2>1. \A c \in conns + 1 .. MaxConns : c \in Conns
    BY SocketAssumption DEF Streams, TypeOK, Conns
  <2> QED BY <2>1 DEF Streams, Numbered, Open, ConnOf
<1>3. EndsEmpty'
  <2>1. ASSUME NEW s \in Socks, Open(s)', feeder'[ConnOf(s)'] \in Ending
        PROVE  out'[ConnOf(s)'] = <<>> /\ ~server'[ConnOf(s)']
    <3>1. Open(s) /\ ConnOf(s)' = ConnOf(s)
      BY <2>1 DEF Open, ConnOf
    <3>2. ConnOf(s) \in Conns
      BY <3>1, ConnIs DEF Streams
    <3> QED BY <2>1, <3>1, <3>2 DEF Streams, EndsEmpty
  <2>2. ASSUME NEW c \in eof' PROVE c \in 1 .. conns' /\ feeder'[c] = "gone"
    BY <2>2 DEF Streams, EndsEmpty, TypeOK
  <2> QED BY <2>1, <2>2 DEF EndsEmpty
<1> QED BY <1>1, <1>2, <1>3 DEF Streams

LEMMA StreamsMoved ==
  ASSUME Streams, TypeOK', NEW s \in Socks, Moved(s)
  PROVE  Streams'
<1> DEFINE c == ConnOf(s)
           f == FlattenSeq(chan[c])
           o == FlattenSeq(out[c])
<1>1. PICK b \in Bytes, d \in Bytes, q \in Seq(Bytes) :
        /\ buf' = [buf EXCEPT ![s] = b] /\ chan' = [chan EXCEPT ![c] = q]
        /\ got' = [got EXCEPT ![c] = got[c] \o d]
        /\ d \o (b \o FlattenSeq(q)) = buf[s] \o f
  BY DEF Moved
<1>2. Open(s) /\ UNCHANGED <<sock, conns, home, inbox, server, out, feeder, toWake, sent, quit, eof>>
  BY DEF Moved
<1>3. /\ c \in Conns /\ got[c] \in Bytes /\ buf[s] \in Bytes /\ f \in Bytes /\ o \in Bytes
      /\ FlattenSeq(q) \in Bytes
  BY <1>2, PartsAre, FlatBytes DEF Streams
<1>4. /\ got \in [Conns -> Bytes] /\ chan \in [Conns -> Seq(Bytes)] /\ buf \in [Socks -> Bytes]
  BY DEF Streams, TypeOK
<1>5. buf'[s] = b /\ chan'[c] = q /\ got'[c] = got[c] \o d
  BY <1>1, <1>3, <1>4
<1>6. /\ \A r \in Socks : (Open(r)' <=> Open(r)) /\ ConnOf(r)' = ConnOf(r)
      /\ \A e \in Conns : SentBy(e)' = SentBy(e)
  BY <1>2 DEF Open, ConnOf, SentBy
<1>7. (((got[c] \o d) \o b) \o FlattenSeq(q)) \o o = SentBy(c)
  <2>1. Flow(got[c], buf[s], f, o) = SentBy(c)
    BY <1>2, IntactIs DEF Streams, Whole, Flow
  <2> DEFINE g == got[c]
             x == buf[s]
             h == FlattenSeq(q)
  <2>2. g \in Bytes /\ x \in Bytes /\ h \in Bytes /\ f \in Bytes
    BY <1>3
  <2>3. Passes(d, b, h, x, f)
    BY <1>1 DEF Passes
  <2> HIDE DEF g, x, h, f, o
  <2>4. Flow(g \o d, b, h, o) = Flow(g, x, f, o)
    BY <2>2, <2>3, FlowMoves
  <2> QED BY <2>1, <2>4 DEF g, x, h, Flow
<1>8. c \in 1 .. conns /\ \A r \in Socks : Open(r) /\ r # s => ConnOf(r) # c
  BY <1>2 DEF Streams, Numbered
<1> HIDE DEF f, o
<1>9. ASSUME NEW r \in Socks, Open(r)' PROVE Whole(r)' = SentBy(ConnOf(r))'
  <2>1. Open(r) /\ ConnOf(r)' = ConnOf(r)
    BY <1>6, <1>9
  <2>2. CASE r = s
    <3>1. Whole(s)' = (((got[c] \o d) \o b) \o FlattenSeq(q)) \o o
      BY <1>2, <1>5, <1>6 DEF Whole, o
    <3>2. SentBy(ConnOf(s))' = SentBy(c)
      BY <1>2, <1>6 DEF SentBy
    <3> HIDE DEF c
    <3> QED BY <1>7, <2>2, <3>1, <3>2
  <2>3. CASE r # s
    <3>1. ConnOf(r) # c /\ ConnOf(r) \in Conns
      BY <1>8, <2>1, <2>3, ConnIs DEF Streams
    <3>2. buf'[r] = buf[r] /\ chan'[ConnOf(r)] = chan[ConnOf(r)] /\ got'[ConnOf(r)] = got[ConnOf(r)]
      BY <1>1, <1>4, <2>3, <3>1
    <3>3. Whole(r)' = Whole(r)
      BY <1>2, <2>1, <3>2 DEF Whole
    <3>4. SentBy(ConnOf(r))' = SentBy(ConnOf(r))
      BY <1>2, <2>1 DEF SentBy
    <3> QED BY <2>1, <3>3, <3>4, IntactIs DEF Streams
  <2> QED BY <2>2, <2>3
<1>10. ASSUME NEW e \in Conns PROVE IsPrefix(got'[e], SentBy(e)')
  <2>1. CASE e = c
    <3>1. got[c] \o d \in Bytes
      BY <1>3, JoinBytes
    <3> DEFINE g == got[c] \o d
               h == FlattenSeq(q)
    <3>2. g \in Bytes /\ h \in Bytes
      BY <1>3, <3>1
    <3> HIDE DEF g, h
    <3>3. IsPrefix(g, ((g \o b) \o h) \o o)
      BY <1>3, <3>2, FlowPrefix
    <3>4. IsPrefix(got[c] \o d, SentBy(c))
      BY <1>7, <3>3 DEF g, h
    <3> HIDE DEF c
    <3> QED BY <1>5, <1>6, <2>1, <3>4
  <2>2. CASE e # c
    <3>1. got'[e] = got[e] /\ SentBy(e)' = SentBy(e)
      BY <1>1, <1>4, <1>6, <2>2
    <3> QED BY <3>1, IntactIs DEF Streams
  <2> QED BY <2>1, <2>2
<1>11. ASSUME NEW r \in Socks, ~Open(r)' PROVE buf'[r] = <<>>
  <2>1. ~Open(r) /\ r # s
    BY <1>2, <1>6, <1>11
  <2>2. buf'[r] = buf[r]
    BY <1>1, <1>4, <2>1
  <2> QED BY <2>1, <2>2, IntactIs DEF Streams
<1>12. StreamIntact'
  BY <1>9, <1>10, <1>11 DEF StreamIntact, Whole
<1>13. EofMeansAll'
  <2>1. ASSUME NEW e \in eof PROVE got'[e] = SentBy(e)'
    <3>1. e \in Conns /\ SentBy(e)' = SentBy(e) /\ got[e] = SentBy(e)
      BY <1>6 DEF Streams, TypeOK, EofMeansAll
    <3>2. CASE e = c
      <4> DEFINE g == got[c]
                 h == FlattenSeq(q)
      <4>1. (((g \o d) \o b) \o h) \o o = g
        BY <1>7, <3>1, <3>2
      <4>2. g \in Bytes /\ h \in Bytes
        BY <1>3
      <4> HIDE DEF g, h
      <4>3. d = <<>>
        BY <1>3, <4>1, <4>2, FlowEnds
      <4>4. g \o d = g
        BY <4>2, <4>3, JoinBytes
      <4> HIDE DEF c
      <4> QED BY <1>5, <3>1, <3>2, <4>4 DEF g
    <3>3. CASE e # c
      BY <1>1, <1>4, <3>1, <3>3
    <3> QED BY <3>2, <3>3
  <2> QED BY <1>2, <2>1 DEF EofMeansAll
<1>14. EndsEmpty'
  BY <1>2, <1>6 DEF Streams, EndsEmpty
<1>15. Numbered'
  <2>1. \A s2 \in Socks : Open(s2)' => ConnOf(s2)' \in 1 .. conns' /\ home'[ConnOf(s2)'] = s2
    BY <1>2, <1>6 DEF Streams, Numbered
  <2>2. ASSUME NEW e \in conns' + 1 .. MaxConns
        PROVE  /\ sent'[e] = 0 /\ got'[e] = <<>> /\ out'[e] = <<>> /\ chan'[e] = <<>>
               /\ feeder'[e] = "gone" /\ ~server'[e] /\ e \notin eof'
    <3>1. conns' = conns /\ conns \in Nat /\ MaxConns \in Nat
      BY <1>2, SocketAssumption DEF Streams, TypeOK
    <3>2. e \in Conns /\ e # c
      BY <1>8, <3>1 DEF Conns
    <3>3. got'[e] = got[e] /\ chan'[e] = chan[e]
      BY <1>1, <1>4, <3>2
    <3> QED BY <1>2, <3>1, <3>3 DEF Streams, Numbered
  <2> QED BY <2>1, <2>2 DEF Numbered
<1> QED BY <1>12, <1>13, <1>14, <1>15 DEF Streams

\* The end of the stream: nothing is on its way any more.
LEMMA StreamsEof ==
  ASSUME Streams, TypeOK', NEW s \in Socks, Open(s), ~HasData(s), AtEof(s),
         eof' = eof \cup {ConnOf(s)}, UNCHANGED <<net, got>>
  PROVE  Streams'
<1> DEFINE c == ConnOf(s)
<1>1. c \in Conns /\ got[c] \in Bytes /\ c \in 1 .. conns /\ feeder[c] = "gone"
  BY PartsAre DEF Streams, Numbered, AtEof
<1>2. buf[s] = <<>> /\ chan[c] = <<>> /\ out[c] = <<>>
  BY <1>1 DEF HasData, ChanOf, Streams, EndsEmpty, Ending
<1>3. got[c] = SentBy(c)
  <2>1. Whole(s) = SentBy(c)
    BY IntactIs DEF Streams
  <2> DEFINE g == got[c]
  <2>2. Whole(s) = ((g \o <<>>) \o <<>>) \o <<>>
    BY <1>2, FlattenEmpty DEF Whole
  <2>3. g \in Bytes
    BY <1>1
  <2> HIDE DEF g
  <2>4. g \o <<>> = g
    BY <2>3, JoinBytes
  <2> QED BY <2>1, <2>2, <2>4 DEF g
<1>4. StreamIntact' /\ Numbered'
  <2>1. UNCHANGED <<sock, buf, conns, home, out, chan, sent, got, feeder, server>>
    BY DEF net
  <2>2. StreamIntact'
    BY <2>1 DEF Streams, StreamIntact, Open, ConnOf, SentBy
  <2>3. c \notin conns + 1 .. MaxConns
    <3>1. conns \in Nat
      BY DEF Streams, TypeOK
    <3> QED BY <1>1, <3>1
  <2> QED BY <2>1, <2>2, <2>3 DEF Streams, Numbered, Open, ConnOf
<1>5. EofMeansAll' /\ EndsEmpty'
  BY <1>1, <1>3 DEF Streams, EofMeansAll, EndsEmpty, net, SentBy, Open, ConnOf
<1> QED BY <1>4, <1>5 DEF Streams

\* A socket that loses its channels does not disturb another one.
LEMMA DropIs ==
  ASSUME Streams, NEW s \in Socks, Drop(s)
  PROVE  /\ buf'[s] = <<>> /\ \A r \in Socks : r # s => buf'[r] = buf[r]
         /\ \A e \in Conns : chan'[e] = chan[e] \/ (Open(s) /\ e = ConnOf(s))
         /\ \A e \in Conns : chan[e] = <<>> => chan'[e] = <<>>
<1>1. buf \in [Socks -> Bytes] /\ chan \in [Conns -> Seq(Bytes)]
  BY DEF Streams, TypeOK
<1> QED BY <1>1 DEF Drop

LEMMA DropSpares ==
  ASSUME Streams, NEW s \in Socks, Drop(s), NEW r \in Socks, r # s, sock'[r] = sock[r], Open(r)',
         UNCHANGED <<out, sent, got>>
  PROVE  Whole(r)' = SentBy(ConnOf(r))'
<1>1. Open(r) /\ ConnOf(r)' = ConnOf(r)
  BY DEF Open, ConnOf
<1>2. ConnOf(r) \in Conns /\ (Open(s) => ConnOf(r) # ConnOf(s))
  BY <1>1, ConnIs DEF Streams, Numbered
<1>3. buf'[r] = buf[r] /\ chan'[ConnOf(r)] = chan[ConnOf(r)]
  BY <1>2, DropIs
<1>4. Whole(r)' = Whole(r)
  BY <1>1, <1>3 DEF Whole
<1>5. SentBy(ConnOf(r))' = SentBy(ConnOf(r))
  BY <1>1 DEF SentBy
<1> QED BY <1>1, <1>4, <1>5, IntactIs DEF Streams

LEMMA StreamsConnect ==
  ASSUME Streams, TypeOK', NEW t \in Threads, NEW s \in Socks, Connect(t, s)
  PROVE  Streams'
<1> DEFINE c == conns + 1
           nb == IF sock[s] = NoSock THEN FALSE ELSE sock[s].nb
<1>1. /\ conns < MaxConns /\ conns' = c /\ sock' = [sock EXCEPT ![s] = [conn |-> c, nb |-> nb]]
      /\ home' = [home EXCEPT ![c] = s] /\ server' = [server EXCEPT ![c] = TRUE]
      /\ feeder' = [feeder EXCEPT ![c] = "recv"] /\ Drop(s)
      /\ UNCHANGED <<inbox, out, toWake, sent, quit, got, eof>>
  BY DEF Connect
<1>2. conns \in Nat /\ MaxConns \in Nat /\ c \in Conns /\ c \in conns + 1 .. MaxConns /\ c # 0
  BY <1>1, SocketAssumption DEF Streams, TypeOK, Conns
<1>3. sent[c] = 0 /\ got[c] = <<>> /\ out[c] = <<>> /\ chan[c] = <<>> /\ c \notin eof
  BY <1>2 DEF Streams, Numbered
<1>4. c \notin 1 .. conns /\ 1 .. conns' = (1 .. conns) \cup {c}
      /\ conns' + 1 .. MaxConns = (conns + 1 .. MaxConns) \ {c}
  BY <1>1, <1>2
<1>5. /\ sock \in [Socks -> [conn : 0 .. MaxConns, nb : BOOLEAN] \cup {NoSock}]
      /\ sock'[s] \in [conn : 0 .. MaxConns, nb : BOOLEAN] \cup {NoSock}
      /\ home \in [Conns -> Socks \cup {NoSock}]
      /\ server \in [Conns -> BOOLEAN] /\ DOMAIN feeder = Conns
  BY DEF Streams, TypeOK
<1> HIDE DEF c, nb
<1>6. sock'[s] = [conn |-> c, nb |-> nb] /\ \A r \in Socks : r # s => sock'[r] = sock[r]
  BY <1>1, <1>5
<1>7. ConnOf(s)' = c /\ \A r \in Socks : r # s => (Open(r)' <=> Open(r)) /\ ConnOf(r)' = ConnOf(r)
  BY <1>6 DEF Open, ConnOf
<1>8. \A r \in Socks : r # s /\ Open(r) => ConnOf(r) \in 1 .. conns /\ ConnOf(r) # c
  BY <1>4 DEF Streams, Numbered
<1>9. Numbered'
  <2>1. ASSUME NEW r \in Socks, Open(r)'
        PROVE  ConnOf(r)' \in 1 .. conns' /\ home'[ConnOf(r)'] = r
    <3>1. CASE r = s
      BY <1>1, <1>2, <1>4, <1>5, <1>7, <3>1
    <3>2. CASE r # s
      <4>1. Open(r) /\ ConnOf(r)' = ConnOf(r) /\ ConnOf(r) \in 1 .. conns /\ ConnOf(r) # c
        BY <1>7, <1>8, <2>1, <3>2
      <4>2. home[ConnOf(r)] = r
        BY <4>1 DEF Streams, Numbered
      <4>3. home'[ConnOf(r)] = r
        BY <1>1, <1>5, <4>1, <4>2
      <4> HIDE DEF Open, ConnOf
      <4> QED BY <1>4, <4>1, <4>3
    <3> QED BY <3>1, <3>2
  <2>2. ASSUME NEW e \in conns' + 1 .. MaxConns
        PROVE  /\ sent'[e] = 0 /\ got'[e] = <<>> /\ out'[e] = <<>> /\ chan'[e] = <<>>
               /\ feeder'[e] = "gone" /\ ~server'[e] /\ e \notin eof'
    <3>1. e \in conns + 1 .. MaxConns /\ e # c /\ e \in Conns
      BY <1>1, <1>2, <1>4, <2>2 DEF Conns
    <3>2. /\ sent[e] = 0 /\ got[e] = <<>> /\ out[e] = <<>> /\ chan[e] = <<>>
          /\ feeder[e] = "gone" /\ ~server[e] /\ e \notin eof
      BY <3>1 DEF Streams, Numbered
    <3>3. chan'[e] = <<>>
      BY <1>1, <3>1, <3>2, DropIs
    <3> QED BY <1>1, <1>5, <3>1, <3>2, <3>3
  <2> QED BY <2>1, <2>2 DEF Numbered
<1>10. StreamIntact'
  <2>1. ASSUME NEW r \in Socks, Open(r)' PROVE Whole(r)' = SentBy(ConnOf(r))'
    <3>1. CASE r = s
      <4>1. buf'[s] = <<>> /\ chan'[c] = <<>> /\ out'[c] = <<>> /\ got'[c] = <<>> /\ sent'[c] = 0
        BY <1>1, <1>2, <1>3, DropIs
      <4>2. Whole(s)' = ((<<>> \o <<>>) \o <<>>) \o <<>>
        BY <1>7, <4>1, FlattenEmpty DEF Whole
      <4>3. SentBy(ConnOf(s))' = [i \in 1 .. 0 |-> Byte(c, i)]
        BY <1>7, <4>1 DEF SentBy, ConnOf
      <4>4. [i \in 1 .. 0 |-> Byte(c, i)] = <<>>
        OBVIOUS
      <4>5. ((<<>> \o <<>>) \o <<>>) \o <<>> = <<>>
        OBVIOUS
      <4> QED BY <3>1, <4>2, <4>3, <4>4, <4>5
    <3>2. CASE r # s
      BY <1>1, <1>6, <2>1, <3>2, DropSpares
    <3> QED BY <3>1, <3>2
  <2>2. \A e \in Conns : IsPrefix(got[e], SentBy(e))'
    BY <1>1 DEF Streams, StreamIntact, SentBy
  <2>3. \A r \in Socks : ~Open(r)' => buf'[r] = <<>>
    BY <1>1, <1>7, DropIs, IntactIs DEF Streams
  <2> QED BY <2>1, <2>2, <2>3 DEF StreamIntact, Whole
<1>11. EndsEmpty'
  <2>1. ASSUME NEW r \in Socks, Open(r)', feeder'[ConnOf(r)'] \in Ending
        PROVE  out'[ConnOf(r)'] = <<>> /\ ~server'[ConnOf(r)']
    <3>1. r # s
      <4>1. feeder'[c] = "recv"
        BY <1>1, <1>2, <1>5
      <4> QED BY <1>7, <2>1, <4>1 DEF Ending
    <3>2. Open(r) /\ ConnOf(r)' = ConnOf(r) /\ ConnOf(r) # c /\ ConnOf(r) \in Conns
      BY <1>7, <1>8, <2>1, <3>1, ConnIs DEF Streams
    <3>3. feeder'[ConnOf(r)] = feeder[ConnOf(r)] /\ server'[ConnOf(r)] = server[ConnOf(r)]
      BY <1>1, <1>5, <3>2
    <3> QED BY <1>1, <2>1, <3>2, <3>3 DEF Streams, EndsEmpty
  <2>2. ASSUME NEW e \in eof PROVE e \in 1 .. conns' /\ feeder'[e] = "gone"
    BY <1>1, <1>3, <1>4, <1>5 DEF Streams, EndsEmpty, TypeOK
  <2> QED BY <1>1, <2>1, <2>2 DEF EndsEmpty
<1>12. EofMeansAll'
  BY <1>1 DEF Streams, EofMeansAll, SentBy
<1> QED BY <1>9, <1>10, <1>11, <1>12 DEF Streams

LEMMA StreamsClose ==
  ASSUME Streams, TypeOK', NEW t \in Threads, NEW s \in Socks, CloseSocket(t, s)
  PROVE  Streams'
<1>1. /\ sock' = [sock EXCEPT ![s] = NoSock] /\ Drop(s)
      /\ UNCHANGED <<conns, home, inbox, server, out, feeder, toWake, sent, quit, got, eof>>
  BY DEF CloseSocket
<1>2. DOMAIN sock = Socks /\ conns \in Nat /\ MaxConns \in Nat
  BY SocketAssumption DEF Streams, TypeOK
<1>3. ~Open(s)' /\ \A r \in Socks : r # s => sock'[r] = sock[r] /\ (Open(r)' <=> Open(r)) /\ ConnOf(r)' = ConnOf(r)
  BY <1>1, <1>2 DEF Open, ConnOf
<1>4. Numbered'
  <2>1. \A r \in Socks : Open(r)' => ConnOf(r)' \in 1 .. conns' /\ home'[ConnOf(r)'] = r
    BY <1>1, <1>3 DEF Streams, Numbered
  <2>2. ASSUME NEW e \in conns + 1 .. MaxConns PROVE chan'[e] = <<>>
    <3>1. e \in Conns /\ chan[e] = <<>>
      BY <1>2 DEF Conns, Streams, Numbered
    <3> QED BY <1>1, <3>1, DropIs
  <2> QED BY <1>1, <2>1, <2>2 DEF Streams, Numbered
<1>5. StreamIntact'
  <2>1. \A r \in Socks : Open(r)' => Whole(r)' = SentBy(ConnOf(r))'
    BY <1>1, <1>3, DropSpares
  <2>2. \A e \in Conns : IsPrefix(got[e], SentBy(e))'
    BY <1>1 DEF Streams, StreamIntact, SentBy
  <2>3. \A r \in Socks : ~Open(r)' => buf'[r] = <<>>
    BY <1>1, <1>3, DropIs, IntactIs DEF Streams
  <2> QED BY <2>1, <2>2, <2>3 DEF StreamIntact, Whole
<1>6. EndsEmpty' /\ EofMeansAll'
  BY <1>1, <1>3 DEF Streams, EndsEmpty, EofMeansAll, SentBy
<1> QED BY <1>4, <1>5, <1>6 DEF Streams

LEMMA StreamsIoctl ==
  ASSUME Streams, TypeOK', NEW t \in Threads, NEW s \in Socks, NEW nb \in BOOLEAN,
         IoctlSocket(t, s, nb)
  PROVE  Streams'
<1>1. /\ sock' = [sock EXCEPT ![s] = [conn |-> IF sock[s] = NoSock THEN 0 ELSE sock[s].conn, nb |-> nb]]
      /\ UNCHANGED <<buf, conns, home, inbox, server, out, chan, feeder, toWake, sent, quit, got, eof>>
  BY DEF IoctlSocket
<1>2. sock \in [Socks -> [conn : 0 .. MaxConns, nb : BOOLEAN] \cup {NoSock}]
  BY DEF Streams, TypeOK
<1>3. (Open(s)' <=> Open(s)) /\ (Open(s) => ConnOf(s)' = ConnOf(s))
  <2> DEFINE n == IF sock[s] = NoSock THEN 0 ELSE sock[s].conn
  <2>1. n \in 0 .. MaxConns /\ (Open(s) <=> n # 0) /\ (Open(s) => ConnOf(s) = n)
    BY <1>2, SocketAssumption DEF Open, ConnOf
  <2>2. sock'[s] = [conn |-> n, nb |-> nb]
    BY <1>1, <1>2
  <2> HIDE DEF n
  <2>3. sock'[s] # NoSock /\ sock'[s].conn = n
    BY <2>1, <2>2, EntryAssumption
  <2> QED BY <2>1, <2>3 DEF Open, ConnOf
<1>4. \A r \in Socks : (Open(r)' <=> Open(r)) /\ (Open(r) => ConnOf(r)' = ConnOf(r))
  <2>1. \A r \in Socks : r # s => (Open(r)' <=> Open(r)) /\ ConnOf(r)' = ConnOf(r)
    BY <1>1, <1>2 DEF Open, ConnOf
  <2> QED BY <1>3, <2>1
<1>5. StreamIntact'
  <2>1. ASSUME NEW r \in Socks, Open(r)' PROVE Whole(r)' = SentBy(ConnOf(r))'
    <3>1. Open(r) /\ ConnOf(r)' = ConnOf(r)
      BY <1>4, <2>1
    <3>2. Whole(r)' = Whole(r) /\ SentBy(ConnOf(r))' = SentBy(ConnOf(r))
      BY <1>1, <3>1 DEF Whole, SentBy
    <3> QED BY <3>1, <3>2, IntactIs DEF Streams
  <2>2. \A e \in Conns : IsPrefix(got[e], SentBy(e))'
    BY <1>1 DEF Streams, StreamIntact, SentBy
  <2>3. \A r \in Socks : ~Open(r)' => buf'[r] = <<>>
    BY <1>1, <1>4, IntactIs DEF Streams
  <2> QED BY <2>1, <2>2, <2>3 DEF StreamIntact, Whole
<1>6. Numbered' /\ EndsEmpty' /\ EofMeansAll'
  BY <1>1, <1>4 DEF Streams, Numbered, EndsEmpty, EofMeansAll, SentBy
<1> QED BY <1>5, <1>6 DEF Streams

\* The handler's answers are appended to what it has sent.
LEMMA StreamsServe ==
  ASSUME Streams, TypeOK', NEW c \in Conns, feeder[c] # "gone", server[c],
         NEW n \in 0 .. MaxBytes, NEW w \in Seq(Bytes), n >= sent[c],
         sent' = [sent EXCEPT ![c] = n], out' = [out EXCEPT ![c] = w],
         FlattenSeq(w) = FlattenSeq(out[c]) \o Run(c, sent[c], n),
         UNCHANGED <<sock, buf, conns, home, chan, feeder, server, got, eof>>
  PROVE  Streams'
<1> DEFINE r == Run(c, sent[c], n)
<1>1. /\ sent[c] \in 0 .. MaxBytes /\ sent \in [Conns -> 0 .. MaxBytes]
      /\ out \in [Conns -> Seq(Bytes)]
  BY DEF Streams, TypeOK
<1>2. /\ SentBy(c) = Run(c, 0, sent[c]) /\ SentBy(c)' = Run(c, 0, n)
      /\ SentBy(c) \in Bytes
  <2>1. SentBy(c) = Run(c, 0, sent[c]) /\ SentBy(c) \in Bytes
    BY SentIs DEF Streams
  <2>2. sent'[c] = n /\ n - 0 = n /\ \A j \in 1 .. n : 0 + j = j
    BY <1>1, SocketAssumption
  <2>3. SentBy(c)' = Run(c, 0, n)
    BY <2>2 DEF SentBy, Run
  <2> QED BY <2>1, <2>3
<1>3. r \in Bytes /\ SentBy(c)' = SentBy(c) \o r
  <2>1. 0 \in 0 .. MaxBytes /\ 0 <= sent[c] /\ sent[c] <= n
    BY <1>1, SocketAssumption
  <2>2. r \in Bytes
    BY <1>1, <2>1, RunIs
  <2>3. Run(c, 0, sent[c]) \o r = Run(c, 0, n)
    BY <1>1, <2>1, RunJoins
  <2> QED BY <1>2, <2>2, <2>3
<1> HIDE DEF r
<1>4. \A e \in Conns : e # c => SentBy(e)' = SentBy(e) /\ out'[e] = out[e]
  BY <1>1 DEF SentBy
<1>5. \A s \in Socks : (Open(s)' <=> Open(s)) /\ ConnOf(s)' = ConnOf(s)
  BY DEF Open, ConnOf
<1>6. c \in 1 .. conns
  <2>1. conns \in Nat /\ MaxConns \in Nat
    BY SocketAssumption DEF Streams, TypeOK
  <2>2. c \notin conns + 1 .. MaxConns
    BY DEF Streams, Numbered
  <2> QED BY <2>1, <2>2 DEF Conns
<1>7. ASSUME NEW s \in Socks, Open(s)' PROVE Whole(s)' = SentBy(ConnOf(s))'
  <2>1. Open(s) /\ ConnOf(s)' = ConnOf(s) /\ ConnOf(s) \in Conns /\ Whole(s) = SentBy(ConnOf(s))
    BY <1>5, <1>7, ConnIs, IntactIs DEF Streams
  <2>2. CASE ConnOf(s) = c
    <3> DEFINE x == (got[c] \o buf[s]) \o FlattenSeq(chan[c])
               o == FlattenSeq(out[c])
    <3>1. x \in Bytes /\ o \in Bytes
      BY <2>1, <2>2, PartsAre, JoinBytes DEF Streams
    <3>2. x \o o = SentBy(c)
      BY <2>1, <2>2 DEF Whole
    <3>3. Whole(s)' = x \o (o \o r)
      BY <1>1, <2>1, <2>2 DEF Whole, r
    <3> HIDE DEF x, o
    <3>4. LeftThree(x, o, r) = RightThree(x, o, r)
      BY <1>3, <3>1, JoinsThree
    <3>5. x \o (o \o r) = SentBy(c) \o r
      BY <3>2, <3>4 DEF LeftThree, RightThree
    <3>6. SentBy(ConnOf(s))' = SentBy(c)'
      BY <2>1, <2>2 DEF SentBy
    <3> QED BY <1>3, <3>3, <3>5, <3>6
  <2>3. CASE ConnOf(s) # c
    <3>1. out'[ConnOf(s)] = out[ConnOf(s)] /\ sent'[ConnOf(s)] = sent[ConnOf(s)]
      BY <1>1, <2>1, <2>3
    <3>2. Whole(s)' = Whole(s) /\ SentBy(ConnOf(s))' = SentBy(ConnOf(s))
      BY <2>1, <3>1 DEF Whole, SentBy
    <3> QED BY <2>1, <3>2
  <2> QED BY <2>2, <2>3
<1>8. ASSUME NEW e \in Conns PROVE IsPrefix(got'[e], SentBy(e)')
  <2>1. IsPrefix(got[e], SentBy(e)) /\ got[e] \in Bytes
    BY IntactIs DEF Streams, TypeOK
  <2>2. CASE e = c
    <3>1. IsPrefix(got[c], SentBy(c) \o r)
      BY <1>2, <1>3, <2>1, <2>2, PrefixGrows
    <3> QED BY <1>3, <2>2, <3>1
  <2>3. CASE e # c
    BY <1>4, <2>1, <2>3
  <2> QED BY <2>2, <2>3
<1>9. StreamIntact'
  <2>1. \A s \in Socks : ~Open(s)' => buf'[s] = <<>>
    BY <1>5, IntactIs DEF Streams
  <2> QED BY <1>7, <1>8, <2>1 DEF StreamIntact, Whole
<1>10. Numbered'
  <2>1. \A e \in conns + 1 .. MaxConns : e # c /\ e \in Conns
    BY <1>6, SocketAssumption DEF Conns, Streams, TypeOK
  <2> QED BY <1>1, <1>5, <2>1 DEF Streams, Numbered
<1>11. EndsEmpty'
  <2>1. \A s \in Socks : Open(s) /\ feeder[ConnOf(s)] \in Ending => ConnOf(s) # c /\ ConnOf(s) \in Conns
    BY ConnIs DEF Streams, EndsEmpty
  <2> QED BY <1>4, <1>5, <2>1 DEF Streams, EndsEmpty
<1>12. EofMeansAll'
  <2>1. \A e \in eof : e # c /\ e \in Conns
    BY DEF Streams, EndsEmpty, TypeOK
  <2> QED BY <1>4, <2>1 DEF Streams, EofMeansAll
<1> QED BY <1>9, <1>10, <1>11, <1>12 DEF Streams

\* The feeder passes a chunk on.
LEMMA StreamsForward ==
  ASSUME Streams, TypeOK', NEW c \in Conns, Forward(c)
  PROVE  Streams'
<1> DEFINE h == Head(out[c])
           o == Tail(out[c])
           q == Append(chan[c], h)
<1>1. /\ feeder[c] = "recv" /\ out[c] # <<>> /\ out' = [out EXCEPT ![c] = o]
      /\ UNCHANGED <<sock, buf, conns, home, inbox, server, sent, quit, got, eof>>
      /\ IF Current(c)
         THEN chan' = [chan EXCEPT ![c] = q] /\ feeder' = [feeder EXCEPT ![c] = "mark"]
         ELSE chan' = chan /\ feeder' = [feeder EXCEPT ![c] = "endWake"]
  BY DEF Forward, Goes, unfed
<1>2. /\ out \in [Conns -> Seq(Bytes)] /\ chan \in [Conns -> Seq(Bytes)] /\ chan[c] \in Seq(Bytes)
      /\ out[c] \in Seq(Bytes) /\ DOMAIN feeder = Conns
  BY DEF Streams, TypeOK
<1>3. /\ h \in Bytes /\ o \in Seq(Bytes) /\ q \in Seq(Bytes)
      /\ FlattenSeq(out[c]) = h \o FlattenSeq(o)
      /\ FlattenSeq(q) = FlattenSeq(chan[c]) \o h
      /\ FlattenSeq(o) \in Bytes /\ FlattenSeq(chan[c]) \in Bytes
  <2>1. h \in Bytes /\ o \in Seq(Bytes) /\ FlattenSeq(out[c]) = h \o FlattenSeq(o)
    BY <1>1, <1>2, HeadJoins, BytesAre
  <2> HIDE DEF h, o
  <2>2. FlattenSeq(Append(chan[c], h)) = FlattenSeq(chan[c]) \o h
    BY <1>2, <2>1, BytesAre, FlattenSnoc
  <2> QED BY <1>2, <2>1, <2>2, FlatBytes
<1> HIDE DEF h, o, q
<1>4. c \in 1 .. conns
  <2>1. conns \in Nat /\ MaxConns \in Nat
    BY SocketAssumption DEF Streams, TypeOK
  <2>2. c \notin conns + 1 .. MaxConns
    BY <1>1 DEF Streams, Numbered
  <2> QED BY <2>1, <2>2 DEF Conns
<1>5. /\ \A s \in Socks : (Open(s)' <=> Open(s)) /\ ConnOf(s)' = ConnOf(s)
      /\ \A e \in Conns : SentBy(e)' = SentBy(e)
  BY <1>1 DEF Open, ConnOf, SentBy
<1>6. ASSUME NEW s \in Socks, Open(s)' PROVE Whole(s)' = SentBy(ConnOf(s))'
  <2>1. Open(s) /\ ConnOf(s)' = ConnOf(s) /\ ConnOf(s) \in Conns /\ Whole(s) = SentBy(ConnOf(s))
    BY <1>5, <1>6, ConnIs, IntactIs DEF Streams
  <2>2. CASE ConnOf(s) = c
    <3> DEFINE x == got[c] \o buf[s]
               f == FlattenSeq(chan[c])
               p == FlattenSeq(o)
    <3>1. x \in Bytes /\ f \in Bytes /\ p \in Bytes
      BY <1>3, <2>1, <2>2, PartsAre, JoinBytes DEF Streams
    <3>2. Current(c)
      BY <2>1, <2>2 DEF Current, ConnOf
    <3>3. chan'[c] = q /\ out'[c] = o
      BY <1>1, <1>2, <3>2
    <3>4. Whole(s)' = (x \o (f \o h)) \o p
      BY <1>1, <1>3, <2>1, <2>2, <3>3 DEF Whole
    <3>5. Whole(s) = (x \o f) \o (h \o p)
      BY <1>3, <2>1, <2>2 DEF Whole
    <3> HIDE DEF x, f, p
    <3>6. Whole(s)' = Whole(s)
      <4>1. Joint(x, f, h, p) = Apart(x, f, h, p)
        BY <1>3, <3>1, FlowForward
      <4> QED BY <3>4, <3>5, <4>1 DEF Joint, Apart
    <3>7. SentBy(ConnOf(s))' = SentBy(ConnOf(s))
      BY <1>1, <2>1 DEF SentBy
    <3> QED BY <2>1, <3>6, <3>7
  <2>3. CASE ConnOf(s) # c
    <3>1. out'[ConnOf(s)] = out[ConnOf(s)] /\ chan'[ConnOf(s)] = chan[ConnOf(s)]
      BY <1>1, <1>2, <2>1, <2>3
    <3>2. Whole(s)' = Whole(s) /\ SentBy(ConnOf(s))' = SentBy(ConnOf(s))
      BY <1>1, <2>1, <3>1 DEF Whole, SentBy
    <3> QED BY <2>1, <3>2
  <2> QED BY <2>2, <2>3
<1>7. StreamIntact'
  <2>1. \A s \in Socks : ~Open(s)' => buf'[s] = <<>>
    BY <1>1, <1>5, IntactIs DEF Streams
  <2>2. \A e \in Conns : IsPrefix(got[e], SentBy(e))'
    BY <1>1 DEF Streams, StreamIntact, SentBy
  <2> QED BY <1>6, <2>1, <2>2 DEF StreamIntact, Whole
<1>8. Numbered'
  <2>1. \A s \in Socks : Open(s)' => ConnOf(s)' \in 1 .. conns' /\ home'[ConnOf(s)'] = s
    BY <1>1, <1>5 DEF Streams, Numbered
  <2>2. ASSUME NEW e \in conns + 1 .. MaxConns
        PROVE  out'[e] = out[e] /\ chan'[e] = chan[e] /\ feeder'[e] = feeder[e]
    <3>1. e # c /\ e \in Conns
      BY <1>4, SocketAssumption DEF Conns, Streams, TypeOK
    <3> QED BY <1>1, <1>2, <3>1
  <2> QED BY <1>1, <2>1, <2>2 DEF Streams, Numbered
<1>9. EndsEmpty'
  <2>1. ASSUME NEW s \in Socks, Open(s)', feeder'[ConnOf(s)'] \in Ending
        PROVE  out'[ConnOf(s)'] = <<>> /\ ~server'[ConnOf(s)']
    <3>1. Open(s) /\ ConnOf(s)' = ConnOf(s) /\ ConnOf(s) \in Conns
      BY <1>5, <2>1, ConnIs DEF Streams
    <3>2. ConnOf(s) # c
      <4>1. ASSUME ConnOf(s) = c PROVE FALSE
        <5>1. Current(c)
          BY <3>1, <4>1 DEF Current, ConnOf
        <5>2. feeder'[c] = "mark"
          BY <1>1, <1>2, <5>1
        <5> QED BY <2>1, <3>1, <4>1, <5>2 DEF Ending
      <4> QED BY <4>1
    <3>3. feeder'[ConnOf(s)] = feeder[ConnOf(s)] /\ out'[ConnOf(s)] = out[ConnOf(s)]
      BY <1>1, <1>2, <3>1, <3>2
    <3> QED BY <1>1, <2>1, <3>1, <3>3 DEF Streams, EndsEmpty
  <2>2. \A e \in eof : e \in Conns /\ e # c /\ e \in 1 .. conns /\ feeder[e] = "gone"
    BY <1>1 DEF Streams, EndsEmpty, TypeOK
  <2>3. \A e \in Conns : e # c => feeder'[e] = feeder[e]
    BY <1>1, <1>2
  <2> QED BY <1>1, <2>1, <2>2, <2>3 DEF EndsEmpty
<1>10. EofMeansAll'
  BY <1>1 DEF Streams, EofMeansAll, SentBy
<1> QED BY <1>7, <1>8, <1>9, <1>10 DEF Streams

\* What a feeder that ends still had is the end of a socket that is gone.
LEMMA StreamsDrops ==
  ASSUME Streams, TypeOK', NEW c \in Conns, FeederDrops(c)
  PROVE  Streams'
<1>1. /\ feeder[c] = "ended" /\ feeder' = [feeder EXCEPT ![c] = "gone"]
      /\ out' = [out EXCEPT ![c] = <<>>]
      /\ UNCHANGED <<sock, buf, conns, home, inbox, server, sent, quit, got, eof, chan>>
  BY DEF FeederDrops, Goes, unfed
<1>2. /\ out \in [Conns -> Seq(Bytes)] /\ DOMAIN feeder = Conns
  BY DEF Streams, TypeOK
<1>3. /\ \A s \in Socks : (Open(s)' <=> Open(s)) /\ ConnOf(s)' = ConnOf(s)
      /\ \A s \in Socks : Open(s) => ConnOf(s) \in Conns
  BY <1>1, ConnIs DEF Open, ConnOf, Streams
<1>4. \A s \in Socks : Open(s) => out'[ConnOf(s)] = out[ConnOf(s)]
  <2>1. ASSUME NEW s \in Socks, Open(s), ConnOf(s) = c PROVE out[c] = <<>>
    BY <1>1, <2>1 DEF Streams, EndsEmpty, Ending
  <2> QED BY <1>1, <1>2, <1>3, <2>1
<1>5. StreamIntact'
  <2>1. ASSUME NEW s \in Socks, Open(s)' PROVE Whole(s)' = SentBy(ConnOf(s))'
    <3>1. Open(s) /\ ConnOf(s)' = ConnOf(s)
      BY <1>3, <2>1
    <3>2. Whole(s)' = Whole(s) /\ SentBy(ConnOf(s))' = SentBy(ConnOf(s))
      BY <1>1, <1>4, <3>1 DEF Whole, SentBy
    <3> QED BY <3>1, <3>2, IntactIs DEF Streams
  <2>2. \A e \in Conns : IsPrefix(got[e], SentBy(e))'
    BY <1>1 DEF Streams, StreamIntact, SentBy
  <2>3. \A s \in Socks : ~Open(s)' => buf'[s] = <<>>
    BY <1>1, <1>3, IntactIs DEF Streams
  <2> QED BY <2>1, <2>2, <2>3 DEF StreamIntact, Whole
<1>6. Numbered'
  <2>1. \A e \in conns + 1 .. MaxConns : e \in Conns
    BY SocketAssumption DEF Conns, Streams, TypeOK
  <2> QED BY <1>1, <1>2, <1>3, <2>1 DEF Streams, Numbered
<1>7. EndsEmpty'
  <2>1. ASSUME NEW s \in Socks, Open(s)', feeder'[ConnOf(s)'] \in Ending
        PROVE  out'[ConnOf(s)'] = <<>> /\ ~server'[ConnOf(s)']
    <3>1. Open(s) /\ ConnOf(s)' = ConnOf(s) /\ out'[ConnOf(s)] = out[ConnOf(s)]
      BY <1>3, <1>4, <2>1
    <3>2. feeder[ConnOf(s)] \in Ending
      BY <1>1, <1>2, <1>3, <2>1, <3>1 DEF Ending
    <3> QED BY <1>1, <3>1, <3>2 DEF Streams, EndsEmpty
  <2>2. \A e \in eof : e \in 1 .. conns /\ feeder'[e] = "gone"
    BY <1>1, <1>2 DEF Streams, EndsEmpty, TypeOK
  <2> QED BY <1>1, <2>1, <2>2 DEF EndsEmpty
<1>8. EofMeansAll'
  BY <1>1 DEF Streams, EofMeansAll, SentBy
<1> QED BY <1>5, <1>6, <1>7, <1>8 DEF Streams

LEMMA StreamsKept ==
  ASSUME Streams, [Next]_vars
  PROVE  Streams'
<1>1. TypeOK /\ TypeOK'
  BY TypesKept DEF Streams
<1>2. ASSUME UNCHANGED <<net, got, eof>> PROVE Streams'
  BY <1>1, <1>2, StreamsQuiet DEF net
<1>3. ASSUME NEW t \in Threads, NEW k \in CallsOf[t],
             \/ RecvData(t, k) \/ RecvEof(t, k) \/ RecvFails(t, k) \/ RecvWouldBlock(t, k)
             \/ RecvBlocks(t, k) \/ SelectReturns(t, k) \/ SelectFindsNothing(t, k)
             \/ WaitReturns(t, k) \/ WaitFindsNothing(t, k)
      PROVE  Streams'
  <2>1. CASE RecvEof(t, k)
    <3>1. /\ k \in Calls /\ k.op = "recv" /\ Open(k.s) /\ ~HasData(k.s) /\ AtEof(k.s)
          /\ eof' = eof \cup {ConnOf(k.s)} /\ UNCHANGED <<net, got>>
      BY <1>1, <1>3, <2>1, ReadingMoves DEF RecvEof
    <3>2. k.s \in Socks
      BY <3>1, CallIs
    <3> QED BY <1>1, <3>1, <3>2, StreamsEof
  <2> QED BY <1>1, <1>2, <1>3, <2>1, ReadingMoves, StreamsMoved
<1>4. ASSUME NEW t \in Threads, NEW e \in WsaEvents, EnumNetworkEvents(t, e) PROVE Streams'
  BY <1>1, <1>2, <1>4, EnumMoves, StreamsMoved
<1>5. ASSUME NEW t \in Threads, NEW s \in Socks,
             \/ Connect(t, s) \/ CloseSocket(t, s) \/ \E nb \in BOOLEAN : IoctlSocket(t, s, nb)
      PROVE  Streams'
  BY <1>1, <1>5, StreamsConnect, StreamsClose, StreamsIoctl
<1>6. ASSUME NEW t \in Threads, NEW s \in Socks,
             Send(t, s) \/ \E e \in WsaEvents, i \in Interests : WsaEventSelect(t, s, e, i)
      PROVE  Streams'
  <2>1. UNCHANGED <<sock, buf, conns, home, out, chan, sent, got, eof, server, feeder>>
    BY <1>6 DEF Send, WsaEventSelect, net
  <2> QED BY <1>1, <2>1, StreamsQuiet
<1>7. CASE Park \/ EnumClears \/ UNCHANGED vars \/ \E t \in Threads : WakeForMessage(t)
  BY <1>2, <1>7 DEF Park, EnumClears, WakeForMessage, vars
<1>8. ASSUME NEW c \in Conns, NEW ends \in Answers, Serve(c, ends) PROVE Streams'
  <2>1. /\ server[c] /\ UNCHANGED unhandled
        /\ \/ feeder[c] = "gone" /\ server' = [server EXCEPT ![c] = FALSE] /\ UNCHANGED <<out, sent>>
           \/ UNCHANGED <<server, out, sent>>
           \/ /\ feeder[c] # "gone" /\ server' = server
              /\ \E n \in 0 .. MaxBytes, w \in Seq(Bytes) :
                   /\ n >= sent[c] /\ sent' = [sent EXCEPT ![c] = n]
                   /\ out' = [out EXCEPT ![c] = w]
                   /\ FlattenSeq(w) = FlattenSeq(out[c]) \o Run(c, sent[c], n)
    BY <1>1, <1>8, ServeIs
  <2>2. server \in [Conns -> BOOLEAN]
    BY <1>1 DEF TypeOK
  <2>3. UNCHANGED <<sock, buf, conns, home, chan, feeder, got, eof>>
    BY <2>1 DEF unhandled
  <2>4. CASE (server' = [server EXCEPT ![c] = FALSE] \/ server' = server) /\ UNCHANGED <<out, sent>>
    <3>1. \A e \in Conns : server'[e] => server[e]
      BY <2>2, <2>4
    <3> QED BY <1>1, <2>3, <2>4, <3>1, StreamsQuiet
  <2>5. ASSUME feeder[c] # "gone", server' = server, NEW n \in 0 .. MaxBytes, NEW w \in Seq(Bytes),
               n >= sent[c], sent' = [sent EXCEPT ![c] = n], out' = [out EXCEPT ![c] = w],
               FlattenSeq(w) = FlattenSeq(out[c]) \o Run(c, sent[c], n)
        PROVE  Streams'
    BY <1>1, <2>1, <2>3, <2>5, StreamsServe
  <2> QED BY <2>1, <2>4, <2>5
<1>9. ASSUME NEW c \in Conns,
             \/ Quit(c) \/ HandlerEnds(c) \/ MarkRead(c) \/ FeederWakesSocket(c)
             \/ FeederListsEvents(c) \/ FeederWakesEvents(c) \/ FeederSeesEnd(c)
      PROVE  Streams'
  <2>1. server \in [Conns -> BOOLEAN] /\ DOMAIN feeder = Conns
    BY <1>1 DEF TypeOK
  <2>2. UNCHANGED <<sock, buf, conns, home, out, chan, sent, got, eof>>
    BY <1>9 DEF Quit, HandlerEnds, MarkRead, FeederWakesSocket, FeederListsEvents,
                FeederWakesEvents, FeederSeesEnd, unhandled, unfed
  <2>3. CASE Quit(c) \/ HandlerEnds(c)
    <3>1. server' = [server EXCEPT ![c] = FALSE] /\ feeder' = feeder
      BY <2>3 DEF Quit, HandlerEnds, unhandled
    <3> QED BY <1>1, <2>1, <2>2, <3>1, StreamsQuiet
  <2>4. CASE MarkRead(c) \/ FeederWakesSocket(c) \/ FeederListsEvents(c) \/ FeederWakesEvents(c)
             \/ FeederSeesEnd(c)
    <3>1. /\ server' = server
          /\ \/ feeder[c] = "mark" /\ feeder' = [feeder EXCEPT ![c] = "wakeSock"]
             \/ feeder[c] = "wakeSock" /\ feeder' = [feeder EXCEPT ![c] = "wakeEvents"]
             \/ feeder[c] = "endWake" /\ feeder' = [feeder EXCEPT ![c] = "endMark"]
             \/ feeder[c] = "endMark" /\ feeder' = [feeder EXCEPT ![c] = "endEvents"]
             \/ feeder[c] = "wakeEvents" /\ feeder' = [feeder EXCEPT ![c] = "recv"]
             \/ feeder[c] = "endEvents" /\ feeder' = [feeder EXCEPT ![c] = "ended"]
             \/ /\ feeder[c] = "recv" /\ feeder' = [feeder EXCEPT ![c] = "endWake"]
                /\ out[c] = <<>> /\ ~server[c]
      BY <2>4 DEF MarkRead, FeederWakesSocket, FeederListsEvents, FeederWakesEvents,
                  FeederSeesEnd, Goes, unfed
    <3>2. /\ feeder[c] # "gone"
          /\ feeder'[c] \in Ending => feeder[c] \in Ending \/ (out[c] = <<>> /\ ~server'[c])
          /\ \A e \in Conns : e # c => feeder'[e] = feeder[e]
      BY <2>1, <3>1 DEF Ending
    <3> QED BY <1>1, <2>2, <3>1, <3>2, StreamsQuiet
  <2> QED BY <1>9, <2>3, <2>4
<1>10. ASSUME NEW c \in Conns, Forward(c) \/ FeederDrops(c) PROVE Streams'
  BY <1>1, <1>10, StreamsForward, StreamsDrops
<1> QED BY StepIs, <1>3, <1>4, <1>5, <1>6, <1>7, <1>8, <1>9, <1>10, Zenon

LEMMA StreamsStart == Init => Streams
<1> SUFFICES ASSUME Init PROVE Streams
  OBVIOUS
<1>1. TypeOK
  BY TypesStart
<1>2. \A s \in Socks : ~Open(s)
  BY DEF Init, Open, Fresh
<1>3. \A c \in Conns : got[c] = <<>> /\ SentBy(c) = <<>>
  <2>1. ASSUME NEW c \in Conns PROVE SentBy(c) = <<>>
    <3>1. SentBy(c) = [i \in 1 .. 0 |-> Byte(c, i)]
      BY DEF Init, SentBy
    <3> QED BY <3>1
  <2> QED BY <2>1 DEF Init
<1>4. IsPrefix(<<>>, <<>>)
  BY DEF IsPrefix
<1>5. StreamIntact
  <2>1. \A s \in Socks : buf[s] = <<>>
    BY DEF Init
  <2> QED BY <1>2, <1>3, <1>4, <2>1, IntactIs
<1>6. EofMeansAll /\ EndsEmpty
  BY <1>2 DEF Init, EofMeansAll, EndsEmpty
<1>7. Numbered
  <2>1. \A c \in conns + 1 .. MaxConns : c \in Conns
    BY SocketAssumption DEF Init, Conns
  <2> QED BY <1>2, <2>1 DEF Init, Numbered
<1> QED BY <1>1, <1>5, <1>6, <1>7 DEF Streams

\* The types of the variables.
THEOREM SocketTypes == Spec => []TypeOK
<1>1. Init => TypeOK
  BY TypesStart
<1>2. TypeOK /\ [Next]_vars => TypeOK'
  BY TypesKept
<1> QED BY <1>1, <1>2, PTL DEF Spec

\* The guest receives what the handler sent, in order, whole, nothing of an earlier
\* connection, and the end of the stream when it has all of it: recv, WSARecv, MSG_PEEK,
\* select, the waits and WSAEnumNetworkEvents lose and double nothing, for any number of
\* threads, sockets, connections and bytes.
THEOREM StreamsAreIntact == Spec => []StreamsIntact
<1>1. Init => Streams
  BY StreamsStart
<1>2. Streams /\ [Next]_vars => Streams'
  BY StreamsKept
<1>3. Streams => StreamsIntact
  BY DEF Streams, StreamsIntact
<1> QED BY <1>1, <1>2, <1>3, PTL DEF Spec

----------------------------------------------------------------------------
(* No thread sleeps on data. *)

AtWork(s) == FeederAt(s, {"mark", "wakeSock"})

\* One thread's part of the invariant.
Fine(t) ==
  /\ Parked(t) => waitS[t] = SocksOf(call[t]) /\ waitH[t] = EventsOf(call[t])
  /\ t \notin unwoken /\ (Parked(t) \/ Parking(t)) => Attended(t)

LEMMA FineIs == Waits <=> TypeOK /\ \A t \in Threads : Fine(t)
BY DEF Waits, Registered, SleepersAttended, Fine

\* A step that another takes, and what it must not do to what a thread waits for.
Same(t) ==
  /\ call'[t] = call[t] /\ waitS'[t] = waitS[t] /\ waitH'[t] = waitH[t]
  /\ Parked(t)' => Parked(t)
  /\ Parking(t)' => Parking(t)
  /\ Parked(t)' \/ Parking(t)' => (t \in unwoken => t \in unwoken')
Calm(t) ==
  /\ \A s \in Socks : call[t].op \in {"recv", "wsarecv"} /\ call[t].s = s =>
       /\ HasData(s)' => HasData(s) \/ AtWork(s)'
       /\ AtWork(s) => AtWork(s)'
  /\ \A e \in WsaEvents, s \in Socks :
       call[t].op = "wait" /\ call[t].e = e
         /\ wsa'[e] # NoEntry /\ "read" \in wsa'[e].interest /\ wsa'[e].sock = s =>
           /\ wsa[e] # NoEntry /\ "read" \in wsa[e].interest /\ wsa[e].sock = s
           /\ HasData(s)' => HasData(s) \/ Announced(e, s)'
           /\ Announced(e, s) => Announced(e, s)'

LEMMA WaiterCalls ==
  ASSUME TypeOK, NEW t \in Threads, Parked(t) \/ Parking(t)
  PROVE  call[t] \in Calls
<1>1. CASE Parked(t)
  BY <1>1 DEF TypeOK, Parked
<1>2. CASE Parking(t)
  BY <1>2 DEF TypeOK, Parking, Idle
<1> QED BY <1>1, <1>2

LEMMA AttendedIs ==
  ASSUME TypeOK, NEW t \in Threads, call[t] \in Calls
  PROVE  Attended(t) <=>
           /\ \A s \in Socks : call[t].op \in {"recv", "wsarecv"} /\ call[t].s = s =>
                (HasData(s) => AtWork(s))
           /\ \A e \in WsaEvents, s \in Socks :
                call[t].op = "wait" /\ call[t].e = e
                  /\ wsa[e] # NoEntry /\ "read" \in wsa[e].interest /\ wsa[e].sock = s =>
                  (HasData(s) => Announced(e, s))
<1>1. call[t].op \in {"recv", "wsarecv"} => call[t].s \in Socks
  BY CallIs
<1>2. call[t].op = "wait" => call[t].e \in WsaEvents /\ (wsa[call[t].e] # NoEntry => wsa[call[t].e].sock \in Socks)
  <2>1. call[t].op = "wait" => call[t].e \in WsaEvents
    BY CallIs
  <2>2. \A e \in WsaEvents : wsa[e] # NoEntry => wsa[e] \in Entries
    BY DEF TypeOK
  <2>3. \A x \in Entries : x.sock \in Socks
    BY DEF Entries
  <2> QED BY <2>1, <2>2, <2>3
<1> QED BY <1>1, <1>2 DEF Attended, AtWork

LEMMA FineKept ==
  ASSUME TypeOK, TypeOK', NEW t \in Threads, Fine(t), Same(t),
         t \notin unwoken' /\ (Parked(t)' \/ Parking(t)') => Calm(t)
  PROVE  Fine(t)'
<1>1. Parked(t)' => waitS'[t] = SocksOf(call[t])' /\ waitH'[t] = EventsOf(call[t])'
  BY DEF Fine, Same, SocksOf, EventsOf
<1>2. ASSUME t \notin unwoken', Parked(t)' \/ Parking(t)' PROVE Attended(t)'
  <2>1. Attended(t) /\ Calm(t) /\ call[t] \in Calls /\ call'[t] = call[t]
    BY <1>2, WaiterCalls DEF Same, Fine
  <2>2. /\ \A s \in Socks : call[t].op \in {"recv", "wsarecv"} /\ call[t].s = s =>
             (HasData(s) => AtWork(s))
        /\ \A e \in WsaEvents, s \in Socks :
             call[t].op = "wait" /\ call[t].e = e
               /\ wsa[e] # NoEntry /\ "read" \in wsa[e].interest /\ wsa[e].sock = s =>
               (HasData(s) => Announced(e, s))
    BY <2>1, AttendedIs
  <2>3. /\ \A s \in Socks : call'[t].op \in {"recv", "wsarecv"} /\ call'[t].s = s =>
             (HasData(s)' => AtWork(s)')
        /\ \A e \in WsaEvents, s \in Socks :
             call'[t].op = "wait" /\ call'[t].e = e
               /\ wsa'[e] # NoEntry /\ "read" \in wsa'[e].interest /\ wsa'[e].sock = s =>
               (HasData(s)' => Announced(e, s)')
    BY <2>1, <2>2 DEF Calm
  <2>4. call'[t] \in Calls /\ wsa' \in [WsaEvents -> Entries \cup {NoEntry}]
    BY <2>1 DEF TypeOK
  <2>5. call'[t].op \in {"recv", "wsarecv"} =>
          (HasData(call[t].s) => FeederAt(call[t].s, {"mark", "wakeSock"}))'
    <3> SUFFICES ASSUME call'[t].op \in {"recv", "wsarecv"}
                 PROVE  (HasData(call[t].s) => FeederAt(call[t].s, {"mark", "wakeSock"}))'
      OBVIOUS
    <3>1. PICK s \in Socks : call'[t].s = s
      BY <2>4, CallIs
    <3>2. HasData(s)' => AtWork(s)'
      BY <2>3, <3>1
    <3> QED BY <3>1, <3>2 DEF AtWork, FeederAt, HasData, Open, ChanOf, ConnOf
  <2>6. call'[t].op = "wait" =>
          (LET entry == wsa[call[t].e]
           IN  entry # NoEntry /\ "read" \in entry.interest /\ HasData(entry.sock)
                 => Announced(call[t].e, entry.sock))'
    <3> SUFFICES ASSUME call'[t].op = "wait", wsa'[call'[t].e] # NoEntry,
                        "read" \in wsa'[call'[t].e].interest, HasData(wsa[call[t].e].sock)'
                 PROVE  Announced(call[t].e, wsa[call[t].e].sock)'
      OBVIOUS
    <3>1. PICK e \in WsaEvents : call'[t].e = e
      BY <2>4, CallIs
    <3>2. wsa'[e] \in Entries
      BY <2>4, <3>1
    <3>3. PICK s \in Socks : wsa'[e].sock = s
      BY <3>2 DEF Entries
    <3>4. HasData(s)'
      BY <3>1, <3>3 DEF HasData, Open, ChanOf, ConnOf
    <3>5. Announced(e, s)'
      BY <2>3, <3>1, <3>3, <3>4
    <3> QED BY <3>1, <3>3, <3>5 DEF Announced
  <2> QED BY <2>5, <2>6 DEF Attended
<1> QED BY <1>1, <1>2 DEF Fine

\* Steps that bring no data and leave the feeders where they are.
EntriesLast ==
  \A e \in WsaEvents : wsa'[e] # NoEntry =>
    wsa[e] # NoEntry /\ wsa'[e].sock = wsa[e].sock /\ wsa'[e].interest = wsa[e].interest
NoNewData == \A s \in Socks : HasData(s)' => HasData(s)

LEMMA QuietCalm ==
  ASSUME EntriesLast, NoNewData, UNCHANGED <<home, feeder, toWake>>, NEW t
  PROVE  Calm(t)
<1>1. \A s : AtWork(s)' <=> AtWork(s)
  BY DEF AtWork, FeederAt
<1>2. \A e, s : Announced(e, s)' <=> Announced(e, s)
  BY DEF Announced
<1>3. \A s \in Socks : HasData(s)' => HasData(s)
  BY DEF NoNewData
<1> HIDE DEF HasData, AtWork, Announced
<1> QED BY <1>1, <1>2, <1>3 DEF Calm, EntriesLast

LEMMA SameData ==
  ASSUME UNCHANGED <<sock, buf, chan>>
  PROVE  NoNewData
BY DEF NoNewData, HasData, Open, ChanOf, ConnOf

LEMMA MovedData ==
  ASSUME Streams, NEW s \in Socks, Moved(s)
  PROVE  NoNewData
<1> DEFINE c == ConnOf(s)
<1>1. PICK b \in Bytes, q \in Seq(Bytes) :
        /\ buf' = [buf EXCEPT ![s] = b] /\ chan' = [chan EXCEPT ![c] = q]
        /\ ~HasData(s) => b = <<>> /\ q = <<>>
  BY DEF Moved
<1>2. Open(s) /\ sock' = sock /\ c \in Conns
  BY ConnIs DEF Moved, Streams
<1>3. buf \in [Socks -> Bytes] /\ chan \in [Conns -> Seq(Bytes)]
  BY DEF Streams, TypeOK
<1>4. ASSUME NEW r \in Socks, HasData(r)' PROVE HasData(r)
  <2>1. Open(r) /\ ConnOf(r) \in Conns /\ (buf'[r] # <<>> \/ chan'[ConnOf(r)] # <<>>)
    <3>1. Open(r) /\ (buf'[r] # <<>> \/ chan'[ConnOf(r)] # <<>>)
      BY <1>2, <1>4 DEF HasData, Open, ChanOf, ConnOf
    <3> QED BY <3>1, ConnIs DEF Streams
  <2>2. CASE r = s
    BY <1>1, <1>2, <1>3, <2>1, <2>2
  <2>3. CASE r # s
    <3>1. ConnOf(r) # c
      BY <1>2, <2>1, <2>3 DEF Streams, Numbered
    <3>2. buf'[r] = buf[r] /\ chan'[ConnOf(r)] = chan[ConnOf(r)]
      BY <1>1, <1>3, <2>1, <2>3, <3>1
    <3> QED BY <2>1, <3>2 DEF HasData, ChanOf
  <2> QED BY <2>2, <2>3
<1> QED BY <1>4 DEF NoNewData

LEMMA PendingLasts ==
  ASSUME TypeOK, NEW es \in SUBSET WsaEvents, NEW kind \in {"connect", "read"},
         \A e \in es : wsa[e] # NoEntry, wsa' = Pending(es, kind)
  PROVE  EntriesLast
<1>1. wsa \in [WsaEvents -> Entries \cup {NoEntry}]
  BY DEF TypeOK
<1> QED BY <1>1, PendingTypes DEF EntriesLast

\* A call of a thread is another thread's quiet step.
LEMMA OthersFine ==
  ASSUME Waits, TypeOK', EntriesLast, NoNewData, UNCHANGED <<home, feeder, toWake>>,
         NEW u \in Threads, mid = Idle, mid' = Idle \/ mid'.t = u, ready' \subseteq ready \cup {u},
         ready \subseteq ready' \cup {u}, unwoken \subseteq unwoken' \cup {u},
         \A t \in Threads : t # u =>
           call'[t] = call[t] /\ waitS'[t] = waitS[t] /\ waitH'[t] = waitH[t],
         Fine(u)'
  PROVE  Waits'
<1>1. ASSUME NEW t \in Threads, t # u PROVE Fine(t)'
  <2>1. Parked(t)' => Parked(t)
    BY <1>1, SocketAssumption DEF Parked, Idle
  <2>2. ~Parking(t)'
    BY <1>1 DEF Parking, Idle
  <2>3. Same(t)
    BY <1>1, <2>1, <2>2 DEF Same
  <2>4. Calm(t)
    BY QuietCalm
  <2>5. Fine(t) /\ TypeOK
    BY FineIs
  <2> QED BY <2>3, <2>4, <2>5, FineKept
<1>2. \A t \in Threads : Fine(t)'
  BY <1>1
<1> QED BY <1>2 DEF Waits, Registered, SleepersAttended, Fine

LEMMA ReturnsFine ==
  ASSUME TypeOK, NEW u \in Threads, mid = Idle, Return(u) \/ ReturnError(u)
  PROVE  /\ Fine(u)' /\ mid' = Idle /\ ready' \subseteq ready \cup {u} /\ ready \subseteq ready' \cup {u}
         /\ unwoken \subseteq unwoken' \cup {u}
         /\ \A t \in Threads : t # u =>
              call'[t] = call[t] /\ waitS'[t] = waitS[t] /\ waitH'[t] = waitH[t]
<1>1. /\ call \in [Threads -> Calls \cup {NoCall}] /\ DOMAIN waitS = Threads /\ DOMAIN waitH = Threads
  BY DEF TypeOK
<1>2. /\ call' = [call EXCEPT ![u] = NoCall] /\ mid' = mid
      /\ ready' \in {ready, ready \cup {u}} /\ unwoken' \in {unwoken, unwoken \ {u}}
      /\ waitS' \in {waitS, [waitS EXCEPT ![u] = {}]} /\ waitH' \in {waitH, [waitH EXCEPT ![u] = {}]}
  BY DEF Return, ReturnError
<1>3. ~Parked(u)' /\ ~Parking(u)'
  BY <1>1, <1>2 DEF Parked, Parking, Idle
<1>4. Fine(u)'
  BY <1>3 DEF Fine
<1> QED BY <1>1, <1>2, <1>4

\* A thread that goes to sleep has looked.
LEMMA SleepsFine ==
  ASSUME TypeOK, TypeOK', NEW u \in Threads, mid = Idle, NEW k \in Calls, GoToSleep(u, k),
         UNCHANGED <<sock, buf, chan, wsa>>,
         k.op \in {"recv", "wsarecv"} => ~HasData(k.s),
         k.op = "wait" => ~Signaled(k.e)
  PROVE  /\ Fine(u)' /\ mid'.t = u /\ ready' \subseteq ready \cup {u} /\ ready \subseteq ready' \cup {u}
         /\ unwoken \subseteq unwoken' \cup {u}
         /\ \A t \in Threads : t # u =>
              call'[t] = call[t] /\ waitS'[t] = waitS[t] /\ waitH'[t] = waitH[t]
<1>1. call \in [Threads -> Calls \cup {NoCall}]
  BY DEF TypeOK
<1>2. /\ call' = [call EXCEPT ![u] = k] /\ mid' = [t |-> u, at |-> "park"]
      /\ unwoken' = unwoken \ {u} /\ UNCHANGED <<ready, waitS, waitH>>
  BY DEF GoToSleep
<1>3. ~Parked(u)' /\ call'[u] = k
  BY <1>1, <1>2 DEF Parked
<1>4. Attended(u)'
  <2>1. k.op \in {"recv", "wsarecv"} => ~HasData(k.s)'
    BY DEF HasData, Open, ChanOf, ConnOf
  <2>2. k.op = "wait" => wsa'[k.e] = NoEntry \/ ~HasData(wsa[k.e].sock)'
    BY DEF HasData, Open, ChanOf, ConnOf, Signaled, Readable
  <2> QED BY <1>3, <2>1, <2>2 DEF Attended, HasData, Open, ChanOf, ConnOf
<1>5. Fine(u)'
  BY <1>3, <1>4 DEF Fine
<1> QED BY <1>1, <1>2, <1>5

LEMMA WaitsCalls ==
  ASSUME Waits, Streams, TypeOK', NEW u \in Threads, NEW k \in CallsOf[u],
         \/ RecvData(u, k) \/ RecvEof(u, k) \/ RecvFails(u, k) \/ RecvWouldBlock(u, k)
         \/ RecvBlocks(u, k) \/ SelectReturns(u, k) \/ SelectFindsNothing(u, k)
         \/ WaitReturns(u, k) \/ WaitFindsNothing(u, k)
  PROVE  Waits'
<1>1. /\ TypeOK /\ k \in Calls /\ mid = Idle
      /\ (\E s \in Socks : Moved(s)) \/ UNCHANGED <<net, got, eof>> \/ RecvEof(u, k)
  BY ReadingMoves DEF Waits
<1>2. NoNewData /\ UNCHANGED <<home, feeder, toWake>>
  <2>1. CASE \E s \in Socks : Moved(s)
    BY <2>1, MovedData DEF Moved
  <2>2. CASE UNCHANGED net
    BY <2>2, SameData DEF net
  <2> QED BY <1>1, <2>1, <2>2 DEF RecvEof
<1>3. EntriesLast
  <2>1. CASE wsa' = wsa
    BY <2>1 DEF EntriesLast
  <2>2. CASE WaitReturns(u, k) /\ wsa' # wsa
    <3>1. wsa' = Pending({k.e}, "read") /\ wsa[k.e] # NoEntry /\ k.op = "wait"
      BY <2>2 DEF WaitReturns, Signaled
    <3>2. k.e \in WsaEvents
      BY <1>1, <3>1, CallIs
    <3> QED BY <1>1, <3>1, <3>2, PendingLasts
  <2>3. wsa' = wsa \/ WaitReturns(u, k)
    BY DEF RecvData, RecvEof, RecvFails, RecvWouldBlock, RecvBlocks, SelectReturns,
           SelectFindsNothing, WaitFindsNothing
  <2> QED BY <2>1, <2>2, <2>3
<1>4. CASE Return(u) \/ ReturnError(u)
  <2>1. /\ Fine(u)' /\ mid' = Idle /\ ready' \subseteq ready \cup {u} /\ ready \subseteq ready' \cup {u}
        /\ unwoken \subseteq unwoken' \cup {u}
        /\ \A t \in Threads : t # u =>
             call'[t] = call[t] /\ waitS'[t] = waitS[t] /\ waitH'[t] = waitH[t]
    BY <1>1, <1>4, ReturnsFine
  <2> QED BY <1>1, <1>2, <1>3, <2>1, OthersFine
<1>5. CASE GoToSleep(u, k)
           /\ (RecvBlocks(u, k) \/ SelectFindsNothing(u, k) \/ WaitFindsNothing(u, k))
  <2>1. UNCHANGED <<sock, buf, chan, wsa>>
    BY <1>5 DEF RecvBlocks, SelectFindsNothing, WaitFindsNothing, net
  <2>2. /\ k.op \in {"recv", "wsarecv"} => ~HasData(k.s)
        /\ k.op = "wait" => ~Signaled(k.e)
    <3>1. CASE RecvBlocks(u, k)
      BY <3>1 DEF RecvBlocks, Receives, Nothing
    <3>2. CASE SelectFindsNothing(u, k)
      BY <3>2 DEF SelectFindsNothing
    <3>3. CASE WaitFindsNothing(u, k)
      BY <3>3 DEF WaitFindsNothing
    <3> QED BY <1>5, <3>1, <3>2, <3>3
  <2>3. /\ Fine(u)' /\ mid'.t = u /\ ready' \subseteq ready \cup {u} /\ ready \subseteq ready' \cup {u}
        /\ unwoken \subseteq unwoken' \cup {u}
        /\ \A t \in Threads : t # u =>
             call'[t] = call[t] /\ waitS'[t] = waitS[t] /\ waitH'[t] = waitH[t]
    BY <1>1, <1>5, <2>1, <2>2, SleepsFine
  <2> QED BY <1>1, <1>2, <1>3, <2>3, OthersFine
<1>6. \/ Return(u) \/ ReturnError(u)
      \/ GoToSleep(u, k) /\ (RecvBlocks(u, k) \/ SelectFindsNothing(u, k) \/ WaitFindsNothing(u, k))
  BY DEF RecvData, RecvEof, RecvFails, RecvWouldBlock, RecvBlocks, SelectReturns,
         SelectFindsNothing, WaitReturns, WaitFindsNothing
<1> QED BY <1>4, <1>5, <1>6

\* Steps that change no thread's call.
LEMMA WaitsQuiet ==
  ASSUME Waits, TypeOK', UNCHANGED <<call, waitS, waitH, mid>>, ready \subseteq ready',
         \A t \in Threads : t \in unwoken /\ t \notin unwoken' => t \in ready' /\ ~Parking(t),
         \A t \in Threads : t \notin unwoken' /\ (Parked(t)' \/ Parking(t)') => Calm(t)
  PROVE  Waits'
<1>1. ASSUME NEW t \in Threads PROVE Fine(t)'
  <2>1. Same(t)
    BY DEF Same, Parked, Parking
  <2>2. Fine(t) /\ TypeOK
    BY FineIs
  <2> QED BY <2>1, <2>2, FineKept
<1> QED BY <1>1 DEF Waits, Registered, SleepersAttended, Fine

LEMMA WaitsEnum ==
  ASSUME Waits, Streams, TypeOK', NEW u \in Threads, NEW e \in WsaEvents, EnumNetworkEvents(u, e)
  PROVE  Waits'
<1>1. /\ mid = Idle /\ mid' = [t |-> u, at |-> "clear", e |-> e] /\ UNCHANGED <<guest, wsa>>
      /\ call[u] = NoCall
  BY DEF EnumNetworkEvents, Calling, MayRun
<1>2. (\E s \in Socks : Moved(s)) \/ UNCHANGED <<net, got, eof>>
  BY EnumMoves DEF Waits
<1>3. NoNewData /\ UNCHANGED <<home, feeder, toWake>>
  <2>1. CASE \E s \in Socks : Moved(s)
    BY <2>1, MovedData DEF Moved
  <2>2. CASE UNCHANGED net
    BY <2>2, SameData DEF net
  <2> QED BY <1>2, <2>1, <2>2
<1>4. EntriesLast
  BY <1>1 DEF EntriesLast
<1>5. Fine(u)'
  BY <1>1 DEF Fine, Parked, Parking, guest
<1> QED BY <1>1, <1>3, <1>4, <1>5, OthersFine DEF guest

LEMMA WaitsPark ==
  ASSUME Waits, TypeOK', Park
  PROVE  Waits'
<1>1. mid.at = "park" /\ mid' = Idle /\ UNCHANGED <<net, call, unwoken, wsa>>
  BY DEF Park
<1>2. TypeOK /\ mid \in [t : Threads, at : {"park"}] /\ call[mid.t] # NoCall
  BY <1>1 DEF Waits, TypeOK, Idle
<1>3. PICK u \in Threads : u = mid.t
  BY <1>2
<1>4. /\ ready' = ready \ {u}
      /\ waitS' = [waitS EXCEPT ![u] = SocksOf(call[u])]
      /\ waitH' = [waitH EXCEPT ![u] = EventsOf(call[u])]
  BY <1>3 DEF Park
<1>5. DOMAIN waitS = Threads /\ DOMAIN waitH = Threads
  BY <1>2 DEF TypeOK
<1>6. EntriesLast /\ NoNewData /\ UNCHANGED <<home, feeder, toWake>>
  BY <1>1, SameData DEF EntriesLast, net
<1>7. ASSUME NEW t \in Threads, t # u PROVE Fine(t)'
  <2>1. (Parked(t)' => Parked(t)) /\ ~Parking(t)'
    BY <1>1, <1>3, <1>4, <1>7 DEF Parked, Parking, Idle
  <2>2. Same(t)
    BY <1>1, <1>4, <1>5, <1>7, <2>1 DEF Same
  <2>3. Fine(t) /\ TypeOK /\ Calm(t)
    BY <1>6, FineIs, QuietCalm
  <2> QED BY <2>2, <2>3, FineKept
<1>8. Fine(u)'
  <2>1. waitS'[u] = SocksOf(call'[u]) /\ waitH'[u] = EventsOf(call'[u])
    BY <1>1, <1>4, <1>5
  <2>2. Parking(u) /\ ~Parking(u)'
    BY <1>1, <1>3 DEF Parking, Idle
  <2>3. u \notin unwoken' => Attended(u)
    BY <1>1, <2>2, FineIs DEF Fine
  <2>4. Attended(u) => Attended(u)'
    BY <1>1 DEF Attended, HasData, Open, ChanOf, ConnOf, FeederAt, Announced, net
  <2> QED BY <2>1, <2>2, <2>3, <2>4 DEF Fine, SocksOf, EventsOf
<1>9. \A t \in Threads : Fine(t)'
  BY <1>7, <1>8
<1> QED BY <1>9 DEF Waits, Registered, SleepersAttended, Fine

LEMMA WaitsClears ==
  ASSUME Waits, TypeOK', EnumClears
  PROVE  Waits'
<1>1. /\ mid.at = "clear" /\ mid' = Idle /\ UNCHANGED <<net, guest>>
      /\ wsa' = [wsa EXCEPT ![mid.e].pending = {}]
  BY DEF EnumClears
<1>2. /\ TypeOK /\ mid.t \in Threads /\ mid.e \in WsaEvents /\ call[mid.t] = NoCall
      /\ wsa[mid.e] # NoEntry /\ wsa \in [WsaEvents -> Entries \cup {NoEntry}]
  BY <1>1 DEF Waits, TypeOK, Idle
<1>3. EntriesLast
  <2> DEFINE x == wsa[mid.e]
             y == [x EXCEPT !.pending = {}]
  <2>1. y.sock = x.sock /\ y.interest = x.interest
    <3>1. x \in Entries
      BY <1>2
    <3> HIDE DEF x
    <3> QED BY <3>1 DEF Entries
  <2>2. wsa' = [wsa EXCEPT ![mid.e] = y]
    BY <1>1
  <2>3. \A e \in WsaEvents : wsa'[e] = IF e = mid.e THEN y ELSE wsa[e]
    BY <1>2, <2>2
  <2> HIDE DEF y
  <2> QED BY <1>2, <2>1, <2>3 DEF EntriesLast
<1>4. NoNewData /\ UNCHANGED <<home, feeder, toWake>>
  BY <1>1, SameData DEF net
<1>5. ASSUME NEW t \in Threads PROVE Fine(t)'
  <2>1. (Parked(t)' => Parked(t)) /\ ~Parking(t)'
    BY <1>1, <1>2 DEF Parked, Parking, Idle, guest
  <2>2. Same(t)
    BY <1>1, <2>1 DEF Same, guest
  <2>3. Fine(t) /\ Calm(t)
    BY <1>3, <1>4, FineIs, QuietCalm
  <2> QED BY <1>2, <2>2, <2>3, FineKept
<1> QED BY <1>5 DEF Waits, Registered, SleepersAttended, Fine

LEMMA DropData ==
  ASSUME Streams, NEW s \in Socks, Drop(s), NEW r \in Socks, r # s, sock'[r] = sock[r], HasData(r)'
  PROVE  HasData(r)
<1>1. Open(r) /\ ConnOf(r)' = ConnOf(r) /\ (buf'[r] # <<>> \/ chan'[ConnOf(r)] # <<>>)
  BY DEF Open, ConnOf, HasData, ChanOf
<1>2. ConnOf(r) \in Conns
  BY <1>1, ConnIs DEF Streams
<1>3. buf'[r] = buf[r] /\ (chan[ConnOf(r)] = <<>> => chan'[ConnOf(r)] = <<>>)
  BY <1>2, DropIs
<1> QED BY <1>1, <1>3 DEF HasData, ChanOf

\* What waking does to the threads that a missed wake-up has excused.
LEMMA WakesIs ==
  ASSUME NEW woken, NEW missed, Wakes(woken, missed)
  PROVE  /\ ready \subseteq ready' /\ woken \subseteq ready' /\ missed \subseteq unwoken'
         /\ \A t \in Threads : t \in unwoken /\ t \notin unwoken' => t \in ready' /\ ~Parking(t)
BY DEF Wakes

LEMMA WaitsConnect ==
  ASSUME Waits, Streams, TypeOK', NEW u \in Threads, NEW s \in Socks, Connect(u, s)
  PROVE  Waits'
<1> DEFINE c == conns + 1
           nb == IF sock[s] = NoSock THEN FALSE ELSE sock[s].nb
           es == Watching(s, "connect")
<1>1. /\ conns < MaxConns /\ sock' = [sock EXCEPT ![s] = [conn |-> c, nb |-> nb]]
      /\ home' = [home EXCEPT ![c] = s] /\ feeder' = [feeder EXCEPT ![c] = "recv"] /\ Drop(s)
      /\ wsa' = Pending(es, "connect") /\ WakeEvents(es)
      /\ UNCHANGED <<toWake, call, waitS, waitH, mid>>
  BY DEF Connect
<1>2. c \in Conns /\ c \in conns + 1 .. MaxConns /\ TypeOK
  BY <1>1, SocketAssumption DEF Streams, TypeOK, Conns
<1>3. feeder[c] = "gone" /\ chan[c] = <<>>
  BY <1>2 DEF Streams, Numbered
<1>4. DOMAIN sock = Socks /\ DOMAIN home = Conns /\ DOMAIN feeder = Conns
  BY <1>2 DEF TypeOK
<1>5. EntriesLast
  <2>1. es \in SUBSET WsaEvents /\ \A e \in es : wsa[e] # NoEntry
    BY WatchingIs
  <2> HIDE DEF es
  <2> QED BY <1>1, <1>2, <2>1, PendingLasts
<1> HIDE DEF c, nb, es
<1>6. NoNewData
  <2>1. ~HasData(s)'
    <3>1. buf'[s] = <<>> /\ chan'[c] = <<>>
      BY <1>1, <1>2, <1>3, DropIs
    <3>2. sock'[s].conn = c
      BY <1>1, <1>4
    <3> QED BY <3>1, <3>2 DEF HasData, ChanOf, ConnOf
  <2>2. ASSUME NEW r \in Socks, r # s, HasData(r)' PROVE HasData(r)
    <3>1. sock'[r] = sock[r]
      BY <1>1, <1>4, <2>2
    <3> QED BY <1>1, <2>2, <3>1, DropData
  <2> QED BY <2>1, <2>2 DEF NoNewData
<1>7. \A r : AtWork(r) => AtWork(r)'
  <2>1. \A d \in Conns : feeder[d] \in {"mark", "wakeSock"} => d # c
    BY <1>3
  <2> QED BY <1>1, <1>4, <2>1 DEF AtWork, FeederAt
<1>8. \A e, r : Announced(e, r) => Announced(e, r)'
  <2>1. \A d \in Conns : feeder[d] \in {"mark", "wakeSock", "wakeEvents"} => d # c
    BY <1>3
  <2> QED BY <1>1, <1>4, <2>1 DEF Announced
<1>9. \A t : Calm(t)
  <2> HIDE DEF HasData, AtWork, Announced
  <2> QED BY <1>5, <1>6, <1>7, <1>8 DEF Calm, EntriesLast, NoNewData
<1>10. /\ ready \subseteq ready'
       /\ \A t \in Threads : t \in unwoken /\ t \notin unwoken' => t \in ready' /\ ~Parking(t)
  BY <1>1, WakesIs DEF WakeEvents
<1> QED BY <1>1, <1>9, <1>10, WaitsQuiet

LEMMA WaitsSockets ==
  ASSUME Waits, Streams, TypeOK', NEW u \in Threads, NEW s \in Socks,
         CloseSocket(u, s) \/ Send(u, s) \/ \E nb \in BOOLEAN : IoctlSocket(u, s, nb)
  PROVE  Waits'
<1>1. UNCHANGED <<home, feeder, toWake, guest, wsa, mid>>
  BY DEF CloseSocket, Send, IoctlSocket
<1>2. NoNewData
  <2>1. CASE CloseSocket(u, s)
    <3>1. sock' = [sock EXCEPT ![s] = NoSock] /\ Drop(s) /\ DOMAIN sock = Socks
      BY <2>1 DEF CloseSocket, Streams, TypeOK
    <3>2. ~HasData(s)'
      BY <3>1 DEF HasData, Open
    <3>3. ASSUME NEW r \in Socks, r # s, HasData(r)' PROVE HasData(r)
      <4>1. sock'[r] = sock[r]
        BY <3>1, <3>3
      <4> QED BY <3>1, <3>3, <4>1, DropData
    <3> QED BY <3>2, <3>3 DEF NoNewData
  <2>2. CASE Send(u, s)
    BY <2>2, SameData DEF Send
  <2>3. ASSUME NEW nb \in BOOLEAN, IoctlSocket(u, s, nb) PROVE NoNewData
    <3>1. /\ sock' = [sock EXCEPT ![s] =
                        [conn |-> IF sock[s] = NoSock THEN 0 ELSE sock[s].conn, nb |-> nb]]
          /\ UNCHANGED <<buf, chan>> /\ DOMAIN sock = Socks
      BY <2>3 DEF IoctlSocket, Streams, TypeOK
    <3>2. ASSUME NEW r \in Socks, HasData(r)' PROVE HasData(r)
      <4>1. CASE r = s
        BY <3>1, <3>2, <4>1 DEF HasData, Open, ChanOf, ConnOf
      <4>2. CASE r # s
        BY <3>1, <3>2, <4>2 DEF HasData, Open, ChanOf, ConnOf
      <4> QED BY <4>1, <4>2
    <3> QED BY <3>2 DEF NoNewData
  <2> QED BY <2>1, <2>2, <2>3
<1>3. EntriesLast
  BY <1>1 DEF EntriesLast
<1> QED BY <1>1, <1>2, <1>3, QuietCalm, WaitsQuiet DEF guest

\* A thread that waits for the event whose entry is replaced is excused.
LEMMA WaitsSelects ==
  ASSUME Waits, TypeOK', NEW u \in Threads, NEW s \in Socks, NEW e \in WsaEvents, NEW i \in Interests,
         WsaEventSelect(u, s, e, i)
  PROVE  Waits'
<1>1. /\ mid = Idle /\ UNCHANGED <<net, call, ready, waitS, waitH, mid>> /\ TypeOK
      /\ unwoken' = unwoken \cup {t \in Threads \ ready : e \in waitH[t]}
      /\ \A d \in WsaEvents : d # e => wsa'[d] = wsa[d]
  BY DEF WsaEventSelect, Calling, MayRun, Waits, TypeOK
<1>2. NoNewData /\ UNCHANGED <<home, feeder, toWake>>
  BY <1>1, SameData DEF net
<1>3. ASSUME NEW t \in Threads, t \notin unwoken', Parked(t)' \/ Parking(t)' PROVE Calm(t)
  <2>1. Parked(t)
    BY <1>1, <1>3 DEF Parked, Parking, Idle
  <2>2. ~(call[t].op = "wait" /\ call[t].e = e)
    <3>1. waitH[t] = EventsOf(call[t]) /\ t \notin ready
      BY <2>1, FineIs DEF Fine, Parked
    <3> QED BY <1>1, <1>3, <3>1 DEF EventsOf
  <2>3. /\ \A r : AtWork(r)' <=> AtWork(r)
        /\ \A d, r : Announced(d, r)' <=> Announced(d, r)
        /\ \A r \in Socks : HasData(r)' => HasData(r)
    BY <1>2 DEF AtWork, FeederAt, Announced, NoNewData
  <2> HIDE DEF AtWork, Announced, HasData
  <2> QED BY <1>1, <2>2, <2>3 DEF Calm
<1> QED BY <1>1, <1>3, WaitsQuiet

LEMMA WaitsHost ==
  ASSUME Waits, TypeOK',
         \/ UNCHANGED vars
         \/ \E t \in Threads : WakeForMessage(t)
         \/ \E c \in Conns : (\E ends \in Answers : Serve(c, ends)) \/ Quit(c) \/ HandlerEnds(c)
  PROVE  Waits'
<1>1. /\ UNCHANGED <<sock, buf, chan, home, feeder, toWake, call, waitS, waitH, unwoken, wsa, mid>>
      /\ ready \subseteq ready'
  BY DEF vars, net, guest, WakeForMessage, Serve, Quit, HandlerEnds, unhandled
<1>2. NoNewData /\ EntriesLast
  BY <1>1, SameData DEF EntriesLast
<1> QED BY <1>1, <1>2, QuietCalm, WaitsQuiet

\* A chunk that the feeder has passed on is announced.
LEMMA WaitsForward ==
  ASSUME Waits, Streams, TypeOK', NEW c \in Conns, Forward(c)
  PROVE  Waits'
<1>1. /\ feeder[c] = "recv" /\ UNCHANGED <<sock, buf, home, toWake, guest, wsa, mid>>
      /\ \/ /\ feeder' = [feeder EXCEPT ![c] = "mark"]
            /\ chan' = [chan EXCEPT ![c] = Append(chan[c], Head(out[c]))]
         \/ feeder' = [feeder EXCEPT ![c] = "endWake"] /\ chan' = chan
  BY DEF Forward, Goes, unfed
<1>2. DOMAIN feeder = Conns /\ DOMAIN chan = Conns
  BY DEF Streams, TypeOK
<1>3. \A s : AtWork(s) => AtWork(s)'
  <2>1. \A d \in Conns : feeder[d] \in {"mark", "wakeSock"} => d # c
    BY <1>1
  <2> QED BY <1>1, <1>2, <2>1 DEF AtWork, FeederAt
<1>4. \A e, s : Announced(e, s) => Announced(e, s)'
  <2>1. \A d \in Conns : feeder[d] \in {"mark", "wakeSock", "wakeEvents"} => d # c
    BY <1>1
  <2> QED BY <1>1, <1>2, <2>1 DEF Announced
<1>5. ASSUME NEW s \in Socks, HasData(s)'
      PROVE  HasData(s) \/ (AtWork(s)' /\ \A e : Announced(e, s)')
  <2>1. Open(s) /\ ConnOf(s) \in Conns /\ home[ConnOf(s)] = s
        /\ (buf[s] # <<>> \/ chan'[ConnOf(s)] # <<>>)
    <3>1. Open(s) /\ (buf[s] # <<>> \/ chan'[ConnOf(s)] # <<>>)
      BY <1>1, <1>5 DEF HasData, Open, ChanOf, ConnOf
    <3> QED BY <3>1, ConnIs DEF Streams, Numbered
  <2>2. CASE feeder' = [feeder EXCEPT ![c] = "mark"] /\ ConnOf(s) = c
    <3>1. home'[c] = s /\ feeder'[c] = "mark"
      BY <1>1, <1>2, <2>1, <2>2
    <3> QED BY <3>1 DEF AtWork, FeederAt, Announced
  <2>3. CASE ~(feeder' = [feeder EXCEPT ![c] = "mark"] /\ ConnOf(s) = c)
    <3>1. chan'[ConnOf(s)] = chan[ConnOf(s)]
      <4>1. CASE ConnOf(s) = c
        BY <1>1, <2>3, <4>1
      <4>2. CASE ConnOf(s) # c
        BY <1>1, <1>2, <2>1, <4>2
      <4> QED BY <4>1, <4>2
    <3> QED BY <2>1, <3>1 DEF HasData, ChanOf
  <2> QED BY <2>2, <2>3
<1>6. \A t : Calm(t)
  <2>1. wsa' = wsa
    BY <1>1
  <2> HIDE DEF HasData, AtWork, Announced
  <2> QED BY <1>3, <1>4, <1>5, <2>1 DEF Calm
<1> QED BY <1>1, <1>6, WaitsQuiet DEF guest

LEMMA WaitsMark ==
  ASSUME Waits, TypeOK', NEW c \in Conns, MarkRead(c)
  PROVE  Waits'
<1> DEFINE es == Watching(home[c], "read")
<1>1. /\ feeder[c] = "mark" /\ feeder' = [feeder EXCEPT ![c] = "wakeSock"]
      /\ wsa' = Pending(es, "read") /\ toWake' = [toWake EXCEPT ![c] = es]
      /\ UNCHANGED <<sock, buf, chan, home, guest, mid>>
  BY DEF MarkRead, Goes, unfed
<1>2. TypeOK /\ DOMAIN feeder = Conns /\ DOMAIN toWake = Conns
  BY DEF Waits, TypeOK
<1>3. EntriesLast
  <2>1. es \in SUBSET WsaEvents /\ \A e \in es : wsa[e] # NoEntry
    BY WatchingIs
  <2> HIDE DEF es
  <2> QED BY <1>1, <1>2, <2>1, PendingLasts
<1>4. \A e \in WsaEvents : wsa[e] # NoEntry /\ "read" \in wsa[e].interest /\ wsa[e].sock = home[c] => e \in es
  BY DEF Watching
<1> HIDE DEF es
<1>5. \A s : AtWork(s) => AtWork(s)'
  BY <1>1, <1>2 DEF AtWork, FeederAt
<1>6. ASSUME NEW e \in WsaEvents, NEW s \in Socks, Announced(e, s),
             wsa[e] # NoEntry, "read" \in wsa[e].interest, wsa[e].sock = s
      PROVE  Announced(e, s)'
  <2>1. PICK d \in Conns : /\ home[d] = s
                           /\ \/ feeder[d] = "mark"
                              \/ feeder[d] \in {"wakeSock", "wakeEvents"} /\ e \in toWake[d]
    BY <1>6 DEF Announced
  <2>2. CASE d = c
    <3>1. home'[c] = s /\ feeder'[c] = "wakeSock" /\ e \in toWake'[c]
      BY <1>1, <1>2, <1>4, <1>6, <2>1, <2>2
    <3> QED BY <3>1 DEF Announced
  <2>3. CASE d # c
    <3>1. feeder'[d] = feeder[d] /\ toWake'[d] = toWake[d] /\ home'[d] = s
      BY <1>1, <1>2, <2>1, <2>3
    <3> QED BY <2>1, <3>1 DEF Announced
  <2> QED BY <2>2, <2>3
<1>7. NoNewData
  BY <1>1, SameData
<1>8. \A t : Calm(t)
  <2> HIDE DEF HasData, AtWork, Announced
  <2> QED BY <1>3, <1>5, <1>6, <1>7 DEF Calm, EntriesLast, NoNewData
<1> QED BY <1>1, <1>8, WaitsQuiet DEF guest

\* The feeder's waking steps: who still sleeps is not one it was to wake.
LEMMA WaitsWakesSocket ==
  ASSUME Waits, TypeOK', NEW c \in Conns, FeederWakesSocket(c)
  PROVE  Waits'
<1> DEFINE h == home[c]
           woken == {t \in Threads : h \in waitS[t]}
           missed == {t \in Threads : Parking(t) /\ h \in SocksOf(call[t])}
<1>1. /\ \/ feeder[c] = "wakeSock" /\ feeder' = [feeder EXCEPT ![c] = "wakeEvents"]
         \/ feeder[c] = "endWake" /\ feeder' = [feeder EXCEPT ![c] = "endMark"]
      /\ Wakes(woken, missed)
      /\ UNCHANGED <<sock, buf, chan, home, call, waitS, waitH, wsa, toWake, mid>>
  BY DEF FeederWakesSocket, WakeSocket, Goes, unfed
<1>2. TypeOK /\ DOMAIN feeder = Conns
  BY DEF Waits, TypeOK
<1>3. /\ ready \subseteq ready' /\ woken \subseteq ready' /\ missed \subseteq unwoken'
      /\ \A t \in Threads : t \in unwoken /\ t \notin unwoken' => t \in ready' /\ ~Parking(t)
  <2> HIDE DEF woken, missed
  <2> QED BY <1>1, WakesIs
<1>4. \A s : s # h => (AtWork(s) => AtWork(s)')
  <2>1. \A d \in Conns : d # c => feeder'[d] = feeder[d]
    BY <1>1, <1>2
  <2> QED BY <1>1, <2>1 DEF AtWork, FeederAt
<1>5. \A e, s : Announced(e, s) => Announced(e, s)'
  BY <1>1, <1>2 DEF Announced
<1>6. NoNewData
  BY <1>1, SameData
<1>7. ASSUME NEW t \in Threads, t \notin unwoken', Parked(t)' \/ Parking(t)' PROVE Calm(t)
  <2>1. Parked(t) \/ Parking(t)
    BY <1>1, <1>3, <1>7 DEF Parked, Parking
  <2>2. h \notin SocksOf(call[t])
    <3>1. CASE Parking(t)
      BY <1>3, <1>7, <3>1
    <3>2. CASE Parked(t) /\ ~Parking(t)
      <4>1. waitS[t] = SocksOf(call[t])
        BY <3>2, FineIs DEF Fine
      <4>2. t \notin ready'
        BY <1>1, <1>7, <3>2 DEF Parked, Parking
      <4> QED BY <1>3, <4>1, <4>2
    <3> QED BY <2>1, <3>1, <3>2
  <2>3. call[t].op \in {"recv", "wsarecv"} => call[t].s # h
    BY <2>2 DEF SocksOf
  <2> HIDE DEF HasData, AtWork, Announced, h
  <2> QED BY <1>1, <1>4, <1>5, <1>6, <2>3 DEF Calm, NoNewData
<1> QED BY <1>1, <1>3, <1>7, WaitsQuiet

LEMMA WaitsWakesEvents ==
  ASSUME Waits, TypeOK', NEW c \in Conns, FeederWakesEvents(c)
  PROVE  Waits'
<1> DEFINE es == toWake[c]
           woken == {t \in Threads : waitH[t] \cap es # {}}
           missed == {t \in Threads : Parking(t) /\ EventsOf(call[t]) \cap es # {}}
<1>1. /\ \/ feeder[c] = "wakeEvents" /\ feeder' = [feeder EXCEPT ![c] = "recv"]
         \/ feeder[c] = "endEvents" /\ feeder' = [feeder EXCEPT ![c] = "ended"]
      /\ Wakes(woken, missed) /\ toWake' = [toWake EXCEPT ![c] = {}]
      /\ UNCHANGED <<sock, buf, chan, home, call, waitS, waitH, wsa, mid>>
  BY DEF FeederWakesEvents, WakeEvents, Goes, unfed
<1>2. TypeOK /\ DOMAIN feeder = Conns /\ DOMAIN toWake = Conns
  BY DEF Waits, TypeOK
<1>3. /\ ready \subseteq ready' /\ woken \subseteq ready' /\ missed \subseteq unwoken'
      /\ \A t \in Threads : t \in unwoken /\ t \notin unwoken' => t \in ready' /\ ~Parking(t)
  <2> HIDE DEF woken, missed
  <2> QED BY <1>1, WakesIs
<1>4. \A s : AtWork(s) => AtWork(s)'
  <2>1. \A d \in Conns : feeder[d] \in {"mark", "wakeSock"} => d # c /\ feeder'[d] = feeder[d]
    BY <1>1, <1>2
  <2> QED BY <1>1, <2>1 DEF AtWork, FeederAt
<1>5. \A e, s : Announced(e, s) /\ e \notin es => Announced(e, s)'
  <2>1. \A d \in Conns : d # c => feeder'[d] = feeder[d] /\ toWake'[d] = toWake[d]
    BY <1>1, <1>2
  <2>2. feeder[c] # "mark"
    BY <1>1
  <2> QED BY <1>1, <2>1, <2>2 DEF Announced
<1>6. NoNewData
  BY <1>1, SameData
<1>7. ASSUME NEW t \in Threads, t \notin unwoken', Parked(t)' \/ Parking(t)' PROVE Calm(t)
  <2>1. Parked(t) \/ Parking(t)
    BY <1>1, <1>3, <1>7 DEF Parked, Parking
  <2>2. EventsOf(call[t]) \cap es = {}
    <3>1. CASE Parking(t)
      BY <1>3, <1>7, <3>1
    <3>2. CASE Parked(t) /\ ~Parking(t)
      <4>1. waitH[t] = EventsOf(call[t])
        BY <3>2, FineIs DEF Fine
      <4>2. t \notin ready'
        BY <1>1, <1>7, <3>2 DEF Parked, Parking
      <4> QED BY <1>3, <4>1, <4>2
    <3> QED BY <2>1, <3>1, <3>2
  <2>3. call[t].op = "wait" => call[t].e \notin es
    BY <2>2 DEF EventsOf
  <2> HIDE DEF HasData, AtWork, Announced, es
  <2> QED BY <1>1, <1>4, <1>5, <1>6, <2>3 DEF Calm, NoNewData
<1> QED BY <1>1, <1>3, <1>7, WaitsQuiet

LEMMA WaitsEnds ==
  ASSUME Waits, TypeOK', NEW c \in Conns, FeederListsEvents(c) \/ FeederSeesEnd(c) \/ FeederDrops(c)
  PROVE  Waits'
<1>1. /\ feeder[c] \in {"endMark", "recv", "ended"}
      /\ \E at \in {"endEvents", "endWake", "gone"} : feeder' = [feeder EXCEPT ![c] = at]
      /\ UNCHANGED <<sock, buf, chan, home, guest, wsa, mid>>
      /\ \A d \in Conns : d # c => toWake'[d] = toWake[d]
  <2>1. DOMAIN toWake = Conns
    BY DEF Waits, TypeOK
  <2> QED BY <2>1 DEF FeederListsEvents, FeederSeesEnd, FeederDrops, Goes, unfed
<1>2. DOMAIN feeder = Conns
  BY DEF Waits, TypeOK
<1>3. \A d \in Conns : feeder[d] \in {"mark", "wakeSock", "wakeEvents"} =>
        d # c /\ feeder'[d] = feeder[d] /\ toWake'[d] = toWake[d]
  BY <1>1, <1>2
<1>4. /\ \A s : AtWork(s) => AtWork(s)'
      /\ \A e, s : Announced(e, s) => Announced(e, s)'
  BY <1>1, <1>3 DEF AtWork, FeederAt, Announced
<1>5. NoNewData
  BY <1>1, SameData
<1>6. \A t : Calm(t)
  <2> HIDE DEF HasData, AtWork, Announced
  <2> QED BY <1>1, <1>4, <1>5 DEF Calm, NoNewData
<1> QED BY <1>1, <1>6, WaitsQuiet DEF guest

LEMMA WaitsKept ==
  ASSUME Waits, Streams, [Next]_vars
  PROVE  Waits'
<1>1. TypeOK'
  BY TypesKept DEF Waits
<1>2. ASSUME NEW t \in Threads, NEW k \in CallsOf[t],
             \/ RecvData(t, k) \/ RecvEof(t, k) \/ RecvFails(t, k) \/ RecvWouldBlock(t, k)
             \/ RecvBlocks(t, k) \/ SelectReturns(t, k) \/ SelectFindsNothing(t, k)
             \/ WaitReturns(t, k) \/ WaitFindsNothing(t, k)
      PROVE  Waits'
  BY <1>1, <1>2, WaitsCalls
<1>3. ASSUME NEW t \in Threads, NEW s \in Socks,
             \/ Connect(t, s) \/ CloseSocket(t, s) \/ Send(t, s)
             \/ \E nb \in BOOLEAN : IoctlSocket(t, s, nb)
             \/ \E e \in WsaEvents, i \in Interests : WsaEventSelect(t, s, e, i)
      PROVE  Waits'
  BY <1>1, <1>3, WaitsConnect, WaitsSockets, WaitsSelects
<1>4. ASSUME NEW t \in Threads, NEW e \in WsaEvents, EnumNetworkEvents(t, e) PROVE Waits'
  BY <1>1, <1>4, WaitsEnum
<1>5. CASE Park \/ EnumClears
  BY <1>1, <1>5, WaitsPark, WaitsClears
<1>6. CASE \/ UNCHANGED vars
           \/ \E t \in Threads : WakeForMessage(t)
           \/ \E c \in Conns : (\E ends \in Answers : Serve(c, ends)) \/ Quit(c) \/ HandlerEnds(c)
  BY <1>1, <1>6, WaitsHost
<1>7. ASSUME NEW c \in Conns,
             \/ Forward(c) \/ MarkRead(c) \/ FeederWakesSocket(c) \/ FeederListsEvents(c)
             \/ FeederWakesEvents(c) \/ FeederSeesEnd(c) \/ FeederDrops(c)
      PROVE  Waits'
  BY <1>1, <1>7, WaitsForward, WaitsMark, WaitsWakesSocket, WaitsWakesEvents, WaitsEnds
<1> QED BY StepIs, <1>2, <1>3, <1>4, <1>5, <1>6, <1>7, Zenon

LEMMA WaitsStart == Init => Waits
<1> SUFFICES ASSUME Init PROVE Waits
  OBVIOUS
<1>1. \A t \in Threads : ~Parked(t) /\ ~Parking(t)
  BY DEF Init, Parked, Parking, Idle
<1> QED BY <1>1, TypesStart DEF Waits, Registered, SleepersAttended

\* A thread that is registered and sleeps is covered by the feeder's part of the invariant.
LEMMA WaitsHold == Waits => NoSleepOnData
<1> SUFFICES ASSUME Waits, NEW t \in Threads \ unwoken
             PROVE  /\ Asleep(t, "recv") \/ Asleep(t, "wsarecv") =>
                         (HasData(call[t].s) => FeederAt(call[t].s, {"mark", "wakeSock"}))
                    /\ Asleep(t, "wait") =>
                         LET entry == wsa[call[t].e]
                         IN  entry # NoEntry /\ "read" \in entry.interest /\ HasData(entry.sock)
                               => FeederAt(entry.sock, {"mark", "wakeSock", "wakeEvents"})
  BY DEF NoSleepOnData
<1>1. ASSUME NEW op, Asleep(t, op) PROVE Attended(t) /\ call[t].op = op
  BY <1>1 DEF Waits, SleepersAttended, Asleep, Parked
<1>2. \A e, s : Announced(e, s) => FeederAt(s, {"mark", "wakeSock", "wakeEvents"})
  BY DEF Announced, FeederAt
<1> QED BY <1>1, <1>2 DEF Attended

\* No thread sleeps in recv, WSARecv or a wait for FD_READ on data that has come, but for
\* the threads in "unwoken": those whose last wake-up came between their look and their
\* parking, and those WSAEventSelect gave another socket to wait for.  The feeder's two
\* wake-ups may fall anywhere, and the guest may connect, close and select anew between
\* them, for any number of threads and sockets.
THEOREM NobodySleeps == Spec => []NoSleepOnData
<1>1. Init => Waits /\ Streams
  BY WaitsStart, StreamsStart
<1>2. Waits /\ Streams /\ [Next]_vars => (Waits /\ Streams)'
  BY WaitsKept, StreamsKept
<1>3. Waits => NoSleepOnData
  BY WaitsHold
<1> QED BY <1>1, <1>2, <1>3, PTL DEF Spec
=============================================================================
