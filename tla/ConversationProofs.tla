--------------------------- MODULE ConversationProofs ---------------------------
(***************************************************************************)
(* Proofs about Conversation, for conversations of any length, and every   *)
(* set of messages, texts, names and ids.                                  *)
(***************************************************************************)
EXTENDS Conversation, SequenceTheorems, WellFoundedInduction, TLAPS

-----------------------------------------------------------------------------
(***************************************************************************)
(* Recursion over the elements of a sequence: what a function that is      *)
(* defined along 0..n computes, and FlattenSeq, which is defined so.       *)
(***************************************************************************)

(* Every nonempty set of natural numbers has a least element. *)
LEMMA NatMin ==
    ASSUME NEW T \in SUBSET Nat, T # {}
    PROVE  \E x \in T : \A y \in T : x <= y
<1>1. PICK x \in T : \A y \in T : ~(<<y, x>> \in OpToRel(<, Nat))
    BY NatLessThanWellFounded, WFMin
<1>2. ASSUME NEW y \in T PROVE x <= y
  <2>1. y < x => <<y, x>> \in {ss \in Nat \X Nat : ss[1] < ss[2]}
    OBVIOUS
  <2>2. {ss \in Nat \X Nat : ss[1] < ss[2]} = OpToRel(<, Nat)
    BY Zenon DEF OpToRel
  <2>3. <<y, x>> \notin {ss \in Nat \X Nat : ss[1] < ss[2]}
    BY Zenon, <1>1, <2>2
  <2>4. QED
    BY <2>1, <2>3
<1>3. QED
    BY <1>2

(* Induction, said of a set. *)
LEMMA SetInduction ==
    ASSUME NEW T \in SUBSET Nat, 0 \in T, \A n \in T : n + 1 \in T
    PROVE  \A n \in Nat : n \in T
<1> SUFFICES ASSUME Nat \ T # {} PROVE FALSE
    OBVIOUS
<1>1. PICK x \in Nat \ T : \A y \in Nat \ T : x <= y
    BY NatMin
<1>2. x - 1 \in Nat /\ x - 1 \notin Nat \ T /\ x = (x - 1) + 1
    BY <1>1
<1>3. QED
    BY <1>1, <1>2

(* A value carried along the numbers up to n, by one function at each. *)
IsScan(h, n, a, G) == h[0] = a /\ \A i \in 1..n : h[i] = G[i][h[i - 1]]

LEMMA ScanExists ==
    ASSUME NEW S, NEW a \in S, NEW n \in Nat, NEW G \in [1..n -> [S -> S]]
    PROVE  \E h \in [0..n -> S] : IsScan(h, n, a, G)
<1> DEFINE Upto(k) == k <= n => \E h \in [0..k -> S] : IsScan(h, k, a, G)
           T == {k \in Nat : Upto(k)}
<1>1. 0 \in T
  <2> DEFINE h == [i \in 0..0 |-> a]
  <2>1. h \in [0..0 -> S] /\ IsScan(h, 0, a, G)
    BY DEF IsScan
  <2>2. QED
    BY <2>1
<1>2. ASSUME NEW k \in T PROVE k + 1 \in T
  <2> SUFFICES ASSUME k + 1 <= n PROVE \E h \in [0..(k + 1) -> S] : IsScan(h, k + 1, a, G)
    BY <1>2
  <2>1. PICK g \in [0..k -> S] : IsScan(g, k, a, G)
    BY <1>2
  <2> DEFINE h == [i \in 0..(k + 1) |-> IF i = k + 1 THEN G[k + 1][g[k]] ELSE g[i]]
  <2>2. k + 1 \in 1..n /\ g[k] \in S /\ G[k + 1][g[k]] \in S
    BY <1>2
  <2>3. h \in [0..(k + 1) -> S]
    BY <2>2
  <2>4. ASSUME NEW i \in 1..(k + 1) PROVE h[i] = G[i][h[i - 1]]
    BY <1>2, <2>1, <2>2 DEF IsScan
  <2>5. h[0] = a
    BY <1>2, <2>1 DEF IsScan
  <2>6. QED
    BY <2>3, <2>4, <2>5 DEF IsScan
<1>3. QED
  <2> HIDE DEF Upto
  <2>1. n \in T
    BY <1>1, <1>2, SetInduction
  <2>2. QED
    BY <2>1 DEF Upto

Agree(f, h, n) == \A i \in 0..n : f[i] = h[i]

(* Whatever takes the same steps has the same values. *)
LEMMA ScanFollows ==
    ASSUME NEW S, NEW n \in Nat, NEW G, NEW a, NEW h \in [0..n -> S], IsScan(h, n, a, G),
           NEW f, f[0] = a, \A i \in 1..n : f[i - 1] \in S => f[i] = G[i][f[i - 1]]
    PROVE  Agree(f, h, n)
<1> DEFINE T == {k \in Nat : k <= n => f[k] = h[k]}
<1>1. 0 \in T
    BY DEF IsScan
<1>2. ASSUME NEW k \in T PROVE k + 1 \in T
  <2> SUFFICES ASSUME k + 1 <= n PROVE f[k + 1] = h[k + 1]
    OBVIOUS
  <2>1. f[k] = h[k] /\ h[k] \in S /\ k + 1 \in 1..n /\ (k + 1) - 1 = k
    BY <1>2
  <2>2. QED
    BY <2>1 DEF IsScan
<1>3. QED
  <2> HIDE DEF T
  <2>1. T \in SUBSET Nat
    BY DEF T
  <2>2. \A k \in Nat : k \in T
    BY <1>1, <1>2, <2>1, SetInduction
  <2>3. QED
    BY <2>2 DEF T, Agree

(* What is left over by FlattenSeq after each of the sequences. *)
LEMMA FlattenScan ==
    ASSUME NEW X, NEW ss \in Seq(Seq(X)), NEW h \in [0..Len(ss) -> Seq(X)],
           h[0] = <<>>, \A i \in 1..Len(ss) : h[i] = h[i - 1] \o ss[i]
    PROVE  FlattenSeq(ss) = h[Len(ss)]
<1>1. CASE Len(ss) = 0
  <2>1. ss = <<>>
    BY <1>1
  <2>2. FlattenSeq(ss) = ss
    BY <1>1 DEF FlattenSeq
  <2>3. QED
    BY <1>1, <2>1, <2>2
<1>2. CASE Len(ss) # 0
  <2> DEFINE n == Len(ss)
             Steps(f) == f = [i \in 1..n |-> IF i = 1 THEN ss[i] ELSE f[i - 1] \o ss[i]]
             f == CHOOSE g : Steps(g)
             f0 == [i \in 1..n |-> h[i]]
  <2>1. Steps(f0)
    <3>1. ASSUME NEW i \in 1..n PROVE h[i] = IF i = 1 THEN ss[i] ELSE f0[i - 1] \o ss[i]
      <4>1. CASE i = 1
        <5>1. 1 \in 1..Len(ss) /\ 1 - 1 = 0
            BY <1>2
        <5>2. h[1] = h[0] \o ss[1] /\ ss[1] \in Seq(X)
          <6>1. h[1] = h[1 - 1] \o ss[1]
            BY <5>1
          <6>2. ss[1] \in Seq(X)
            BY <5>1
          <6>3. QED
            BY <5>1, <6>1, <6>2
        <5>3. <<>> \o ss[1] = ss[1]
            BY <5>2
        <5>4. QED
            BY <4>1, <5>2, <5>3
      <4>2. CASE i # 1
        <5>1. i - 1 \in 1..n
            BY <4>2
        <5>2. QED
            BY <4>2, <5>1
      <4>3. QED
        BY <4>1, <4>2
    <3>2. QED
      BY <3>1
  <2>2. Steps(f)
    <3> HIDE DEF f0, Steps
    <3>1. QED
      BY Zenon, <2>1
  <2>3. FlattenSeq(ss) = f[n]
    BY <1>2 DEF FlattenSeq
  <2> DEFINE T == {k \in Nat : k \in 1..n => f[k] = h[k]}
  <2> HIDE DEF f
  <2>4. 0 \in T
    OBVIOUS
  <2>5. ASSUME NEW k \in T PROVE k + 1 \in T
    <3> SUFFICES ASSUME k + 1 \in 1..n PROVE f[k + 1] = h[k + 1]
      OBVIOUS
    <3>1. CASE k = 0
      <4>1. 1 \in 1..n /\ 1 - 1 = 0
        BY <1>2
      <4>2. f[1] = ss[1] /\ ss[1] \in Seq(X) /\ h[1] = h[0] \o ss[1]
        <5>1. f[1] = ss[1]
          BY <2>2, <4>1
        <5>2. h[1] = h[1 - 1] \o ss[1]
          BY <4>1
        <5>3. ss[1] \in Seq(X)
          BY <4>1
        <5>4. QED
          BY <4>1, <5>1, <5>2, <5>3
      <4>3. <<>> \o ss[1] = ss[1]
        BY <4>2
      <4>4. QED
        BY <3>1, <4>2, <4>3
    <3>2. CASE k # 0
      <4>1. k \in 1..n /\ k + 1 # 1 /\ (k + 1) - 1 = k
        BY <3>2
      <4>2. f[k] = h[k]
        BY <2>5, <4>1
      <4>3. f[k + 1] = f[k] \o ss[k + 1]
        BY <2>2, <4>1
      <4>4. h[k + 1] = h[k] \o ss[k + 1]
        BY <4>1
      <4>5. QED
        BY <4>2, <4>3, <4>4
    <3>3. QED
      BY <3>1, <3>2
  <2>6. QED
    <3> HIDE DEF T
    <3>1. T \in SUBSET Nat
      BY DEF T
    <3>2. \A k \in Nat : k \in T
      BY <2>4, <2>5, <3>1, SetInduction
    <3>3. n \in 1..n
      BY <1>2
    <3>4. f[n] = h[n]
      BY <3>2, <3>3 DEF T
    <3>5. QED
      BY <2>3, <3>4
<1>3. QED
    BY <1>1, <1>2

LEMMA FlattenEmpty == FlattenSeq(<<>>) = <<>>
    BY DEF FlattenSeq

(* FlattenSeq goes on with each sequence that is appended. *)
LEMMA FlattenAppend ==
    ASSUME NEW X, NEW ss \in Seq(Seq(X)), NEW s \in Seq(X)
    PROVE  /\ FlattenSeq(ss) \in Seq(X)
           /\ FlattenSeq(Append(ss, s)) = FlattenSeq(ss) \o s
<1> DEFINE tt == Append(ss, s)
           n == Len(tt)
           G == [i \in 1..n |-> [t \in Seq(X) |-> t \o tt[i]]]
<1>1. tt \in Seq(Seq(X)) /\ n = Len(ss) + 1 /\ tt[n] = s /\ \A i \in 1..Len(ss) : tt[i] = ss[i]
    OBVIOUS
<1>2. G \in [1..n -> [Seq(X) -> Seq(X)]] /\ <<>> \in Seq(X) /\ n \in Nat
    BY <1>1
<1>3. PICK h \in [0..n -> Seq(X)] : IsScan(h, n, <<>>, G)
  <2> HIDE DEF G, n
  <2>1. QED
    BY <1>2, ScanExists
<1>4. h[0] = <<>> /\ \A i \in 1..n : h[i] = h[i - 1] \o tt[i]
  <2>1. ASSUME NEW i \in 1..n PROVE h[i] = h[i - 1] \o tt[i]
    <3>1. i - 1 \in 0..n /\ h[i - 1] \in Seq(X)
        BY <1>1
    <3>2. G[i] = [t \in Seq(X) |-> t \o tt[i]]
        OBVIOUS
    <3>3. h[i] = G[i][h[i - 1]]
      <4> HIDE DEF G, n
      <4>1. QED
        BY <1>3 DEF IsScan
    <3>4. QED
        BY <3>1, <3>2, <3>3
  <2>2. QED
    BY <1>3, <2>1 DEF IsScan
<1>5. FlattenSeq(tt) = h[n]
  <2> HIDE DEF tt
  <2>1. QED
    BY <1>1, <1>4, FlattenScan
<1> DEFINE g == [i \in 0..Len(ss) |-> h[i]]
<1>6. g \in [0..Len(ss) -> Seq(X)] /\ g[0] = <<>> /\ \A i \in 1..Len(ss) : g[i] = g[i - 1] \o ss[i]
  <2> HIDE DEF tt
  <2> Len(ss) \in Nat
    OBVIOUS
  <2>1. ASSUME NEW i \in 1..Len(ss)
        PROVE  h[i] = h[i - 1] \o ss[i] /\ i \in 0..Len(ss) /\ i - 1 \in 0..Len(ss)
    <3>1. i \in 1..n /\ tt[i] = ss[i]
      BY <1>1
    <3>2. h[i] = h[i - 1] \o tt[i]
      <4> HIDE DEF n, tt
      <4>1. QED
        BY <1>4, <3>1
    <3>3. QED
      BY <3>1, <3>2
  <2>2. ASSUME NEW i \in 0..Len(ss) PROVE h[i] \in Seq(X)
    <3>1. i \in 0..n
      BY <1>1
    <3>2. QED
      <4> HIDE DEF n
      <4>1. QED
        BY <3>1
  <2>3. 0 \in 0..Len(ss) /\ h[0] = <<>>
    BY <1>4
  <2>4. g \in [0..Len(ss) -> Seq(X)] /\ g[0] = <<>>
    BY <2>2, <2>3
  <2>5. ASSUME NEW i \in 1..Len(ss) PROVE g[i] = g[i - 1] \o ss[i]
    BY <2>1
  <2>6. QED
    BY <2>4, <2>5
<1>7. FlattenSeq(ss) = g[Len(ss)]
  <2> HIDE DEF g
  <2>1. QED
    BY <1>6, FlattenScan
<1>8. n - 1 = Len(ss) /\ n \in 1..n /\ Len(ss) \in 0..Len(ss)
    BY <1>1
<1>9. h[n] = h[Len(ss)] \o tt[n]
  <2> HIDE DEF n, tt
  <2>1. h[n] = h[n - 1] \o tt[n]
    BY <1>4, <1>8
  <2>2. QED
    BY <1>8, <2>1
<1>10. g[Len(ss)] = h[Len(ss)] /\ h[Len(ss)] \in Seq(X)
    BY <1>6, <1>8
<1>11. QED
  <2> HIDE DEF g, n, tt
  <2>1. FlattenSeq(tt) = h[Len(ss)] \o s
    BY <1>1, <1>5, <1>9
  <2>2. QED
    BY <1>7, <1>10, <2>1 DEF tt

(* Induction over sequences, said of a set of them. *)
LEMMA SeqInduction ==
    ASSUME NEW S, NEW T, <<>> \in T, \A s \in Seq(S) : \A x \in S : s \in T => Append(s, x) \in T
    PROVE  \A s \in Seq(S) : s \in T
<1> DEFINE OfLength(k) == \A s \in Seq(S) : Len(s) = k => s \in T
           K == {k \in Nat : OfLength(k)}
<1>1. 0 \in K
    OBVIOUS
<1>2. ASSUME NEW k \in K PROVE k + 1 \in K
  <2> SUFFICES ASSUME NEW s \in Seq(S), Len(s) = k + 1 PROVE s \in T
    BY <1>2
  <2> DEFINE r == SubSeq(s, 1, k)
  <2>1. r \in Seq(S) /\ Len(r) = k /\ s[k + 1] \in S
    BY <1>2
  <2>2. s = Append(r, s[k + 1])
    BY <1>2, <2>1
  <2> HIDE DEF r
  <2>3. r \in T
    BY <1>2, <2>1
  <2>4. QED
    BY <2>1, <2>2, <2>3
<1>3. QED
  <2> HIDE DEF OfLength
  <2>1. \A k \in Nat : k \in K
    BY <1>1, <1>2, SetInduction
  <2>2. \A k \in Nat : OfLength(k)
    BY <2>1
  <2>3. QED
    BY <2>2 DEF OfLength

Associates(s, t, u) == (s \o t) \o u = s \o (t \o u)

LEMMA Associative ==
    ASSUME NEW X, NEW s \in Seq(X), NEW t \in Seq(X), NEW u \in Seq(X)
    PROVE  Associates(s, t, u)
    BY DEF Associates

LEMMA FlattenCat ==
    ASSUME NEW X, NEW ss \in Seq(Seq(X)), NEW tt \in Seq(Seq(X))
    PROVE  FlattenSeq(ss \o tt) = FlattenSeq(ss) \o FlattenSeq(tt)
<1> DEFINE Cat(uu) == FlattenSeq(ss \o uu) = FlattenSeq(ss) \o FlattenSeq(uu)
           T == {uu \in Seq(Seq(X)) : Cat(uu)}
<1>1. <<>> \in T
  <2>1. ss \o <<>> = ss /\ <<>> \in Seq(Seq(X))
    OBVIOUS
  <2>2. FlattenSeq(ss) \in Seq(X)
    BY FlattenAppend, <<>> \in Seq(X)
  <2>3. FlattenSeq(ss) \o <<>> = FlattenSeq(ss)
    BY <2>2
  <2>4. QED
    BY <2>1, <2>3, FlattenEmpty
<1>2. ASSUME NEW uu \in Seq(Seq(X)), NEW s \in Seq(X), uu \in T PROVE Append(uu, s) \in T
  <2>1. Append(uu, s) \in Seq(Seq(X)) /\ ss \o uu \in Seq(Seq(X))
    OBVIOUS
  <2>2. ss \o Append(uu, s) = Append(ss \o uu, s)
    OBVIOUS
  <2>3. FlattenSeq(Append(ss \o uu, s)) = FlattenSeq(ss \o uu) \o s
    BY <2>1, FlattenAppend
  <2>4. FlattenSeq(Append(uu, s)) = FlattenSeq(uu) \o s /\ FlattenSeq(uu) \in Seq(X)
    BY FlattenAppend
  <2>5. FlattenSeq(ss) \in Seq(X)
    BY FlattenAppend
  <2>6. (FlattenSeq(ss) \o FlattenSeq(uu)) \o s = FlattenSeq(ss) \o (FlattenSeq(uu) \o s)
    <3>1. FlattenSeq(uu) \in Seq(X)
      BY <2>4
    <3>2. Associates(FlattenSeq(ss), FlattenSeq(uu), s)
      BY <2>5, <3>1, Associative
    <3>3. QED
      BY <3>2 DEF Associates
  <2>7. Cat(uu)
    BY <1>2
  <2>8. Cat(Append(uu, s))
    BY <2>2, <2>3, <2>4, <2>6, <2>7
  <2>9. QED
    BY <2>1, <2>8
<1>3. QED
  <2> HIDE DEF Cat
  <2>1. \A uu \in Seq(Seq(X)) : uu \in T
    BY <1>1, <1>2, SeqInduction
  <2>2. QED
    BY <2>1 DEF Cat

-----------------------------------------------------------------------------
(***************************************************************************)
(* Sequences that are made of another one, element by element.             *)
(***************************************************************************)
Mapped(F, s) == [i \in DOMAIN s |-> F[s[i]]]

MapFlat(F, s) == FlattenSeq(Mapped(F, s))

MapSplits(F, s, t) == MapFlat(F, s \o t) = MapFlat(F, s) \o MapFlat(F, t)

LEMMA MappedType ==
    ASSUME NEW X, NEW Y, NEW F \in [X -> Seq(Y)], NEW s \in Seq(X)
    PROVE  Mapped(F, s) \in Seq(Seq(Y))
<1>1. \A i \in 1..Len(s) : F[s[i]] \in Seq(Y)
    OBVIOUS
<1>2. DOMAIN s = 1..Len(s) /\ Len(s) \in Nat
    OBVIOUS
<1>3. QED
    BY <1>1, <1>2 DEF Mapped

LEMMA MappedLen ==
    ASSUME NEW F, NEW X, NEW s \in Seq(X)
    PROVE  Len(Mapped(F, s)) = Len(s)
<1>1. DOMAIN s = 1..Len(s) /\ Len(s) \in Nat
    OBVIOUS
<1>2. DOMAIN Mapped(F, s) = 1..Len(s) /\ Mapped(F, s) \in [1..Len(s) -> {F[s[i]] : i \in 1..Len(s)}]
    BY <1>1 DEF Mapped
<1>3. QED
    BY <1>1, <1>2

LEMMA MapFlatType ==
    ASSUME NEW X, NEW Y, NEW F \in [X -> Seq(Y)], NEW s \in Seq(X)
    PROVE  MapFlat(F, s) \in Seq(Y)
<1>1. Mapped(F, s) \in Seq(Seq(Y)) /\ <<>> \in Seq(Y)
    BY MappedType
<1>2. QED
    BY <1>1, FlattenAppend DEF MapFlat

LEMMA MapFlatEmpty == ASSUME NEW F PROVE MapFlat(F, <<>>) = <<>>
<1>1. Mapped(F, <<>>) = <<>>
    BY DEF Mapped
<1>2. QED
    BY <1>1, FlattenEmpty DEF MapFlat

LEMMA FlattenOne ==
    ASSUME NEW Y, NEW s \in Seq(Y)
    PROVE  FlattenSeq(<<s>>) = s
<1>1. <<>> \in Seq(Seq(Y)) /\ Append(<<>>, s) = <<s>> /\ <<>> \o s = s
    OBVIOUS
<1>2. FlattenSeq(Append(<<>>, s)) = FlattenSeq(<<>>) \o s
    BY <1>1, FlattenAppend
<1>3. QED
    BY <1>1, <1>2, FlattenEmpty

MapsOne(F, x) == MapFlat(F, <<x>>) = F[x]

LEMMA MapFlatOne ==
    ASSUME NEW X, NEW Y, NEW F \in [X -> Seq(Y)], NEW x \in X
    PROVE  MapsOne(F, x)
<1>1. Mapped(F, <<x>>) = <<F[x]>>
    BY DEF Mapped
<1>2. F[x] \in Seq(Y)
    OBVIOUS
<1> DEFINE s == F[x]
<1> HIDE DEF s
<1>3. s \in Seq(Y)
    BY <1>2 DEF s
<1>4. FlattenSeq(<<s>>) = s
    BY <1>3, FlattenOne
<1>5. QED
    BY <1>1, <1>4 DEF MapsOne, MapFlat, s

LEMMA MapFlatCat ==
    ASSUME NEW X, NEW Y, NEW F \in [X -> Seq(Y)], NEW s \in Seq(X), NEW t \in Seq(X)
    PROVE  MapSplits(F, s, t)
<1>1. Mapped(F, s) \in Seq(Seq(Y)) /\ Mapped(F, t) \in Seq(Seq(Y))
    BY MappedType
<1>2. Mapped(F, s \o t) = Mapped(F, s) \o Mapped(F, t)
  <2> DEFINE a == Mapped(F, s)
             b == Mapped(F, t)
             c == Mapped(F, s \o t)
  <2>1. /\ a \in Seq(Seq(Y)) /\ b \in Seq(Seq(Y)) /\ c \in Seq(Seq(Y))
        /\ Len(a) = Len(s) /\ Len(b) = Len(t) /\ Len(c) = Len(s) + Len(t)
    <3>1. s \o t \in Seq(X) /\ Len(s \o t) = Len(s) + Len(t)
      OBVIOUS
    <3>2. \A u \in Seq(X) : Mapped(F, u) \in Seq(Seq(Y)) /\ Len(Mapped(F, u)) = Len(u)
      BY MappedType, MappedLen
    <3>3. QED
      BY <3>1, <3>2
  <2>2. ASSUME NEW i \in 1..Len(c) PROVE c[i] = (a \o b)[i]
    <3>1. /\ c[i] = F[(s \o t)[i]]
          /\ i <= Len(s) => a[i] = F[s[i]]
          /\ i > Len(s) => b[i - Len(s)] = F[t[i - Len(s)]]
      BY <2>1 DEF Mapped
    <3>2. (s \o t)[i] = IF i <= Len(s) THEN s[i] ELSE t[i - Len(s)]
      BY <2>1
    <3> HIDE DEF a, b, c
    <3>3. (a \o b)[i] = IF i <= Len(a) THEN a[i] ELSE b[i - Len(a)]
      BY <2>1
    <3>4. CASE i <= Len(s)
      <4>1. c[i] = F[s[i]] /\ a[i] = F[s[i]] /\ i <= Len(a)
        BY <2>1, <3>1, <3>2, <3>4
      <4>2. QED
        BY <3>3, <4>1
    <3>5. CASE ~(i <= Len(s))
      <4>1. i > Len(s) /\ Len(a) = Len(s) /\ ~(i <= Len(a))
        BY <2>1, <3>5
      <4>2. c[i] = F[t[i - Len(s)]] /\ b[i - Len(a)] = F[t[i - Len(s)]]
        BY <3>1, <3>2, <3>5, <4>1
      <4>3. QED
        BY <3>3, <4>1, <4>2
    <3>6. QED
      BY <3>4, <3>5
  <2> HIDE DEF a, b, c
  <2>3. QED
    <3> DEFINE d == a \o b
    <3>0. d \in Seq(Seq(Y)) /\ Len(d) = Len(c) /\ \A i \in 1..Len(c) : c[i] = d[i]
      <4>1. d \in Seq(Seq(Y))
        BY <2>1
      <4>2. Len(d) = Len(a) + Len(b)
        <5>1. a \in Seq(Seq(Y)) /\ b \in Seq(Seq(Y))
          BY <2>1
        <5> HIDE DEF a, b
        <5>2. QED
          BY <5>1, ConcatProperties
      <4>3. Len(d) = Len(c)
        BY <2>1, <4>2
      <4>4. QED
        BY <2>2, <4>1, <4>3
    <3> HIDE DEF d
    <3>1. c = d
      BY <2>1, <3>0
    <3>2. QED
      BY <3>1 DEF a, b, c, d
<1>3. FlattenSeq(Mapped(F, s) \o Mapped(F, t)) = FlattenSeq(Mapped(F, s)) \o FlattenSeq(Mapped(F, t))
    BY <1>1, FlattenCat
<1>4. QED
    BY <1>2, <1>3 DEF MapSplits, MapFlat

(* Two maps in a row are one. *)
Composed(F, G, H, s) == MapFlat(F, MapFlat(G, s)) = MapFlat(H, s)

LEMMA MapFlatComposed ==
    ASSUME NEW X, NEW Y, NEW Z, NEW G \in [X -> Seq(Y)], NEW F \in [Y -> Seq(Z)],
           NEW H \in [X -> Seq(Z)], \A x \in X : MapFlat(F, G[x]) = H[x], NEW s \in Seq(X)
    PROVE  Composed(F, G, H, s)
<1> DEFINE T == {u \in Seq(X) : Composed(F, G, H, u)}
<1>1. <<>> \in T
  <2>1. Composed(F, G, H, <<>>)
    BY MapFlatEmpty DEF Composed
  <2>2. <<>> \in Seq(X)
    OBVIOUS
  <2>3. QED
    BY <2>1, <2>2
<1>2. ASSUME NEW u \in Seq(X), NEW x \in X, u \in T PROVE Append(u, x) \in T
  <2>1. Append(u, x) = u \o <<x>> /\ Append(u, x) \in Seq(X) /\ <<x>> \in Seq(X)
    OBVIOUS
  <2>2. MapSplits(G, u, <<x>>) /\ MapSplits(H, u, <<x>>)
    BY <2>1, MapFlatCat
  <2>3. MapFlat(G, <<x>>) = G[x] /\ MapFlat(H, <<x>>) = H[x]
    <3>1. MapsOne(G, x) /\ MapsOne(H, x)
      BY MapFlatOne
    <3>2. QED
      BY <3>1 DEF MapsOne
  <2> DEFINE gu == MapFlat(G, u)
             gx == G[x]
  <2>4. gu \in Seq(Y) /\ gx \in Seq(Y)
    BY MapFlatType
  <2>5. MapFlat(G, u \o <<x>>) = gu \o gx
    BY <2>2, <2>3 DEF MapSplits
  <2>6. MapFlat(F, gx) = H[x]
    OBVIOUS
  <2> HIDE DEF gu, gx
  <2>7. MapSplits(F, gu, gx)
    BY <2>4, MapFlatCat
  <2>8. MapFlat(F, gu) = MapFlat(H, u)
    BY <1>2 DEF Composed, gu
  <2>9. MapFlat(F, MapFlat(G, u \o <<x>>)) = MapFlat(H, u) \o H[x]
    BY <2>5, <2>6, <2>7, <2>8 DEF MapSplits
  <2>10. MapFlat(H, u \o <<x>>) = MapFlat(H, u) \o H[x]
    BY <2>2, <2>3 DEF MapSplits
  <2>11. Composed(F, G, H, u \o <<x>>)
    BY <2>9, <2>10 DEF Composed
  <2>12. QED
    BY <2>1, <2>11
<1>3. QED
  <2>1. \A u \in Seq(X) : u \in T
    BY <1>1, <1>2, SeqInduction
  <2>2. QED
    BY <2>1

(* A map over an appended element. *)
MapsMore(F, s, x) == MapFlat(F, Append(s, x)) = MapFlat(F, s) \o F[x]

LEMMA MapFlatAppend ==
    ASSUME NEW X, NEW Y, NEW F \in [X -> Seq(Y)], NEW s \in Seq(X), NEW x \in X
    PROVE  MapsMore(F, s, x)
<1>1. Append(s, x) = s \o <<x>> /\ <<x>> \in Seq(X)
    OBVIOUS
<1>2. MapSplits(F, s, <<x>>) /\ MapsOne(F, x)
    BY <1>1, MapFlatCat, MapFlatOne
<1>3. QED
    BY <1>1, <1>2 DEF MapSplits, MapsOne, MapsMore

-----------------------------------------------------------------------------
(***************************************************************************)
(* What Command Code is shown of a message.                                *)
(***************************************************************************)
Roles == {"system", "developer", "user", "assistant", "tool"}

CCPart ==
    [type : {"text", "image", "reasoning", "tool-call", "tool-result"}, text : Seq(Parts),
     id : Ids \cup {NoId}, name : Names \cup {NoName}]

CCMessage == [role : {"user", "assistant", "tool"}, content : Seq(CCPart)]

NameTable == [Ids -> Names \cup {NoName}]

Translation == [ok : BOOLEAN, messages : Seq(CCMessage), names : NameTable]

LEMMA MessageFields ==
    ASSUME NEW m \in Message
    PROVE  /\ m.role \in Roles /\ m.parts \in Seq(Parts) /\ m.reasoning \in BOOLEAN
           /\ m.calls \in Seq(Call) /\ m.id \in Ids \cup {NoId} /\ m.name \in Names \cup {NoName}
    BY DEF Message, Roles

LEMMA MessagesAreMessages ==
    ASSUME NEW m \in Messages
    PROVE  m \in Message /\ (m.calls # <<>> => m.role = "assistant")
    BY ConversationAssumption

(* The words of a part, and what is shown of it. *)
WordsOf == [p \in Parts |-> IF p \in Words THEN <<p>> ELSE <<>>]

ShownOf == [p \in Parts |-> ShownPart(p)]

LEMMA WordsOfType == WordsOf \in [Parts -> Seq(Parts)]
<1>1. ASSUME NEW p \in Parts PROVE (IF p \in Words THEN <<p>> ELSE <<>>) \in Seq(Parts)
    OBVIOUS
<1>2. QED
    BY <1>1 DEF WordsOf

LEMMA PlainTextMaps ==
    ASSUME NEW m \in Message
    PROVE  PlainText(m) = MapFlat(WordsOf, m.parts)
<1>1. \A i \in DOMAIN m.parts : m.parts[i] \in Parts
    BY MessageFields
<1>2. \A i \in DOMAIN m.parts :
          WordsOf[m.parts[i]] = IF m.parts[i] \in Words THEN <<m.parts[i]>> ELSE <<>>
    BY <1>1 DEF WordsOf
<1>3. QED
    BY <1>2 DEF PlainText, MapFlat, Mapped

LEMMA PlainTextType ==
    ASSUME NEW m \in Message
    PROVE  PlainText(m) \in Seq(Parts)
    BY PlainTextMaps, WordsOfType, MapFlatType, MessageFields

LEMMA PartType ==
    ASSUME NEW type \in {"text", "image", "reasoning"}, NEW text \in Seq(Parts)
    PROVE  Part(type, text) \in CCPart
    BY DEF Part, CCPart

(* No part that is shown is a call, or is of a tool at all. *)
Spelled == {p \in CCPart : p.type \in {"text", "image", "reasoning"}}

LEMMA ShownOfType == ShownOf \in [Parts -> Seq(Spelled)]
<1>1. ASSUME NEW p \in Parts PROVE ShownPart(p) \in Seq(Spelled)
  <2>1. <<>> \in Seq(Parts) /\ <<p>> \in Seq(Parts)
    OBVIOUS
  <2> DEFINE a == Part("image", <<>>)
             b == Part("text", <<p>>)
  <2>2. a \in CCPart /\ b \in CCPart
    BY <2>1, PartType
  <2>3. a.type = "image" /\ b.type = "text"
    BY DEF Part
  <2>4. a \in Spelled /\ b \in Spelled
    BY <2>2, <2>3 DEF Spelled
  <2>5. ShownPart(p) \in {<<>>, <<a>>, <<b>>}
    BY DEF ShownPart
  <2> HIDE DEF a, b
  <2>6. <<>> \in Seq(Spelled) /\ <<a>> \in Seq(Spelled) /\ <<b>> \in Seq(Spelled)
    BY <2>4
  <2>7. QED
    BY <2>5, <2>6
<1>2. QED
    BY <1>1 DEF ShownOf

LEMMA ShownMaps ==
    ASSUME NEW m \in Message
    PROVE  Shown(m) = MapFlat(ShownOf, m.parts)
<1>1. \A i \in DOMAIN m.parts : m.parts[i] \in Parts
    BY MessageFields
<1>2. \A i \in DOMAIN m.parts : ShownOf[m.parts[i]] = ShownPart(m.parts[i])
    BY <1>1 DEF ShownOf
<1>3. QED
    BY <1>2 DEF Shown, MapFlat, Mapped

LEMMA ShownType ==
    ASSUME NEW m \in Message
    PROVE  Shown(m) \in Seq(Spelled)
    BY ShownMaps, ShownOfType, MapFlatType, MessageFields

(* The parts of a message that are not calls, and the calls. *)
Reasoned(m) ==
    IF m.reasoning /\ m.role = "assistant" THEN <<Part("reasoning", <<>>)>> ELSE <<>>

Called(m) ==
    [i \in DOMAIN m.calls |-> [type |-> "tool-call", text |-> <<>>,
                               id |-> m.calls[i].id, name |-> m.calls[i].name]]

Result(m) == [type |-> "tool-result", text |-> PlainText(m), id |-> m.id, name |-> m.name]

LEMMA ContentIs ==
    ASSUME NEW m
    PROVE  ContentToCC(m) = IF m.role = "tool" THEN <<Result(m)>>
                            ELSE (Reasoned(m) \o Shown(m)) \o Called(m)
    BY DEF ContentToCC, Reasoned, Called, Result

LEMMA ReasonedType ==
    ASSUME NEW m \in Message
    PROVE  Reasoned(m) \in Seq(Spelled)
<1> DEFINE a == Part("reasoning", <<>>)
<1>1. <<>> \in Seq(Parts)
    OBVIOUS
<1>2. a \in CCPart
    BY <1>1, PartType
<1>3. a.type = "reasoning"
    BY DEF Part
<1>4. a \in Spelled
    BY <1>2, <1>3 DEF Spelled
<1>5. Reasoned(m) \in {<<>>, <<a>>}
    BY DEF Reasoned
<1> HIDE DEF a
<1>6. <<>> \in Seq(Spelled) /\ <<a>> \in Seq(Spelled)
    BY <1>4
<1>7. QED
    BY <1>5, <1>6

LEMMA CalledType ==
    ASSUME NEW m \in Message
    PROVE  /\ Called(m) \in Seq(CCPart) /\ Len(Called(m)) = Len(m.calls)
           /\ \A k \in 1..Len(m.calls) :
                  /\ m.calls[k] \in Call
                  /\ Called(m)[k].type = "tool-call" /\ Called(m)[k].text = <<>>
                  /\ Called(m)[k].id = m.calls[k].id /\ Called(m)[k].name = m.calls[k].name
<1>1. m.calls \in Seq(Call) /\ Len(m.calls) \in Nat /\ DOMAIN m.calls = 1..Len(m.calls)
    BY MessageFields
<1> DEFINE C(i) == [type |-> "tool-call", text |-> <<>>,
                    id |-> m.calls[i].id, name |-> m.calls[i].name]
<1>2. ASSUME NEW i \in 1..Len(m.calls) PROVE C(i) \in CCPart /\ m.calls[i] \in Call
  <2>1. m.calls[i] \in Call
    BY <1>1
  <2>2. m.calls[i].id \in Ids \cup {NoId} /\ m.calls[i].name \in Names \cup {NoName}
    BY <2>1 DEF Call
  <2>3. <<>> \in Seq(Parts)
    OBVIOUS
  <2>4. QED
    BY <2>1, <2>2, <2>3 DEF CCPart
<1>3. Called(m) = [i \in 1..Len(m.calls) |-> C(i)]
    BY <1>1 DEF Called
<1>4. Called(m) \in Seq(CCPart) /\ Len(Called(m)) = Len(m.calls)
  <2> HIDE DEF C
  <2>1. QED
    BY <1>1, <1>2, <1>3
<1>5. \A k \in 1..Len(m.calls) : Called(m)[k] = C(k)
    BY <1>3
<1>6. \A k : /\ C(k).type = "tool-call" /\ C(k).text = <<>>
            /\ C(k).id = m.calls[k].id /\ C(k).name = m.calls[k].name
    OBVIOUS
<1> HIDE DEF C
<1>7. QED
    BY <1>2, <1>4, <1>5, <1>6

LEMMA ContentType ==
    ASSUME NEW m \in Message
    PROVE  ContentToCC(m) \in Seq(CCPart)
<1>1. Reasoned(m) \in Seq(CCPart) /\ Shown(m) \in Seq(CCPart) /\ Called(m) \in Seq(CCPart)
  <2>1. Reasoned(m) \in Seq(Spelled) /\ Shown(m) \in Seq(Spelled)
    BY ReasonedType, ShownType
  <2>2. Spelled \subseteq CCPart
    BY DEF Spelled
  <2>3. \A s \in Seq(Spelled) : s \in Seq(CCPart)
    BY <2>2
  <2>4. QED
    BY <2>1, <2>3, CalledType
<1>2. (Reasoned(m) \o Shown(m)) \o Called(m) \in Seq(CCPart)
    BY <1>1
<1>3. Result(m) \in CCPart
    BY PlainTextType, MessageFields DEF Result, CCPart
<1> DEFINE r == Result(m)
<1> HIDE DEF r
<1>4. <<r>> \in Seq(CCPart)
  <2>1. r \in CCPart
    BY <1>3 DEF r
  <2>2. QED
    BY <2>1
<1>5. QED
    BY <1>2, <1>4, ContentIs DEF r

-----------------------------------------------------------------------------
(***************************************************************************)
(* The names that results are looked up in.                                *)
(***************************************************************************)
(* The numbers up to a bound have a greatest among any of them. *)
LEMMA Greatest ==
    ASSUME NEW n \in Nat, NEW S \in SUBSET (1..n), S # {}
    PROVE  Max(S) \in S /\ \A y \in S : Max(S) >= y
<1> DEFINE T == {n - x : x \in S}
<1>1. T \in SUBSET Nat /\ T # {}
    OBVIOUS
<1> HIDE DEF T
<1>2. PICK d \in T : \A e \in T : d <= e
    BY <1>1, NatMin
<1>3. PICK x \in S : d = n - x
    BY <1>2 DEF T
<1>4. \A y \in S : x >= y
  <2>1. ASSUME NEW y \in S PROVE x >= y
    <3>1. n - y \in T
      BY DEF T
    <3>2. n - x <= n - y
      BY <1>2, <1>3, <3>1
    <3>3. x \in Int /\ y \in Int
      OBVIOUS
    <3>4. QED
      BY <3>2, <3>3
  <2>2. QED
    BY <2>1
<1>5. \E z \in S : \A y \in S : z >= y
    BY <1>4
<1>6. QED
    BY <1>5, Zenon DEF Max

LEMMA MaxNamed ==
    ASSUME NEW m \in Message, NEW id, Named(m, id) # {}
    PROVE  /\ Max(Named(m, id)) \in Named(m, id)
           /\ \A k \in Named(m, id) : Max(Named(m, id)) >= k
<1>1. Len(m.calls) \in Nat /\ DOMAIN m.calls = 1..Len(m.calls)
    BY MessageFields
<1>2. Named(m, id) \subseteq 1..Len(m.calls)
    BY <1>1 DEF Named
<1> DEFINE S == Named(m, id)
           n == Len(m.calls)
<1>3. n \in Nat /\ S \subseteq 1..n /\ S # {}
    BY <1>1, <1>2
<1> HIDE DEF S, n
<1>4. Max(S) \in S /\ \A k \in S : Max(S) >= k
    BY <1>3, Greatest
<1>5. QED
    BY <1>4 DEF S

LEMMA LearnedType ==
    ASSUME NEW names \in NameTable, NEW m \in Message
    PROVE  Learned(names, m) \in NameTable
<1>1. ASSUME NEW id \in Ids, Named(m, id) # {}
      PROVE  m.calls[Max(Named(m, id))].name \in Names
  <2> DEFINE k == Max(Named(m, id))
  <2>1. k \in Named(m, id)
    BY <1>1, MaxNamed
  <2> HIDE DEF k
  <2>2. m.calls \in Seq(Call) /\ k \in DOMAIN m.calls
    BY <2>1, MessageFields DEF Named
  <2>3. m.calls[k].name # NoName /\ m.calls[k] \in Call
    BY <2>1, <2>2 DEF Named
  <2>4. m.calls[k].name \in Names
    BY <2>3 DEF Call
  <2>5. QED
    BY <2>4 DEF k
<1>2. \A id \in Ids : (IF Named(m, id) = {} THEN names[id] ELSE m.calls[Max(Named(m, id))].name)
                        \in Names \cup {NoName}
    BY <1>1 DEF NameTable
<1>3. QED
    BY <1>2 DEF Learned, NameTable

LEMMA ResolvedType ==
    ASSUME NEW names \in NameTable, NEW m \in Message
    PROVE  /\ Resolved(m, names) \in Message
           /\ Resolved(m, names).role = m.role /\ Resolved(m, names).parts = m.parts
           /\ Resolved(m, names).calls = m.calls /\ Resolved(m, names).id = m.id
           /\ Resolved(m, names).reasoning = m.reasoning
           /\ Resolved(m, names).name =
                IF m.role = "tool" /\ m.name = NoName /\ m.id # NoId THEN names[m.id] ELSE m.name
<1>1. CASE m.role = "tool" /\ m.name = NoName /\ m.id # NoId
  <2> DEFINE x == names[m.id]
  <2>1. m.id \in Ids
    BY <1>1, MessageFields
  <2>2. x \in Names \cup {NoName}
    BY <2>1 DEF NameTable
  <2>3. Resolved(m, names) = [m EXCEPT !.name = x]
    BY <1>1 DEF Resolved
  <2> HIDE DEF x
  <2>4. [m EXCEPT !.name = x] \in Message
    BY <2>2 DEF Message
  <2>5. /\ [m EXCEPT !.name = x].name = x /\ [m EXCEPT !.name = x].role = m.role
        /\ [m EXCEPT !.name = x].parts = m.parts /\ [m EXCEPT !.name = x].calls = m.calls
        /\ [m EXCEPT !.name = x].id = m.id /\ [m EXCEPT !.name = x].reasoning = m.reasoning
    BY DEF Message
  <2>6. QED
    BY <1>1, <2>3, <2>4, <2>5 DEF x
<1>2. CASE ~(m.role = "tool" /\ m.name = NoName /\ m.id # NoId)
  <2>1. Resolved(m, names) = m
    BY <1>2 DEF Resolved
  <2>2. QED
    BY <1>2, <2>1
<1>3. QED
    BY <1>1, <1>2

-----------------------------------------------------------------------------
(***************************************************************************)
(* The translation goes on with each message.                              *)
(***************************************************************************)
Skipped(t, m) == ~t.ok \/ m.role \in Instructing

Translated1(t, m) == Append(t.messages, [role |-> RoleToCC(m.role),
                                         content |-> ContentToCC(Resolved(m, Learned(t.names, m)))])

LEMMA TranslatedCases ==
    ASSUME NEW t \in Translation, NEW m \in Message
    PROVE  /\ Skipped(t, m) => Translated(t, m) = t
           /\ ~Skipped(t, m) /\ Refused(Resolved(m, Learned(t.names, m))) =>
                /\ Translated(t, m).ok = FALSE
                /\ Translated(t, m).messages = t.messages
                /\ Translated(t, m).names = t.names
           /\ ~Skipped(t, m) /\ ~Refused(Resolved(m, Learned(t.names, m))) =>
                /\ Translated(t, m).ok = TRUE
                /\ Translated(t, m).messages = Translated1(t, m)
                /\ Translated(t, m).names = Learned(t.names, m)
<1> DEFINE r == Resolved(m, Learned(t.names, m))
<1>1. CASE Skipped(t, m)
    BY <1>1 DEF Translated, Skipped
<1>2. CASE ~Skipped(t, m) /\ Refused(r)
  <2>1. Translated(t, m) = [t EXCEPT !.ok = FALSE]
    BY <1>2 DEF Translated, Skipped
  <2>2. QED
    BY <1>2, <2>1 DEF Translation
<1>3. CASE ~Skipped(t, m) /\ ~Refused(r)
  <2>1. Translated(t, m) = [ok |-> TRUE, names |-> Learned(t.names, m), messages |-> Translated1(t, m)]
    BY <1>3 DEF Translated, Skipped, Translated1
  <2>2. QED
    BY <1>3, <2>1
<1>4. QED
    BY <1>1, <1>2, <1>3

LEMMA SaidType ==
    ASSUME NEW t \in Translation, NEW m \in Message, ~Skipped(t, m)
    PROVE  [role |-> RoleToCC(m.role), content |-> ContentToCC(Resolved(m, Learned(t.names, m)))]
             \in CCMessage
<1>1. t.names \in NameTable
    BY DEF Translation
<1>2. Learned(t.names, m) \in NameTable
    BY <1>1, LearnedType
<1>3. Resolved(m, Learned(t.names, m)) \in Message
    BY <1>2, ResolvedType
<1> DEFINE c == ContentToCC(Resolved(m, Learned(t.names, m)))
<1>4. c \in Seq(CCPart)
    BY <1>3, ContentType
<1> HIDE DEF c
<1>5. RoleToCC(m.role) \in {"user", "assistant", "tool"}
    BY DEF RoleToCC
<1>6. [role |-> RoleToCC(m.role), content |-> c] \in CCMessage
    BY <1>4, <1>5 DEF CCMessage
<1>7. QED
    BY <1>6 DEF c

LEMMA TranslatedType ==
    ASSUME NEW t \in Translation, NEW m \in Message
    PROVE  Translated(t, m) \in Translation
<1> DEFINE r == Resolved(m, Learned(t.names, m))
           said == [role |-> RoleToCC(m.role), content |-> ContentToCC(r)]
<1>1. CASE Skipped(t, m)
    BY <1>1, TranslatedCases
<1>2. CASE ~Skipped(t, m) /\ Refused(r)
  <2>1. Translated(t, m) = [t EXCEPT !.ok = FALSE]
    BY <1>2 DEF Translated, Skipped
  <2>2. QED
    BY <2>1 DEF Translation
<1>3. CASE ~Skipped(t, m) /\ ~Refused(r)
  <2> DEFINE more == Append(t.messages, said)
             names == Learned(t.names, m)
  <2>1. Translated(t, m) = [ok |-> TRUE, names |-> names, messages |-> more]
    BY <1>3 DEF Translated, Skipped
  <2>2. said \in CCMessage
    BY <1>3, SaidType
  <2>3. t.messages \in Seq(CCMessage) /\ t.names \in NameTable
    BY DEF Translation
  <2>4. names \in NameTable
    BY <2>3, LearnedType
  <2>5. more \in Seq(CCMessage)
    <3> HIDE DEF said
    <3>1. QED
      BY <2>2, <2>3
  <2> HIDE DEF more, names
  <2>6. QED
    BY <2>1, <2>4, <2>5 DEF Translation
<1>4. QED
    BY <1>1, <1>2, <1>3

LEMMA UntranslatedType == Untranslated \in Translation
<1>1. NoNames \in NameTable /\ <<>> \in Seq(CCMessage)
    BY DEF NoNames, NameTable
<1>2. QED
    BY <1>1 DEF Untranslated, Translation

Translatings(h) == [i \in 1..Len(h) |-> [t \in Translation |-> Translated(t, h[i])]]

LEMMA TranslatingsType ==
    ASSUME NEW h \in Seq(Message)
    PROVE  Translatings(h) \in [1..Len(h) -> [Translation -> Translation]]
<1>1. ASSUME NEW i \in 1..Len(h), NEW t \in Translation PROVE Translated(t, h[i]) \in Translation
  <2>1. h[i] \in Message
    OBVIOUS
  <2>2. QED
    BY <2>1, TranslatedType
<1>2. QED
    BY <1>1 DEF Translatings

(* MessagesToCC is what the last message of the request is translated to. *)
LEMMA TranslationScan ==
    ASSUME NEW h \in Seq(Message), NEW g \in [0..Len(h) -> Translation],
           IsScan(g, Len(h), Untranslated, Translatings(h))
    PROVE  MessagesToCC(h) = g[Len(h)]
<1> DEFINE n == Len(h)
           G == Translatings(h)
           Steps(k) == k = [i \in 0..n |-> IF i = 0 THEN Untranslated ELSE Translated(k[i - 1], h[i])]
           f == CHOOSE k : Steps(k)
<1>1. \A i \in 1..n : \A x \in Translation : G[i][x] = Translated(x, h[i])
    BY DEF Translatings
<1>2. Steps(g)
  <2> DEFINE Body(i) == IF i = 0 THEN Untranslated ELSE Translated(g[i - 1], h[i])
  <2>1. ASSUME NEW i \in 0..n PROVE g[i] = Body(i)
    <3>1. CASE i = 0
      BY <3>1 DEF IsScan
    <3>2. CASE i # 0
      <4>1. i \in 1..n /\ i - 1 \in 0..n /\ g[i - 1] \in Translation
        BY <3>2
      <4>2. g[i] = G[i][g[i - 1]]
        BY <4>1 DEF IsScan
      <4>3. g[i] = Translated(g[i - 1], h[i])
        BY <1>1, <4>1, <4>2
      <4>4. QED
        BY <3>2, <4>3
    <3>3. QED
      BY <3>1, <3>2
  <2> HIDE DEF Body
  <2>2. g = [i \in 0..n |-> Body(i)]
    BY <2>1
  <2>3. QED
    BY <2>2 DEF Body
<1>3. Steps(f)
  <2> HIDE DEF Steps
  <2>1. QED
    BY Zenon, <1>2
<1>4. MessagesToCC(h) = f[n]
    BY DEF MessagesToCC
<1> HIDE DEF f
<1>5. f[0] = Untranslated
    BY <1>3
<1>6. ASSUME NEW i \in 1..n, f[i - 1] \in Translation PROVE f[i] = G[i][f[i - 1]]
  <2>1. i \in 0..n /\ i # 0
    OBVIOUS
  <2>2. f[i] = Translated(f[i - 1], h[i])
    BY <1>3, <2>1
  <2>3. QED
    BY <1>1, <1>6, <2>2
<1>7. \A i \in 0..n : f[i] = g[i]
  <2> HIDE DEF G
  <2>1. n \in Nat
    OBVIOUS
  <2>2. IsScan(g, n, Untranslated, G)
    BY DEF G
  <2> HIDE DEF n
  <2>3. g \in [0..n -> Translation]
    BY DEF n
  <2>4. \A i \in 1..n : f[i - 1] \in Translation => f[i] = G[i][f[i - 1]]
    BY <1>6
  <2>5. Agree(f, g, n)
    BY <1>5, <2>1, <2>2, <2>3, <2>4, ScanFollows
  <2>6. QED
    BY <2>5 DEF Agree
<1>8. QED
    BY <1>4, <1>7

LEMMA TranslationOfNothing == MessagesToCC(<<>>) = Untranslated
<1> DEFINE g == [i \in 0..0 |-> Untranslated]
<1>1. g \in [0..0 -> Translation] /\ <<>> \in Seq(Message) /\ Len(<<>>) = 0
    BY UntranslatedType
<1>2. IsScan(g, 0, Untranslated, Translatings(<<>>))
    BY DEF IsScan
<1>3. g[0] = Untranslated
    OBVIOUS
<1> HIDE DEF g
<1>4. MessagesToCC(<<>>) = g[Len(<<>>)]
    BY <1>1, <1>2, TranslationScan
<1>5. QED
    BY <1>1, <1>3, <1>4

GoesOn(h, m) ==
    /\ MessagesToCC(h) \in Translation
    /\ MessagesToCC(Append(h, m)) = Translated(MessagesToCC(h), m)

LEMMA TranslationGoesOn ==
    ASSUME NEW h \in Seq(Message), NEW m \in Message
    PROVE  GoesOn(h, m)
<1> DEFINE hh == Append(h, m)
           n == Len(hh)
           G == Translatings(hh)
<1>1. /\ hh \in Seq(Message) /\ n = Len(h) + 1 /\ hh[n] = m
      /\ \A i \in 1..Len(h) : hh[i] = h[i]
    OBVIOUS
<1>2. G \in [1..n -> [Translation -> Translation]] /\ n \in Nat
  <2> HIDE DEF hh
  <2>1. QED
    BY <1>1, TranslatingsType
<1>3. PICK k \in [0..n -> Translation] : IsScan(k, n, Untranslated, G)
  <2> HIDE DEF G, n
  <2>1. QED
    BY <1>2, ScanExists, UntranslatedType
<1>4. MessagesToCC(hh) = k[n]
  <2> HIDE DEF hh
  <2>1. QED
    BY <1>1, <1>3, TranslationScan
<1> DEFINE g == [i \in 0..Len(h) |-> k[i]]
<1>5. g \in [0..Len(h) -> Translation]
    BY <1>1
<1>6. IsScan(g, Len(h), Untranslated, Translatings(h))
  <2>1. ASSUME NEW i \in 1..Len(h) PROVE g[i] = Translatings(h)[i][g[i - 1]]
    <3>1. i \in 1..n /\ i \in 0..Len(h) /\ i - 1 \in 0..Len(h) /\ hh[i] = h[i]
      BY <1>1
    <3>2. k[i] = G[i][k[i - 1]]
      <4> HIDE DEF G, n
      <4>1. QED
        BY <1>3, <3>1 DEF IsScan
    <3>3. G[i] = Translatings(h)[i]
      <4> HIDE DEF hh
      <4>1. QED
        BY <3>1 DEF Translatings
    <3>4. QED
      <4> HIDE DEF G
      <4>1. QED
        BY <3>1, <3>2, <3>3
  <2>2. g[0] = Untranslated
    BY <1>3 DEF IsScan
  <2>3. QED
    BY <2>1, <2>2 DEF IsScan
<1>7. MessagesToCC(h) = g[Len(h)]
  <2> HIDE DEF g
  <2>1. QED
    BY <1>5, <1>6, TranslationScan
<1>8. g[Len(h)] = k[Len(h)] /\ k[Len(h)] \in Translation
    BY <1>1
<1>9. k[n] = Translated(k[Len(h)], m)
  <2>1. n \in 1..n /\ n - 1 = Len(h)
    BY <1>1
  <2>2. k[n] = G[n][k[n - 1]]
    <3> HIDE DEF G, n
    <3>1. QED
      BY <1>3, <2>1 DEF IsScan
  <2>3. \A x \in Translation : G[n][x] = Translated(x, hh[n])
    BY <2>1 DEF Translatings
  <2>4. QED
    <3> HIDE DEF G, n, hh
    <3>1. QED
      BY <1>1, <1>8, <2>1, <2>2, <2>3
<1>10. QED
  <2> HIDE DEF g, n, G
  <2>1. QED
    BY <1>4, <1>7, <1>8, <1>9 DEF GoesOn

LEMMA TranslationType ==
    ASSUME NEW h \in Seq(Message)
    PROVE  MessagesToCC(h) \in Translation
<1> DEFINE T == {s \in Seq(Message) : MessagesToCC(s) \in Translation}
<1>1. <<>> \in T
  <2>1. MessagesToCC(<<>>) \in Translation /\ <<>> \in Seq(Message)
    BY TranslationOfNothing, UntranslatedType
  <2>2. QED
    BY <2>1
<1>2. ASSUME NEW s \in Seq(Message), NEW m \in Message, s \in T PROVE Append(s, m) \in T
  <2>1. GoesOn(s, m) /\ Append(s, m) \in Seq(Message)
    BY TranslationGoesOn
  <2>2. MessagesToCC(Append(s, m)) \in Translation
    BY <2>1, TranslatedType DEF GoesOn
  <2>3. QED
    BY <2>1, <2>2
<1>3. QED
  <2> HIDE DEF T
  <2>1. \A s \in Seq(Message) : s \in T
    BY <1>1, <1>2, SeqInduction
  <2>2. QED
    BY <2>1 DEF T

-----------------------------------------------------------------------------
(***************************************************************************)
(* What is accepted.                                                       *)
(***************************************************************************)
(* A call of the conversation has the id and names its tool. *)
Offered(h, id) == \E j \in 1..Len(h) : Named(h[j], id) # {}

AcceptedAfter(h, m) ==
    \/ m.role \in Instructing
    \/ /\ m.role = "tool" /\ m.id # NoId
       /\ m.name # NoName \/ Offered(h, m.id)
       /\ Range(m.parts) \subseteq Words \cup {"blank"}
    \/ /\ m.role \in {"user", "assistant"}
       /\ Range(m.parts) \subseteq Words \cup {"blank", "image"}
       /\ \A c \in Range(m.calls) : c.valid /\ c.id # NoId /\ c.name # NoName

LEMMA NoCallsNoneNamed ==
    ASSUME NEW m \in Messages, NEW id, m.role # "assistant"
    PROVE  Named(m, id) = {}
<1>1. m.calls = <<>>
    BY MessagesAreMessages
<1>2. DOMAIN <<>> = {}
    OBVIOUS
<1>3. QED
    BY <1>1, <1>2 DEF Named

LEMMA NamedIsCalled ==
    ASSUME NEW m \in Message, NEW id
    PROVE  Named(m, id) # {} <=> \E c \in Range(m.calls) : c.id = id /\ c.name # NoName
    BY DEF Named, Range

LEMMA AppendedAt ==
    ASSUME NEW S, NEW s \in Seq(S), NEW x \in S
    PROVE  /\ Append(s, x) \in Seq(S) /\ Len(Append(s, x)) = Len(s) + 1 /\ Len(s) \in Nat
           /\ DOMAIN Append(s, x) = 1..(Len(s) + 1) /\ DOMAIN s = 1..Len(s)
           /\ Append(s, x)[Len(s) + 1] = x
           /\ \A i \in 1..Len(s) : Append(s, x)[i] = s[i] /\ s[i] \in S
    OBVIOUS

LEMMA OfferedAppend ==
    ASSUME NEW h \in Seq(Message), NEW m \in Message, NEW id
    PROVE  Offered(Append(h, m), id) <=> (Offered(h, id) \/ Named(m, id) # {})
<1> DEFINE hh == Append(h, m)
           n == Len(h)
<1>1. /\ Len(hh) = n + 1 /\ n \in Nat /\ hh[n + 1] = m
      /\ \A i \in 1..n : hh[i] = h[i]
    BY AppendedAt
<1> HIDE DEF hh
<1>2. ASSUME NEW j \in 1..Len(h), Named(h[j], id) # {} PROVE Offered(hh, id)
  <2>1. j \in 1..Len(hh) /\ hh[j] = h[j]
    BY <1>1
  <2>2. QED
    BY <1>2, <2>1 DEF Offered
<1>3. ASSUME Named(m, id) # {} PROVE Offered(hh, id)
  <2>1. n + 1 \in 1..Len(hh) /\ hh[n + 1] = m
    BY <1>1
  <2>2. QED
    BY <1>3, <2>1 DEF Offered
<1>4. ASSUME NEW j \in 1..Len(hh), Named(hh[j], id) # {} PROVE Offered(h, id) \/ Named(m, id) # {}
  <2>1. CASE j = n + 1
    BY <1>1, <1>4, <2>1
  <2>2. CASE j # n + 1
    <3>1. j \in 1..n
      BY <1>1, <2>2
    <3>2. hh[j] = h[j]
      BY <1>1, <3>1
    <3>3. QED
      BY <1>4, <3>1, <3>2 DEF Offered
  <2>3. QED
    BY <2>1, <2>2
<1>5. QED
  <2>1. Offered(h, id) => Offered(hh, id)
    BY <1>2 DEF Offered
  <2>2. Offered(hh, id) => (Offered(h, id) \/ Named(m, id) # {})
    BY <1>4 DEF Offered
  <2>3. QED
    BY <1>3, <2>1, <2>2 DEF hh

(* An answer looks for calls only before it. *)
SendableAt(h, i) ==
    LET m == h[i]
    IN  \/ m.role \in Instructing
        \/ /\ m.role = "tool" /\ m.id # NoId
           /\ m.name # NoName \/ Answers(h, i)
           /\ Range(m.parts) \subseteq Words \cup {"blank"}
        \/ /\ m.role \in {"user", "assistant"}
           /\ Range(m.parts) \subseteq Words \cup {"blank", "image"}
           /\ \A c \in Range(m.calls) : c.valid /\ c.id # NoId /\ c.name # NoName

LEMMA SendableAppend ==
    ASSUME NEW h \in Seq(Message), NEW m \in Message
    PROVE  Sendable(Append(h, m)) <=> (Sendable(h) /\ AcceptedAfter(h, m))
<1> DEFINE hh == Append(h, m)
           n == Len(h)
<1>1. /\ Len(hh) = n + 1 /\ n \in Nat /\ hh[n + 1] = m /\ hh \in Seq(Message)
      /\ \A i \in 1..n : hh[i] = h[i] /\ h[i] \in Message
      /\ DOMAIN hh = 1..(n + 1) /\ DOMAIN h = 1..n
    BY AppendedAt
<1> HIDE DEF hh
<1>2. /\ Sendable(hh) <=> \A i \in 1..(n + 1) : SendableAt(hh, i)
      /\ Sendable(h) <=> \A i \in 1..n : SendableAt(h, i)
    BY <1>1, Zenon DEF Sendable, SendableAt
<1>3. ASSUME NEW i \in 1..n PROVE SendableAt(hh, i) <=> SendableAt(h, i)
  <2>1. \A j \in 1..(i - 1) : hh[j] = h[j]
    BY <1>1
  <2>2. hh[i] = h[i]
    BY <1>1
  <2>3. Answers(hh, i) <=> Answers(h, i)
    BY <2>1, <2>2 DEF Answers
  <2>4. QED
    BY <2>2, <2>3, Zenon DEF SendableAt
<1>4. SendableAt(hh, n + 1) <=> AcceptedAfter(h, m)
  <2>1. (n + 1) - 1 = n
    BY <1>1
  <2>2. Answers(hh, n + 1) <=> Offered(h, m.id)
    <3>1. Answers(hh, n + 1) <=>
            \E j \in 1..n : \E c \in Range(hh[j].calls) : c.id = hh[n + 1].id /\ c.name # NoName
      BY <2>1 DEF Answers
    <3>2. ASSUME NEW j \in 1..n
          PROVE  Named(h[j], m.id) # {}
                   <=> \E c \in Range(hh[j].calls) : c.id = hh[n + 1].id /\ c.name # NoName
      <4> DEFINE k == h[j]
      <4>1. k \in Message /\ hh[j] = k /\ hh[n + 1] = m
        BY <1>1
      <4> HIDE DEF k
      <4>2. Named(k, m.id) # {} <=> \E c \in Range(k.calls) : c.id = m.id /\ c.name # NoName
        BY <4>1, NamedIsCalled
      <4>3. QED
        BY <4>1, <4>2 DEF k
    <3>3. QED
      BY <3>1, <3>2 DEF Offered
  <2>3. hh[n + 1] = m
    BY <1>1
  <2>4. QED
    BY <2>2, <2>3, Zenon DEF SendableAt, AcceptedAfter
<1>5. (\A i \in 1..(n + 1) : SendableAt(hh, i))
        <=> ((\A i \in 1..n : SendableAt(hh, i)) /\ SendableAt(hh, n + 1))
  <2> DEFINE At(i) == SendableAt(hh, i)
  <2> HIDE DEF At
  <2>1. 1..(n + 1) = 1..n \cup {n + 1}
    BY <1>1
  <2>2. (\A i \in 1..(n + 1) : At(i)) <=> ((\A i \in 1..n : At(i)) /\ At(n + 1))
    BY <2>1
  <2>3. QED
    BY <2>2 DEF At
<1>6. QED
    BY <1>2, <1>3, <1>4, <1>5 DEF hh

LEMMA LearnedMore ==
    ASSUME NEW names \in NameTable, NEW m \in Message, NEW id \in Ids
    PROVE  /\ Learned(names, m)[id] # NoName <=> (names[id] # NoName \/ Named(m, id) # {})
           /\ Named(m, id) = {} => Learned(names, m)[id] = names[id]
           /\ Named(m, id) # {} => Learned(names, m)[id] = m.calls[Max(Named(m, id))].name
<1>1. Learned(names, m)[id] =
        IF Named(m, id) = {} THEN names[id] ELSE m.calls[Max(Named(m, id))].name
    BY DEF Learned
<1>2. Named(m, id) # {} => m.calls[Max(Named(m, id))].name # NoName
    BY MaxNamed DEF Named
<1>3. QED
    BY <1>1, <1>2

(* What the code refuses is what is not accepted after the messages before. *)
LEMMA RefusedUnlessAccepted ==
    ASSUME NEW names \in NameTable, NEW h, NEW m \in Messages, m.role \notin Instructing,
           \A id \in Ids : names[id] # NoName <=> Offered(h, id)
    PROVE  ~Refused(Resolved(m, Learned(names, m))) <=> AcceptedAfter(h, m)
<1> DEFINE L == Learned(names, m)
           r == Resolved(m, L)
<1>1. m \in Message /\ L \in NameTable
    BY MessagesAreMessages, LearnedType
<1>2. /\ r.role = m.role /\ r.parts = m.parts /\ r.calls = m.calls /\ r.id = m.id
      /\ r.name = IF m.role = "tool" /\ m.name = NoName /\ m.id # NoId THEN L[m.id] ELSE m.name
  <2> HIDE DEF L
  <2>1. QED
    BY <1>1, ResolvedType
<1>3. CASE m.role = "tool"
  <2>1. m.id # NoId => (L[m.id] # NoName <=> Offered(h, m.id))
    <3>1. ASSUME m.id # NoId PROVE L[m.id] # NoName <=> Offered(h, m.id)
      <4>1. m.id \in Ids
        BY <1>1, <3>1, MessageFields
      <4>2. Named(m, m.id) = {}
        BY <1>3, NoCallsNoneNamed
      <4>3. L[m.id] = names[m.id]
        BY <1>1, <4>1, <4>2, LearnedMore
      <4>4. QED
        BY <4>1, <4>3
    <3>2. QED
      BY <3>1
  <2> HIDE DEF r, L
  <2>2. Refused(r) <=> \/ m.id = NoId \/ r.name = NoName
                       \/ ~(Range(m.parts) \subseteq Words \cup {"blank"})
    BY <1>2, <1>3 DEF Refused
  <2>3. AcceptedAfter(h, m) <=> /\ m.id # NoId
                                /\ m.name # NoName \/ Offered(h, m.id)
                                /\ Range(m.parts) \subseteq Words \cup {"blank"}
    BY <1>3 DEF AcceptedAfter, Instructing
  <2>4. m.id # NoId => (r.name # NoName <=> (m.name # NoName \/ Offered(h, m.id)))
    BY <1>2, <1>3, <2>1
  <2>5. ~Refused(r) <=> AcceptedAfter(h, m)
    BY <2>2, <2>3, <2>4
  <2>6. QED
    BY <2>5 DEF r, L
<1>4. CASE m.role # "tool"
  <2>1. m.role \in {"user", "assistant"}
    BY <1>1, <1>4, MessageFields DEF Roles, Instructing
  <2>2. Range(m.parts) \subseteq Parts
    <3>1. m.parts \in Seq(Parts)
      BY <1>1, MessageFields
    <3>2. QED
      BY <3>1 DEF Range
  <2>3. Range(m.parts) \cap {"remote", "nourl", "other"} = {}
          <=> Range(m.parts) \subseteq Words \cup {"blank", "image"}
    BY <2>2, ConversationAssumption DEF Parts
  <2> HIDE DEF r, L
  <2>4. Refused(r) <=> \/ Range(m.parts) \cap {"remote", "nourl", "other"} # {}
                       \/ \E c \in Range(m.calls) : c.id = NoId \/ c.name = NoName \/ ~c.valid
    BY <1>2, <1>4 DEF Refused
  <2>5. AcceptedAfter(h, m) <=>
          /\ Range(m.parts) \subseteq Words \cup {"blank", "image"}
          /\ \A c \in Range(m.calls) : c.valid /\ c.id # NoId /\ c.name # NoName
    BY <1>4, <2>1 DEF AcceptedAfter
  <2>6. ~Refused(r) <=> AcceptedAfter(h, m)
    BY <2>3, <2>4, <2>5
  <2>7. QED
    BY <2>6 DEF r, L
<1>5. QED
    BY <1>3, <1>4

Consistent(h) ==
    LET t == MessagesToCC(h)
    IN  /\ t.ok <=> Sendable(h)
        /\ t.ok => \A id \in Ids : t.names[id] # NoName <=> Offered(h, id)

LEMMA Consistency == \A h \in Seq(Messages) : Consistent(h)
<1> DEFINE T == {h \in Seq(Messages) : Consistent(h)}
<1>0. \A h \in Seq(Messages) : h \in Seq(Message)
    BY MessagesAreMessages
<1>1. <<>> \in T
  <2>1. /\ MessagesToCC(<<>>).ok /\ <<>> \in Seq(Messages)
        /\ \A id \in Ids : MessagesToCC(<<>>).names[id] = NoName
    BY TranslationOfNothing DEF Untranslated, NoNames
  <2>2. Sendable(<<>>)
    BY DEF Sendable
  <2>3. \A id : ~Offered(<<>>, id)
    BY DEF Offered
  <2>4. QED
    BY <2>1, <2>2, <2>3 DEF Consistent
<1>2. ASSUME NEW h \in Seq(Messages), NEW m \in Messages, h \in T PROVE Append(h, m) \in T
  <2> DEFINE hh == Append(h, m)
             t == MessagesToCC(h)
             tt == MessagesToCC(hh)
             r == Resolved(m, Learned(t.names, m))
  <2>1. h \in Seq(Message) /\ m \in Message /\ hh \in Seq(Messages)
    BY <1>0, MessagesAreMessages
  <2>2. t \in Translation /\ tt = Translated(t, m)
    BY <2>1, TranslationGoesOn DEF GoesOn
  <2>3. Consistent(h)
    BY <1>2
  <2>4. Sendable(hh) <=> (Sendable(h) /\ AcceptedAfter(h, m))
    BY <2>1, SendableAppend
  <2>5. \A id : Offered(hh, id) <=> (Offered(h, id) \/ Named(m, id) # {})
    BY <2>1, OfferedAppend
  <2>6. t.names \in NameTable /\ t.ok \in BOOLEAN
    BY <2>2 DEF Translation
  <2>7. CASE ~t.ok
    <3>1. tt = t
      BY <2>1, <2>2, <2>7, TranslatedCases DEF Skipped
    <3>2. ~Sendable(hh)
      BY <2>3, <2>4, <2>7 DEF Consistent
    <3>3. Consistent(hh)
      BY <2>7, <3>1, <3>2 DEF Consistent
    <3>4. QED
      BY <2>1, <3>3
  <2>8. CASE t.ok /\ m.role \in Instructing
    <3>1. tt = t
      BY <2>1, <2>2, <2>8, TranslatedCases DEF Skipped
    <3>2. Sendable(hh)
      BY <2>3, <2>4, <2>8 DEF Consistent, AcceptedAfter
    <3>3. \A id : Named(m, id) = {}
      BY <2>8, NoCallsNoneNamed DEF Instructing
    <3>4. Consistent(hh)
      BY <2>3, <2>5, <2>8, <3>1, <3>2, <3>3 DEF Consistent
    <3>5. QED
      BY <2>1, <3>4
  <2>9. CASE t.ok /\ m.role \notin Instructing
    <3>1. \A id \in Ids : t.names[id] # NoName <=> Offered(h, id)
      BY <2>3, <2>9 DEF Consistent
    <3>2. ~Refused(r) <=> AcceptedAfter(h, m)
      BY <2>6, <2>9, <3>1, RefusedUnlessAccepted
    <3>3. Sendable(h) /\ ~Skipped(t, m)
      BY <2>3, <2>9 DEF Consistent, Skipped
    <3>4. /\ Refused(r) => ~tt.ok
          /\ ~Refused(r) => tt.ok /\ tt.names = Learned(t.names, m)
      BY <2>1, <2>2, <3>3, TranslatedCases
    <3>5. ASSUME NEW id \in Ids
          PROVE  Learned(t.names, m)[id] # NoName <=> Offered(hh, id)
      BY <2>1, <2>5, <2>6, <3>1, LearnedMore
    <3>6. Consistent(hh)
      <4> HIDE DEF r, hh, t
      <4>1. tt.ok <=> Sendable(hh)
        BY <2>4, <3>2, <3>3, <3>4
      <4>2. tt.ok => tt.names = Learned(t.names, m)
        BY <3>4
      <4>3. QED
        BY <3>5, <4>1, <4>2 DEF Consistent
    <3>7. QED
      BY <2>1, <3>6
  <2>10. QED
    BY <2>7, <2>8, <2>9
<1>3. QED
  <2>1. \A h \in Seq(Messages) : h \in T
    BY <1>1, <1>2, SeqInduction
  <2>2. QED
    BY <2>1

-----------------------------------------------------------------------------
(***************************************************************************)
(* The names that results are shown under.                                 *)
(***************************************************************************)
SpokenOf == [m \in Message |-> IF m.role \in Instructing THEN <<>> ELSE <<m>>]

LEMMA SpokenOfType == SpokenOf \in [Message -> Seq(Message)]
<1>1. ASSUME NEW m \in Message
      PROVE  (IF m.role \in Instructing THEN <<>> ELSE <<m>>) \in Seq(Message)
    OBVIOUS
<1>2. QED
    BY <1>1 DEF SpokenOf

LEMMA SpokenMaps ==
    ASSUME NEW h \in Seq(Message)
    PROVE  Spoken(h) = MapFlat(SpokenOf, h) /\ Spoken(h) \in Seq(Message)
<1>1. \A i \in DOMAIN h : h[i] \in Message
    OBVIOUS
<1>2. \A i \in DOMAIN h : SpokenOf[h[i]] = IF h[i].role \in Instructing THEN <<>> ELSE <<h[i]>>
    BY <1>1 DEF SpokenOf
<1>3. Spoken(h) = MapFlat(SpokenOf, h)
    BY <1>2 DEF Spoken, MapFlat, Mapped
<1>4. QED
    BY <1>3, SpokenOfType, MapFlatType

SpokenGrows(h, m) ==
    Spoken(Append(h, m)) = IF m.role \in Instructing THEN Spoken(h) ELSE Append(Spoken(h), m)

LEMMA SpokenAppend ==
    ASSUME NEW h \in Seq(Message), NEW m \in Message
    PROVE  SpokenGrows(h, m)
<1> DEFINE s == Spoken(h)
<1>1. Append(h, m) \in Seq(Message)
    OBVIOUS
<1>2. MapsMore(SpokenOf, h, m)
    BY SpokenOfType, MapFlatAppend
<1>3. Spoken(Append(h, m)) = s \o SpokenOf[m] /\ s \in Seq(Message)
    BY <1>1, <1>2, SpokenMaps DEF MapsMore
<1>4. SpokenOf[m] = IF m.role \in Instructing THEN <<>> ELSE <<m>>
    BY DEF SpokenOf
<1> HIDE DEF s
<1>5. s \o <<>> = s /\ s \o <<m>> = Append(s, m)
    BY <1>3
<1>6. QED
    BY <1>3, <1>4, <1>5 DEF SpokenGrows, s

LEMMA MaxShifted ==
    ASSUME NEW p \in Nat, NEW n \in Nat, NEW S \in SUBSET (1..n), S # {}
    PROVE  Max({p + k : k \in S}) = p + Max(S)
<1> DEFINE T == {p + k : k \in S}
<1>1. Max(S) \in S /\ \A y \in S : Max(S) >= y
    BY Greatest
<1>2. T \in SUBSET (1..(p + n)) /\ T # {} /\ p + n \in Nat
  <2>1. ASSUME NEW x \in T PROVE x \in 1..(p + n)
    <3>1. PICK k \in S : x = p + k
      OBVIOUS
    <3>2. k \in 1..n
      OBVIOUS
    <3>3. QED
      BY <3>1, <3>2
  <2>2. T # {}
    OBVIOUS
  <2>3. QED
    BY <2>1, <2>2
<1>3. p + Max(S) \in T
    BY <1>1
<1> HIDE DEF T
<1>4. Max(T) \in T /\ \A y \in T : Max(T) >= y
    BY <1>2, Greatest
<1>5. PICK k \in S : Max(T) = p + k
    BY <1>4 DEF T
<1>6. Max(T) >= p + Max(S)
    BY <1>3, <1>4
<1> DEFINE a == Max(S)
<1>7. a \in Int /\ k \in Int /\ a >= k /\ p + k >= p + a
  <2>1. a \in S /\ k \in S /\ a >= k
    BY <1>1, <1>5
  <2>2. p + k >= p + a
    BY <1>5, <1>6
  <2>3. \A x \in S : x \in Int
    OBVIOUS
  <2>4. QED
    BY <2>1, <2>2, <2>3
<1> HIDE DEF a
<1>8. k = a
    BY <1>7
<1>9. QED
    BY <1>5, <1>8 DEF T, a

(* The calls of what Command Code is shown are those of the message, behind its text. *)
Pretext(m) == Reasoned(m) \o Shown(m)

LEMMA PretextType ==
    ASSUME NEW m \in Message
    PROVE  /\ Pretext(m) \in Seq(CCPart) /\ Len(Pretext(m)) \in Nat
           /\ \A i \in 1..Len(Pretext(m)) : Pretext(m)[i].type # "tool-call"
<1>1. Pretext(m) \in Seq(Spelled)
    BY ReasonedType, ShownType DEF Pretext
<1> DEFINE s == Pretext(m)
<1>2. s \in Seq(Spelled)
    BY <1>1
<1> HIDE DEF s
<1>3. Spelled \subseteq CCPart /\ \A x \in Spelled : x.type # "tool-call"
    BY DEF Spelled
<1>4. s \in Seq(CCPart) /\ Len(s) \in Nat /\ \A i \in 1..Len(s) : s[i] \in Spelled
    BY <1>2, <1>3
<1>5. QED
    BY <1>3, <1>4 DEF s

LEMMA CallsAreShown ==
    ASSUME NEW m \in Message, m.role # "tool", NEW role, NEW id,
           \A k \in 1..Len(m.calls) : m.calls[k].name # NoName
    PROVE  LET said == [role |-> role, content |-> ContentToCC(m)]
           IN  /\ Named(m, id) = {} => CallsOf(said, id) = {}
               /\ Named(m, id) # {} =>
                    /\ CallsOf(said, id) # {}
                    /\ said.content[Max(CallsOf(said, id))].name = m.calls[Max(Named(m, id))].name
<1> DEFINE pre == Pretext(m)
           calls == Called(m)
           p == Len(pre)
           n == Len(m.calls)
           c == ContentToCC(m)
           said == [role |-> role, content |-> c]
<1>1. c = pre \o calls
    BY ContentIs DEF Pretext
<1>2. /\ pre \in Seq(CCPart) /\ p \in Nat /\ \A i \in 1..p : pre[i].type # "tool-call"
      /\ calls \in Seq(CCPart) /\ Len(calls) = n
    BY PretextType, CalledType
<1>3. n \in Nat /\ DOMAIN m.calls = 1..n
    BY MessageFields
<1>4. \A k \in 1..n : /\ calls[k].type = "tool-call"
                      /\ calls[k].id = m.calls[k].id /\ calls[k].name = m.calls[k].name
    BY CalledType
<1> HIDE DEF pre, calls
<1>5. DOMAIN c = 1..(p + n)
  <2>1. pre \o calls \in Seq(CCPart) /\ Len(pre \o calls) = p + n
    <3>1. Len(pre \o calls) = Len(pre) + Len(calls)
      BY <1>2, ConcatProperties
    <3>2. pre \o calls \in Seq(CCPart)
      BY <1>2
    <3>3. QED
      BY <1>2, <3>1, <3>2
  <2> HIDE DEF c
  <2>2. c \in Seq(CCPart) /\ Len(c) = p + n
    BY <1>1, <2>1
  <2>3. QED
    BY <2>2
<1>6. /\ \A i \in 1..p : i \in DOMAIN c /\ c[i] = pre[i]
      /\ \A k \in 1..n : p + k \in DOMAIN c /\ c[p + k] = calls[k]
      /\ \A i \in DOMAIN c : i \in 1..p \/ (i - p \in 1..n /\ i = p + (i - p))
  <2>1. \A i \in 1..p : i \in DOMAIN c /\ c[i] = pre[i]
    BY <1>1, <1>2, <1>3, <1>5
  <2>2. ASSUME NEW k \in 1..n PROVE p + k \in DOMAIN c /\ c[p + k] = calls[k]
    <3>1. p + k \in 1..(p + n) /\ ~(p + k <= p) /\ (p + k) - p = k
      BY <1>2, <1>3
    <3>2. (pre \o calls)[p + k] = calls[(p + k) - p]
      BY <1>2, <3>1
    <3>3. QED
      BY <1>1, <1>5, <3>1, <3>2
  <2>3. \A i \in DOMAIN c : i \in 1..p \/ (i - p \in 1..n /\ i = p + (i - p))
    BY <1>2, <1>3, <1>5
  <2>4. QED
    BY <2>1, <2>2, <2>3
<1>7. CallsOf(said, id) = {i \in DOMAIN c : c[i].type = "tool-call" /\ c[i].id = id}
    BY DEF CallsOf
<1>8. Named(m, id) = {k \in 1..n : m.calls[k].id = id}
    BY <1>3 DEF Named
<1> HIDE DEF c, p, n
<1> DEFINE S == Named(m, id)
           T == {p + k : k \in S}
<1>9. CallsOf(said, id) = T
  <2>1. ASSUME NEW i \in DOMAIN c, c[i].type = "tool-call", c[i].id = id PROVE i \in T
    <3>1. i \notin 1..p
      BY <1>2, <1>6, <2>1
    <3>2. i - p \in 1..n /\ i = p + (i - p)
      BY <1>6, <3>1
    <3>3. c[p + (i - p)] = calls[i - p]
      BY <1>6, <3>2
    <3>4. m.calls[i - p].id = id
      BY <1>4, <2>1, <3>2, <3>3
    <3>5. i - p \in S
      BY <1>8, <3>2, <3>4
    <3>6. QED
      BY <3>2, <3>5
  <2>2. ASSUME NEW k \in S PROVE p + k \in DOMAIN c /\ c[p + k].type = "tool-call" /\ c[p + k].id = id
    <3>1. k \in 1..n /\ m.calls[k].id = id
      BY <1>8
    <3>2. p + k \in DOMAIN c /\ c[p + k] = calls[k]
      BY <1>6, <3>1
    <3>3. QED
      BY <1>4, <3>1, <3>2
  <2>3. QED
    <3> HIDE DEF S
    <3>1. T \subseteq CallsOf(said, id)
      BY <1>7, <2>2
    <3>2. CallsOf(said, id) \subseteq T
      BY <1>7, <2>1
    <3>3. QED
      BY <3>1, <3>2
<1>10. S \subseteq 1..n
    BY <1>8
<1>11. said.content = c
    OBVIOUS
<1> HIDE DEF S, said
<1>12. CASE S = {}
  <2>1. T = {}
    BY <1>12
  <2>2. QED
    BY <1>9, <1>12, <2>1 DEF S, said, c
<1>13. CASE S # {}
  <2>1. Max(T) = p + Max(S)
    BY <1>2, <1>3, <1>10, <1>13, MaxShifted
  <2>2. Max(S) \in S
    BY <1>3, <1>10, <1>13, Greatest
  <2> DEFINE x == Max(S)
  <2>3. x \in 1..n
    BY <1>10, <2>2
  <2> HIDE DEF x
  <2>4. c[p + x] = calls[x] /\ calls[x].name = m.calls[x].name
    BY <1>4, <1>6, <2>3
  <2>5. T # {}
    BY <1>13
  <2> HIDE DEF T
  <2>6. said.content[Max(CallsOf(said, id))].name = m.calls[Max(S)].name
    BY <1>9, <1>11, <2>1, <2>4 DEF x
  <2>7. QED
    BY <1>9, <1>13, <2>5, <2>6 DEF S, said, c
<1>14. QED
    BY <1>12, <1>13

Tools(messages, told) ==
    \A i \in DOMAIN messages :
        LET m == told[i]
            result == messages[i].content[1]
        IN  m.role = "tool" /\ m.name = NoName => CalledLast(messages, i, result.id, result.name)

(* Only the messages before one matter to it. *)
LEMMA CalledLastBefore ==
    ASSUME NEW a, NEW b, NEW i \in Nat, NEW id, NEW name,
           \A j \in 1..(i - 1) : a[j] = b[j], CalledLast(a, i, id, name)
    PROVE  CalledLast(b, i, id, name)
<1>1. PICK j \in 1..(i - 1) :
          /\ CallsOf(a[j], id) # {}
          /\ \A l \in (j + 1)..(i - 1) : CallsOf(a[l], id) = {}
          /\ a[j].content[Max(CallsOf(a[j], id))].name = name
    BY DEF CalledLast
<1>2. a[j] = b[j]
    OBVIOUS
<1>3. ASSUME NEW l \in (j + 1)..(i - 1) PROVE CallsOf(b[l], id) = {}
  <2>1. l \in 1..(i - 1)
    OBVIOUS
  <2>2. a[l] = b[l] /\ CallsOf(a[l], id) = {}
    BY <1>1, <2>1
  <2>3. QED
    BY <2>2
<1>4. /\ CallsOf(b[j], id) # {}
      /\ b[j].content[Max(CallsOf(b[j], id))].name = name
    BY <1>1, <1>2
<1>5. QED
    BY <1>3, <1>4 DEF CalledLast

(* A message without a call with the id leaves the last one where it is. *)
LEMMA CalledLastStill ==
    ASSUME NEW a, NEW n \in Nat, NEW id, NEW name,
           CalledLast(a, n, id, name), CallsOf(a[n], id) = {}
    PROVE  CalledLast(a, n + 1, id, name)
<1>1. PICK j \in 1..(n - 1) :
          /\ CallsOf(a[j], id) # {}
          /\ \A l \in (j + 1)..(n - 1) : CallsOf(a[l], id) = {}
          /\ a[j].content[Max(CallsOf(a[j], id))].name = name
    BY DEF CalledLast
<1>2. (n + 1) - 1 = n /\ j \in 1..n
    OBVIOUS
<1>3. ASSUME NEW l \in (j + 1)..n PROVE CallsOf(a[l], id) = {}
  <2>1. CASE l = n
    BY <2>1
  <2>2. CASE l # n
    <3>1. l \in (j + 1)..(n - 1)
      BY <2>2
    <3>2. QED
      BY <1>1, <3>1
  <2>3. QED
    BY <2>1, <2>2
<1>4. QED
    BY <1>1, <1>2, <1>3 DEF CalledLast

(* And one with a call is the last. *)
LEMMA CalledLastNow ==
    ASSUME NEW a, NEW n \in Nat, n > 0, NEW id, CallsOf(a[n], id) # {}
    PROVE  CalledLast(a, n + 1, id, a[n].content[Max(CallsOf(a[n], id))].name)
<1>1. (n + 1) - 1 = n /\ n \in 1..n /\ (n + 1)..n = {}
    OBVIOUS
<1>2. QED
    BY <1>1 DEF CalledLast

(* What is told of a longer conversation holds of what was told first. *)
LEMMA ToolsBefore ==
    ASSUME NEW a \in Seq(CCMessage), NEW b \in Seq(CCMessage), NEW s, NEW u,
           Len(a) <= Len(b), \A i \in 1..Len(a) : a[i] = b[i] /\ s[i] = u[i], Tools(b, u)
    PROVE  Tools(a, s)
<1>1. DOMAIN a = 1..Len(a) /\ DOMAIN b = 1..Len(b) /\ Len(a) \in Nat /\ Len(b) \in Nat
    OBVIOUS
<1> SUFFICES ASSUME NEW i \in 1..Len(a), s[i].role = "tool", s[i].name = NoName
             PROVE  CalledLast(a, i, a[i].content[1].id, a[i].content[1].name)
    BY <1>1 DEF Tools
<1>2. i \in DOMAIN b /\ i \in Nat /\ a[i] = b[i] /\ s[i] = u[i]
    BY <1>1
<1>3. CalledLast(b, i, a[i].content[1].id, a[i].content[1].name)
    BY <1>2 DEF Tools
<1>4. \A j \in 1..(i - 1) : b[j] = a[j]
    BY <1>1
<1>5. QED
    BY <1>2, <1>3, <1>4, CalledLastBefore

NamesFollow(h) ==
    LET t == MessagesToCC(h)
    IN  /\ Len(t.messages) <= Len(Spoken(h))
        /\ t.ok => Len(t.messages) = Len(Spoken(h))
        /\ Tools(t.messages, Spoken(h))
        /\ t.ok => \A id \in Ids : t.names[id] # NoName =>
                       CalledLast(t.messages, Len(t.messages) + 1, id, t.names[id])

(* A message that is translated, after messages whose names are known. *)
LEMMA AcceptedNamesFollow ==
    ASSUME NEW t \in Translation, NEW m \in Messages, m.role \notin Instructing, t.ok,
           NEW s \in Seq(Message), Len(t.messages) = Len(s), Tools(t.messages, s),
           \A id \in Ids : t.names[id] # NoName =>
               CalledLast(t.messages, Len(t.messages) + 1, id, t.names[id]),
           ~Refused(Resolved(m, Learned(t.names, m)))
    PROVE  LET tt == Translated(t, m)
           IN  /\ Len(tt.messages) = Len(s) + 1
               /\ Tools(tt.messages, Append(s, m))
               /\ \A id \in Ids : tt.names[id] # NoName =>
                      CalledLast(tt.messages, Len(tt.messages) + 1, id, tt.names[id])
<1> DEFINE L == Learned(t.names, m)
           r == Resolved(m, L)
           c == ContentToCC(r)
           said == [role |-> RoleToCC(m.role), content |-> c]
           a == t.messages
           b == Append(a, said)
           n == Len(a)
           ss == Append(s, m)
<1>0. m \in Message /\ t.names \in NameTable /\ a \in Seq(CCMessage)
    BY MessagesAreMessages DEF Translation
<1>1. Translated(t, m).messages = b /\ Translated(t, m).names = L
    BY <1>0, TranslatedCases DEF Skipped, Translated1
<1>2. said \in CCMessage /\ L \in NameTable
    BY <1>0, SaidType, LearnedType DEF Skipped
<1>3. /\ r \in Message /\ r.role = m.role /\ r.calls = m.calls /\ r.id = m.id
      /\ r.name = IF m.role = "tool" /\ m.name = NoName /\ m.id # NoId THEN L[m.id] ELSE m.name
  <2> HIDE DEF L
  <2>1. QED
    BY <1>0, <1>2, ResolvedType
<1>4. said.content = c /\ ~Refused(r)
    OBVIOUS
<1>5. \A id \in Ids : L[id] # NoName <=> (t.names[id] # NoName \/ Named(m, id) # {})
    BY <1>0, LearnedMore
<1>6. \A id \in Ids : /\ Named(m, id) = {} => L[id] = t.names[id]
                      /\ Named(m, id) # {} => L[id] = m.calls[Max(Named(m, id))].name
    BY <1>0, LearnedMore
<1>7. m.role = "tool" => c = <<Result(r)>>
    BY <1>3, ContentIs
<1>8. \A id : Named(r, id) = Named(m, id)
    BY <1>3 DEF Named
<1> HIDE DEF r, L
<1>9. ASSUME NEW id
      PROVE  /\ Named(m, id) = {} => CallsOf(said, id) = {}
             /\ Named(m, id) # {} =>
                  /\ CallsOf(said, id) # {}
                  /\ said.content[Max(CallsOf(said, id))].name = m.calls[Max(Named(m, id))].name
  <2>1. CASE m.role = "tool"
    <3>1. Named(m, id) = {}
      BY <2>1, NoCallsNoneNamed
    <3>2. DOMAIN c = {1} /\ c[1].type = "tool-result"
      <4> DEFINE x == Result(r)
      <4>1. x.type = "tool-result"
        BY DEF Result
      <4> HIDE DEF x
      <4>2. DOMAIN <<x>> = {1} /\ <<x>>[1] = x
        OBVIOUS
      <4>3. c = <<x>>
        BY <1>7, <2>1 DEF x
      <4>4. QED
        BY <4>1, <4>2, <4>3
    <3>3. CallsOf(said, id) = {}
      <4> HIDE DEF c
      <4>1. QED
        BY <1>4, <3>2 DEF CallsOf
    <3>4. QED
      BY <3>1, <3>3
  <2>2. CASE m.role # "tool"
    <3>1. \A k \in 1..Len(r.calls) : r.calls[k].name # NoName
      <4>1. \A x \in Range(r.calls) : x.name # NoName
        BY <1>3, <1>4, <2>2 DEF Refused
      <4>2. DOMAIN r.calls = 1..Len(r.calls)
        <5>1. r.calls \in Seq(Call)
          BY <1>3, MessageFields
        <5>2. QED
          BY <5>1
      <4>3. QED
        BY <4>1, <4>2 DEF Range
    <3>2. /\ Named(r, id) = {} => CallsOf(said, id) = {}
          /\ Named(r, id) # {} =>
               /\ CallsOf(said, id) # {}
               /\ said.content[Max(CallsOf(said, id))].name = r.calls[Max(Named(r, id))].name
      BY <1>3, <2>2, <3>1, CallsAreShown
    <3>3. QED
      BY <1>3, <1>8, <3>2
  <2>3. QED
    BY <2>1, <2>2
<1> HIDE DEF said, c
<1>10. /\ Len(b) = n + 1 /\ n \in Nat /\ b[n + 1] = said /\ b \in Seq(CCMessage)
       /\ \A j \in 1..n : b[j] = a[j]
       /\ DOMAIN b = 1..(n + 1) /\ DOMAIN a = 1..n
  <2> HIDE DEF a
  <2>1. QED
    BY <1>0, <1>2, AppendedAt
<1>11. ss[n + 1] = m /\ \A j \in 1..n : ss[j] = s[j]
    BY <1>0, AppendedAt
<1> HIDE DEF a, b, ss
<1>12. ASSUME NEW i \in 1..n, ss[i].role = "tool", ss[i].name = NoName
       PROVE  CalledLast(b, i, b[i].content[1].id, b[i].content[1].name)
  <2>1. i \in DOMAIN a /\ i \in Nat /\ ss[i] = s[i] /\ b[i] = a[i]
    BY <1>10, <1>11
  <2>2. CalledLast(a, i, b[i].content[1].id, b[i].content[1].name)
    BY <1>12, <2>1 DEF Tools, a
  <2>3. \A j \in 1..(i - 1) : a[j] = b[j]
    BY <1>10
  <2>4. QED
    BY <2>1, <2>2, <2>3, CalledLastBefore
<1>13. \A id, name : CalledLast(a, n + 1, id, name) => CalledLast(b, n + 1, id, name)
  <2>1. n + 1 \in Nat /\ \A j \in 1..((n + 1) - 1) : a[j] = b[j]
    BY <1>10
  <2>2. QED
    BY <2>1, CalledLastBefore
<1>14. ASSUME m.role = "tool", m.name = NoName
       PROVE  CalledLast(b, n + 1, said.content[1].id, said.content[1].name)
  <2>1. m.id # NoId /\ r.name # NoName
    BY <1>3, <1>4, <1>14 DEF Refused
  <2>2. m.id \in Ids
    BY <1>0, <2>1, MessageFields
  <2>3. Named(m, m.id) = {}
    BY <1>14, NoCallsNoneNamed
  <2>4. r.name = t.names[m.id]
    BY <1>3, <1>6, <1>14, <2>1, <2>2, <2>3
  <2>5. CalledLast(b, n + 1, m.id, r.name)
    BY <1>13, <2>1, <2>2, <2>4 DEF a, n
  <2>6. said.content[1].id = m.id /\ said.content[1].name = r.name
    <3> DEFINE x == Result(r)
    <3>1. x.id = m.id /\ x.name = r.name
      BY <1>3 DEF Result
    <3> HIDE DEF x
    <3>2. said.content = <<x>> /\ <<x>>[1] = x
      BY <1>4, <1>7, <1>14 DEF x
    <3>3. QED
      BY <3>1, <3>2
  <2>7. QED
    BY <2>5, <2>6
<1>15. Tools(b, ss)
  <2>1. ASSUME NEW i \in 1..(n + 1), ss[i].role = "tool", ss[i].name = NoName
        PROVE  CalledLast(b, i, b[i].content[1].id, b[i].content[1].name)
    <3>1. CASE i = n + 1
      BY <1>10, <1>11, <1>14, <2>1, <3>1
    <3>2. CASE i # n + 1
      <4>1. i \in 1..n
        BY <1>10, <3>2
      <4>2. QED
        BY <1>12, <2>1, <4>1
    <3>3. QED
      BY <3>1, <3>2
  <2>2. QED
    BY <1>10, <2>1 DEF Tools
<1>16. ASSUME NEW id \in Ids, L[id] # NoName
       PROVE  CalledLast(b, n + 2, id, L[id])
  <2>1. n + 1 \in Nat /\ n + 1 > 0 /\ (n + 1) + 1 = n + 2
    BY <1>10
  <2>2. CASE Named(m, id) = {}
    <3>1. L[id] = t.names[id] /\ t.names[id] # NoName
      BY <1>6, <1>16, <2>2
    <3>2. CalledLast(b, n + 1, id, L[id])
      BY <1>13, <3>1 DEF a, n
    <3>3. CallsOf(b[n + 1], id) = {}
      BY <1>9, <1>10, <2>2
    <3>4. QED
      BY <2>1, <3>2, <3>3, CalledLastStill
  <2>3. CASE Named(m, id) # {}
    <3>1. CallsOf(b[n + 1], id) # {}
      BY <1>9, <1>10, <2>3
    <3>2. b[n + 1].content[Max(CallsOf(b[n + 1], id))].name = L[id]
      BY <1>6, <1>9, <1>10, <2>3
    <3>3. CalledLast(b, (n + 1) + 1, id, b[n + 1].content[Max(CallsOf(b[n + 1], id))].name)
      BY <2>1, <3>1, CalledLastNow
    <3>4. QED
      BY <2>1, <3>2, <3>3
  <2>4. QED
    BY <2>2, <2>3
<1>17. QED
  <2>1. Len(b) + 1 = n + 2 /\ Len(s) = n
    BY <1>10 DEF a
  <2>2. QED
    BY <1>1, <1>10, <1>15, <1>16, <2>1 DEF ss

LEMMA NamesAlwaysFollow == \A h \in Seq(Messages) : NamesFollow(h)
<1> DEFINE T == {h \in Seq(Messages) : NamesFollow(h)}
<1>0. \A h \in Seq(Messages) : h \in Seq(Message)
    BY MessagesAreMessages
<1>1. <<>> \in T
  <2>1. <<>> \in Seq(Messages) /\ <<>> \in Seq(Message) /\ Len(<<>>) = 0
    OBVIOUS
  <2>2. Spoken(<<>>) = <<>>
    BY <2>1, SpokenMaps, MapFlatEmpty
  <2>3. MessagesToCC(<<>>).messages = <<>> /\ \A id \in Ids : MessagesToCC(<<>>).names[id] = NoName
    BY TranslationOfNothing DEF Untranslated, NoNames
  <2>4. Tools(<<>>, <<>>)
    BY DEF Tools
  <2>5. NamesFollow(<<>>)
    BY <2>1, <2>2, <2>3, <2>4 DEF NamesFollow
  <2>6. QED
    BY <2>1, <2>5
<1>2. ASSUME NEW h \in Seq(Messages), NEW m \in Messages, h \in T PROVE Append(h, m) \in T
  <2> DEFINE hh == Append(h, m)
             t == MessagesToCC(h)
             tt == MessagesToCC(hh)
             r == Resolved(m, Learned(t.names, m))
             s == Spoken(h)
             n == Len(t.messages)
  <2>1. h \in Seq(Message) /\ m \in Message /\ hh \in Seq(Messages)
    BY <1>0, MessagesAreMessages
  <2>2. t \in Translation /\ tt = Translated(t, m)
    BY <2>1, TranslationGoesOn DEF GoesOn
  <2>3. NamesFollow(h)
    BY <1>2
  <2>4. s \in Seq(Message) /\ Spoken(hh) = IF m.role \in Instructing THEN s ELSE Append(s, m)
    BY <2>1, SpokenMaps, SpokenAppend DEF SpokenGrows
  <2>5. t.messages \in Seq(CCMessage) /\ n \in Nat /\ Len(s) \in Nat
    BY <2>2, <2>4 DEF Translation
  <2>6. /\ n <= Len(s) /\ Tools(t.messages, s)
        /\ t.ok => n = Len(s)
    BY <2>3 DEF NamesFollow
  <2>7. /\ Len(Append(s, m)) = Len(s) + 1
        /\ \A i \in 1..n : Append(s, m)[i] = s[i]
    <3> HIDE DEF s, n
    <3>1. /\ Len(Append(s, m)) = Len(s) + 1
          /\ \A i \in 1..Len(s) : Append(s, m)[i] = s[i]
      BY <2>1, <2>4, AppendedAt
    <3>2. \A i \in 1..n : i \in 1..Len(s)
      BY <2>5, <2>6
    <3>3. QED
      BY <3>1, <3>2
  <2>8. Len(Append(s, m)) >= n /\ Tools(t.messages, Append(s, m))
    <3> DEFINE a == t.messages
               u == Append(s, m)
    <3>1. a \in Seq(CCMessage) /\ Len(a) <= Len(a) /\ Tools(a, s)
      BY <2>5, <2>6
    <3>2. \A i \in 1..Len(a) : a[i] = a[i] /\ u[i] = s[i]
      BY <2>7
    <3>3. Len(u) >= n
      BY <2>5, <2>6, <2>7
    <3> HIDE DEF a, u, s
    <3>4. Tools(a, u)
      BY <3>1, <3>2, ToolsBefore
    <3>5. QED
      BY <3>3, <3>4 DEF a, u
  <2>9. Len(Spoken(hh)) >= n /\ Tools(t.messages, Spoken(hh))
    BY <2>4, <2>5, <2>6, <2>8
  <2>10. CASE Skipped(t, m)
    <3>1. tt = t
      BY <2>1, <2>2, <2>10, TranslatedCases
    <3>2. t.ok => Spoken(hh) = s
      BY <2>4, <2>10 DEF Skipped
    <3> HIDE DEF t, s
    <3>3. /\ n <= Len(Spoken(hh))
          /\ t.ok => n = Len(Spoken(hh))
      BY <2>5, <2>6, <2>9, <3>2
    <3>4. NamesFollow(hh)
      BY <2>3, <2>9, <3>1, <3>3 DEF NamesFollow, t
    <3>5. QED
      BY <2>1, <3>4
  <2>11. CASE ~Skipped(t, m) /\ Refused(r)
    <3>1. ~tt.ok /\ tt.messages = t.messages
      BY <2>1, <2>2, <2>11, TranslatedCases
    <3>2. n <= Len(Spoken(hh))
      <4>1. Len(Spoken(hh)) \in Nat
        <5>1. hh \in Seq(Message)
          BY <1>0, <2>1
        <5>2. Spoken(hh) \in Seq(Message)
          BY <5>1, SpokenMaps
        <5>3. QED
          BY <5>2
      <4>2. QED
        BY <2>5, <2>9, <4>1
    <3> HIDE DEF t
    <3>3. NamesFollow(hh)
      BY <2>9, <3>1, <3>2 DEF NamesFollow
    <3>4. QED
      BY <2>1, <3>3
  <2>12. CASE ~Skipped(t, m) /\ ~Refused(r)
    <3>1. t.ok /\ m.role \notin Instructing /\ Len(t.messages) = Len(s)
      BY <2>6, <2>12 DEF Skipped
    <3>2. \A id \in Ids : t.names[id] # NoName =>
              CalledLast(t.messages, Len(t.messages) + 1, id, t.names[id])
      BY <2>3, <3>1 DEF NamesFollow
    <3> HIDE DEF t, s
    <3>3. /\ Len(tt.messages) = Len(s) + 1
          /\ Tools(tt.messages, Append(s, m))
          /\ \A id \in Ids : tt.names[id] # NoName =>
                 CalledLast(tt.messages, Len(tt.messages) + 1, id, tt.names[id])
      BY <2>2, <2>4, <2>6, <2>12, <3>1, <3>2, AcceptedNamesFollow
    <3>4. Spoken(hh) = Append(s, m)
      BY <2>4, <3>1
    <3>5. Len(tt.messages) = Len(Spoken(hh)) /\ Len(Spoken(hh)) \in Nat
      BY <2>5, <2>7, <3>3, <3>4
    <3>6. NamesFollow(hh)
      <4> HIDE DEF hh
      <4>1. QED
        BY <3>3, <3>4, <3>5 DEF NamesFollow
    <3>7. QED
      BY <2>1, <3>6
  <2>13. QED
    BY <2>10, <2>11, <2>12
<1>3. QED
  <2>1. \A h \in Seq(Messages) : h \in T
    BY <1>1, <1>2, SeqInduction
  <2>2. QED
    BY <2>1

-----------------------------------------------------------------------------
(***************************************************************************)
(* Requests only add to the last one.                                      *)
(***************************************************************************)
LEMMA PrefixSame ==
    ASSUME NEW X, NEW s \in Seq(X)
    PROVE  IsPrefix(s, s)
    BY DEF IsPrefix

LEMMA PrefixCat ==
    ASSUME NEW X, NEW s \in Seq(X), NEW t \in Seq(X), NEW u \in Seq(X), IsPrefix(s, t)
    PROVE  IsPrefix(s, t \o u)
<1>1. Len(s) <= Len(t) /\ Len(t \o u) = Len(t) + Len(u)
    BY DEF IsPrefix
<1>2. \A i \in 1..Len(s) : t[i] = (t \o u)[i]
    BY <1>1
<1>3. SubSeq(t, 1, Len(s)) = SubSeq(t \o u, 1, Len(s))
    BY <1>1, <1>2
<1>4. QED
    BY <1>1, <1>3 DEF IsPrefix

LEMMA PrefixAt ==
    ASSUME NEW X, NEW s \in Seq(X), NEW t \in Seq(X), IsPrefix(s, t)
    PROVE  Len(s) <= Len(t) /\ \A i \in 1..Len(s) : s[i] = t[i]
<1>1. Len(s) <= Len(t) /\ SubSeq(s, 1, Len(s)) = SubSeq(t, 1, Len(s))
    BY DEF IsPrefix
<1>2. ASSUME NEW i \in 1..Len(s) PROVE s[i] = t[i]
  <2>1. SubSeq(s, 1, Len(s))[i] = s[i] /\ SubSeq(t, 1, Len(s))[i] = t[i]
    BY <1>1
  <2>2. QED
    BY <1>1, <2>1
<1>3. QED
    BY <1>1, <1>2

InstructionsOf == [m \in Message |-> IF m.role \in Instructing THEN PlainText(m) ELSE <<>>]

ItemType ==
    [type : {"message", "function_call", "function_call_output"}, role : Roles,
     parts : Seq(Parts), id : Ids \cup {NoId}, name : Names \cup {NoName}]

ItemsOf == [m \in Message |-> ResponsesItems(m)]

LEMMA InstructionsOfType == InstructionsOf \in [Message -> Seq(Parts)]
<1>1. ASSUME NEW m \in Message
      PROVE  (IF m.role \in Instructing THEN PlainText(m) ELSE <<>>) \in Seq(Parts)
    BY PlainTextType
<1>2. QED
    BY <1>1 DEF InstructionsOf

LEMMA ExtractSystemMaps ==
    ASSUME NEW h \in Seq(Message)
    PROVE  ExtractSystem(h) = MapFlat(InstructionsOf, h) /\ ExtractSystem(h) \in Seq(Parts)
<1>1. \A i \in DOMAIN h : h[i] \in Message
    OBVIOUS
<1>2. \A i \in DOMAIN h :
          InstructionsOf[h[i]] = IF h[i].role \in Instructing THEN PlainText(h[i]) ELSE <<>>
    BY <1>1 DEF InstructionsOf
<1>3. ExtractSystem(h) = MapFlat(InstructionsOf, h)
    BY <1>2 DEF ExtractSystem, MapFlat, Mapped
<1>4. QED
    BY <1>3, InstructionsOfType, MapFlatType

LEMMA ItemIsItem ==
    ASSUME NEW type \in {"message", "function_call", "function_call_output"}, NEW role \in Roles,
           NEW parts \in Seq(Parts)
    PROVE  /\ Item(type, role, parts) \in ItemType
           /\ Item(type, role, parts).type = type /\ Item(type, role, parts).role = role
           /\ Item(type, role, parts).parts = parts
    BY DEF Item, ItemType

Output(m) == [Item("function_call_output", "tool", m.parts) EXCEPT !.id = m.id]

LEMMA OutputType ==
    ASSUME NEW m \in Message
    PROVE  /\ Output(m) \in ItemType /\ Output(m).type = "function_call_output"
           /\ Output(m).parts = m.parts /\ Output(m).id = m.id
    BY MessageFields DEF Output, Item, ItemType, Roles

LEMMA CallItemsType ==
    ASSUME NEW m \in Message
    PROVE  /\ CallItems(m) \in Seq(ItemType) /\ Len(CallItems(m)) = Len(m.calls)
           /\ \A k \in 1..Len(m.calls) : /\ CallItems(m)[k].type = "function_call"
                                         /\ CallItems(m)[k].id = m.calls[k].id
<1>1. m.calls \in Seq(Call) /\ Len(m.calls) \in Nat /\ DOMAIN m.calls = 1..Len(m.calls)
    BY MessageFields
<1> DEFINE C(i) == [Item("function_call", "assistant", <<>>) EXCEPT
                      !.id = m.calls[i].id, !.name = m.calls[i].name]
<1>2. ASSUME NEW i \in 1..Len(m.calls) PROVE C(i) \in ItemType
  <2>1. m.calls[i] \in Call
    BY <1>1
  <2>2. m.calls[i].id \in Ids \cup {NoId} /\ m.calls[i].name \in Names \cup {NoName}
    BY <2>1 DEF Call
  <2>3. <<>> \in Seq(Parts)
    OBVIOUS
  <2>4. QED
    BY <2>2, <2>3 DEF Item, ItemType, Roles
<1>3. CallItems(m) = [i \in 1..Len(m.calls) |-> C(i)]
    BY <1>1 DEF CallItems
<1>4. CallItems(m) \in Seq(ItemType) /\ Len(CallItems(m)) = Len(m.calls)
  <2> HIDE DEF C
  <2>1. QED
    BY <1>1, <1>2, <1>3
<1>5. \A k \in 1..Len(m.calls) : CallItems(m)[k] = C(k)
    BY <1>3
<1>6. \A k : C(k).type = "function_call" /\ C(k).id = m.calls[k].id
    BY DEF Item
<1> HIDE DEF C
<1>7. QED
    BY <1>4, <1>5, <1>6

SaidItem(m) == IF Empty(m) THEN <<>> ELSE <<Item("message", m.role, m.parts)>>

LEMMA ResponsesItemsAre ==
    ASSUME NEW m \in Message
    PROVE  /\ ResponsesItems(m) =
                IF m.role = "tool" THEN <<Output(m)>>
                ELSE IF m.role = "assistant" THEN SaidItem(m) \o CallItems(m)
                ELSE <<Item("message", m.role, m.parts)>>
           /\ ResponsesItems(m) \in Seq(ItemType)
           /\ SaidItem(m) \in Seq(ItemType)
<1> DEFINE x == Item("message", m.role, m.parts)
           o == Output(m)
<1>1. x \in ItemType /\ o \in ItemType
    BY ItemIsItem, OutputType, MessageFields
<1>2. CallItems(m) \in Seq(ItemType)
    BY CallItemsType
<1>3. ResponsesItems(m) = IF m.role = "tool" THEN <<o>>
                          ELSE IF m.role = "assistant" THEN SaidItem(m) \o CallItems(m)
                          ELSE <<x>>
    BY DEF ResponsesItems, Output, SaidItem
<1>4. SaidItem(m) \in {<<>>, <<x>>}
    BY DEF SaidItem
<1> HIDE DEF x, o
<1>5. <<>> \in Seq(ItemType) /\ <<x>> \in Seq(ItemType) /\ <<o>> \in Seq(ItemType)
    BY <1>1
<1>6. SaidItem(m) \in Seq(ItemType)
    BY <1>4, <1>5
<1>7. SaidItem(m) \o CallItems(m) \in Seq(ItemType)
    BY <1>2, <1>6
<1>8. QED
    BY <1>3, <1>5, <1>6, <1>7 DEF x, o

LEMMA ItemsOfType == ItemsOf \in [Message -> Seq(ItemType)]
    BY ResponsesItemsAre DEF ItemsOf

Input(h) == ChatRequestToResponses(h).input

LEMMA InputMaps ==
    ASSUME NEW h \in Seq(Message)
    PROVE  Input(h) = MapFlat(ItemsOf, h) /\ Input(h) \in Seq(ItemType)
<1>1. \A i \in DOMAIN h : h[i] \in Message
    OBVIOUS
<1>2. \A i \in DOMAIN h : ItemsOf[h[i]] = ResponsesItems(h[i])
    BY <1>1 DEF ItemsOf
<1>3. Input(h) = MapFlat(ItemsOf, h)
    BY <1>2 DEF Input, ChatRequestToResponses, MapFlat, Mapped
<1>4. QED
    BY <1>3, ItemsOfType, MapFlatType

(* What is sent of a longer conversation starts with what is sent of a shorter one. *)
Longer(h, hh) ==
    /\ \A s \in Seq(Parts) : IsPrefix(s, ExtractSystem(h)) => IsPrefix(s, ExtractSystem(hh))
    /\ \A s \in Seq(CCMessage) :
           IsPrefix(s, MessagesToCC(h).messages) => IsPrefix(s, MessagesToCC(hh).messages)
    /\ \A s \in Seq(ItemType) : IsPrefix(s, Input(h)) => IsPrefix(s, Input(hh))

LEMMA AppendIsLonger ==
    ASSUME NEW h \in Seq(Message), NEW m \in Message
    PROVE  Longer(h, Append(h, m))
<1> DEFINE hh == Append(h, m)
<1>0. hh \in Seq(Message)
    OBVIOUS
<1>1. \A s \in Seq(Parts) : IsPrefix(s, ExtractSystem(h)) => IsPrefix(s, ExtractSystem(hh))
  <2> DEFINE a == ExtractSystem(h)
             x == InstructionsOf[m]
  <2>1. MapsMore(InstructionsOf, h, m) /\ a = MapFlat(InstructionsOf, h) /\ a \in Seq(Parts)
    BY InstructionsOfType, MapFlatAppend, ExtractSystemMaps
  <2>2. x \in Seq(Parts)
    BY InstructionsOfType
  <2>3. ExtractSystem(hh) = a \o x
    BY <1>0, <2>1, ExtractSystemMaps DEF MapsMore
  <2> HIDE DEF a, x
  <2>4. \A s \in Seq(Parts) : IsPrefix(s, a) => IsPrefix(s, a \o x)
    BY <2>1, <2>2, PrefixCat
  <2>5. QED
    BY <2>3, <2>4 DEF a
<1>2. \A s \in Seq(CCMessage) :
          IsPrefix(s, MessagesToCC(h).messages) => IsPrefix(s, MessagesToCC(hh).messages)
  <2> DEFINE t == MessagesToCC(h)
             a == t.messages
             r == Resolved(m, Learned(t.names, m))
             said == [role |-> RoleToCC(m.role), content |-> ContentToCC(r)]
  <2>1. t \in Translation /\ MessagesToCC(hh) = Translated(t, m)
    BY TranslationGoesOn DEF GoesOn
  <2>2. a \in Seq(CCMessage)
    BY <2>1 DEF Translation
  <2>3. CASE Skipped(t, m) \/ Refused(r)
    <3>1. MessagesToCC(hh).messages = a
      BY <2>1, <2>3, TranslatedCases
    <3>2. QED
      BY <3>1
  <2>4. CASE ~Skipped(t, m) /\ ~Refused(r)
    <3>1. said \in CCMessage
      BY <2>1, <2>4, SaidType
    <3>2. MessagesToCC(hh).messages = Append(a, said)
      BY <2>1, <2>4, TranslatedCases DEF Translated1
    <3> HIDE DEF said, t
    <3>3. Append(a, said) = a \o <<said>> /\ <<said>> \in Seq(CCMessage)
      BY <2>2, <3>1
    <3>4. \A s \in Seq(CCMessage) : IsPrefix(s, a) => IsPrefix(s, a \o <<said>>)
      BY <2>2, <3>3, PrefixCat
    <3>5. QED
      BY <3>2, <3>3, <3>4 DEF t
  <2>5. QED
    BY <2>3, <2>4
<1>3. \A s \in Seq(ItemType) : IsPrefix(s, Input(h)) => IsPrefix(s, Input(hh))
  <2> DEFINE a == Input(h)
             x == ItemsOf[m]
  <2>1. MapsMore(ItemsOf, h, m) /\ a = MapFlat(ItemsOf, h) /\ a \in Seq(ItemType)
    BY ItemsOfType, MapFlatAppend, InputMaps
  <2>2. x \in Seq(ItemType)
    BY ItemsOfType
  <2>3. Input(hh) = a \o x
    BY <1>0, <2>1, InputMaps DEF MapsMore
  <2> HIDE DEF a, x
  <2>4. \A s \in Seq(ItemType) : IsPrefix(s, a) => IsPrefix(s, a \o x)
    BY <2>1, <2>2, PrefixCat
  <2>5. QED
    BY <2>3, <2>4 DEF a
<1>4. QED
    BY <1>1, <1>2, <1>3 DEF Longer

-----------------------------------------------------------------------------
(***************************************************************************)
(* The inductive invariant: what each upstream was shown is the beginning  *)
(* of what it would be shown of the conversation now.                      *)
(***************************************************************************)
IInv ==
    /\ history \in Seq(Messages)
    /\ cc.system \in Seq(Parts) /\ IsPrefix(cc.system, ExtractSystem(history))
    /\ cc.messages \in Seq(CCMessage) /\ IsPrefix(cc.messages, MessagesToCC(history).messages)
    /\ zen \in Seq(ItemType) /\ IsPrefix(zen, Input(history))

LEMMA HistoriesAreMessages ==
    ASSUME NEW h \in Seq(Messages)
    PROVE  h \in Seq(Message)
    BY MessagesAreMessages

LEMMA InitIInv == Init => IInv
<1> SUFFICES ASSUME Init PROVE IInv
    OBVIOUS
<1>1. history = <<>> /\ cc.system = <<>> /\ cc.messages = <<>> /\ zen = <<>>
    BY DEF Init
<1>2. /\ <<>> \in Seq(Messages) /\ <<>> \in Seq(Message) /\ <<>> \in Seq(Parts)
      /\ <<>> \in Seq(CCMessage) /\ <<>> \in Seq(ItemType)
    OBVIOUS
<1>3. /\ ExtractSystem(<<>>) = <<>> /\ Input(<<>>) = <<>>
      /\ MessagesToCC(<<>>).messages = <<>>
  <2>1. ExtractSystem(<<>>) = <<>> /\ Input(<<>>) = <<>>
    BY <1>2, ExtractSystemMaps, InputMaps, MapFlatEmpty
  <2>2. QED
    BY <2>1, TranslationOfNothing DEF Untranslated
<1>4. IsPrefix(<<>>, <<>>)
    BY <1>2, PrefixSame
<1>5. QED
    BY <1>1, <1>2, <1>3, <1>4 DEF IInv

(* A turn: nothing that was sent is taken back, and the invariant goes on. *)
Grows ==
    /\ IsPrefix(cc.system, cc'.system) /\ IsPrefix(cc.messages, cc'.messages)
    /\ IsPrefix(zen, zen')

LEMMA TurnOnlyAdds ==
    ASSUME IInv, NEW m \in Messages, AskCommandCode(m) \/ AskResponses(m)
    PROVE  IInv' /\ Grows
<1> DEFINE h == history
           hh == Append(history, m)
<1>0. history' = hh
    BY DEF AskCommandCode, AskResponses, Add
<1>1. h \in Seq(Message) /\ m \in Message /\ hh \in Seq(Messages)
  <2>1. h \in Seq(Messages)
    BY DEF IInv
  <2>2. h \in Seq(Message) /\ m \in Message
    BY <2>1, MessagesAreMessages, HistoriesAreMessages
  <2>3. hh \in Seq(Messages)
    BY <2>1
  <2>4. QED
    BY <2>2, <2>3
<1>2. hh \in Seq(Message)
    BY <1>1, HistoriesAreMessages
<1>3. Longer(h, hh)
    BY <1>1, AppendIsLonger
<1>4. /\ cc.system \in Seq(Parts) /\ IsPrefix(cc.system, ExtractSystem(hh))
      /\ cc.messages \in Seq(CCMessage) /\ IsPrefix(cc.messages, MessagesToCC(hh).messages)
      /\ zen \in Seq(ItemType) /\ IsPrefix(zen, Input(hh))
    BY <1>3 DEF IInv, Longer
<1>5. /\ IsPrefix(cc.system, cc.system) /\ IsPrefix(cc.messages, cc.messages)
      /\ IsPrefix(zen, zen)
    BY <1>4, PrefixSame
<1>6. /\ ExtractSystem(hh) \in Seq(Parts) /\ IsPrefix(ExtractSystem(hh), ExtractSystem(hh))
      /\ MessagesToCC(hh).messages \in Seq(CCMessage)
      /\ IsPrefix(MessagesToCC(hh).messages, MessagesToCC(hh).messages)
      /\ Input(hh) \in Seq(ItemType) /\ IsPrefix(Input(hh), Input(hh))
  <2>1. MessagesToCC(hh).messages \in Seq(CCMessage)
    BY <1>2, TranslationType DEF Translation
  <2>2. ExtractSystem(hh) \in Seq(Parts) /\ Input(hh) \in Seq(ItemType)
    BY <1>2, ExtractSystemMaps, InputMaps
  <2>3. QED
    BY <2>1, <2>2, PrefixSame
<1>7. /\ cc'.system \in {cc.system, ExtractSystem(hh)}
      /\ cc'.messages \in {cc.messages, MessagesToCC(hh).messages}
      /\ zen' \in {zen, Input(hh)}
  <2> HIDE DEF hh
  <2>1. CASE AskCommandCode(m)
    <3>1. zen' = zen
      BY <2>1 DEF AskCommandCode
    <3>2. \/ cc' = cc
          \/ cc' = [system |-> ExtractSystem(hh), messages |-> MessagesToCC(hh).messages]
      BY <1>0, <2>1 DEF AskCommandCode
    <3>3. QED
      BY <3>1, <3>2
  <2>2. CASE AskResponses(m)
    <3>1. cc' = cc
      BY <2>2 DEF AskResponses
    <3>2. zen' = zen \/ zen' = Input(hh)
      BY <1>0, <2>2 DEF AskResponses, Input
    <3>3. QED
      BY <3>1, <3>2
  <2>3. QED
    BY <2>1, <2>2
<1> HIDE DEF hh
<1>8. Grows
    BY <1>4, <1>5, <1>7 DEF Grows
<1>9. IInv'
  <2>1. history' \in Seq(Messages)
    BY <1>0, <1>1
  <2>2. cc'.system \in Seq(Parts) /\ IsPrefix(cc'.system, ExtractSystem(hh))
    BY <1>4, <1>6, <1>7
  <2>3. cc'.messages \in Seq(CCMessage) /\ IsPrefix(cc'.messages, MessagesToCC(hh).messages)
    BY <1>4, <1>6, <1>7
  <2>4. zen' \in Seq(ItemType) /\ IsPrefix(zen', Input(hh))
    BY <1>4, <1>6, <1>7
  <2>5. QED
    BY <1>0, <2>1, <2>2, <2>3, <2>4 DEF IInv, Input
<1>10. QED
    BY <1>8, <1>9

LEMMA NextIInv == IInv /\ [Next]_vars => IInv'
<1> SUFFICES ASSUME IInv, [Next]_vars PROVE IInv'
    OBVIOUS
<1>1. CASE Next
    BY <1>1, TurnOnlyAdds DEF Next
<1>2. CASE UNCHANGED vars
  <2>1. history' = history /\ cc' = cc /\ zen' = zen
    BY <1>2 DEF vars
  <2>2. QED
    BY <2>1 DEF IInv, Input
<1>3. QED
    BY <1>1, <1>2

(* The inductive invariant holds of every conversation. *)
THEOREM Invariant == Spec => []IInv
    BY InitIInv, NextIInv, PTL DEF Spec

(***************************************************************************)
(* What an upstream was shown is never told differently in a later turn,   *)
(* however the client went back and forth between the two lanes.           *)
(***************************************************************************)
THEOREM NothingIsTakenBack == Spec => PastUntouched
<1>1. IInv /\ [Next]_vars => [Grows]_vars
  <2> SUFFICES ASSUME IInv, Next PROVE Grows
    OBVIOUS
  <2>1. QED
    BY TurnOnlyAdds DEF Next
<1>2. Spec => [][Grows]_vars
    BY <1>1, Invariant, PTL DEF Spec
<1>3. QED
    BY <1>2 DEF PastUntouched, Grows

(***************************************************************************)
(* Command Code is asked exactly when every call can be executed, every    *)
(* image is inline and every result has a call before it: an agent that    *)
(* sends back what it was given is never refused.                          *)
(***************************************************************************)
THEOREM WhatIsSentBackIsAccepted == Spec => []SentBackIsAccepted
<1>1. IInv => SentBackIsAccepted
    BY Consistency DEF IInv, SentBackIsAccepted, Consistent
<1>2. QED
    BY <1>1, Invariant, PTL

(***************************************************************************)
(* A result without a name is shown under that of the last call with its   *)
(* id among the messages before it.                                        *)
(***************************************************************************)
THEOREM ResultsAreNamedAfterTheirCalls == Spec => []ResultsNameTheirCalls
<1>1. IInv => ResultsNameTheirCalls
  <2> SUFFICES ASSUME IInv PROVE ResultsNameTheirCalls
    OBVIOUS
  <2> DEFINE a == cc.messages
             b == MessagesToCC(history).messages
             s == Spoken(history)
  <2>1. history \in Seq(Messages) /\ a \in Seq(CCMessage) /\ IsPrefix(a, b)
    BY DEF IInv
  <2>2. b \in Seq(CCMessage)
    BY <2>1, HistoriesAreMessages, TranslationType DEF Translation
  <2>3. Tools(b, s)
    BY <2>1, NamesAlwaysFollow DEF NamesFollow
  <2> HIDE DEF a, b, s
  <2>4. Len(a) <= Len(b) /\ \A i \in 1..Len(a) : a[i] = b[i] /\ s[i] = s[i]
    BY <2>1, <2>2, PrefixAt
  <2>5. Tools(a, s)
    BY <2>1, <2>2, <2>3, <2>4, ToolsBefore
  <2>6. QED
    BY <2>5 DEF a, s, Tools, ResultsNameTheirCalls
<1>2. QED
    BY <1>1, Invariant, PTL

-----------------------------------------------------------------------------
(***************************************************************************)
(* What is told of a message by either request.                            *)
(***************************************************************************)
Told ==
    Roles \X {"text", "image", "reasoning", "tool-call", "tool-result"} \X (Ids \cup {NoId})
          \X Seq(Parts)

PartTold(role) ==
    [p \in CCPart |-> IF p.type = "reasoning" THEN <<>> ELSE << <<role, p.type, p.id, p.text>> >>]

LEMMA ToldOne ==
    ASSUME NEW role \in Roles, NEW id \in Ids \cup {NoId}, NEW text \in Seq(Parts),
           NEW type \in {"text", "image", "reasoning", "tool-call", "tool-result"}
    PROVE  << <<role, type, id, text>> >> \in Seq(Told)
<1> DEFINE x == <<role, type, id, text>>
<1>1. x \in Told
    BY DEF Told
<1> HIDE DEF x
<1>2. <<x>> \in Seq(Told)
    BY <1>1
<1>3. QED
    BY <1>2 DEF x

LEMMA PartToldType ==
    ASSUME NEW role \in Roles
    PROVE  PartTold(role) \in [CCPart -> Seq(Told)]
<1>1. ASSUME NEW p \in CCPart
      PROVE  (IF p.type = "reasoning" THEN <<>> ELSE << <<role, p.type, p.id, p.text>> >>) \in Seq(Told)
  <2> DEFINE x == << <<role, p.type, p.id, p.text>> >>
  <2>1. /\ p.type \in {"text", "image", "reasoning", "tool-call", "tool-result"}
        /\ p.id \in Ids \cup {NoId} /\ p.text \in Seq(Parts)
    BY DEF CCPart
  <2>2. x \in Seq(Told)
    BY <2>1, ToldOne
  <2> HIDE DEF x
  <2>3. <<>> \in Seq(Told)
    OBVIOUS
  <2>4. (IF p.type = "reasoning" THEN <<>> ELSE x) \in Seq(Told)
    BY <2>2, <2>3
  <2>5. QED
    BY <2>4 DEF x
<1>2. QED
    BY <1>1 DEF PartTold

LEMMA ToldByCCMaps ==
    ASSUME NEW x \in CCMessage
    PROVE  /\ x.role \in Roles /\ x.content \in Seq(CCPart)
           /\ ToldByCC(x) = MapFlat(PartTold(x.role), x.content)
           /\ ToldByCC(x) \in Seq(Told)
<1>1. x.role \in Roles /\ x.content \in Seq(CCPart)
    BY DEF CCMessage, Roles
<1>2. \A i \in DOMAIN x.content : x.content[i] \in CCPart
    BY <1>1
<1>3. ToldByCC(x) = MapFlat(PartTold(x.role), x.content)
  <2> DEFINE F == PartTold(x.role)
             E(i) == IF x.content[i].type = "reasoning" THEN <<>>
                     ELSE << <<x.role, x.content[i].type, x.content[i].id, x.content[i].text>> >>
  <2>1. \A i \in DOMAIN x.content : F[x.content[i]] = E(i)
    BY <1>2 DEF PartTold
  <2>2. ToldByCC(x) = FlattenSeq([i \in DOMAIN x.content |-> E(i)])
    BY DEF ToldByCC
  <2>3. MapFlat(F, x.content) = FlattenSeq([i \in DOMAIN x.content |-> F[x.content[i]]])
    BY DEF MapFlat, Mapped
  <2> HIDE DEF E, F
  <2>4. [i \in DOMAIN x.content |-> E(i)] = [i \in DOMAIN x.content |-> F[x.content[i]]]
    BY <2>1
  <2>5. QED
    BY <2>2, <2>3, <2>4 DEF F
<1>4. MapFlat(PartTold(x.role), x.content) \in Seq(Told)
    BY <1>1, PartToldType, MapFlatType
<1>5. QED
    BY <1>1, <1>3, <1>4

SaidTold == [x \in CCMessage |-> ToldByCC(x)]

LEMMA SaidToldType == SaidTold \in [CCMessage -> Seq(Told)]
    BY ToldByCCMaps DEF SaidTold

LEMMA ToldCCMaps ==
    ASSUME NEW s \in Seq(CCMessage)
    PROVE  ToldCC(s) = MapFlat(SaidTold, s)
<1>1. \A i \in DOMAIN s : s[i] \in CCMessage
    OBVIOUS
<1>2. \A i \in DOMAIN s : SaidTold[s[i]] = ToldByCC(s[i])
    BY <1>1 DEF SaidTold
<1>3. QED
    BY <1>2 DEF ToldCC, MapFlat, Mapped

PartsTold(role) == [p \in Parts |-> ToldPart(role, p)]

LEMMA PartsToldType ==
    ASSUME NEW role \in Roles
    PROVE  PartsTold(role) \in [Parts -> Seq(Told)]
<1>1. ASSUME NEW p \in Parts PROVE ToldPart(role, p) \in Seq(Told)
  <2> DEFINE a == << <<role, "image", NoId, <<>> >> >>
             b == << <<role, "text", NoId, <<p>> >> >>
  <2>1. <<>> \in Seq(Parts) /\ <<p>> \in Seq(Parts) /\ <<>> \in Seq(Told)
    OBVIOUS
  <2>2. a \in Seq(Told) /\ b \in Seq(Told)
    BY <2>1, ToldOne
  <2>3. ToldPart(role, p) \in {<<>>, a, b}
    BY DEF ToldPart
  <2> HIDE DEF a, b
  <2>4. QED
    BY <2>1, <2>2, <2>3
<1>2. QED
    BY <1>1 DEF PartsTold

LEMMA PartsToldMap ==
    ASSUME NEW role, NEW parts \in Seq(Parts)
    PROVE  FlattenSeq([i \in DOMAIN parts |-> ToldPart(role, parts[i])])
             = MapFlat(PartsTold(role), parts)
<1>1. \A i \in DOMAIN parts : parts[i] \in Parts
    OBVIOUS
<1>2. \A i \in DOMAIN parts : PartsTold(role)[parts[i]] = ToldPart(role, parts[i])
    BY <1>1 DEF PartsTold
<1>3. QED
    BY <1>2 DEF MapFlat, Mapped

(* The parts of a result, as the Responses API is told them. *)
Kept(parts) ==
    FlattenSeq([i \in DOMAIN parts |-> IF parts[i] = "blank" THEN <<>> ELSE <<parts[i]>>])

KeptOf == [p \in Parts |-> IF p = "blank" THEN <<>> ELSE <<p>>]

LEMMA KeptType ==
    ASSUME NEW parts \in Seq(Parts)
    PROVE  Kept(parts) \in Seq(Parts)
<1>1. \A i \in DOMAIN parts : parts[i] \in Parts
    OBVIOUS
<1>2. \A i \in DOMAIN parts :
          KeptOf[parts[i]] = IF parts[i] = "blank" THEN <<>> ELSE <<parts[i]>>
    BY <1>1 DEF KeptOf
<1>3. Kept(parts) = MapFlat(KeptOf, parts)
    BY <1>2 DEF Kept, MapFlat, Mapped
<1>4. \A p \in Parts : (IF p = "blank" THEN <<>> ELSE <<p>>) \in Seq(Parts)
    OBVIOUS
<1>5. KeptOf \in [Parts -> Seq(Parts)]
    BY <1>4 DEF KeptOf
<1>6. QED
    BY <1>3, <1>5, MapFlatType

(* What each item tells. *)
LEMMA ItemTells ==
    ASSUME NEW x \in ItemType
    PROVE  /\ x.type = "function_call" =>
                ToldByItem(x) = << <<"assistant", "tool-call", x.id, <<>> >> >>
           /\ x.type = "function_call_output" =>
                ToldByItem(x) = << <<"tool", "tool-result", x.id, Kept(x.parts)>> >>
           /\ x.type = "message" /\ x.role \notin Instructing =>
                ToldByItem(x) = MapFlat(PartsTold(x.role), x.parts)
           /\ x.type = "message" /\ x.role \in Instructing => ToldByItem(x) = <<>>
<1>1. x.parts \in Seq(Parts)
    BY DEF ItemType
<1>2. CASE x.type = "function_call"
    BY <1>2 DEF ToldByItem
<1>3. CASE x.type = "function_call_output"
    BY <1>3 DEF ToldByItem, Kept
<1>4. CASE x.type = "message" /\ x.role \notin Instructing
  <2> DEFINE y == FlattenSeq([i \in DOMAIN x.parts |-> ToldPart(x.role, x.parts[i])])
  <2>1. ToldByItem(x) = y
    BY <1>4 DEF ToldByItem
  <2>2. y = MapFlat(PartsTold(x.role), x.parts)
    BY <1>1, PartsToldMap
  <2> HIDE DEF y
  <2>3. QED
    BY <1>4, <2>1, <2>2
<1>5. CASE x.type = "message" /\ x.role \in Instructing
    BY <1>5 DEF ToldByItem
<1>6. QED
    BY <1>2, <1>3, <1>4, <1>5

ItemTold == [x \in ItemType |-> ToldByItem(x)]

LEMMA ItemToldType == ItemTold \in [ItemType -> Seq(Told)]
<1>1. ASSUME NEW x \in ItemType PROVE ToldByItem(x) \in Seq(Told)
  <2>1. /\ x.type \in {"message", "function_call", "function_call_output"} /\ x.role \in Roles
        /\ x.parts \in Seq(Parts) /\ x.id \in Ids \cup {NoId}
    BY DEF ItemType
  <2>2. <<>> \in Seq(Parts) /\ <<>> \in Seq(Told) /\ {"assistant", "tool"} \subseteq Roles
    BY DEF Roles
  <2>3. CASE x.type = "function_call"
    <3>1. << <<"assistant", "tool-call", x.id, <<>> >> >> \in Seq(Told)
      BY <2>1, <2>2, ToldOne
    <3>2. ToldByItem(x) = << <<"assistant", "tool-call", x.id, <<>> >> >>
      BY <2>3, ItemTells
    <3>3. QED
      BY <3>1, <3>2, Zenon
  <2>4. CASE x.type = "function_call_output"
    <3> DEFINE k == Kept(x.parts)
    <3>1. k \in Seq(Parts)
      BY <2>1, KeptType
    <3>2. ToldByItem(x) = << <<"tool", "tool-result", x.id, k>> >>
      BY <2>4, ItemTells
    <3> HIDE DEF k
    <3>3. << <<"tool", "tool-result", x.id, k>> >> \in Seq(Told)
      BY <2>1, <2>2, <3>1, ToldOne
    <3>4. QED
      BY <3>2, <3>3, Zenon
  <2>5. CASE x.type = "message" /\ x.role \notin Instructing
    <3>1. ToldByItem(x) = MapFlat(PartsTold(x.role), x.parts)
      BY <2>5, ItemTells
    <3>2. MapFlat(PartsTold(x.role), x.parts) \in Seq(Told)
      BY <2>1, PartsToldType, MapFlatType
    <3>3. QED
      BY <3>1, <3>2
  <2>6. CASE x.type = "message" /\ x.role \in Instructing
    BY <2>2, <2>6, ItemTells
  <2>7. QED
    BY <2>1, <2>3, <2>4, <2>5, <2>6
<1>2. QED
    BY <1>1 DEF ItemTold

LEMMA ToldResponsesMaps ==
    ASSUME NEW s \in Seq(ItemType)
    PROVE  ToldResponses(s) = MapFlat(ItemTold, s) /\ ToldResponses(s) \in Seq(Told)
<1>1. \A i \in DOMAIN s : s[i] \in ItemType
    OBVIOUS
<1>2. \A i \in DOMAIN s : ItemTold[s[i]] = ToldByItem(s[i])
    BY <1>1 DEF ItemTold
<1>3. ToldResponses(s) = MapFlat(ItemTold, s)
    BY <1>2 DEF ToldResponses, MapFlat, Mapped
<1>4. QED
    BY <1>3, ItemToldType, MapFlatType

ItemAlone(x) == ToldResponses(<<x>>) = ToldByItem(x)

LEMMA OneItemTells ==
    ASSUME NEW x \in ItemType
    PROVE  ItemAlone(x)
<1>1. <<x>> \in Seq(ItemType)
    OBVIOUS
<1>2. ToldResponses(<<x>>) = MapFlat(ItemTold, <<x>>)
    BY <1>1, ToldResponsesMaps
<1>3. MapsOne(ItemTold, x)
    BY ItemToldType, MapFlatOne
<1>4. ItemTold[x] = ToldByItem(x)
    BY DEF ItemTold
<1>5. QED
    BY <1>2, <1>3, <1>4 DEF MapsOne, ItemAlone

ToldApart(s, t) == ToldResponses(s \o t) = ToldResponses(s) \o ToldResponses(t)

LEMMA ToldResponsesCat ==
    ASSUME NEW s \in Seq(ItemType), NEW t \in Seq(ItemType)
    PROVE  ToldApart(s, t)
<1>1. s \o t \in Seq(ItemType)
    OBVIOUS
<1>2. MapSplits(ItemTold, s, t)
    BY ItemToldType, MapFlatCat
<1>3. QED
    BY <1>1, <1>2, ToldResponsesMaps DEF MapSplits, ToldApart

-----------------------------------------------------------------------------
(***************************************************************************)
(* A message that both requests accept is told the same by both.           *)
(***************************************************************************)
SaidOf(m) == [role |-> RoleToCC(m.role), content |-> ContentToCC(m)]

(* A result: of its texts the one drops what is no word, the other what is blank. *)
LEMMA ResultToldAlike ==
    ASSUME NEW m \in Message, NEW r \in Message, m.role = "tool", r.role = "tool",
           r.parts = m.parts, r.id = m.id, Range(m.parts) \subseteq Words \cup {"blank"}
    PROVE  ToldByCC(SaidOf(r)) = ToldResponses(ResponsesItems(m))
<1> DEFINE x == Result(r)
           o == Output(m)
           c == << <<"tool", "tool-result", m.id, Kept(m.parts)>> >>
           said == SaidOf(r)
<1>1. Kept(m.parts) = PlainText(r)
  <2>1. DOMAIN m.parts = DOMAIN r.parts
    OBVIOUS
  <2>2. \A i \in DOMAIN m.parts : m.parts[i] \in Words \cup {"blank"}
    BY DEF Range
  <2>3. \A i \in DOMAIN m.parts :
            (IF m.parts[i] = "blank" THEN <<>> ELSE <<m.parts[i]>>)
              = (IF r.parts[i] \in Words THEN <<r.parts[i]>> ELSE <<>>)
    BY <2>2, ConversationAssumption
  <2>4. [i \in DOMAIN m.parts |-> IF m.parts[i] = "blank" THEN <<>> ELSE <<m.parts[i]>>]
          = [i \in DOMAIN r.parts |-> IF r.parts[i] \in Words THEN <<r.parts[i]>> ELSE <<>>]
    BY <2>1, <2>3
  <2>5. QED
    BY <2>4 DEF Kept, PlainText
<1>2. o \in ItemType /\ o.type = "function_call_output" /\ o.parts = m.parts /\ o.id = m.id
    BY OutputType
<1>3. ResponsesItems(m) = <<o>>
    BY ResponsesItemsAre
<1> HIDE DEF o
<1>4. ToldByItem(o) = c
    BY <1>2, ItemTells
<1>5. ToldResponses(ResponsesItems(m)) = c
  <2>1. ItemAlone(o)
    BY <1>2, OneItemTells
  <2>2. QED
    BY <1>3, <1>4, <2>1 DEF ItemAlone
<1>6. x \in CCPart /\ x.type = "tool-result" /\ x.id = m.id /\ x.text = Kept(m.parts)
    BY <1>1, PlainTextType, MessageFields DEF Result, CCPart
<1>7. said.role = "tool" /\ said.content = <<x>> /\ said \in CCMessage
  <2>1. said.role = "tool" /\ said.content = <<x>>
    BY ContentIs DEF SaidOf, RoleToCC
  <2>2. ContentToCC(r) \in Seq(CCPart)
    BY ContentType
  <2>3. said \in CCMessage
    BY <2>2 DEF SaidOf, RoleToCC, CCMessage
  <2>4. QED
    BY <2>1, <2>3
<1> HIDE DEF x, said
<1>8. ToldByCC(said) = MapFlat(PartTold("tool"), <<x>>)
    BY <1>7, ToldByCCMaps
<1>9. MapFlat(PartTold("tool"), <<x>>) = PartTold("tool")[x]
  <2>1. "tool" \in Roles
    BY DEF Roles
  <2>2. MapsOne(PartTold("tool"), x)
    BY <1>6, <2>1, PartToldType, MapFlatOne
  <2>3. QED
    BY <2>2 DEF MapsOne
<1>10. PartTold("tool")[x] = << <<"tool", x.type, x.id, x.text>> >>
    BY <1>6 DEF PartTold
<1>11. QED
    BY <1>5, <1>6, <1>8, <1>9, <1>10 DEF said

(* The texts and images of a message. *)
LEMMA TextsToldAlike ==
    ASSUME NEW role \in Roles, NEW m \in Message
    PROVE  MapFlat(PartTold(role), Shown(m)) = MapFlat(PartsTold(role), m.parts)
<1> DEFINE F == PartTold(role)
           H == PartsTold(role)
<1>1. /\ F \in [CCPart -> Seq(Told)] /\ H \in [Parts -> Seq(Told)]
      /\ ShownOf \in [Parts -> Seq(CCPart)]
  <2>1. F \in [CCPart -> Seq(Told)] /\ H \in [Parts -> Seq(Told)]
    BY PartToldType, PartsToldType
  <2>2. Spelled \subseteq CCPart
    BY DEF Spelled
  <2>3. Seq(Spelled) \subseteq Seq(CCPart)
    BY <2>2
  <2>4. ShownOf \in [Parts -> Seq(CCPart)]
    BY <2>3, ShownOfType
  <2>5. QED
    BY <2>1, <2>4
<1>2. ASSUME NEW p \in Parts PROVE MapFlat(F, ShownOf[p]) = H[p]
  <2>1. ShownOf[p] = ShownPart(p) /\ H[p] = ToldPart(role, p)
    BY DEF ShownOf, PartsTold
  <2>2. <<>> \in Seq(Parts) /\ <<p>> \in Seq(Parts)
    OBVIOUS
  <2>3. CASE p = "blank"
    <3>1. ShownPart(p) = <<>> /\ ToldPart(role, p) = <<>>
      BY <2>3 DEF ShownPart, ToldPart
    <3>2. QED
      BY <2>1, <3>1, MapFlatEmpty
  <2>4. CASE p = "image"
    <3> DEFINE x == Part("image", <<>>)
    <3>1. x \in CCPart /\ x.type = "image" /\ x.id = NoId /\ x.text = <<>>
      BY <2>2, PartType DEF Part
    <3>2. ShownPart(p) = <<x>> /\ ToldPart(role, p) = << <<role, "image", NoId, <<>> >> >>
      BY <2>4 DEF ShownPart, ToldPart
    <3> HIDE DEF x
    <3>3. MapsOne(F, x)
      <4> HIDE DEF F
      <4>1. QED
        BY <1>1, <3>1, MapFlatOne
    <3>4. F[x] = << <<role, x.type, x.id, x.text>> >>
      BY <3>1 DEF PartTold
    <3>5. F[x] = ToldPart(role, p)
      BY <3>1, <3>2, <3>4, Zenon
    <3> HIDE DEF F, H
    <3>6. QED
      BY <2>1, <3>2, <3>3, <3>5 DEF MapsOne
  <2>5. CASE p # "blank" /\ p # "image"
    <3> DEFINE x == Part("text", <<p>>)
    <3>1. x \in CCPart /\ x.type = "text" /\ x.id = NoId /\ x.text = <<p>>
      BY <2>2, PartType DEF Part
    <3>2. ShownPart(p) = <<x>> /\ ToldPart(role, p) = << <<role, "text", NoId, <<p>> >> >>
      BY <2>5 DEF ShownPart, ToldPart
    <3> HIDE DEF x
    <3>3. MapsOne(F, x)
      <4> HIDE DEF F
      <4>1. QED
        BY <1>1, <3>1, MapFlatOne
    <3>4. F[x] = << <<role, x.type, x.id, x.text>> >>
      BY <3>1 DEF PartTold
    <3>5. F[x] = ToldPart(role, p)
      BY <3>1, <3>2, <3>4, Zenon
    <3> HIDE DEF F, H
    <3>6. QED
      BY <2>1, <3>2, <3>3, <3>5 DEF MapsOne
  <2>6. QED
    BY <2>3, <2>4, <2>5
<1>3. Shown(m) = MapFlat(ShownOf, m.parts) /\ m.parts \in Seq(Parts)
    BY ShownMaps, MessageFields
<1> HIDE DEF F, H
<1>4. Composed(F, ShownOf, H, m.parts)
    BY <1>1, <1>2, <1>3, MapFlatComposed
<1>5. QED
    BY <1>3, <1>4 DEF Composed, F, H

(* Reasoning is told to none of them. *)
LEMMA ReasoningNotTold ==
    ASSUME NEW role \in Roles, NEW m \in Message
    PROVE  MapFlat(PartTold(role), Reasoned(m)) = <<>>
<1> DEFINE F == PartTold(role)
           x == Part("reasoning", <<>>)
<1>1. <<>> \in Seq(Parts) /\ F \in [CCPart -> Seq(Told)]
  <2>1. F \in [CCPart -> Seq(Told)]
    BY PartToldType
  <2>2. <<>> \in Seq(Parts)
    OBVIOUS
  <2>3. QED
    BY <2>1, <2>2
<1>2. x \in CCPart /\ x.type = "reasoning"
    BY <1>1, PartType DEF Part
<1>3. F[x] = <<>>
    BY <1>2 DEF PartTold
<1>4. Reasoned(m) \in {<<>>, <<x>>}
    BY DEF Reasoned
<1> HIDE DEF x, F
<1>5. MapsOne(F, x)
    BY <1>1, <1>2, MapFlatOne
<1>6. MapFlat(F, Reasoned(m)) = <<>>
    BY <1>3, <1>4, <1>5, MapFlatEmpty DEF MapsOne
<1>7. QED
    BY <1>6 DEF F

(* The calls, of an assistant alone. *)
LEMMA CallsToldAlike ==
    ASSUME NEW m \in Message
    PROVE  MapFlat(PartTold("assistant"), Called(m)) = ToldResponses(CallItems(m))
<1> DEFINE F == PartTold("assistant")
           n == Len(m.calls)
           a == Called(m)
           b == CallItems(m)
<1>1. /\ a \in Seq(CCPart) /\ Len(a) = n
      /\ \A k \in 1..n : a[k].type = "tool-call" /\ a[k].text = <<>> /\ a[k].id = m.calls[k].id
    BY CalledType
<1>2. /\ b \in Seq(ItemType) /\ Len(b) = n
      /\ \A k \in 1..n : b[k].type = "function_call" /\ b[k].id = m.calls[k].id
    BY CallItemsType
<1>3. ToldResponses(b) = MapFlat(ItemTold, b)
    BY <1>2, ToldResponsesMaps
<1> HIDE DEF a, b, n
<1>4. DOMAIN a = 1..n /\ DOMAIN b = 1..n
    BY <1>1, <1>2
<1>5. ASSUME NEW k \in 1..n PROVE F[a[k]] = ItemTold[b[k]]
  <2>1. a[k] \in CCPart /\ b[k] \in ItemType
    BY <1>1, <1>2, <1>4
  <2> DEFINE x == a[k]
             y == b[k]
  <2>2. x.type = "tool-call" /\ x.text = <<>> /\ x.id = y.id /\ y.type = "function_call"
    BY <1>1, <1>2
  <2>3. x \in CCPart /\ y \in ItemType
    BY <2>1
  <2> HIDE DEF x, y
  <2>4. F[x] = << <<"assistant", x.type, x.id, x.text>> >>
    BY <2>2, <2>3 DEF PartTold
  <2>5. ItemTold[y] = << <<"assistant", "tool-call", y.id, <<>> >> >>
    BY <2>2, <2>3, ItemTells DEF ItemTold
  <2>6. F[x] = ItemTold[y]
    <3> HIDE DEF F
    <3>1. QED
      BY <2>2, <2>4, <2>5, Zenon
  <2>7. QED
    BY <2>6 DEF x, y
<1>6. Mapped(F, a) = Mapped(ItemTold, b)
  <2> HIDE DEF F
  <2>1. QED
    BY <1>4, <1>5 DEF Mapped
<1>7. QED
    BY <1>3, <1>6 DEF MapFlat, a, b

(* What an assistant says itself, and what a user says. *)
LEMMA SayingTold ==
    ASSUME NEW m \in Message, m.role \in {"user", "assistant"}
    PROVE  /\ ToldResponses(<<Item("message", m.role, m.parts)>>) = MapFlat(PartsTold(m.role), m.parts)
           /\ ToldResponses(SaidItem(m)) = MapFlat(PartsTold(m.role), m.parts)
<1> DEFINE x == Item("message", m.role, m.parts)
           F == PartsTold(m.role)
<1>1. m.role \in Roles /\ m.parts \in Seq(Parts) /\ m.role \notin Instructing
    BY MessageFields DEF Instructing
<1>2. x \in ItemType /\ x.type = "message" /\ x.role = m.role /\ x.parts = m.parts
    BY <1>1, ItemIsItem
<1>3. SaidItem(m) = IF Empty(m) THEN <<>> ELSE <<x>>
    BY DEF SaidItem
<1> HIDE DEF x
<1>4. ToldResponses(<<x>>) = MapFlat(F, m.parts)
  <2>1. ItemAlone(x)
    BY <1>2, OneItemTells
  <2>2. ToldByItem(x) = MapFlat(PartsTold(x.role), x.parts)
    BY <1>1, <1>2, ItemTells
  <2>3. QED
    BY <1>2, <2>1, <2>2 DEF ItemAlone
<1>5. CASE Empty(m)
  <2>1. ToldResponses(<<>>) = <<>>
    BY MapFlatEmpty, ToldResponsesMaps, <<>> \in Seq(ItemType)
  <2>2. "blank" \in Parts
    BY DEF Parts
  <2>3. F["blank"] = <<>>
    BY <2>2 DEF PartsTold, ToldPart
  <2>4. MapsOne(F, "blank")
    BY <1>1, <2>2, PartsToldType, MapFlatOne
  <2>5. m.parts = <<>> \/ m.parts = <<"blank">>
    BY <1>5 DEF Empty
  <2> HIDE DEF F
  <2>6. MapFlat(F, m.parts) = <<>>
    BY <2>3, <2>4, <2>5, MapFlatEmpty DEF MapsOne
  <2>7. QED
    BY <1>3, <1>4, <1>5, <2>1, <2>6 DEF x, F
<1>6. CASE ~Empty(m)
    BY <1>3, <1>4, <1>6 DEF x
<1>7. QED
    BY <1>5, <1>6

LEMMA SpeechToldAlike ==
    ASSUME NEW m \in Message, m.role \in {"user", "assistant"},
           m.calls # <<>> => m.role = "assistant"
    PROVE  ToldByCC(SaidOf(m)) = ToldResponses(ResponsesItems(m))
<1> DEFINE F == PartTold(m.role)
           H == PartsTold(m.role)
           re == Reasoned(m)
           sh == Shown(m)
           ca == Called(m)
           said == SaidOf(m)
           told == MapFlat(H, m.parts)
<1>1. m.role \in Roles /\ m.parts \in Seq(Parts) /\ F \in [CCPart -> Seq(Told)]
    BY MessageFields, PartToldType
<1>2. re \in Seq(CCPart) /\ sh \in Seq(CCPart) /\ ca \in Seq(CCPart)
  <2>1. re \in Seq(Spelled) /\ sh \in Seq(Spelled)
    BY ReasonedType, ShownType
  <2>2. Spelled \subseteq CCPart
    BY DEF Spelled
  <2>3. \A s \in Seq(Spelled) : s \in Seq(CCPart)
    BY <2>2
  <2>4. QED
    BY <2>1, <2>3, CalledType
<1>3. said.role = m.role /\ said.content = (re \o sh) \o ca /\ said \in CCMessage
  <2>1. said.role = m.role
    BY DEF SaidOf, RoleToCC
  <2>2. said.content = (re \o sh) \o ca
    BY ContentIs DEF SaidOf
  <2>3. ContentToCC(m) \in Seq(CCPart)
    BY ContentType
  <2>4. said \in CCMessage
    BY <2>3 DEF SaidOf, RoleToCC, CCMessage
  <2>5. QED
    BY <2>1, <2>2, <2>4
<1>4. MapFlat(F, re) = <<>> /\ MapFlat(F, sh) = told
    BY <1>1, ReasoningNotTold, TextsToldAlike
<1>5. told \in Seq(Told) /\ MapFlat(F, ca) \in Seq(Told)
    BY <1>1, <1>2, PartsToldType, MapFlatType
<1>6. ToldResponses(SaidItem(m)) = told
    BY SayingTold
<1>7. ToldResponses(<<Item("message", m.role, m.parts)>>) = told
    BY SayingTold
<1> HIDE DEF F, re, sh, ca, said, told
<1>8. ToldByCC(said) = told \o MapFlat(F, ca)
  <2>1. ToldByCC(said) = MapFlat(F, (re \o sh) \o ca)
    BY <1>3, ToldByCCMaps DEF F
  <2>2. re \o sh \in Seq(CCPart)
    BY <1>2
  <2>3. MapSplits(F, re \o sh, ca) /\ MapSplits(F, re, sh)
    BY <1>1, <1>2, <2>2, MapFlatCat
  <2>4. MapFlat(F, (re \o sh) \o ca) = (<<>> \o told) \o MapFlat(F, ca)
    BY <1>4, <2>3 DEF MapSplits
  <2>5. <<>> \o told = told
    BY <1>5
  <2>6. QED
    BY <2>1, <2>4, <2>5
<1>9. CASE m.role = "assistant"
  <2>1. MapFlat(F, ca) = ToldResponses(CallItems(m))
    BY <1>9, CallsToldAlike DEF F, ca
  <2>2. ResponsesItems(m) = SaidItem(m) \o CallItems(m)
    BY <1>9, ResponsesItemsAre
  <2>3. ToldApart(SaidItem(m), CallItems(m))
    BY ResponsesItemsAre, CallItemsType, ToldResponsesCat
  <2>4. QED
    BY <1>6, <1>8, <2>1, <2>2, <2>3 DEF ToldApart, said
<1>10. CASE m.role = "user"
  <2>1. m.calls = <<>>
    BY <1>10
  <2>2. Len(ca) = 0
    BY <2>1, CalledType DEF ca
  <2>3. ca = <<>>
    BY <1>2, <2>2
  <2>4. MapFlat(F, ca) = <<>>
    BY <2>3, MapFlatEmpty
  <2>5. ResponsesItems(m) = <<Item("message", m.role, m.parts)>>
    BY <1>10, ResponsesItemsAre
  <2>6. told \o <<>> = told
    BY <1>5
  <2>7. QED
    BY <1>7, <1>8, <2>4, <2>5, <2>6 DEF said
<1>11. QED
    BY <1>9, <1>10

(* Instructions are no part of what is told. *)
LEMMA InstructionsNotTold ==
    ASSUME NEW m \in Message, m.role \in Instructing
    PROVE  ToldResponses(ResponsesItems(m)) = <<>>
<1> DEFINE x == Item("message", m.role, m.parts)
<1>1. m.role \in Roles /\ m.parts \in Seq(Parts)
    BY MessageFields
<1>2. x \in ItemType /\ x.type = "message" /\ x.role = m.role
    BY <1>1, ItemIsItem
<1>3. m.role # "tool" /\ m.role # "assistant"
    BY DEF Instructing
<1>4. ResponsesItems(m) = <<x>>
    BY <1>3, ResponsesItemsAre
<1> HIDE DEF x
<1>5. ToldByItem(x) = <<>>
    BY <1>2, ItemTells
<1>6. ItemAlone(x)
    BY <1>2, OneItemTells
<1>7. QED
    BY <1>4, <1>5, <1>6 DEF ItemAlone

LEMMA AcceptedToldAlike ==
    ASSUME NEW m \in Messages, NEW names \in NameTable, m.role \notin Instructing,
           ~Refused(Resolved(m, names))
    PROVE  ToldByCC([role |-> RoleToCC(m.role), content |-> ContentToCC(Resolved(m, names))])
             = ToldResponses(ResponsesItems(m))
<1> DEFINE r == Resolved(m, names)
<1>1. m \in Message /\ (m.calls # <<>> => m.role = "assistant")
    BY MessagesAreMessages
<1>2. r \in Message /\ r.role = m.role /\ r.parts = m.parts /\ r.id = m.id
    BY <1>1, ResolvedType
<1>3. SaidOf(r) = [role |-> RoleToCC(m.role), content |-> ContentToCC(r)]
    BY <1>2 DEF SaidOf
<1>4. CASE m.role = "tool"
  <2>1. Range(m.parts) \subseteq Words \cup {"blank"}
    <3> HIDE DEF r
    <3>1. ~Refused(r)
      BY DEF r
    <3>2. QED
      BY <1>2, <1>4, <3>1 DEF Refused
  <2> HIDE DEF r
  <2>2. ToldByCC(SaidOf(r)) = ToldResponses(ResponsesItems(m))
    BY <1>1, <1>2, <1>4, <2>1, ResultToldAlike
  <2>3. QED
    BY <1>3, <2>2 DEF r
<1>5. CASE m.role # "tool"
  <2>1. r = m
    BY <1>5 DEF Resolved
  <2>2. m.role \in {"user", "assistant"}
    BY <1>1, <1>5, MessageFields DEF Roles, Instructing
  <2> HIDE DEF r
  <2>3. ToldByCC(SaidOf(m)) = ToldResponses(ResponsesItems(m))
    BY <1>1, <2>2, SpeechToldAlike
  <2>4. QED
    BY <1>3, <2>1, <2>3 DEF r
<1>6. QED
    BY <1>4, <1>5

(* And so is the whole conversation, once Command Code can be asked at all. *)
ToldAlike(h) == MessagesToCC(h).ok => ToldCC(MessagesToCC(h).messages) = ToldResponses(Input(h))

LEMMA InputAppend ==
    ASSUME NEW h \in Seq(Message), NEW m \in Message
    PROVE  ToldResponses(Input(Append(h, m)))
             = ToldResponses(Input(h)) \o ToldResponses(ResponsesItems(m))
<1> DEFINE a == Input(h)
           x == ResponsesItems(m)
<1>1. Append(h, m) \in Seq(Message)
    OBVIOUS
<1>2. MapsMore(ItemsOf, h, m)
    BY ItemsOfType, MapFlatAppend
<1>3. ItemsOf[m] = x
    BY DEF ItemsOf
<1>4. Input(Append(h, m)) = a \o x
    BY <1>1, <1>2, <1>3, InputMaps DEF MapsMore
<1>5. a \in Seq(ItemType) /\ x \in Seq(ItemType)
    BY InputMaps, ResponsesItemsAre
<1> HIDE DEF a, x
<1>6. ToldApart(a, x)
    BY <1>5, ToldResponsesCat
<1>7. QED
    BY <1>4, <1>6 DEF ToldApart, a, x

LEMMA AlwaysToldAlike == \A h \in Seq(Messages) : ToldAlike(h)
<1> DEFINE T == {h \in Seq(Messages) : ToldAlike(h)}
<1>0. \A h \in Seq(Messages) : h \in Seq(Message)
    BY MessagesAreMessages
<1>1. <<>> \in T
  <2>1. <<>> \in Seq(Messages) /\ <<>> \in Seq(Message) /\ <<>> \in Seq(CCMessage)
        /\ <<>> \in Seq(ItemType)
    OBVIOUS
  <2>2. ToldCC(<<>>) = <<>> /\ ToldResponses(<<>>) = <<>> /\ Input(<<>>) = <<>>
    BY <2>1, ToldCCMaps, ToldResponsesMaps, InputMaps, MapFlatEmpty
  <2>3. MessagesToCC(<<>>).messages = <<>>
    BY TranslationOfNothing DEF Untranslated
  <2>4. ToldAlike(<<>>)
    BY <2>2, <2>3 DEF ToldAlike
  <2>5. QED
    BY <2>1, <2>4
<1>2. ASSUME NEW h \in Seq(Messages), NEW m \in Messages, h \in T PROVE Append(h, m) \in T
  <2> DEFINE hh == Append(h, m)
             t == MessagesToCC(h)
             tt == MessagesToCC(hh)
             L == Learned(t.names, m)
             r == Resolved(m, L)
             said == [role |-> RoleToCC(m.role), content |-> ContentToCC(r)]
             told == ToldResponses(Input(h))
             more == ToldResponses(ResponsesItems(m))
  <2>1. h \in Seq(Message) /\ m \in Message /\ hh \in Seq(Messages)
    BY <1>0, MessagesAreMessages
  <2>2. t \in Translation /\ tt = Translated(t, m)
    BY <2>1, TranslationGoesOn DEF GoesOn
  <2>3. t.ok => ToldCC(t.messages) = told
    BY <1>2 DEF ToldAlike
  <2>4. ToldResponses(Input(hh)) = told \o more
    BY <2>1, InputAppend
  <2>5. told \in Seq(Told) /\ t.names \in NameTable /\ t.messages \in Seq(CCMessage)
    BY <2>1, <2>2, InputMaps, ToldResponsesMaps DEF Translation
  <2>6. CASE Skipped(t, m)
    <3>1. tt = t
      BY <2>1, <2>2, <2>6, TranslatedCases
    <3>2. ASSUME t.ok PROVE ToldCC(t.messages) = told \o more
      <4>1. m.role \in Instructing
        BY <2>6, <3>2 DEF Skipped
      <4>2. more = <<>>
        BY <2>1, <4>1, InstructionsNotTold
      <4> HIDE DEF told, more, t
      <4>3. told \o <<>> = told
        BY <2>5
      <4>4. QED
        BY <2>3, <3>2, <4>2, <4>3
    <3> HIDE DEF told, more, t, tt, hh
    <3>3. ToldAlike(hh)
      BY <2>4, <3>1, <3>2 DEF ToldAlike, tt
    <3>4. QED
      BY <2>1, <3>3 DEF hh
  <2>7. CASE ~Skipped(t, m) /\ Refused(r)
    <3>1. ~tt.ok
      BY <2>1, <2>2, <2>7, TranslatedCases
    <3>2. ToldAlike(hh)
      BY <3>1 DEF ToldAlike
    <3>3. QED
      BY <2>1, <3>2
  <2>8. CASE ~Skipped(t, m) /\ ~Refused(r)
    <3>1. tt.messages = Append(t.messages, said)
      BY <2>1, <2>2, <2>8, TranslatedCases DEF Translated1
    <3>2. said \in CCMessage
      BY <2>1, <2>2, <2>8, SaidType
    <3>3. ToldByCC(said) = more
      <4>1. L \in NameTable /\ m.role \notin Instructing
        BY <2>1, <2>5, <2>8, LearnedType DEF Skipped
      <4> HIDE DEF L
      <4>2. QED
        BY <2>8, <4>1, AcceptedToldAlike
    <3>4. t.ok
      BY <2>8 DEF Skipped
    <3> DEFINE a == t.messages
    <3>5. a \in Seq(CCMessage)
      BY <2>5
    <3> HIDE DEF said, a, told, more
    <3>6. MapsMore(SaidTold, a, said)
      BY <3>2, <3>5, SaidToldType, MapFlatAppend
    <3>7. SaidTold[said] = more
      BY <3>2, <3>3 DEF SaidTold
    <3>8. Append(a, said) \in Seq(CCMessage)
      BY <3>2, <3>5
    <3>9. ToldCC(Append(a, said)) = ToldCC(a) \o more
      BY <3>5, <3>6, <3>7, <3>8, ToldCCMaps DEF MapsMore
    <3>10. ToldCC(a) = told
      BY <2>3, <3>4 DEF a
    <3> HIDE DEF t, tt, hh
    <3>11. ToldAlike(hh)
      BY <2>4, <3>1, <3>9, <3>10 DEF ToldAlike, a, tt
    <3>12. QED
      BY <2>1, <3>11 DEF hh
  <2>9. QED
    BY <2>6, <2>7, <2>8
<1>3. QED
  <2>1. \A h \in Seq(Messages) : h \in T
    BY <1>1, <1>2, SeqInduction
  <2>2. QED
    BY <2>1

(***************************************************************************)
(* Both upstreams are told the same conversation by requests they both     *)
(* accept; and what Command Code accepts, the Responses API refuses only   *)
(* for a part of a system message, which Command Code is not shown.        *)
(***************************************************************************)
THEOREM BothAreToldTheSame == Spec => []SameConversation
<1>1. IInv => SameConversation
  <2> SUFFICES ASSUME IInv PROVE SameConversation
    OBVIOUS
  <2> DEFINE h == history
             c == MessagesToCC(h)
             q == ChatRequestToResponses(h)
  <2>1. h \in Seq(Messages) /\ h \in Seq(Message)
    BY HistoriesAreMessages DEF IInv
  <2>2. c.ok => ToldCC(c.messages) = ToldResponses(q.input)
    BY <2>1, AlwaysToldAlike DEF ToldAlike, Input
  <2>3. ASSUME c.ok, ~q.ok PROVE \E i \in DOMAIN h : h[i].role \in Instructing
    <3>1. PICK i \in DOMAIN h : Range(h[i].parts) \cap {"nourl", "other"} # {}
      BY <2>3 DEF ChatRequestToResponses
    <3>2. Sendable(h)
      BY <2>1, <2>3, Consistency DEF Consistent
    <3>3. h[i].role \in Instructing \/ Range(h[i].parts) \subseteq Words \cup {"blank", "image"}
      BY <3>2 DEF Sendable
    <3>4. QED
      BY <3>1, <3>3, ConversationAssumption
  <2>4. QED
    BY <2>2, <2>3 DEF SameConversation
<1>2. QED
    BY <1>1, Invariant, PTL

================================================================================
