--------------------------- MODULE ZenResponsesProofs ---------------------------
(***************************************************************************)
(* Proofs about ZenResponses, for every set of texts, calls, reasons and   *)
(* token counts and any number of events.                                  *)
(***************************************************************************)
EXTENDS ZenResponses, SequenceTheorems, WellFoundedInduction, TLAPS

-----------------------------------------------------------------------------
(***************************************************************************)
(* Recursion over the elements of a sequence: what a function that is      *)
(* defined along 0..n computes, and FlattenSeq, which is defined so.       *)
(***************************************************************************)

(* Every nonempty set of natural numbers has a least element. *)
LEMMA NatMin ==
    ASSUME NEW T \in SUBSET Nat, T # {}
    PROVE  \E x \in T : \A y \in T : x <= y
<1>1. PICK x \in T : \A y \in T : ~(<<y, x>> \in OpToRel(<, Nat))
    BY NatLessThanWellFounded, WFMin
<1>2. ASSUME NEW y \in T PROVE x <= y
  <2>1. y < x => <<y, x>> \in {ss \in Nat \X Nat : ss[1] < ss[2]}
    OBVIOUS
  <2>2. {ss \in Nat \X Nat : ss[1] < ss[2]} = OpToRel(<, Nat)
    BY Zenon DEF OpToRel
  <2>3. <<y, x>> \notin {ss \in Nat \X Nat : ss[1] < ss[2]}
    BY Zenon, <1>1, <2>2
  <2>4. QED
    BY <2>1, <2>3
<1>3. QED
    BY <1>2

(* Induction, said of a set. *)
LEMMA SetInduction ==
    ASSUME NEW T \in SUBSET Nat, 0 \in T, \A n \in T : n + 1 \in T
    PROVE  \A n \in Nat : n \in T
<1> SUFFICES ASSUME Nat \ T # {} PROVE FALSE
    OBVIOUS
<1>1. PICK x \in Nat \ T : \A y \in Nat \ T : x <= y
    BY NatMin
<1>2. x - 1 \in Nat /\ x - 1 \notin Nat \ T /\ x = (x - 1) + 1
    BY <1>1
<1>3. QED
    BY <1>1, <1>2

(* A value carried along the numbers up to n, by one function at each. *)
IsScan(h, n, a, G) == h[0] = a /\ \A i \in 1..n : h[i] = G[i][h[i - 1]]

LEMMA ScanExists ==
    ASSUME NEW S, NEW a \in S, NEW n \in Nat, NEW G \in [1..n -> [S -> S]]
    PROVE  \E h \in [0..n -> S] : IsScan(h, n, a, G)
<1> DEFINE Upto(k) == k <= n => \E h \in [0..k -> S] : IsScan(h, k, a, G)
           T == {k \in Nat : Upto(k)}
<1>1. 0 \in T
  <2> DEFINE h == [i \in 0..0 |-> a]
  <2>1. h \in [0..0 -> S] /\ IsScan(h, 0, a, G)
    BY DEF IsScan
  <2>2. QED
    BY <2>1
<1>2. ASSUME NEW k \in T PROVE k + 1 \in T
  <2> SUFFICES ASSUME k + 1 <= n PROVE \E h \in [0..(k + 1) -> S] : IsScan(h, k + 1, a, G)
    BY <1>2
  <2>1. PICK g \in [0..k -> S] : IsScan(g, k, a, G)
    BY <1>2
  <2> DEFINE h == [i \in 0..(k + 1) |-> IF i = k + 1 THEN G[k + 1][g[k]] ELSE g[i]]
  <2>2. k + 1 \in 1..n /\ g[k] \in S /\ G[k + 1][g[k]] \in S
    BY <1>2
  <2>3. h \in [0..(k + 1) -> S]
    BY <2>2
  <2>4. ASSUME NEW i \in 1..(k + 1) PROVE h[i] = G[i][h[i - 1]]
    BY <1>2, <2>1, <2>2 DEF IsScan
  <2>5. h[0] = a
    BY <1>2, <2>1 DEF IsScan
  <2>6. QED
    BY <2>3, <2>4, <2>5 DEF IsScan
<1>3. QED
  <2> HIDE DEF Upto
  <2>1. n \in T
    BY <1>1, <1>2, SetInduction
  <2>2. QED
    BY <2>1 DEF Upto

Agree(f, h, n) == \A i \in 0..n : f[i] = h[i]

(* Whatever takes the same steps has the same values. *)
LEMMA ScanFollows ==
    ASSUME NEW S, NEW n \in Nat, NEW G, NEW a, NEW h \in [0..n -> S], IsScan(h, n, a, G),
           NEW f, f[0] = a, \A i \in 1..n : f[i - 1] \in S => f[i] = G[i][f[i - 1]]
    PROVE  Agree(f, h, n)
<1> DEFINE T == {k \in Nat : k <= n => f[k] = h[k]}
<1>1. 0 \in T
    BY DEF IsScan
<1>2. ASSUME NEW k \in T PROVE k + 1 \in T
  <2> SUFFICES ASSUME k + 1 <= n PROVE f[k + 1] = h[k + 1]
    OBVIOUS
  <2>1. f[k] = h[k] /\ h[k] \in S /\ k + 1 \in 1..n /\ (k + 1) - 1 = k
    BY <1>2
  <2>2. QED
    BY <2>1 DEF IsScan
<1>3. QED
  <2> HIDE DEF T
  <2>1. T \in SUBSET Nat
    BY DEF T
  <2>2. \A k \in Nat : k \in T
    BY <1>1, <1>2, <2>1, SetInduction
  <2>3. QED
    BY <2>2 DEF T, Agree

(* What is left over by FlattenSeq after each of the sequences. *)
LEMMA FlattenScan ==
    ASSUME NEW X, NEW ss \in Seq(Seq(X)), NEW h \in [0..Len(ss) -> Seq(X)],
           h[0] = <<>>, \A i \in 1..Len(ss) : h[i] = h[i - 1] \o ss[i]
    PROVE  FlattenSeq(ss) = h[Len(ss)]
<1>1. CASE Len(ss) = 0
  <2>1. ss = <<>>
    BY <1>1
  <2>2. FlattenSeq(ss) = ss
    BY <1>1 DEF FlattenSeq
  <2>3. QED
    BY <1>1, <2>1, <2>2
<1>2. CASE Len(ss) # 0
  <2> DEFINE n == Len(ss)
             Steps(f) == f = [i \in 1..n |-> IF i = 1 THEN ss[i] ELSE f[i - 1] \o ss[i]]
             f == CHOOSE g : Steps(g)
             f0 == [i \in 1..n |-> h[i]]
  <2>1. Steps(f0)
    <3>1. ASSUME NEW i \in 1..n PROVE h[i] = IF i = 1 THEN ss[i] ELSE f0[i - 1] \o ss[i]
      <4>1. CASE i = 1
        <5>1. 1 \in 1..Len(ss) /\ 1 - 1 = 0
            BY <1>2
        <5>2. h[1] = h[0] \o ss[1] /\ ss[1] \in Seq(X)
          <6>1. h[1] = h[1 - 1] \o ss[1]
            BY <5>1
          <6>2. ss[1] \in Seq(X)
            BY <5>1
          <6>3. QED
            BY <5>1, <6>1, <6>2
        <5>3. <<>> \o ss[1] = ss[1]
            BY <5>2
        <5>4. QED
            BY <4>1, <5>2, <5>3
      <4>2. CASE i # 1
        <5>1. i - 1 \in 1..n
            BY <4>2
        <5>2. QED
            BY <4>2, <5>1
      <4>3. QED
        BY <4>1, <4>2
    <3>2. QED
      BY <3>1
  <2>2. Steps(f)
    <3> HIDE DEF f0, Steps
    <3>1. QED
      BY Zenon, <2>1
  <2>3. FlattenSeq(ss) = f[n]
    BY <1>2 DEF FlattenSeq
  <2> DEFINE T == {k \in Nat : k \in 1..n => f[k] = h[k]}
  <2> HIDE DEF f
  <2>4. 0 \in T
    OBVIOUS
  <2>5. ASSUME NEW k \in T PROVE k + 1 \in T
    <3> SUFFICES ASSUME k + 1 \in 1..n PROVE f[k + 1] = h[k + 1]
      OBVIOUS
    <3>1. CASE k = 0
      <4>1. 1 \in 1..n /\ 1 - 1 = 0
        BY <1>2
      <4>2. f[1] = ss[1] /\ ss[1] \in Seq(X) /\ h[1] = h[0] \o ss[1]
        <5>1. f[1] = ss[1]
          BY <2>2, <4>1
        <5>2. h[1] = h[1 - 1] \o ss[1]
          BY <4>1
        <5>3. ss[1] \in Seq(X)
          BY <4>1
        <5>4. QED
          BY <4>1, <5>1, <5>2, <5>3
      <4>3. <<>> \o ss[1] = ss[1]
        BY <4>2
      <4>4. QED
        BY <3>1, <4>2, <4>3
    <3>2. CASE k # 0
      <4>1. k \in 1..n /\ k + 1 # 1 /\ (k + 1) - 1 = k
        BY <3>2
      <4>2. f[k] = h[k]
        BY <2>5, <4>1
      <4>3. f[k + 1] = f[k] \o ss[k + 1]
        BY <2>2, <4>1
      <4>4. h[k + 1] = h[k] \o ss[k + 1]
        BY <4>1
      <4>5. QED
        BY <4>2, <4>3, <4>4
    <3>3. QED
      BY <3>1, <3>2
  <2>6. QED
    <3> HIDE DEF T
    <3>1. T \in SUBSET Nat
      BY DEF T
    <3>2. \A k \in Nat : k \in T
      BY <2>4, <2>5, <3>1, SetInduction
    <3>3. n \in 1..n
      BY <1>2
    <3>4. f[n] = h[n]
      BY <3>2, <3>3 DEF T
    <3>5. QED
      BY <2>3, <3>4
<1>3. QED
    BY <1>1, <1>2

LEMMA FlattenEmpty == FlattenSeq(<<>>) = <<>>
    BY DEF FlattenSeq

(* FlattenSeq goes on with each sequence that is appended. *)
LEMMA FlattenAppend ==
    ASSUME NEW X, NEW ss \in Seq(Seq(X)), NEW s \in Seq(X)
    PROVE  /\ FlattenSeq(ss) \in Seq(X)
           /\ FlattenSeq(Append(ss, s)) = FlattenSeq(ss) \o s
<1> DEFINE tt == Append(ss, s)
           n == Len(tt)
           G == [i \in 1..n |-> [t \in Seq(X) |-> t \o tt[i]]]
<1>1. tt \in Seq(Seq(X)) /\ n = Len(ss) + 1 /\ tt[n] = s /\ \A i \in 1..Len(ss) : tt[i] = ss[i]
    OBVIOUS
<1>2. G \in [1..n -> [Seq(X) -> Seq(X)]] /\ <<>> \in Seq(X) /\ n \in Nat
    BY <1>1
<1>3. PICK h \in [0..n -> Seq(X)] : IsScan(h, n, <<>>, G)
  <2> HIDE DEF G, n
  <2>1. QED
    BY <1>2, ScanExists
<1>4. h[0] = <<>> /\ \A i \in 1..n : h[i] = h[i - 1] \o tt[i]
  <2>1. ASSUME NEW i \in 1..n PROVE h[i] = h[i - 1] \o tt[i]
    <3>1. i - 1 \in 0..n /\ h[i - 1] \in Seq(X)
        BY <1>1
    <3>2. G[i] = [t \in Seq(X) |-> t \o tt[i]]
        OBVIOUS
    <3>3. h[i] = G[i][h[i - 1]]
      <4> HIDE DEF G, n
      <4>1. QED
        BY <1>3 DEF IsScan
    <3>4. QED
        BY <3>1, <3>2, <3>3
  <2>2. QED
    BY <1>3, <2>1 DEF IsScan
<1>5. FlattenSeq(tt) = h[n]
  <2> HIDE DEF tt
  <2>1. QED
    BY <1>1, <1>4, FlattenScan
<1> DEFINE g == [i \in 0..Len(ss) |-> h[i]]
<1>6. g \in [0..Len(ss) -> Seq(X)] /\ g[0] = <<>> /\ \A i \in 1..Len(ss) : g[i] = g[i - 1] \o ss[i]
  <2> HIDE DEF tt
  <2> Len(ss) \in Nat
    OBVIOUS
  <2>1. ASSUME NEW i \in 1..Len(ss)
        PROVE  h[i] = h[i - 1] \o ss[i] /\ i \in 0..Len(ss) /\ i - 1 \in 0..Len(ss)
    <3>1. i \in 1..n /\ tt[i] = ss[i]
      BY <1>1
    <3>2. h[i] = h[i - 1] \o tt[i]
      <4> HIDE DEF n, tt
      <4>1. QED
        BY <1>4, <3>1
    <3>3. QED
      BY <3>1, <3>2
  <2>2. ASSUME NEW i \in 0..Len(ss) PROVE h[i] \in Seq(X)
    <3>1. i \in 0..n
      BY <1>1
    <3>2. QED
      <4> HIDE DEF n
      <4>1. QED
        BY <3>1
  <2>3. 0 \in 0..Len(ss) /\ h[0] = <<>>
    BY <1>4
  <2>4. g \in [0..Len(ss) -> Seq(X)] /\ g[0] = <<>>
    BY <2>2, <2>3
  <2>5. ASSUME NEW i \in 1..Len(ss) PROVE g[i] = g[i - 1] \o ss[i]
    BY <2>1
  <2>6. QED
    BY <2>4, <2>5
<1>7. FlattenSeq(ss) = g[Len(ss)]
  <2> HIDE DEF g
  <2>1. QED
    BY <1>6, FlattenScan
<1>8. n - 1 = Len(ss) /\ n \in 1..n /\ Len(ss) \in 0..Len(ss)
    BY <1>1
<1>9. h[n] = h[Len(ss)] \o tt[n]
  <2> HIDE DEF n, tt
  <2>1. h[n] = h[n - 1] \o tt[n]
    BY <1>4, <1>8
  <2>2. QED
    BY <1>8, <2>1
<1>10. g[Len(ss)] = h[Len(ss)] /\ h[Len(ss)] \in Seq(X)
    BY <1>6, <1>8
<1>11. QED
  <2> HIDE DEF g, n, tt
  <2>1. FlattenSeq(tt) = h[Len(ss)] \o s
    BY <1>1, <1>5, <1>9
  <2>2. QED
    BY <1>7, <1>10, <2>1 DEF tt

(* Induction over sequences, said of a set of them. *)
LEMMA SeqInduction ==
    ASSUME NEW S, NEW T, <<>> \in T, \A s \in Seq(S) : \A x \in S : s \in T => Append(s, x) \in T
    PROVE  \A s \in Seq(S) : s \in T
<1> DEFINE OfLength(k) == \A s \in Seq(S) : Len(s) = k => s \in T
           K == {k \in Nat : OfLength(k)}
<1>1. 0 \in K
    OBVIOUS
<1>2. ASSUME NEW k \in K PROVE k + 1 \in K
  <2> SUFFICES ASSUME NEW s \in Seq(S), Len(s) = k + 1 PROVE s \in T
    BY <1>2
  <2> DEFINE r == SubSeq(s, 1, k)
  <2>1. r \in Seq(S) /\ Len(r) = k /\ s[k + 1] \in S
    BY <1>2
  <2>2. s = Append(r, s[k + 1])
    BY <1>2, <2>1
  <2> HIDE DEF r
  <2>3. r \in T
    BY <1>2, <2>1
  <2>4. QED
    BY <2>1, <2>2, <2>3
<1>3. QED
  <2> HIDE DEF OfLength
  <2>1. \A k \in Nat : k \in K
    BY <1>1, <1>2, SetInduction
  <2>2. \A k \in Nat : OfLength(k)
    BY <2>1
  <2>3. QED
    BY <2>2 DEF OfLength

Associates(s, t, u) == (s \o t) \o u = s \o (t \o u)

LEMMA Associative ==
    ASSUME NEW X, NEW s \in Seq(X), NEW t \in Seq(X), NEW u \in Seq(X)
    PROVE  Associates(s, t, u)
    BY DEF Associates

LEMMA FlattenCat ==
    ASSUME NEW X, NEW ss \in Seq(Seq(X)), NEW tt \in Seq(Seq(X))
    PROVE  FlattenSeq(ss \o tt) = FlattenSeq(ss) \o FlattenSeq(tt)
<1> DEFINE Cat(uu) == FlattenSeq(ss \o uu) = FlattenSeq(ss) \o FlattenSeq(uu)
           T == {uu \in Seq(Seq(X)) : Cat(uu)}
<1>1. <<>> \in T
  <2>1. ss \o <<>> = ss /\ <<>> \in Seq(Seq(X))
    OBVIOUS
  <2>2. FlattenSeq(ss) \in Seq(X)
    BY FlattenAppend, <<>> \in Seq(X)
  <2>3. FlattenSeq(ss) \o <<>> = FlattenSeq(ss)
    BY <2>2
  <2>4. QED
    BY <2>1, <2>3, FlattenEmpty
<1>2. ASSUME NEW uu \in Seq(Seq(X)), NEW s \in Seq(X), uu \in T PROVE Append(uu, s) \in T
  <2>1. Append(uu, s) \in Seq(Seq(X)) /\ ss \o uu \in Seq(Seq(X))
    OBVIOUS
  <2>2. ss \o Append(uu, s) = Append(ss \o uu, s)
    OBVIOUS
  <2>3. FlattenSeq(Append(ss \o uu, s)) = FlattenSeq(ss \o uu) \o s
    BY <2>1, FlattenAppend
  <2>4. FlattenSeq(Append(uu, s)) = FlattenSeq(uu) \o s /\ FlattenSeq(uu) \in Seq(X)
    BY FlattenAppend
  <2>5. FlattenSeq(ss) \in Seq(X)
    BY FlattenAppend
  <2>6. (FlattenSeq(ss) \o FlattenSeq(uu)) \o s = FlattenSeq(ss) \o (FlattenSeq(uu) \o s)
    <3>1. FlattenSeq(uu) \in Seq(X)
      BY <2>4
    <3>2. Associates(FlattenSeq(ss), FlattenSeq(uu), s)
      BY <2>5, <3>1, Associative
    <3>3. QED
      BY <3>2 DEF Associates
  <2>7. Cat(uu)
    BY <1>2
  <2>8. Cat(Append(uu, s))
    BY <2>2, <2>3, <2>4, <2>6, <2>7
  <2>9. QED
    BY <2>1, <2>8
<1>3. QED
  <2> HIDE DEF Cat
  <2>1. \A uu \in Seq(Seq(X)) : uu \in T
    BY <1>1, <1>2, SeqInduction
  <2>2. QED
    BY <2>1 DEF Cat

-----------------------------------------------------------------------------
(***************************************************************************)
(* What chunks have in a field.                                            *)
(***************************************************************************)
Piece(c, kind, field) == IF c.kind = kind THEN <<c[field]>> ELSE <<>>

Pieces(s, kind, field) == [i \in DOMAIN s |-> Piece(s[i], kind, field)]

LEMMA GatheredPieces ==
    ASSUME NEW S, NEW s \in Seq(S), NEW kind, NEW field, NEW X, \A c \in S : c[field] \in X
    PROVE  /\ Gathered(s, kind, field) = FlattenSeq(Pieces(s, kind, field))
           /\ Pieces(s, kind, field) \in Seq(Seq(X))
           /\ Gathered(s, kind, field) \in Seq(X)
<1>1. Pieces(s, kind, field) \in Seq(Seq(X))
  <2>1. \A i \in 1..Len(s) : Piece(s[i], kind, field) \in Seq(X)
    BY DEF Piece
  <2>2. DOMAIN s = 1..Len(s) /\ Len(s) \in Nat
    OBVIOUS
  <2>3. QED
    BY <2>1, <2>2 DEF Pieces
<1>2. Gathered(s, kind, field) = FlattenSeq(Pieces(s, kind, field))
    BY DEF Gathered, Pieces, Piece
<1>3. QED
    BY <1>1, <1>2, FlattenAppend, <<>> \in Seq(X)

Splits(s, t) ==
    \A kind, field :
        Gathered(s \o t, kind, field) = Gathered(s, kind, field) \o Gathered(t, kind, field)

LEMMA GatheredCat ==
    ASSUME NEW S, NEW s \in Seq(S), NEW t \in Seq(S)
    PROVE  Splits(s, t)
<1> SUFFICES ASSUME NEW kind, NEW field
             PROVE  Gathered(s \o t, kind, field) = Gathered(s, kind, field) \o Gathered(t, kind, field)
    BY DEF Splits
<1> DEFINE X == {c[field] : c \in S}
           P(u) == Pieces(u, kind, field)
<1>1. \A c \in S : c[field] \in X
    OBVIOUS
<1>2. s \o t \in Seq(S)
    OBVIOUS
<1> HIDE DEF X
<1>3. P(s \o t) = P(s) \o P(t)
    BY DEF Pieces
<1>4. P(s) \in Seq(Seq(X)) /\ P(t) \in Seq(Seq(X))
  <2>1. P(s) \in Seq(Seq(X))
    BY <1>1, GatheredPieces
  <2>2. P(t) \in Seq(Seq(X))
    BY <1>1, GatheredPieces
  <2>3. QED
    BY <2>1, <2>2
<1>5. /\ Gathered(s \o t, kind, field) = FlattenSeq(P(s \o t))
      /\ Gathered(s, kind, field) = FlattenSeq(P(s))
      /\ Gathered(t, kind, field) = FlattenSeq(P(t))
  <2>1. Gathered(s \o t, kind, field) = FlattenSeq(P(s \o t))
    BY DEF Gathered, Pieces, Piece
  <2>2. Gathered(s, kind, field) = FlattenSeq(P(s))
    BY DEF Gathered, Pieces, Piece
  <2>3. Gathered(t, kind, field) = FlattenSeq(P(t))
    BY DEF Gathered, Pieces, Piece
  <2>4. QED
    BY <2>1, <2>2, <2>3
<1>6. QED
  <2> HIDE DEF P
  <2>1. FlattenSeq(P(s) \o P(t)) = FlattenSeq(P(s)) \o FlattenSeq(P(t))
    BY <1>4, FlattenCat
  <2>2. QED
    BY <1>3, <1>5, <2>1

LEMMA GatheredEmpty ==
    ASSUME NEW kind, NEW field
    PROVE  Gathered(<<>>, kind, field) = <<>>
    BY FlattenEmpty DEF Gathered

LEMMA GatheredOne ==
    ASSUME NEW c, NEW kind, NEW field
    PROVE  Gathered(<<c>>, kind, field) = Piece(c, kind, field)
<1>1. [i \in DOMAIN <<c>> |-> Piece(c, kind, field)] = <<Piece(c, kind, field)>>
    OBVIOUS
<1> DEFINE X == {c[field]}
<1>2. <<>> \in Seq(Seq(X)) /\ Piece(c, kind, field) \in Seq(X)
  <2>1. c[field] \in X
    OBVIOUS
  <2> HIDE DEF X
  <2>2. <<c[field]>> \in Seq(X) /\ <<>> \in Seq(X)
    BY <2>1
  <2>3. QED
    BY <2>2 DEF Piece
<1>3. FlattenSeq(Append(<<>>, Piece(c, kind, field))) = FlattenSeq(<<>>) \o Piece(c, kind, field)
    BY <1>2, FlattenAppend
<1>4. Append(<<>>, Piece(c, kind, field)) = <<Piece(c, kind, field)>>
    OBVIOUS
<1>5. <<>> \o Piece(c, kind, field) = Piece(c, kind, field)
    BY DEF Piece
<1>6. Gathered(<<c>>, kind, field) = FlattenSeq(<<Piece(c, kind, field)>>)
  <2>1. [i \in DOMAIN <<c>> |-> IF <<c>>[i].kind = kind THEN << <<c>>[i][field]>> ELSE <<>>]
          = <<Piece(c, kind, field)>>
    BY DEF Piece
  <2>2. QED
    BY <2>1 DEF Gathered
<1>7. QED
    BY <1>3, <1>4, <1>5, <1>6, FlattenEmpty

GathersNext(s, c) ==
    \A kind, field :
        Gathered(s \o <<c>>, kind, field) = Gathered(s, kind, field) \o Piece(c, kind, field)

LEMMA GatheredNext ==
    ASSUME NEW S, NEW s \in Seq(S), NEW c \in S
    PROVE  GathersNext(s, c)
<1> SUFFICES ASSUME NEW kind, NEW field
             PROVE  Gathered(s \o <<c>>, kind, field)
                      = Gathered(s, kind, field) \o Piece(c, kind, field)
    BY DEF GathersNext
<1>1. <<c>> \in Seq(S)
    OBVIOUS
<1>2. Splits(s, <<c>>)
    BY <1>1, GatheredCat
<1>3. Gathered(s \o <<c>>, kind, field) = Gathered(s, kind, field) \o Gathered(<<c>>, kind, field)
    BY <1>2, Zenon DEF Splits
<1>4. Gathered(<<c>>, kind, field) = Piece(c, kind, field)
    BY GatheredOne
<1>5. QED
    BY <1>3, <1>4, Zenon

-----------------------------------------------------------------------------
(***************************************************************************)
(* What events are read as.                                                *)
(***************************************************************************)
FoldType ==
    [texts : Seq(Texts), calls : Seq(Calls), finish : Finishes, usage : Counts,
     terminal : BOOLEAN, failed : BOOLEAN]

Taken(f, e, untyped) == IF e.typed \/ untyped THEN Folded(f, e) ELSE f

LEMMA NewFoldType == NewFold \in FoldType
    BY DEF NewFold, FoldType, Finishes, Counts

LEMMA EventKinds ==
    ASSUME NEW e \in Event
    PROVE  /\ e.kind \in {"text", "call", "end", "failed", "other"}
           /\ e.typed \in BOOLEAN
           /\ e.kind = "text" => e.text \in Texts \cup {Empty}
           /\ e.kind = "call" => e.call \in Calls
           /\ e.kind = "end" => e.why \in Whys /\ e.usage \in Usages \cup {NoUsage}
    BY DEF Event

LEMMA FoldedType ==
    ASSUME NEW f \in FoldType, NEW e \in Event
    PROVE  Folded(f, e) \in FoldType
<1>1. CASE e.kind = "text" /\ e.text # Empty
  <2>1. e.text \in Texts
    BY <1>1, EventKinds
  <2> DEFINE more == Append(f.texts, e.text)
  <2>2. Folded(f, e) = [f EXCEPT !.texts = more]
    BY <1>1 DEF Folded
  <2>3. more \in Seq(Texts)
    BY <2>1 DEF FoldType
  <2> HIDE DEF more
  <2>4. QED
    BY <2>2, <2>3 DEF FoldType
<1>2. CASE e.kind = "call"
  <2>1. e.call \in Calls
    BY <1>2, EventKinds
  <2> DEFINE more == Append(f.calls, e.call)
  <2>2. Folded(f, e) = [f EXCEPT !.calls = more]
    BY <1>2 DEF Folded
  <2>3. more \in Seq(Calls)
    BY <2>1 DEF FoldType
  <2> HIDE DEF more
  <2>4. QED
    BY <2>2, <2>3 DEF FoldType
<1>3. CASE e.kind = "end"
  <2> DEFINE fin == IF f.calls # <<>> THEN "tool_calls" ELSE mapResponsesFinish(e.why)
             use == IF e.usage = NoUsage THEN f.usage ELSE Totalled(e.usage)
  <2>1. fin \in Finishes
    BY DEF Finishes, mapResponsesFinish
  <2>2. use \in Counts
    <3>1. e.usage \in Usages \cup {NoUsage}
      BY <1>3, EventKinds
    <3>2. QED
      BY <3>1 DEF Counts, FoldType
  <2>3. Folded(f, e) = [f EXCEPT !.terminal = TRUE, !.finish = fin, !.usage = use]
    BY <1>3 DEF Folded
  <2> HIDE DEF fin, use
  <2>4. QED
    BY <2>1, <2>2, <2>3 DEF FoldType
<1>4. CASE e.kind = "failed"
    BY <1>4 DEF Folded, FoldType
<1>5. CASE e.kind = "other" \/ (e.kind = "text" /\ e.text = Empty)
    BY <1>5 DEF Folded
<1>6. \/ e.kind = "text" \/ e.kind = "call" \/ e.kind = "end" \/ e.kind = "failed"
      \/ e.kind = "other"
    BY EventKinds
<1>7. QED
    BY <1>1, <1>2, <1>3, <1>4, <1>5, <1>6

Takings(events, untyped) ==
    [i \in 1..Len(events) |-> [f \in FoldType |-> Taken(f, events[i], untyped)]]

LEMMA TakingsType ==
    ASSUME NEW events \in Seq(Event), NEW untyped \in BOOLEAN
    PROVE  Takings(events, untyped) \in [1..Len(events) -> [FoldType -> FoldType]]
<1>1. ASSUME NEW i \in 1..Len(events), NEW f \in FoldType
      PROVE  Taken(f, events[i], untyped) \in FoldType
  <2>1. events[i] \in Event
    OBVIOUS
  <2>2. Folded(f, events[i]) \in FoldType
    BY <2>1, FoldedType
  <2>3. QED
    BY <2>2 DEF Taken
<1>2. QED
    BY <1>1 DEF Takings

(* Read ends with the last of the folds that the events are taken into. *)
LEMMA ReadScan ==
    ASSUME NEW events \in Seq(Event), NEW untyped \in BOOLEAN,
           NEW h \in [0..Len(events) -> FoldType],
           IsScan(h, Len(events), NewFold, Takings(events, untyped))
    PROVE  Read(events, untyped) = h[Len(events)]
<1> DEFINE n == Len(events)
           G == Takings(events, untyped)
           Steps(g) == g = [i \in 0..n |-> IF i = 0 THEN NewFold
                                           ELSE IF events[i].typed \/ untyped
                                                THEN Folded(g[i - 1], events[i])
                                           ELSE g[i - 1]]
           f == CHOOSE g : Steps(g)
<1>1. \A i \in 1..n : \A x \in FoldType : G[i][x] = Taken(x, events[i], untyped)
    BY DEF Takings
<1>2. Steps(h)
  <2> DEFINE Body(i) == IF i = 0 THEN NewFold
                        ELSE IF events[i].typed \/ untyped THEN Folded(h[i - 1], events[i])
                        ELSE h[i - 1]
  <2>1. ASSUME NEW i \in 0..n PROVE h[i] = Body(i)
    <3>1. CASE i = 0
      BY <3>1 DEF IsScan
    <3>2. CASE i # 0
      <4>1. i \in 1..n /\ i - 1 \in 0..n /\ h[i - 1] \in FoldType
        BY <3>2
      <4>2. h[i] = G[i][h[i - 1]]
        BY <4>1 DEF IsScan
      <4>3. h[i] = Taken(h[i - 1], events[i], untyped)
        BY <1>1, <4>1, <4>2
      <4>4. QED
        BY <3>2, <4>3 DEF Taken
    <3>3. QED
      BY <3>1, <3>2
  <2> HIDE DEF Body
  <2>2. h = [i \in 0..n |-> Body(i)]
    BY <2>1
  <2>3. QED
    BY <2>2 DEF Body
<1>3. Steps(f)
  <2> HIDE DEF Steps
  <2>1. QED
    BY Zenon, <1>2
<1>4. Read(events, untyped) = f[n]
    BY DEF Read
<1> HIDE DEF f
<1>5. f[0] = NewFold
    BY <1>3
<1>6. ASSUME NEW i \in 1..n, f[i - 1] \in FoldType PROVE f[i] = G[i][f[i - 1]]
  <2>1. i \in 0..n /\ i # 0
    OBVIOUS
  <2>2. f[i] = Taken(f[i - 1], events[i], untyped)
    BY <1>3, <2>1 DEF Taken
  <2>3. QED
    BY <1>1, <1>6, <2>2
<1>7. \A i \in 0..n : f[i] = h[i]
  <2> HIDE DEF G
  <2>1. n \in Nat
    OBVIOUS
  <2>2. IsScan(h, n, NewFold, G)
    BY DEF G
  <2> HIDE DEF n
  <2>3. h \in [0..n -> FoldType]
    BY DEF n
  <2>4. \A i \in 1..n : f[i - 1] \in FoldType => f[i] = G[i][f[i - 1]]
    BY <1>6
  <2>5. Agree(f, h, n)
    BY <1>5, <2>1, <2>2, <2>3, <2>4, ScanFollows
  <2>6. QED
    BY <2>5 DEF Agree
<1>8. QED
    BY <1>4, <1>7

LEMMA ReadEmpty ==
    ASSUME NEW untyped \in BOOLEAN
    PROVE  Read(<<>>, untyped) = NewFold
<1> DEFINE h == [i \in 0..0 |-> NewFold]
<1>1. h \in [0..0 -> FoldType] /\ <<>> \in Seq(Event) /\ Len(<<>>) = 0
    BY NewFoldType
<1>2. IsScan(h, 0, NewFold, Takings(<<>>, untyped))
    BY DEF IsScan
<1>3. h[0] = NewFold
    OBVIOUS
<1> HIDE DEF h
<1>4. Read(<<>>, untyped) = h[Len(<<>>)]
    BY <1>1, <1>2, ReadScan
<1>5. QED
    BY <1>1, <1>3, <1>4

(* Reading goes on with each event. *)
LEMMA ReadAppend ==
    ASSUME NEW events \in Seq(Event), NEW e \in Event, NEW untyped \in BOOLEAN
    PROVE  /\ Read(events, untyped) \in FoldType
           /\ Read(Append(events, e), untyped) = Taken(Read(events, untyped), e, untyped)
<1> DEFINE ee == Append(events, e)
           n == Len(ee)
           G == Takings(ee, untyped)
<1>1. /\ ee \in Seq(Event) /\ n = Len(events) + 1 /\ ee[n] = e
      /\ \A i \in 1..Len(events) : ee[i] = events[i]
    OBVIOUS
<1>2. G \in [1..n -> [FoldType -> FoldType]] /\ n \in Nat
  <2> HIDE DEF ee
  <2>1. QED
    BY <1>1, TakingsType
<1>3. PICK h \in [0..n -> FoldType] : IsScan(h, n, NewFold, G)
  <2> HIDE DEF G, n
  <2>1. QED
    BY <1>2, ScanExists, NewFoldType
<1>4. Read(ee, untyped) = h[n]
  <2> HIDE DEF ee
  <2>1. QED
    BY <1>1, <1>3, ReadScan
<1> DEFINE g == [i \in 0..Len(events) |-> h[i]]
<1>5. g \in [0..Len(events) -> FoldType]
    BY <1>1
<1>6. IsScan(g, Len(events), NewFold, Takings(events, untyped))
  <2>1. ASSUME NEW i \in 1..Len(events) PROVE g[i] = Takings(events, untyped)[i][g[i - 1]]
    <3>1. i \in 1..n /\ i \in 0..Len(events) /\ i - 1 \in 0..Len(events) /\ ee[i] = events[i]
      BY <1>1
    <3>2. h[i] = G[i][h[i - 1]]
      <4> HIDE DEF G, n
      <4>1. QED
        BY <1>3, <3>1 DEF IsScan
    <3>3. G[i] = Takings(events, untyped)[i]
      <4> HIDE DEF ee
      <4>1. QED
        BY <3>1 DEF Takings
    <3>4. QED
      <4> HIDE DEF G
      <4>1. QED
        BY <3>1, <3>2, <3>3
  <2>2. g[0] = NewFold
    BY <1>3 DEF IsScan
  <2>3. QED
    BY <2>1, <2>2 DEF IsScan
<1>7. Read(events, untyped) = g[Len(events)]
  <2> HIDE DEF g
  <2>1. QED
    BY <1>5, <1>6, ReadScan
<1>8. g[Len(events)] = h[Len(events)] /\ h[Len(events)] \in FoldType
    BY <1>1
<1>9. h[n] = Taken(h[Len(events)], e, untyped)
  <2>1. n \in 1..n /\ n - 1 = Len(events)
    BY <1>1
  <2>2. h[n] = G[n][h[n - 1]]
    <3> HIDE DEF G, n
    <3>1. QED
      BY <1>3, <2>1 DEF IsScan
  <2>3. \A x \in FoldType : G[n][x] = Taken(x, ee[n], untyped)
    BY <2>1 DEF Takings
  <2>4. QED
    <3> HIDE DEF G, n, ee
    <3>1. QED
      BY <1>1, <1>8, <2>1, <2>2, <2>3
<1>10. QED
  <2> HIDE DEF g, n, G
  <2>1. QED
    BY <1>4, <1>7, <1>8, <1>9

(* Of typed events both lanes make the same. *)
LEMMA ReadTyped ==
    ASSUME NEW events \in Seq(Event), \A i \in DOMAIN events : events[i].typed
    PROVE  Read(events, FALSE) = Read(events, TRUE)
<1> DEFINE Same(s) == (\A i \in DOMAIN s : s[i].typed) => Read(s, FALSE) = Read(s, TRUE)
           T == {s \in Seq(Event) : Same(s)}
<1>1. <<>> \in T
  <2>1. Read(<<>>, FALSE) = Read(<<>>, TRUE)
    BY ReadEmpty
  <2>2. <<>> \in Seq(Event)
    OBVIOUS
  <2>3. QED
    BY <2>1, <2>2
<1>2. ASSUME NEW s \in Seq(Event), NEW e \in Event, s \in T PROVE Append(s, e) \in T
  <2>0. Append(s, e) \in Seq(Event)
    OBVIOUS
  <2> SUFFICES ASSUME \A i \in DOMAIN Append(s, e) : Append(s, e)[i].typed
               PROVE  Read(Append(s, e), FALSE) = Read(Append(s, e), TRUE)
    BY <2>0
  <2>1. e.typed /\ \A i \in DOMAIN s : s[i].typed
    <3>1. Len(s) + 1 \in DOMAIN Append(s, e) /\ Append(s, e)[Len(s) + 1] = e
      OBVIOUS
    <3>2. ASSUME NEW i \in DOMAIN s PROVE s[i].typed
      <4>1. i \in DOMAIN Append(s, e) /\ Append(s, e)[i] = s[i]
        OBVIOUS
      <4>2. QED
        BY <4>1
    <3>3. QED
      BY <3>1, <3>2
  <2>2. Read(s, FALSE) = Read(s, TRUE)
    BY <1>2, <2>1
  <2>3. Read(Append(s, e), FALSE) = Taken(Read(s, FALSE), e, FALSE)
    BY ReadAppend
  <2>4. Read(Append(s, e), TRUE) = Taken(Read(s, TRUE), e, TRUE)
    BY ReadAppend
  <2>5. QED
    BY <2>1, <2>2, <2>3, <2>4 DEF Taken
<1>3. QED
  <2> HIDE DEF Same
  <2>1. \A s \in Seq(Event) : s \in T
    BY <1>1, <1>2, SeqInduction
  <2>2. QED
    BY <2>1 DEF Same

-----------------------------------------------------------------------------
(***************************************************************************)
(* Prefixes, and the chunks that the translator makes.                     *)
(***************************************************************************)
LEMMA PrefixCat ==
    ASSUME NEW X, NEW s \in Seq(X), NEW t \in Seq(X)
    PROVE  IsPrefix(s, s \o t)
<1>1. Len(s) <= Len(s \o t)
    OBVIOUS
<1>2. SubSeq(s, 1, Len(s)) = s /\ SubSeq(s \o t, 1, Len(s)) = s
    OBVIOUS
<1>3. QED
    BY <1>1, <1>2 DEF IsPrefix

LEMMA PrefixMore ==
    ASSUME NEW X, NEW s \in Seq(X), NEW t \in Seq(X), NEW u \in Seq(X), IsPrefix(s, t)
    PROVE  IsPrefix(s, t \o u)
<1>1. Len(s) <= Len(t) /\ Len(t \o u) = Len(t) + Len(u)
    BY DEF IsPrefix
<1>2. \A i \in 1..Len(s) : t[i] = (t \o u)[i]
    BY <1>1
<1>3. SubSeq(t, 1, Len(s)) = SubSeq(t \o u, 1, Len(s))
    BY <1>1, <1>2
<1>4. QED
    BY <1>1, <1>3 DEF IsPrefix

OnlyContent(chunks) == \A i \in DOMAIN chunks : chunks[i].kind \in {"text", "call"}

LEMMA ChunkKinds ==
    ASSUME NEW c \in Chunk
    PROVE  /\ c.kind \in {"text", "call", "finish", "usage", "DONE"}
           /\ c.kind = "text" => c.text \in Texts
           /\ c.kind = "call" => c.call \in Calls /\ c.index \in 0..MaxEvents - 1
    BY DEF Chunk

LEMMA GatheredTypes ==
    ASSUME NEW s \in Seq(Chunk)
    PROVE  /\ Gathered(s, "text", "text") \in Seq(Texts)
           /\ Gathered(s, "call", "call") \in Seq(Calls)
           /\ Gathered(s, "call", "index") \in Seq(Nat)
<1> DEFINE Typed(u) == /\ Gathered(u, "text", "text") \in Seq(Texts)
                       /\ Gathered(u, "call", "call") \in Seq(Calls)
                       /\ Gathered(u, "call", "index") \in Seq(Nat)
           T == {u \in Seq(Chunk) : Typed(u)}
<1>1. <<>> \in T
  <2>1. Typed(<<>>)
    BY GatheredEmpty, <<>> \in Seq(Texts), <<>> \in Seq(Calls), <<>> \in Seq(Nat)
  <2>2. QED
    BY <2>1
<1>2. ASSUME NEW u \in Seq(Chunk), NEW c \in Chunk, u \in T PROVE Append(u, c) \in T
  <2>1. Append(u, c) = u \o <<c>> /\ <<c>> \in Seq(Chunk) /\ Append(u, c) \in Seq(Chunk)
    OBVIOUS
  <2>2. Typed(u)
    BY <1>2
  <2>3. /\ Piece(c, "text", "text") \in Seq(Texts)
        /\ Piece(c, "call", "call") \in Seq(Calls)
        /\ Piece(c, "call", "index") \in Seq(Nat)
    BY ChunkKinds DEF Piece
  <2>4. Splits(u, <<c>>)
    BY <2>1, GatheredCat
  <2>5. Typed(Append(u, c))
    <3>1. Gathered(u \o <<c>>, "text", "text") \in Seq(Texts)
      <4>1. Gathered(u \o <<c>>, "text", "text")
              = Gathered(u, "text", "text") \o Piece(c, "text", "text")
        BY <2>4, GatheredOne DEF Splits
      <4>2. Gathered(u, "text", "text") \o Piece(c, "text", "text") \in Seq(Texts)
        BY <2>2, <2>3
      <4>3. QED
        BY <4>1, <4>2
    <3>2. Gathered(u \o <<c>>, "call", "call") \in Seq(Calls)
      <4>1. Gathered(u \o <<c>>, "call", "call")
              = Gathered(u, "call", "call") \o Piece(c, "call", "call")
        BY <2>4, GatheredOne DEF Splits
      <4>2. Gathered(u, "call", "call") \o Piece(c, "call", "call") \in Seq(Calls)
        BY <2>2, <2>3
      <4>3. QED
        BY <4>1, <4>2
    <3>3. Gathered(u \o <<c>>, "call", "index") \in Seq(Nat)
      <4>1. Gathered(u \o <<c>>, "call", "index")
              = Gathered(u, "call", "index") \o Piece(c, "call", "index")
        BY <2>4, GatheredOne DEF Splits
      <4>2. Gathered(u, "call", "index") \o Piece(c, "call", "index") \in Seq(Nat)
        BY <2>2, <2>3
      <4>3. QED
        BY <4>1, <4>2
    <3>4. QED
      BY <2>1, <3>1, <3>2, <3>3
  <2>6. QED
    BY <2>1, <2>5
<1>3. QED
  <2> HIDE DEF Typed
  <2>1. \A u \in Seq(Chunk) : u \in T
    BY <1>1, <1>2, SeqInduction
  <2>2. QED
    BY <2>1 DEF Typed

(* The chunk of an event tells what the event adds to the fold. *)
LEMMA ChunksTell ==
    ASSUME NEW f \in FoldType, NEW e \in Event, Len(f.calls) < MaxEvents
    PROVE  /\ Chunks(f, e) \in Seq(Chunk)
           /\ OnlyContent(Chunks(f, e))
           /\ Folded(f, e).texts = f.texts \o Gathered(Chunks(f, e), "text", "text")
           /\ Folded(f, e).calls = f.calls \o Gathered(Chunks(f, e), "call", "call")
           /\ Gathered(Chunks(f, e), "call", "index") =
                IF e.kind = "call" THEN <<Len(f.calls)>> ELSE <<>>
           /\ e.kind # "call" => Folded(f, e).calls = f.calls
           /\ e.kind = "call" => Len(Folded(f, e).calls) = Len(f.calls) + 1
<1>0. f.texts \in Seq(Texts) /\ f.calls \in Seq(Calls)
    BY DEF FoldType
<1>1. CASE e.kind = "text" /\ e.text # Empty
  <2> DEFINE c == [kind |-> "text", text |-> e.text]
  <2>1. e.text \in Texts
    BY <1>1, EventKinds
  <2>2. Chunks(f, e) = <<c>>
    BY <1>1 DEF Chunks
  <2>3. Folded(f, e) = [f EXCEPT !.texts = Append(f.texts, e.text)]
    BY <1>1 DEF Folded
  <2>4. c \in Chunk /\ c.kind = "text" /\ c.text = e.text
    BY <2>1 DEF Chunk
  <2>5. Folded(f, e).texts = Append(f.texts, e.text) /\ Folded(f, e).calls = f.calls
    BY <2>3 DEF FoldType
  <2> HIDE DEF c
  <2>6. /\ Gathered(<<c>>, "text", "text") = <<e.text>>
        /\ Gathered(<<c>>, "call", "call") = <<>>
        /\ Gathered(<<c>>, "call", "index") = <<>>
    BY <2>4, GatheredOne DEF Piece
  <2>7. OnlyContent(<<c>>)
    BY <2>4 DEF OnlyContent
  <2>8. Append(f.texts, e.text) = f.texts \o <<e.text>> /\ f.calls = f.calls \o <<>>
    BY <1>0, <2>1
  <2>9. <<c>> \in Seq(Chunk)
    BY <2>4
  <2>10. QED
    BY <1>1, <2>2, <2>5, <2>6, <2>7, <2>8, <2>9
<1>2. CASE e.kind = "call"
  <2> DEFINE c == [kind |-> "call", call |-> e.call, index |-> Len(f.calls)]
  <2>1. e.call \in Calls
    BY <1>2, EventKinds
  <2>2. Chunks(f, e) = <<c>>
    BY <1>2 DEF Chunks
  <2>3. Folded(f, e) = [f EXCEPT !.calls = Append(f.calls, e.call)]
    BY <1>2 DEF Folded
  <2>4. c \in Chunk /\ c.kind = "call" /\ c.call = e.call /\ c.index = Len(f.calls)
    <3>1. Len(f.calls) \in 0..MaxEvents - 1
      BY <1>0, ZenAssumption
    <3>2. c \in [kind : {"call"}, call : Calls, index : 0..MaxEvents - 1]
      BY <2>1, <3>1
    <3>3. QED
      BY <3>2 DEF Chunk
  <2>5. Folded(f, e).calls = Append(f.calls, e.call) /\ Folded(f, e).texts = f.texts
    BY <2>3 DEF FoldType
  <2> HIDE DEF c
  <2>6. /\ Gathered(<<c>>, "text", "text") = <<>>
        /\ Gathered(<<c>>, "call", "call") = <<e.call>>
        /\ Gathered(<<c>>, "call", "index") = <<Len(f.calls)>>
    BY <2>4, GatheredOne DEF Piece
  <2>7. OnlyContent(<<c>>)
    BY <2>4 DEF OnlyContent
  <2>8. Append(f.calls, e.call) = f.calls \o <<e.call>> /\ f.texts = f.texts \o <<>>
    BY <1>0, <2>1
  <2>9. <<c>> \in Seq(Chunk) /\ Len(Append(f.calls, e.call)) = Len(f.calls) + 1
    BY <1>0, <2>1, <2>4
  <2>10. QED
    BY <1>2, <2>2, <2>5, <2>6, <2>7, <2>8, <2>9
<1>3. CASE e.kind # "call" /\ ~(e.kind = "text" /\ e.text # Empty)
  <2>1. Chunks(f, e) = <<>>
    BY <1>3 DEF Chunks
  <2>2. Folded(f, e).texts = f.texts /\ Folded(f, e).calls = f.calls
    BY <1>3 DEF Folded, FoldType
  <2>3. OnlyContent(<<>>) /\ <<>> \in Seq(Chunk)
    BY DEF OnlyContent
  <2>4. f.calls = f.calls \o <<>> /\ f.texts = f.texts \o <<>>
    BY <1>0
  <2>5. QED
    BY <1>3, <2>1, <2>2, <2>3, <2>4, GatheredEmpty
<1>4. QED
    BY <1>1, <1>2, <1>3

FinishChunk(f) == [kind |-> "finish", finish |-> f.finish]
UsageChunk(f) == [kind |-> "usage", usage |-> f.usage]
DoneChunk == [kind |-> "DONE"]

(* The chunks that close a stream have the finish and the usage; the last says so. *)
LEMMA ClosingTells ==
    ASSUME NEW f \in FoldType
    PROVE  /\ Closing(f) \in Seq(Chunk) /\ Closing(f) # <<>>
           /\ Closing(f)[Len(Closing(f))].kind = "DONE"
           /\ \A i \in 1..Len(Closing(f)) : Closing(f)[i].kind = "DONE" => i = Len(Closing(f))
           /\ Gathered(Closing(f), "text", "text") = <<>>
           /\ Gathered(Closing(f), "call", "call") = <<>>
           /\ Gathered(Closing(f), "call", "index") = <<>>
           /\ Gathered(Closing(f), "finish", "finish") = <<f.finish>>
           /\ Gathered(Closing(f), "usage", "usage") =
                IF f.usage = NoUsage THEN <<>> ELSE <<f.usage>>
<1>1. /\ FinishChunk(f).kind = "finish" /\ FinishChunk(f).finish = f.finish
      /\ UsageChunk(f).kind = "usage" /\ UsageChunk(f).usage = f.usage
      /\ DoneChunk.kind = "DONE"
    BY DEF FinishChunk, UsageChunk, DoneChunk
<1>2. FinishChunk(f) \in Chunk /\ DoneChunk \in Chunk
    BY DEF FinishChunk, DoneChunk, Chunk, FoldType
<1>3. CASE f.usage = NoUsage
  <2> DEFINE a == FinishChunk(f)
             d == DoneChunk
             all == <<a>> \o <<d>>
  <2>1. Closing(f) = all
    BY <1>3 DEF Closing, FinishChunk, DoneChunk
  <2>2. a.kind = "finish" /\ a.finish = f.finish /\ d.kind = "DONE"
    BY <1>1
  <2>3. a \in Chunk /\ d \in Chunk
    BY <1>2
  <2> HIDE DEF a, d
  <2>4. /\ all \in Seq(Chunk) /\ Len(all) = 2 /\ all[1] = a /\ all[2] = d
        /\ <<a>> \in Seq(Chunk) /\ <<d>> \in Seq(Chunk)
    BY <2>3
  <2>6. \A kind, field : Gathered(all, kind, field) = Piece(a, kind, field) \o Piece(d, kind, field)
    <3> SUFFICES ASSUME NEW kind, NEW field
                 PROVE  Gathered(all, kind, field) = Piece(a, kind, field) \o Piece(d, kind, field)
      OBVIOUS
    <3> DEFINE alone == <<a>>
    <3>0. all = alone \o <<d>> /\ alone \in Seq(Chunk)
      BY <2>4
    <3> HIDE DEF alone, all
    <3>4. GathersNext(alone, d)
      BY <2>3, <3>0, GatheredNext
    <3>1. Gathered(alone \o <<d>>, kind, field) = Gathered(alone, kind, field) \o Piece(d, kind, field)
      BY <3>4, Zenon DEF GathersNext
    <3>2. Gathered(alone, kind, field) = Piece(a, kind, field)
      BY GatheredOne DEF alone
    <3>3. QED
      BY <3>0, <3>1, <3>2, Zenon
  <2> HIDE DEF all
  <2>7. /\ Gathered(all, "text", "text") = <<>> \o <<>>
        /\ Gathered(all, "call", "call") = <<>> \o <<>>
        /\ Gathered(all, "call", "index") = <<>> \o <<>>
        /\ Gathered(all, "finish", "finish") = <<f.finish>> \o <<>>
        /\ Gathered(all, "usage", "usage") = <<>> \o <<>>
    BY <2>2, <2>6 DEF Piece
  <2>8. \A i \in 1..2 : all[i].kind = "DONE" => i = 2
    BY <2>2, <2>4
  <2>9. <<>> \o <<>> = <<>> /\ <<f.finish>> \o <<>> = <<f.finish>>
    OBVIOUS
  <2>10. all # <<>>
    <3>1. Len(all) # 0
      BY <2>4
    <3>2. Len(<<>>) = 0
      OBVIOUS
    <3>3. QED
      BY <3>1, <3>2, Zenon
  <2>11. QED
    BY <1>3, <2>1, <2>2, <2>4, <2>7, <2>8, <2>9, <2>10
<1>4. CASE f.usage # NoUsage
  <2> DEFINE a == FinishChunk(f)
             u == UsageChunk(f)
             d == DoneChunk
             all == (<<a>> \o <<u>>) \o <<d>>
  <2>1. Closing(f) = all
    BY <1>4 DEF Closing, FinishChunk, UsageChunk, DoneChunk
  <2>2. /\ a.kind = "finish" /\ a.finish = f.finish /\ d.kind = "DONE"
        /\ u.kind = "usage" /\ u.usage = f.usage
    BY <1>1
  <2>3. a \in Chunk /\ d \in Chunk /\ u \in Chunk
    BY <1>2, <1>4 DEF UsageChunk, Chunk, FoldType
  <2> HIDE DEF a, u, d
  <2>4. /\ all \in Seq(Chunk) /\ Len(all) = 3 /\ all[1] = a /\ all[2] = u /\ all[3] = d
        /\ <<a>> \in Seq(Chunk) /\ <<u>> \in Seq(Chunk) /\ <<d>> \in Seq(Chunk)
        /\ <<a>> \o <<u>> \in Seq(Chunk)
    BY <2>3
  <2>6. \A kind, field :
            Gathered(all, kind, field)
              = (Piece(a, kind, field) \o Piece(u, kind, field)) \o Piece(d, kind, field)
    <3> SUFFICES ASSUME NEW kind, NEW field
                 PROVE  Gathered(all, kind, field)
                          = (Piece(a, kind, field) \o Piece(u, kind, field)) \o Piece(d, kind, field)
      OBVIOUS
    <3> DEFINE alone == <<a>>
               au == alone \o <<u>>
    <3>1. alone \in Seq(Chunk) /\ au \in Seq(Chunk) /\ all = au \o <<d>>
      BY <2>4
    <3>2. Gathered(alone, kind, field) = Piece(a, kind, field)
      BY GatheredOne
    <3> HIDE DEF alone, all
    <3>3. GathersNext(alone, u)
      BY <2>3, <3>1, GatheredNext
    <3>4. Gathered(au, kind, field) = Gathered(alone, kind, field) \o Piece(u, kind, field)
      BY <3>3, Zenon DEF GathersNext
    <3> HIDE DEF au
    <3>5. GathersNext(au, d)
      BY <2>3, <3>1, GatheredNext
    <3>6. Gathered(au \o <<d>>, kind, field) = Gathered(au, kind, field) \o Piece(d, kind, field)
      BY <3>5, Zenon DEF GathersNext
    <3>7. QED
      BY <3>1, <3>2, <3>4, <3>6, Zenon
  <2> HIDE DEF all
  <2>7. /\ Gathered(all, "text", "text") = (<<>> \o <<>>) \o <<>>
        /\ Gathered(all, "call", "call") = (<<>> \o <<>>) \o <<>>
        /\ Gathered(all, "call", "index") = (<<>> \o <<>>) \o <<>>
        /\ Gathered(all, "finish", "finish") = (<<f.finish>> \o <<>>) \o <<>>
        /\ Gathered(all, "usage", "usage") = (<<>> \o <<f.usage>>) \o <<>>
    BY <2>2, <2>6 DEF Piece
  <2>8. \A i \in 1..3 : all[i].kind = "DONE" => i = 3
    BY <2>2, <2>4
  <2>9. /\ (<<>> \o <<>>) \o <<>> = <<>> /\ (<<f.finish>> \o <<>>) \o <<>> = <<f.finish>>
        /\ (<<>> \o <<f.usage>>) \o <<>> = <<f.usage>>
    OBVIOUS
  <2>10. all # <<>>
    <3>1. Len(all) # 0
      BY <2>4
    <3>2. Len(<<>>) = 0
      OBVIOUS
    <3>3. QED
      BY <3>1, <3>2, Zenon
  <2>11. QED
    BY <1>4, <2>1, <2>2, <2>4, <2>7, <2>8, <2>9, <2>10
<1>5. QED
    BY <1>3, <1>4

-----------------------------------------------------------------------------
(***************************************************************************)
(* The inductive invariant.  It follows the chunks from the fold over the  *)
(* pipe to the client: what was handed over and what is still to be        *)
(* written tell together what has been folded, unless the client left.     *)
(***************************************************************************)
Wire == out \o tr.pending

\* The body ended as the stream may be closed with [DONE].
Closed == ending = "eof" /\ ~Unfinished(tr.fold)

\* No chunk was dropped on its way.
Intact == relay \in {"waiting", "reading"} \/ ~gone

FoldFollows == tr.fold = Read(seen, TRUE) /\ Len(tr.fold.calls) <= Len(seen)

Ends ==
    /\ tr.pc # "write" => tr.pending = <<>>
    /\ tr.pc = "closed" <=> pipe.writer # "open"
    /\ pipe.reader = "closed" => relay \in {"done", "failed"}
    /\ ready = "ok" <=> tr.announced
    /\ ready = "err" => tr.pc = "closed" /\ ending # "open" /\ ~Closed
    /\ relay = "failed" => ready = "err"
    /\ relay = "done" /\ ~gone => tr.pc = "closed"
    /\ relay \in {"waiting", "failed"} => out = <<>>

Numbered(indices) == \A i \in DOMAIN indices : indices[i] = i - 1

Tells(chunks, f) ==
    /\ Gathered(chunks, "text", "text") = f.texts
    /\ Gathered(chunks, "call", "call") = f.calls
    /\ Numbered(Gathered(chunks, "call", "index"))
    /\ Len(Gathered(chunks, "call", "index")) = Len(f.calls)

Begins(chunks, f) ==
    /\ IsPrefix(Gathered(chunks, "text", "text"), f.texts)
    /\ IsPrefix(Gathered(chunks, "call", "call"), f.calls)
    /\ Numbered(Gathered(chunks, "call", "index"))

Delivered == Begins(out, tr.fold) /\ (Intact => Tells(Wire, tr.fold))

EndsWith(chunks, f) == \E p \in Seq(Chunk) : OnlyContent(p) /\ chunks = p \o Closing(f)

Shape ==
    /\ ~Closed => OnlyContent(Wire)
    /\ Closed /\ Intact => EndsWith(Wire, tr.fold)

Streaming == out \in Seq(Chunk) /\ FoldFollows /\ Ends /\ Delivered /\ Shape

Aggregating ==
    tr = NewTranslator /\ ready = "empty" /\ relay # "reading" /\ out \in Seq(Answers)

IInv ==
    /\ TypeOK
    /\ lane = "stream" => Streaming
    /\ lane = "aggregate" => Aggregating

TrType ==
    [pc : {"read", "write", "closed"}, announced : BOOLEAN, pending : Seq(Chunk), fold : FoldType]

LEMMA TrTyped ==
    TypeOK => /\ tr \in TrType /\ tr.fold \in FoldType /\ tr.pending \in Seq(Chunk)
              /\ tr.fold.texts \in Seq(Texts) /\ tr.fold.calls \in Seq(Calls)
<1>1. TypeOK => tr \in TrType
    BY DEF TypeOK, TrType, FoldType
<1>2. tr \in TrType => tr.fold \in FoldType /\ tr.pending \in Seq(Chunk)
    BY DEF TrType
<1>3. tr.fold \in FoldType => tr.fold.texts \in Seq(Texts) /\ tr.fold.calls \in Seq(Calls)
    BY DEF FoldType
<1>4. QED
    BY <1>1, <1>2, <1>3

LEMMA ContentCat ==
    ASSUME NEW s \in Seq(Chunk), NEW t \in Seq(Chunk)
    PROVE  OnlyContent(s \o t) <=> OnlyContent(s) /\ OnlyContent(t)
<1>1. \A i \in DOMAIN s : i \in DOMAIN (s \o t) /\ (s \o t)[i] = s[i]
    OBVIOUS
<1>2. \A i \in DOMAIN t : i + Len(s) \in DOMAIN (s \o t) /\ (s \o t)[i + Len(s)] = t[i]
    OBVIOUS
<1>3. \A i \in DOMAIN (s \o t) : i \in DOMAIN s \/ (i - Len(s) \in DOMAIN t /\ (s \o t)[i] = t[i - Len(s)])
    OBVIOUS
<1>4. QED
    BY <1>1, <1>2, <1>3 DEF OnlyContent

LEMMA NumberedPrefix ==
    ASSUME NEW s \in Seq(Nat), NEW t \in Seq(Nat), Numbered(s \o t)
    PROVE  Numbered(s)
<1>1. \A i \in DOMAIN s : i \in DOMAIN (s \o t) /\ (s \o t)[i] = s[i]
    OBVIOUS
<1>2. QED
    BY <1>1 DEF Numbered

LEMMA NumberedMore ==
    ASSUME NEW s \in Seq(Nat), Numbered(s)
    PROVE  Numbered(s \o <<Len(s)>>) /\ Len(s \o <<Len(s)>>) = Len(s) + 1
<1>1. Len(s \o <<Len(s)>>) = Len(s) + 1 /\ (s \o <<Len(s)>>)[Len(s) + 1] = Len(s)
    OBVIOUS
<1>2. \A i \in DOMAIN (s \o <<Len(s)>>) :
         (i \in DOMAIN s /\ (s \o <<Len(s)>>)[i] = s[i]) \/ i = Len(s) + 1
    OBVIOUS
<1>3. QED
    BY <1>1, <1>2 DEF Numbered

(* What a part of the chunks tells begins what all of them tell. *)
LEMMA TellsBegins ==
    ASSUME NEW s \in Seq(Chunk), NEW t \in Seq(Chunk), NEW f, Tells(s \o t, f)
    PROVE  Begins(s, f)
<1>1. Splits(s, t)
    BY GatheredCat
<1>2. /\ f.texts = Gathered(s, "text", "text") \o Gathered(t, "text", "text")
      /\ f.calls = Gathered(s, "call", "call") \o Gathered(t, "call", "call")
      /\ Numbered(Gathered(s, "call", "index") \o Gathered(t, "call", "index"))
    BY <1>1 DEF Splits, Tells
<1>3. /\ Gathered(s, "text", "text") \in Seq(Texts) /\ Gathered(t, "text", "text") \in Seq(Texts)
      /\ Gathered(s, "call", "call") \in Seq(Calls) /\ Gathered(t, "call", "call") \in Seq(Calls)
      /\ Gathered(s, "call", "index") \in Seq(Nat) /\ Gathered(t, "call", "index") \in Seq(Nat)
    BY GatheredTypes
<1>4. IsPrefix(Gathered(s, "text", "text"), f.texts)
    BY <1>2, <1>3, PrefixCat
<1>5. IsPrefix(Gathered(s, "call", "call"), f.calls)
    BY <1>2, <1>3, PrefixCat
<1>6. Numbered(Gathered(s, "call", "index"))
    BY <1>2, <1>3, NumberedPrefix
<1>7. QED
    BY <1>4, <1>5, <1>6 DEF Begins

LEMMA TellsMore ==
    ASSUME NEW s \in Seq(Chunk), NEW f \in FoldType, NEW e \in Event,
           Len(f.calls) < MaxEvents, Tells(s, f)
    PROVE  Tells(s \o Chunks(f, e), Folded(f, e))
<1> DEFINE c == Chunks(f, e)
           g == Folded(f, e)
           more == IF e.kind = "call" THEN <<Len(f.calls)>> ELSE <<>>
<1>1. /\ c \in Seq(Chunk)
      /\ g.texts = f.texts \o Gathered(c, "text", "text")
      /\ g.calls = f.calls \o Gathered(c, "call", "call")
      /\ Gathered(c, "call", "index") = more
      /\ e.kind # "call" => g.calls = f.calls
      /\ e.kind = "call" => Len(g.calls) = Len(f.calls) + 1
    BY ChunksTell
<1> HIDE DEF c, g
<1>2. Splits(s, c)
    BY <1>1, GatheredCat
<1>3. Gathered(s \o c, "text", "text") = g.texts /\ Gathered(s \o c, "call", "call") = g.calls
    BY <1>1, <1>2 DEF Splits, Tells
<1>4. Gathered(s \o c, "call", "index") = Gathered(s, "call", "index") \o more
    BY <1>1, <1>2 DEF Splits
<1> DEFINE n == Gathered(s, "call", "index")
<1>5. n \in Seq(Nat) /\ Numbered(n) /\ Len(n) = Len(f.calls)
    BY GatheredTypes DEF Tells
<1> HIDE DEF n
<1>6. Numbered(n \o more) /\ Len(n \o more) = Len(g.calls)
  <2>1. CASE e.kind = "call"
    <3>1. Numbered(n \o <<Len(n)>>) /\ Len(n \o <<Len(n)>>) = Len(n) + 1
      BY <1>5, NumberedMore
    <3>2. more = <<Len(n)>>
      BY <1>5, <2>1
    <3> HIDE DEF more
    <3>3. QED
      BY <1>1, <1>5, <2>1, <3>1, <3>2
  <2>2. CASE e.kind # "call"
    <3>1. n \o more = n
      BY <1>5, <2>2
    <3> HIDE DEF more
    <3>2. QED
      BY <1>1, <1>5, <2>2, <3>1
  <2>3. QED
    BY <2>1, <2>2
<1>7. QED
  <2> HIDE DEF more
  <2>1. Tells(s \o c, g)
    BY <1>3, <1>4, <1>6 DEF Tells, n
  <2>2. QED
    BY <2>1 DEF c, g

LEMMA BeginsMore ==
    ASSUME NEW s \in Seq(Chunk), NEW f \in FoldType, NEW e \in Event,
           Len(f.calls) < MaxEvents, Begins(s, f)
    PROVE  Begins(s, Folded(f, e))
<1> DEFINE c == Chunks(f, e)
           g == Folded(f, e)
<1>1. /\ c \in Seq(Chunk)
      /\ g.texts = f.texts \o Gathered(c, "text", "text")
      /\ g.calls = f.calls \o Gathered(c, "call", "call")
    BY ChunksTell
<1> HIDE DEF c, g
<1>2. /\ Gathered(s, "text", "text") \in Seq(Texts) /\ Gathered(c, "text", "text") \in Seq(Texts)
      /\ Gathered(s, "call", "call") \in Seq(Calls) /\ Gathered(c, "call", "call") \in Seq(Calls)
    BY <1>1, GatheredTypes
<1>3. f.texts \in Seq(Texts) /\ f.calls \in Seq(Calls)
    BY DEF FoldType
<1>4. IsPrefix(Gathered(s, "text", "text"), g.texts)
    BY <1>1, <1>2, <1>3, PrefixMore DEF Begins
<1>5. IsPrefix(Gathered(s, "call", "call"), g.calls)
    BY <1>1, <1>2, <1>3, PrefixMore DEF Begins
<1>6. Begins(s, g)
    BY <1>4, <1>5 DEF Begins
<1>7. QED
    BY <1>6 DEF g

LEMMA TellsClosing ==
    ASSUME NEW s \in Seq(Chunk), NEW f \in FoldType, Tells(s, f)
    PROVE  Tells(s \o Closing(f), f)
<1> DEFINE c == Closing(f)
<1>1. /\ c \in Seq(Chunk)
      /\ Gathered(c, "text", "text") = <<>>
      /\ Gathered(c, "call", "call") = <<>>
      /\ Gathered(c, "call", "index") = <<>>
    BY ClosingTells
<1> HIDE DEF c
<1>2. Splits(s, c)
    BY <1>1, GatheredCat
<1>3. /\ Gathered(s \o c, "text", "text") = Gathered(s, "text", "text") \o <<>>
      /\ Gathered(s \o c, "call", "call") = Gathered(s, "call", "call") \o <<>>
      /\ Gathered(s \o c, "call", "index") = Gathered(s, "call", "index") \o <<>>
    BY <1>1, <1>2 DEF Splits
<1>4. /\ Gathered(s, "text", "text") \o <<>> = Gathered(s, "text", "text")
      /\ Gathered(s, "call", "call") \o <<>> = Gathered(s, "call", "call")
      /\ Gathered(s, "call", "index") \o <<>> = Gathered(s, "call", "index")
  <2>1. /\ Gathered(s, "text", "text") \in Seq(Texts)
        /\ Gathered(s, "call", "call") \in Seq(Calls)
        /\ Gathered(s, "call", "index") \in Seq(Nat)
    BY GatheredTypes
  <2>2. QED
    BY <2>1
<1>5. Tells(s \o c, f)
    BY <1>3, <1>4 DEF Tells
<1>6. QED
    BY <1>5 DEF c

LEMMA TellsNothing == Tells(<<>>, NewFold) /\ Begins(<<>>, NewFold) /\ OnlyContent(<<>>)
<1>1. NewFold.texts = <<>> /\ NewFold.calls = <<>>
    BY DEF NewFold
<1>2. Tells(<<>>, NewFold)
    BY <1>1, GatheredEmpty DEF Tells, Numbered
<1>3. <<>> \in Seq(Chunk) /\ <<>> \o <<>> = <<>>
    OBVIOUS
<1>4. Tells(<<>> \o <<>>, NewFold)
    BY <1>2, <1>3
<1>5. Begins(<<>>, NewFold)
    BY <1>3, <1>4, TellsBegins
<1>6. QED
    BY <1>2, <1>5 DEF OnlyContent

-----------------------------------------------------------------------------
(***************************************************************************)
(* Every step keeps the invariant.                                         *)
(***************************************************************************)
LEMMA FreshTranslator ==
    /\ NewTranslator \in TrType /\ NewTranslator.fold = NewFold
    /\ NewTranslator.pending = <<>> /\ NewTranslator.pc = "read"
    /\ NewTranslator.announced = FALSE
    /\ NewPipe \in [reader : {"open", "closed"}, writer : {"open", "eof", "error"}]
    /\ NewPipe.reader = "open" /\ NewPipe.writer = "open"
    /\ NewFold.texts = <<>> /\ NewFold.calls = <<>>
<1>1. NewTranslator \in TrType
    BY NewFoldType DEF NewTranslator, TrType
<1>2. QED
    BY <1>1 DEF NewTranslator, NewPipe, NewFold

(* What an attempt begins with. *)
Fresh ==
    /\ seen = <<>> /\ ending = "open" /\ tr = NewTranslator /\ ready = "empty"
    /\ pipe = NewPipe /\ relay = "waiting" /\ out = <<>>

LEMMA FreshStreaming == Fresh => Streaming
<1> SUFFICES ASSUME Fresh PROVE Streaming
    OBVIOUS
<1> USE DEF Fresh
<1>1. tr.fold = Read(seen, TRUE)
    BY FreshTranslator, ReadEmpty
<1>2. Len(tr.fold.calls) <= Len(seen)
    BY FreshTranslator
<1>3. Wire = <<>>
    BY FreshTranslator DEF Wire
<1>4. Ends
    BY FreshTranslator DEF Ends
<1>5. Delivered
    BY <1>3, FreshTranslator, TellsNothing DEF Delivered
<1>6. Shape
    BY <1>3, TellsNothing DEF Shape, Closed
<1>7. out \in Seq(Chunk)
    OBVIOUS
<1>8. QED
    BY <1>1, <1>2, <1>4, <1>5, <1>6, <1>7 DEF Streaming, FoldFollows

LEMMA InitInv == Init => IInv
<1> SUFFICES ASSUME Init PROVE IInv
    OBVIOUS
<1>1. TypeOK
  <2>0. seen \in Seq(Event) /\ Len(seen) <= MaxEvents
    <3>1. seen = <<>> /\ Len(<<>>) = 0 /\ <<>> \in Seq(Event)
      BY DEF Init
    <3>2. QED
      BY <3>1, ZenAssumption
  <2>1. /\ lane \in {"stream", "aggregate"} /\ fallback \in BOOLEAN /\ gone \in BOOLEAN
        /\ ending \in {"open", "eof", "broken"}
        /\ ready \in {"empty", "ok", "err"} /\ relay \in {"waiting", "reading", "done", "failed"}
        /\ recorded = 0 /\ relay = "waiting"
    BY DEF Init
  <2>5. out \in Seq(Chunk)
    <3>1. out = <<>>
      BY DEF Init
    <3>2. QED
      BY <3>1
  <2>2. tr \in TrType
    BY FreshTranslator DEF Init
  <2>3. pipe \in [reader : {"open", "closed"}, writer : {"open", "eof", "error"}]
    BY FreshTranslator DEF Init
  <2>6. QED
    BY <2>0, <2>1, <2>2, <2>3, <2>5 DEF TypeOK, TrType, FoldType
<1>2. Streaming
    BY FreshStreaming DEF Init, Fresh
<1>3. Aggregating
    BY DEF Init, Aggregating
<1>4. QED
    BY <1>1, <1>2, <1>3 DEF IInv

LEMMA ReceiveKeeps == ASSUME IInv, NEW e \in Event, Receive(e) PROVE IInv'
<1>1. /\ Reading /\ Len(seen) < MaxEvents /\ seen' = Append(seen, e)
      /\ UNCHANGED <<lane, fallback, ending, pipe, relay, out, gone, recorded>>
    BY DEF Receive
<1>2. TypeOK /\ ending = "open"
    BY <1>1 DEF IInv, Reading
<1>3. seen \in Seq(Event) /\ seen' \in Seq(Event) /\ Len(seen') = Len(seen) + 1 /\ Len(seen') <= MaxEvents
    BY <1>1, <1>2, ZenAssumption DEF TypeOK
<1>4. CASE lane # "stream"
  <2>1. lane = "aggregate"
    BY <1>2, <1>4 DEF TypeOK
  <2>2. UNCHANGED <<tr, ready>>
    BY <2>1 DEF Receive
  <2>3. TypeOK'
    BY <1>1, <1>2, <1>3, <2>2 DEF TypeOK
  <2>4. Aggregating'
    BY <1>1, <2>1, <2>2 DEF IInv, Aggregating
  <2>5. QED
    BY <1>1, <2>1, <2>3, <2>4 DEF IInv
<1>5. CASE lane = "stream"
  <2> DEFINE f == tr.fold
             c == Chunks(f, e)
             g == Folded(f, e)
  <2>1. Streaming /\ tr.pc = "read" /\ tr.pending = <<>>
    BY <1>1, <1>5 DEF IInv, Reading, Streaming, Ends
  <2>2. f \in FoldType /\ Len(f.calls) <= Len(seen) /\ Len(f.calls) \in Nat
    <3>1. f \in FoldType /\ f.calls \in Seq(Calls)
      BY <1>2, TrTyped
    <3>2. Len(f.calls) <= Len(seen)
      BY <2>1 DEF Streaming, FoldFollows
    <3>3. QED
      BY <3>1, <3>2
  <2>3. Len(f.calls) < MaxEvents
    BY <1>1, <1>3, <2>2, ZenAssumption
  <2>4. /\ c \in Seq(Chunk) /\ OnlyContent(c)
        /\ e.kind # "call" => g.calls = f.calls
        /\ e.kind = "call" => Len(g.calls) = Len(f.calls) + 1
    BY <2>2, <2>3, ChunksTell
  <2>5. g \in FoldType
    BY <2>2, FoldedType
  <2>6. tr \in TrType /\ tr.announced \in BOOLEAN /\ ready # "err"
    BY <1>2, <2>1, TrTyped DEF Streaming, Ends, TrType
  <2>7. /\ tr'.fold = g /\ tr'.pending = c /\ tr' \in TrType
        /\ tr'.pc # "closed" /\ (tr'.pc # "write" => c = <<>>)
        /\ ready' \in {"empty", "ok", "err"} /\ ready' # "err"
        /\ ready' = "ok" <=> tr'.announced
    <3>0. ready \in {"empty", "ok", "err"} /\ (ready = "ok" <=> tr.announced)
      BY <1>2, <2>1 DEF TypeOK, Streaming, Ends
    <3> HIDE DEF c, g
    <3>1. CASE c # <<>>
      <4>1. Write(g, c)
        BY <1>5, <3>1 DEF Receive, c, g
      <4> DEFINE first == ~tr.announced /\ Announces(c[1])
      <4>2. first \in BOOLEAN
        BY <2>6
      <4>3. /\ tr' = [pc |-> "write", fold |-> g, pending |-> c, announced |-> tr.announced \/ first]
            /\ ready' = IF first THEN "ok" ELSE ready
        BY <4>1 DEF Write
      <4> HIDE DEF first
      <4>4. tr' \in TrType
        BY <2>4, <2>5, <2>6, <4>2, <4>3 DEF TrType
      <4>5. tr'.fold = g /\ tr'.pending = c /\ tr'.pc = "write" /\ (tr'.announced <=> tr.announced \/ first)
        BY <4>3
      <4>6. QED
        BY <2>6, <3>0, <4>3, <4>4, <4>5
    <3>2. CASE c = <<>>
      <4>1. tr' = [tr EXCEPT !.fold = g] /\ ready' = ready
        BY <1>5, <3>2 DEF Receive, c, g
      <4>2. tr' \in TrType
        BY <2>5, <2>6, <4>1 DEF TrType
      <4>3. tr'.fold = g /\ tr'.pending = <<>> /\ tr'.pc = "read" /\ tr'.announced = tr.announced
        BY <2>1, <2>6, <4>1 DEF TrType
      <4>4. QED
        BY <2>6, <3>0, <3>2, <4>1, <4>2, <4>3
    <3>3. QED
      BY <3>1, <3>2
  <2>8. TypeOK'
    BY <1>1, <1>2, <1>3, <2>7 DEF TypeOK, TrType, FoldType
  <2>9. FoldFollows'
    <3>1. Read(seen', TRUE) = Taken(f, e, TRUE)
      BY <1>1, <1>3, <2>1, ReadAppend DEF Streaming, FoldFollows
    <3>2. Read(seen', TRUE) = g
      BY <3>1 DEF Taken
    <3>3. Len(g.calls) <= Len(seen')
      <4> HIDE DEF f, g
      <4>1. QED
        BY <1>3, <2>2, <2>4
    <3>4. QED
      BY <2>7, <3>2, <3>3 DEF FoldFollows
  <2>10. Ends'
    <3>1. Ends
      BY <2>1 DEF Streaming
    <3>2. relay # "failed" /\ (relay = "done" => gone) /\ pipe.writer = "open"
      BY <2>1, <2>6, <3>1 DEF Ends, TypeOK
    <3> HIDE DEF f, c, g
    <3>3. QED
      BY <1>1, <2>7, <3>1, <3>2 DEF Ends
  <2>11. Wire' = Wire \o c /\ Wire = out /\ out \in Seq(Chunk)
    <3>1. out \in Seq(Chunk)
      BY <2>1 DEF Streaming
    <3>2. Wire = out
      BY <2>1, <3>1 DEF Wire
    <3>3. QED
      BY <1>1, <2>7, <3>1, <3>2 DEF Wire
  <2>12. Delivered'
    <3>1. Begins(out, g)
      BY <2>1, <2>2, <2>3, <2>11, BeginsMore DEF Streaming, Delivered
    <3>2. Intact => Tells(out \o c, g)
      BY <2>1, <2>2, <2>3, <2>11, TellsMore DEF Streaming, Delivered
    <3>3. Intact' <=> Intact
      BY <1>1 DEF Intact
    <3> HIDE DEF f, c, g
    <3>4. QED
      BY <1>1, <2>7, <2>11, <3>1, <3>2, <3>3 DEF Delivered
  <2>13. Shape'
    <3>1. ~Closed /\ ~Closed'
      BY <1>1, <1>2 DEF Closed
    <3>2. OnlyContent(out)
      BY <2>1, <2>11, <3>1 DEF Streaming, Shape
    <3>3. OnlyContent(Wire')
      BY <2>4, <2>11, <3>2, ContentCat
    <3>4. QED
      BY <3>1, <3>3 DEF Shape
  <2>14. QED
    BY <1>1, <1>5, <2>8, <2>9, <2>10, <2>11, <2>12, <2>13 DEF IInv, Streaming
<1>6. QED
    BY <1>4, <1>5

LEMMA EndKeeps == ASSUME IInv, End PROVE IInv'
<1>1. /\ Reading /\ ending' = "eof"
      /\ UNCHANGED <<lane, fallback, seen, relay, out, gone, recorded>>
    BY DEF End
<1>2. TypeOK /\ ending = "open"
    BY <1>1 DEF IInv, Reading
<1>3. CASE lane # "stream"
  <2>1. lane = "aggregate"
    BY <1>2, <1>3 DEF TypeOK
  <2>2. UNCHANGED <<tr, ready, pipe>>
    BY <2>1 DEF End
  <2>3. TypeOK'
    BY <1>1, <1>2, <2>2 DEF TypeOK
  <2>4. Aggregating'
    BY <1>1, <2>1, <2>2 DEF IInv, Aggregating
  <2>5. QED
    BY <1>1, <2>1, <2>3, <2>4 DEF IInv
<1>4. CASE lane = "stream"
  <2> DEFINE f == tr.fold
  <2>1. Streaming /\ tr.pc = "read" /\ tr.pending = <<>>
    BY <1>1, <1>4 DEF IInv, Reading, Streaming, Ends
  <2>2. tr \in TrType /\ f \in FoldType /\ tr.announced \in BOOLEAN /\ ready # "err"
    BY <1>2, <2>1, TrTyped DEF Streaming, Ends, TrType
  <2>3. out \in Seq(Chunk) /\ Wire = out
    BY <2>1 DEF Streaming, Wire
  <2>4. OnlyContent(out)
    BY <1>2, <2>1, <2>3 DEF Streaming, Shape, Closed
  <2>5. Begins(out, f) /\ (Intact => Tells(out, f))
    BY <2>1, <2>3 DEF Streaming, Delivered
  <2>6. /\ ready \in {"empty", "ok", "err"} /\ (ready = "ok" <=> tr.announced)
        /\ pipe \in [reader : {"open", "closed"}, writer : {"open", "eof", "error"}]
        /\ relay # "failed" /\ (relay = "done" => gone) /\ pipe.writer = "open"
    BY <1>2, <2>1, <2>2 DEF TypeOK, Streaming, Ends
  <2>7. CASE Unfinished(f)
    <3>1. CloseWithError("error")
      BY <1>4, <2>7 DEF End
    <3>2. /\ tr' \in TrType /\ tr'.fold = f /\ tr'.pending = <<>> /\ tr'.pc = "closed"
          /\ tr'.announced = tr.announced
      BY <2>1, <2>2, <3>1 DEF CloseWithError, TrType
    <3>3. ready' = IF tr.announced THEN ready ELSE "err"
      BY <3>1 DEF CloseWithError
    <3>4. /\ pipe' \in [reader : {"open", "closed"}, writer : {"open", "eof", "error"}]
          /\ pipe'.reader = pipe.reader /\ pipe'.writer = "error"
      BY <2>6, <3>1 DEF CloseWithError
    <3>5. TypeOK'
      BY <1>1, <1>2, <2>6, <3>2, <3>3, <3>4 DEF TypeOK, TrType, FoldType
    <3>6. ~Closed'
      BY <2>7, <3>2 DEF Closed
    <3>7. Ends'
      BY <1>1, <2>1, <2>6, <3>2, <3>3, <3>4, <3>6 DEF Ends, Streaming
    <3>8. Wire' = out
      BY <1>1, <2>3, <3>2 DEF Wire
    <3>9. Intact' <=> Intact
      BY <1>1 DEF Intact
    <3>10. FoldFollows' /\ Delivered' /\ Shape'
      <4>1. FoldFollows'
        BY <1>1, <2>1, <3>2 DEF FoldFollows, Streaming
      <4>2. Delivered'
        BY <1>1, <2>5, <3>2, <3>8, <3>9 DEF Delivered
      <4>3. Shape'
        BY <2>4, <3>6, <3>8 DEF Shape
      <4>4. QED
        BY <4>1, <4>2, <4>3
    <3>11. QED
      BY <1>1, <1>4, <2>3, <3>5, <3>7, <3>10 DEF IInv, Streaming
  <2>8. CASE ~Unfinished(f)
    <3> DEFINE c == Closing(f)
    <3>1. Write(f, c) /\ UNCHANGED pipe
      BY <1>4, <2>8 DEF End
    <3>2. c \in Seq(Chunk)
      BY <2>2, ClosingTells
    <3> HIDE DEF c
    <3> DEFINE first == ~tr.announced /\ Announces(c[1])
    <3>3. first \in BOOLEAN
      BY <2>2
    <3>4. /\ tr' = [pc |-> "write", fold |-> f, pending |-> c, announced |-> tr.announced \/ first]
          /\ ready' = IF first THEN "ok" ELSE ready
      BY <3>1 DEF Write
    <3> HIDE DEF first
    <3>5. /\ tr' \in TrType /\ tr'.fold = f /\ tr'.pending = c /\ tr'.pc = "write"
          /\ (tr'.announced <=> tr.announced \/ first)
      <4>1. tr' \in TrType
        BY <2>2, <3>2, <3>3, <3>4 DEF TrType
      <4>2. QED
        BY <3>4, <4>1
    <3>6. TypeOK'
      BY <1>1, <1>2, <2>6, <3>1, <3>4, <3>5 DEF TypeOK, TrType, FoldType
    <3>7. Closed'
      BY <1>1, <2>8, <3>5 DEF Closed
    <3>8. Ends'
      BY <1>1, <2>1, <2>2, <2>6, <3>1, <3>4, <3>5 DEF Ends, Streaming
    <3>9. Wire' = out \o c
      BY <1>1, <3>5 DEF Wire
    <3>10. Intact' <=> Intact
      BY <1>1 DEF Intact
    <3>11. Intact => Tells(out \o c, f)
      BY <2>2, <2>3, <2>5, TellsClosing DEF c
    <3>12. EndsWith(out \o c, f)
      BY <2>3, <2>4 DEF EndsWith, c
    <3>13. FoldFollows' /\ Delivered' /\ Shape'
      <4>1. FoldFollows'
        BY <1>1, <2>1, <3>5 DEF FoldFollows, Streaming
      <4>2. Delivered'
        BY <1>1, <2>5, <3>5, <3>9, <3>10, <3>11 DEF Delivered
      <4>3. Shape'
        BY <3>5, <3>7, <3>9, <3>12 DEF Shape
      <4>4. QED
        BY <4>1, <4>2, <4>3
    <3>14. QED
      BY <1>1, <1>4, <2>3, <3>6, <3>8, <3>13 DEF IInv, Streaming
  <2>9. QED
    BY <2>7, <2>8
<1>5. QED
    BY <1>3, <1>4

LEMMA BreakKeeps == ASSUME IInv, Break PROVE IInv'
<1>1. /\ Reading /\ ending' = "broken"
      /\ UNCHANGED <<lane, fallback, seen, relay, out, gone, recorded>>
    BY DEF Break
<1>2. TypeOK /\ ending = "open"
    BY <1>1 DEF IInv, Reading
<1>3. CASE lane # "stream"
  <2>1. lane = "aggregate"
    BY <1>2, <1>3 DEF TypeOK
  <2>2. UNCHANGED <<tr, ready, pipe>>
    BY <2>1 DEF Break
  <2>3. TypeOK'
    BY <1>1, <1>2, <2>2 DEF TypeOK
  <2>4. Aggregating'
    BY <1>1, <2>1, <2>2 DEF IInv, Aggregating
  <2>5. QED
    BY <1>1, <2>1, <2>3, <2>4 DEF IInv
<1>4. CASE lane = "stream"
  <2> DEFINE f == tr.fold
  <2>1. Streaming /\ tr.pc = "read" /\ tr.pending = <<>>
    BY <1>1, <1>4 DEF IInv, Reading, Streaming, Ends
  <2>2. tr \in TrType /\ f \in FoldType /\ tr.announced \in BOOLEAN /\ ready # "err"
    BY <1>2, <2>1, TrTyped DEF Streaming, Ends, TrType
  <2>3. out \in Seq(Chunk) /\ Wire = out
    BY <2>1 DEF Streaming, Wire
  <2>4. OnlyContent(out)
    BY <1>2, <2>1, <2>3 DEF Streaming, Shape, Closed
  <2>5. Begins(out, f) /\ (Intact => Tells(out, f))
    BY <2>1, <2>3 DEF Streaming, Delivered
  <2>6. /\ ready \in {"empty", "ok", "err"} /\ (ready = "ok" <=> tr.announced)
        /\ pipe \in [reader : {"open", "closed"}, writer : {"open", "eof", "error"}]
        /\ relay # "failed" /\ (relay = "done" => gone) /\ pipe.writer = "open"
    BY <1>2, <2>1, <2>2 DEF TypeOK, Streaming, Ends
  <2>7. CloseWithError("eof")
    BY <1>4 DEF Break
  <2>8. /\ tr' \in TrType /\ tr'.fold = f /\ tr'.pending = <<>> /\ tr'.pc = "closed"
        /\ tr'.announced = tr.announced
    BY <2>1, <2>2, <2>7 DEF CloseWithError, TrType
  <2>9. ready' = IF tr.announced THEN ready ELSE "err"
    BY <2>7 DEF CloseWithError
  <2>10. /\ pipe' \in [reader : {"open", "closed"}, writer : {"open", "eof", "error"}]
         /\ pipe'.reader = pipe.reader /\ pipe'.writer = "eof"
    BY <2>6, <2>7 DEF CloseWithError
  <2>11. TypeOK'
    BY <1>1, <1>2, <2>6, <2>8, <2>9, <2>10 DEF TypeOK, TrType, FoldType
  <2>12. ~Closed'
    BY <1>1 DEF Closed
  <2>13. Ends'
    BY <1>1, <2>1, <2>6, <2>8, <2>9, <2>10, <2>12 DEF Ends, Streaming
  <2>14. Wire' = out
    BY <1>1, <2>3, <2>8 DEF Wire
  <2>15. Intact' <=> Intact
    BY <1>1 DEF Intact
  <2>16. FoldFollows'
    BY <1>1, <2>1, <2>8 DEF FoldFollows, Streaming
  <2>17. Delivered'
    BY <1>1, <2>5, <2>8, <2>14, <2>15 DEF Delivered
  <2>18. Shape'
    BY <2>4, <2>12, <2>14 DEF Shape
  <2>19. QED
    BY <1>1, <1>4, <2>3, <2>11, <2>13, <2>16, <2>17, <2>18 DEF IInv, Streaming
<1>5. QED
    BY <1>3, <1>4

(* Of a translator that only moves between reading, writing and returning. *)
LEMMA TranslatorMoves ==
    ASSUME IInv, lane = "stream", tr.pc = "write", tr.pending = <<>> \/ (relay = "done" /\ gone),
           UNCHANGED <<lane, fallback, seen, ending, ready, relay, out, gone, recorded>>,
           tr' \in TrType, tr'.fold = tr.fold, tr'.pending = <<>>, tr'.announced = tr.announced,
           tr'.pc \in {"read", "closed"},
           pipe' \in [reader : {"open", "closed"}, writer : {"open", "eof", "error"}],
           pipe'.reader = pipe.reader, tr'.pc = "closed" <=> pipe'.writer # "open"
    PROVE  IInv'
<1>1. TypeOK /\ Streaming
    BY DEF IInv
<1>2. TypeOK'
    BY <1>1 DEF TypeOK, TrType, FoldType
<1>3. FoldFollows'
    BY <1>1 DEF Streaming, FoldFollows
<1>4. Closed' <=> Closed
    BY DEF Closed
<1>5. Ends'
  <2>1. ready # "err" /\ (relay = "done" => gone)
    BY <1>1 DEF Streaming, Ends
  <2>2. relay # "failed"
    BY <1>1, <2>1 DEF Streaming, Ends
  <2>3. QED
    BY <1>1, <2>1, <2>2 DEF Streaming, Ends
<1>6. out \in Seq(Chunk) /\ tr.pending \in Seq(Chunk)
    BY <1>1, TrTyped DEF Streaming
<1>7. Wire' = out
    BY <1>6 DEF Wire
<1>8. Intact' <=> Intact
    BY DEF Intact
<1>9. Intact => Wire = out
    BY <1>6 DEF Intact, Wire
<1>10. Delivered'
    BY <1>1, <1>7, <1>8, <1>9 DEF Streaming, Delivered
<1>11. Shape'
  <2>1. ~Closed => OnlyContent(out)
    BY <1>1, <1>6, ContentCat DEF Streaming, Shape, Wire
  <2>2. Closed /\ Intact => EndsWith(out, tr.fold)
    BY <1>1, <1>9 DEF Streaming, Shape
  <2>3. QED
    BY <1>4, <1>7, <1>8, <2>1, <2>2 DEF Shape
<1>12. QED
    BY <1>1, <1>2, <1>3, <1>5, <1>6, <1>10, <1>11 DEF IInv, Streaming

LEMMA ReturnKeeps == ASSUME IInv, Return PROVE IInv'
<1>1. /\ tr.pc = "write" /\ tr.pending = <<>>
      /\ UNCHANGED <<lane, fallback, seen, ending, ready, relay, out, gone, recorded>>
      /\ IF ending = "open" THEN tr' = [tr EXCEPT !.pc = "read"] /\ UNCHANGED pipe
         ELSE tr' = [tr EXCEPT !.pc = "closed"] /\ pipe' = [pipe EXCEPT !.writer = "eof"]
    BY DEF Return
<1>2. TypeOK /\ lane = "stream"
    BY <1>1, FreshTranslator DEF IInv, Aggregating, TypeOK
<1>3. /\ tr \in TrType /\ pipe \in [reader : {"open", "closed"}, writer : {"open", "eof", "error"}]
      /\ pipe.writer = "open"
    BY <1>1, <1>2, TrTyped DEF TypeOK, IInv, Streaming, Ends
<1>4. /\ tr' \in TrType /\ tr'.fold = tr.fold /\ tr'.pending = <<>> /\ tr'.announced = tr.announced
      /\ tr'.pc = IF ending = "open" THEN "read" ELSE "closed"
    BY <1>1, <1>3 DEF TrType
<1>5. /\ pipe' \in [reader : {"open", "closed"}, writer : {"open", "eof", "error"}]
      /\ pipe'.reader = pipe.reader
      /\ pipe'.writer = IF ending = "open" THEN "open" ELSE "eof"
    BY <1>1, <1>3
<1>6. QED
    BY <1>1, <1>2, <1>4, <1>5, TranslatorMoves

LEMMA WriteFailsKeeps == ASSUME IInv, WriteFails PROVE IInv'
<1>1. /\ tr.pc = "write" /\ tr.pending # <<>> /\ pipe.reader = "closed"
      /\ tr' = [tr EXCEPT !.pc = "closed", !.pending = <<>>]
      /\ pipe' = [pipe EXCEPT !.writer = "eof"]
      /\ UNCHANGED <<lane, fallback, seen, ending, ready, relay, out, gone, recorded>>
    BY DEF WriteFails
<1>2. TypeOK /\ lane = "stream"
    BY <1>1, FreshTranslator DEF IInv, Aggregating, TypeOK
<1>3. tr \in TrType /\ pipe \in [reader : {"open", "closed"}, writer : {"open", "eof", "error"}]
    BY <1>2, TrTyped DEF TypeOK
<1>4. relay = "done" /\ gone
    BY <1>1, <1>2 DEF IInv, Streaming, Ends, TypeOK
<1>5. /\ tr' \in TrType /\ tr'.fold = tr.fold /\ tr'.pending = <<>> /\ tr'.announced = tr.announced
      /\ tr'.pc = "closed"
  <2>1. <<>> \in Seq(Chunk)
    OBVIOUS
  <2>2. tr' \in TrType
    BY <1>1, <1>3, <2>1 DEF TrType
  <2>3. tr'.fold = tr.fold /\ tr'.pending = <<>> /\ tr'.announced = tr.announced /\ tr'.pc = "closed"
    BY <1>1, <1>3 DEF TrType
  <2>4. QED
    BY <2>2, <2>3
<1>6. /\ pipe' \in [reader : {"open", "closed"}, writer : {"open", "eof", "error"}]
      /\ pipe'.reader = pipe.reader /\ pipe'.writer = "eof"
    BY <1>1, <1>3
<1>7. QED
    BY <1>1, <1>2, <1>4, <1>5, <1>6, TranslatorMoves

(* A second attempt, or none. *)
LEMMA FailedKeeps ==
    ASSUME IInv, Failed, UNCHANGED <<lane, out, gone, recorded>>, relay = "waiting",
           lane = "stream" => ready = "err"
    PROVE  IInv'
<1>1. TypeOK /\ lane \in {"stream", "aggregate"}
    BY DEF IInv, TypeOK
<1>2. pipe \in [reader : {"open", "closed"}, writer : {"open", "eof", "error"}] /\ tr \in TrType
    BY <1>1, TrTyped DEF TypeOK
<1>3. CASE /\ fallback /\ fallback' = FALSE
           /\ seen' = <<>> /\ ending' = "open"
           /\ tr' = NewTranslator /\ ready' = "empty" /\ pipe' = NewPipe
           /\ UNCHANGED relay
  <2>1. TypeOK'
    <3>1. seen' \in Seq(Event) /\ Len(seen') <= MaxEvents
      <4>1. Len(<<>>) = 0 /\ <<>> \in Seq(Event)
        OBVIOUS
      <4>2. QED
        BY <1>3, <4>1, ZenAssumption
    <3>2. tr' \in TrType /\ pipe' \in [reader : {"open", "closed"}, writer : {"open", "eof", "error"}]
      BY <1>3, FreshTranslator
    <3>3. QED
      BY <1>1, <1>3, <3>1, <3>2 DEF TypeOK, TrType, FoldType
  <2>2. lane = "stream" => Streaming'
    <3> SUFFICES ASSUME lane = "stream" PROVE Streaming'
      OBVIOUS
    <3>1. out' = <<>> /\ relay' = "waiting"
      BY <1>3 DEF IInv, Streaming, Ends
    <3>2. QED
      <4>1. Fresh'
        BY <1>3, <3>1 DEF Fresh
      <4>2. QED
        BY <4>1, FreshStreaming, PTL
  <2>3. lane = "aggregate" => Aggregating'
    BY <1>3 DEF IInv, Aggregating
  <2>4. QED
    BY <2>1, <2>2, <2>3 DEF IInv
<1>4. CASE /\ relay' = "failed"
           /\ pipe' = [pipe EXCEPT !.reader = "closed"]
           /\ UNCHANGED <<fallback, seen, ending, tr, ready>>
  <2>1. /\ pipe' \in [reader : {"open", "closed"}, writer : {"open", "eof", "error"}]
        /\ pipe'.reader = "closed" /\ pipe'.writer = pipe.writer
    BY <1>2, <1>4
  <2>2. TypeOK'
    BY <1>1, <1>4, <2>1 DEF TypeOK
  <2>3. lane = "stream" => Streaming'
    <3> SUFFICES ASSUME lane = "stream" PROVE Streaming'
      OBVIOUS
    <3>1. Streaming /\ Intact /\ tr' = tr /\ out' = out /\ relay' = "failed"
      BY <1>4 DEF IInv, Intact
    <3>2. FoldFollows'
      BY <1>4, <3>1 DEF Streaming, FoldFollows
    <3>3. (Closed' <=> Closed) /\ Wire' = Wire
      BY <1>4, <3>1 DEF Closed, Wire
    <3>4. Ends'
      BY <1>4, <2>1, <3>1, <3>3 DEF Streaming, Ends
    <3>5. Delivered'
      BY <3>1, <3>3 DEF Streaming, Delivered
    <3>6. Shape'
      BY <3>1, <3>3 DEF Streaming, Shape
    <3>7. QED
      BY <3>1, <3>2, <3>4, <3>5, <3>6 DEF Streaming
  <2>4. lane = "aggregate" => Aggregating'
    BY <1>4 DEF IInv, Aggregating
  <2>5. QED
    BY <2>2, <2>3, <2>4 DEF IInv
<1>5. QED
    BY <1>3, <1>4 DEF Failed

LEMMA ProceedKeeps == ASSUME IInv, Proceed PROVE IInv'
<1>1. lane = "stream" /\ relay = "waiting" /\ UNCHANGED <<lane, out, gone, recorded>>
    BY DEF Proceed
<1>2. CASE ready = "err" /\ Failed
    BY <1>1, <1>2, FailedKeeps
<1>3. CASE /\ ready = "ok"
           /\ relay' = "reading"
           /\ UNCHANGED <<fallback, seen, ending, tr, ready, pipe>>
  <2>1. TypeOK /\ Streaming
    BY <1>1 DEF IInv
  <2>2. TypeOK'
    BY <1>1, <1>3, <2>1 DEF TypeOK
  <2>3. FoldFollows'
    BY <1>3, <2>1 DEF Streaming, FoldFollows
  <2>4. (Closed' <=> Closed) /\ Wire' = Wire /\ Intact /\ Intact'
    BY <1>1, <1>3 DEF Closed, Wire, Intact
  <2>5. Ends'
    BY <1>1, <1>3, <2>1 DEF Streaming, Ends
  <2>6. Delivered'
    BY <1>1, <1>3, <2>1, <2>4 DEF Streaming, Delivered
  <2>7. Shape'
    BY <1>3, <2>1, <2>4 DEF Streaming, Shape
  <2>8. QED
    BY <1>1, <2>1, <2>2, <2>3, <2>5, <2>6, <2>7 DEF IInv, Streaming
<1>4. QED
    BY <1>2, <1>3 DEF Proceed

(* An answer has its type, as the fold that it is made of has. *)
LEMMA AnswerType ==
    ASSUME NEW f \in FoldType
    PROVE  Answer(f) \in Answers
    BY DEF Answer, Answers, FoldType

LEMMA AggregateKeeps == ASSUME IInv, Aggregate PROVE IInv'
<1> DEFINE answer == Aggregated(seen, ending)
<1>1. /\ lane = "aggregate" /\ relay = "waiting" /\ UNCHANGED <<lane, gone>>
      /\ \/ answer.failed /\ Failed /\ UNCHANGED <<out, recorded>>
         \/ /\ ~answer.failed /\ out' = <<answer>> /\ Done
            /\ UNCHANGED <<fallback, seen, ending, tr, ready, pipe>>
    BY DEF Aggregate
<1>2. TypeOK /\ Aggregating
    BY <1>1 DEF IInv
<1> HIDE DEF answer
<1>3. CASE answer.failed /\ Failed /\ UNCHANGED <<out, recorded>>
    BY <1>1, <1>3, FailedKeeps
<1>4. CASE /\ ~answer.failed /\ out' = <<answer>> /\ Done
           /\ UNCHANGED <<fallback, seen, ending, tr, ready, pipe>>
  <2>1. answer \in Answers
    <3> DEFINE f == Parsed(seen)
    <3>1. seen \in Seq(Event)
      BY <1>2 DEF TypeOK
    <3>2. f \in FoldType
      <4>1. PICK e \in Event : e = [kind |-> "other", typed |-> TRUE]
        BY DEF Event
      <4>2. QED
        BY <3>1, <4>1, ReadAppend DEF Parsed
    <3> HIDE DEF f
    <3>3. answer = IF ending = "broken" \/ f.failed \/ ~f.terminal THEN Failure ELSE Answer(f)
      BY DEF answer, Aggregated, f
    <3>4. Failure.failed
      BY DEF Failure
    <3>5. answer = Answer(f)
      BY <1>4, <3>3, <3>4
    <3>6. QED
      BY <3>2, <3>5, AnswerType
  <2>2. out' \in Seq(Answers)
    BY <1>4, <2>1
  <2>3. relay' = "done" /\ recorded' = recorded + 1 /\ recorded = 0
    BY <1>1, <1>2, <1>4 DEF Done, TypeOK
  <2>4. TypeOK'
    BY <1>1, <1>2, <1>4, <2>2, <2>3 DEF TypeOK
  <2>5. Aggregating'
    BY <1>2, <1>4, <2>2, <2>3 DEF Aggregating
  <2>6. QED
    BY <1>1, <2>4, <2>5 DEF IInv
<1>5. QED
    BY <1>1, <1>3, <1>4

LEMMA RelayKeeps == ASSUME IInv, Relay PROVE IInv'
<1>1. /\ relay = "reading" /\ tr.pc = "write" /\ tr.pending # <<>>
      /\ tr' = [tr EXCEPT !.pending = Tail(tr.pending)]
      /\ \/ out' = Append(out, Head(tr.pending)) /\ UNCHANGED <<relay, pipe, recorded>>
         \/ gone /\ CloseBody /\ Done /\ UNCHANGED out
      /\ UNCHANGED <<lane, fallback, seen, ending, ready, gone>>
    BY DEF Relay
<1>2. lane = "stream" /\ TypeOK /\ Streaming
    BY <1>1 DEF IInv, TypeOK, Aggregating
<1>3. /\ tr \in TrType /\ tr.pending \in Seq(Chunk) /\ out \in Seq(Chunk)
      /\ pipe \in [reader : {"open", "closed"}, writer : {"open", "eof", "error"}]
    BY <1>2, TrTyped DEF TypeOK, Streaming
<1> DEFINE h == Head(tr.pending)
           t == Tail(tr.pending)
<1>4. /\ h \in Chunk /\ t \in Seq(Chunk) /\ Append(out, h) \in Seq(Chunk)
      /\ Append(out, h) \o t = Wire
  <2>1. h \in Chunk /\ t \in Seq(Chunk) /\ tr.pending = <<h>> \o t
    BY <1>1, <1>3
  <2>2. Append(out, h) = out \o <<h>> /\ Append(out, h) \in Seq(Chunk) /\ <<h>> \in Seq(Chunk)
    BY <1>3, <2>1
  <2> HIDE DEF h, t
  <2>3. Associates(out, <<h>>, t)
    BY <1>3, <2>1, <2>2, Associative
  <2>4. (out \o <<h>>) \o t = Wire
    BY <2>1, <2>3 DEF Associates, Wire
  <2>5. QED
    BY <2>1, <2>2, <2>4
<1>5. /\ tr' \in TrType /\ tr'.pc = tr.pc /\ tr'.fold = tr.fold /\ tr'.pending = t
      /\ tr'.announced = tr.announced
  <2> HIDE DEF t
  <2>1. tr' = [tr EXCEPT !.pending = t]
    BY <1>1 DEF t
  <2>2. QED
    BY <1>3, <1>4, <2>1 DEF TrType
<1> HIDE DEF h, t
<1>6. FoldFollows'
    BY <1>1, <1>2, <1>5 DEF Streaming, FoldFollows
<1>7. (Closed' <=> Closed) /\ Intact /\ ready # "err"
    BY <1>1, <1>2, <1>5 DEF Closed, Intact, Streaming, Ends
<1>8. Tells(Wire, tr.fold)
    BY <1>2, <1>7 DEF Streaming, Delivered
<1>9. CASE out' = Append(out, Head(tr.pending)) /\ UNCHANGED <<relay, pipe, recorded>>
  <2>1. out' = Append(out, h) /\ out' \in Seq(Chunk)
    BY <1>4, <1>9 DEF h
  <2>2. Wire' = Wire
    BY <1>4, <1>5, <2>1 DEF Wire
  <2>3. TypeOK'
    BY <1>1, <1>2, <1>5, <1>9, <2>1 DEF TypeOK, TrType, FoldType
  <2>4. Ends'
    BY <1>1, <1>2, <1>5, <1>7, <1>9 DEF Streaming, Ends
  <2>5. Begins(out', tr'.fold)
    BY <1>4, <1>5, <1>8, <2>1, TellsBegins
  <2>6. Delivered'
    BY <1>5, <1>8, <2>2, <2>5 DEF Delivered
  <2>7. Shape'
    BY <1>2, <1>5, <1>7, <2>2 DEF Streaming, Shape
  <2>8. QED
    BY <1>1, <1>2, <1>6, <2>1, <2>3, <2>4, <2>6, <2>7 DEF IInv, Streaming
<1>10. CASE gone /\ CloseBody /\ Done /\ UNCHANGED out
  <2>1. /\ pipe' \in [reader : {"open", "closed"}, writer : {"open", "eof", "error"}]
        /\ pipe'.writer = pipe.writer /\ pipe'.reader = "closed"
        /\ relay' = "done" /\ recorded' = recorded + 1 /\ recorded = 0
    BY <1>1, <1>2, <1>3, <1>10 DEF CloseBody, Done, TypeOK
  <2>2. TypeOK'
    BY <1>1, <1>2, <1>5, <1>10, <2>1 DEF TypeOK, TrType, FoldType
  <2>3. Ends'
    BY <1>1, <1>2, <1>5, <1>7, <1>10, <2>1 DEF Streaming, Ends
  <2>4. ~Intact'
    BY <1>1, <1>10, <2>1 DEF Intact
  <2>5. Delivered'
    BY <1>2, <1>5, <1>10, <2>4 DEF Streaming, Delivered
  <2>6. Wire' = out \o t
    BY <1>5, <1>10 DEF Wire
  <2>7. ~Closed => OnlyContent(out \o t)
    <3> SUFFICES ASSUME ~Closed PROVE OnlyContent(out \o t)
      OBVIOUS
    <3>1. OnlyContent(Append(out, h) \o t)
      BY <1>2, <1>4 DEF Streaming, Shape
    <3>2. OnlyContent(Append(out, h)) /\ OnlyContent(t)
      BY <1>4, <3>1, ContentCat
    <3>3. Append(out, h) = out \o <<h>> /\ <<h>> \in Seq(Chunk)
      BY <1>3, <1>4
    <3>4. OnlyContent(out)
      BY <1>3, <3>2, <3>3, ContentCat
    <3>5. QED
      BY <1>3, <1>4, <3>2, <3>4, ContentCat
  <2>8. Shape'
    BY <1>7, <2>4, <2>6, <2>7 DEF Shape
  <2>9. QED
    BY <1>1, <1>2, <1>3, <1>6, <1>10, <2>2, <2>3, <2>5, <2>8 DEF IInv, Streaming
<1>11. QED
    BY <1>1, <1>9, <1>10

LEMMA RelayEndsKeeps == ASSUME IInv, RelayEnds PROVE IInv'
<1>1. /\ relay = "reading" /\ pipe.writer # "open" /\ CloseBody /\ Done
      /\ UNCHANGED <<lane, fallback, seen, ending, tr, ready, out, gone>>
    BY DEF RelayEnds
<1>2. lane = "stream" /\ TypeOK /\ Streaming
    BY <1>1 DEF IInv, TypeOK, Aggregating
<1>3. pipe \in [reader : {"open", "closed"}, writer : {"open", "eof", "error"}]
    BY <1>2 DEF TypeOK
<1>4. /\ pipe' \in [reader : {"open", "closed"}, writer : {"open", "eof", "error"}]
      /\ pipe'.writer = pipe.writer /\ pipe'.reader = "closed"
      /\ relay' = "done" /\ recorded' = recorded + 1 /\ recorded = 0
    BY <1>1, <1>2, <1>3 DEF CloseBody, Done, TypeOK
<1>5. TypeOK'
    BY <1>1, <1>2, <1>4 DEF TypeOK
<1>6. FoldFollows'
    BY <1>1, <1>2 DEF Streaming, FoldFollows
<1>7. (Closed' <=> Closed) /\ Wire' = Wire /\ Intact
    BY <1>1 DEF Closed, Wire, Intact
<1>8. Ends'
    BY <1>1, <1>2, <1>4, <1>7 DEF Streaming, Ends
<1>9. Delivered'
    BY <1>1, <1>2, <1>7 DEF Streaming, Delivered
<1>10. Shape'
    BY <1>1, <1>2, <1>7 DEF Streaming, Shape
<1>11. QED
    BY <1>1, <1>2, <1>5, <1>6, <1>8, <1>9, <1>10 DEF IInv, Streaming

LEMMA LeaveKeeps == ASSUME IInv, Leave PROVE IInv'
<1>1. /\ relay \in {"waiting", "reading"} /\ gone' = TRUE
      /\ UNCHANGED <<lane, fallback, seen, ending, tr, ready, pipe, relay, out, recorded>>
    BY DEF Leave
<1>2. TypeOK'
    BY <1>1 DEF IInv, TypeOK
<1>3. lane = "stream" => Streaming'
  <2> SUFFICES ASSUME lane = "stream" PROVE Streaming'
    OBVIOUS
  <2>1. Streaming
    BY DEF IInv
  <2>2. FoldFollows'
    BY <1>1, <2>1 DEF Streaming, FoldFollows
  <2>3. (Closed' <=> Closed) /\ Wire' = Wire /\ Intact
    BY <1>1 DEF Closed, Wire, Intact
  <2>4. Ends'
    BY <1>1, <2>1, <2>3 DEF Streaming, Ends
  <2>5. Delivered'
    BY <1>1, <2>1, <2>3 DEF Streaming, Delivered
  <2>6. Shape'
    BY <1>1, <2>1, <2>3 DEF Streaming, Shape
  <2>7. QED
    BY <1>1, <2>1, <2>2, <2>4, <2>5, <2>6 DEF Streaming
<1>4. lane = "aggregate" => Aggregating'
    BY <1>1 DEF IInv, Aggregating
<1>5. QED
    BY <1>1, <1>2, <1>3, <1>4 DEF IInv

LEMMA StutterKeeps == IInv /\ UNCHANGED vars => IInv'
<1> SUFFICES ASSUME IInv, UNCHANGED vars PROVE IInv'
    OBVIOUS
<1> USE DEF vars
<1>1. TypeOK'
    BY DEF IInv, TypeOK
<1>2. lane = "stream" => Streaming'
  <2>1. lane = "stream" => FoldFollows' /\ out' \in Seq(Chunk)
    BY DEF IInv, Streaming, FoldFollows
  <2>2. (Closed' <=> Closed) /\ Wire' = Wire /\ (Intact' <=> Intact)
    BY DEF Closed, Wire, Intact
  <2>3. lane = "stream" => Ends'
    BY <2>2 DEF IInv, Streaming, Ends
  <2>4. lane = "stream" => Delivered' /\ Shape'
    BY <2>2 DEF IInv, Streaming, Delivered, Shape
  <2>5. QED
    BY <2>1, <2>3, <2>4 DEF Streaming
<1>3. lane = "aggregate" => Aggregating'
    BY DEF IInv, Aggregating
<1>4. QED
    BY <1>1, <1>2, <1>3 DEF IInv

(***************************************************************************)
(* The invariant of the specification: the types, and that the chunks that *)
(* were handed to the client or still wait tell what has been folded.      *)
(***************************************************************************)
THEOREM Invariant == Spec => []IInv
<1>1. IInv /\ [Next]_vars => IInv'
  <2> SUFFICES ASSUME IInv, [Next]_vars PROVE IInv'
    OBVIOUS
  <2>1. ASSUME NEW e \in Event, Receive(e) PROVE IInv'
    BY <2>1, ReceiveKeeps
  <2>2. CASE End
    BY <2>2, EndKeeps
  <2>3. CASE Break
    BY <2>3, BreakKeeps
  <2>4. CASE Return
    BY <2>4, ReturnKeeps
  <2>5. CASE WriteFails
    BY <2>5, WriteFailsKeeps
  <2>6. CASE Proceed
    BY <2>6, ProceedKeeps
  <2>7. CASE Aggregate
    BY <2>7, AggregateKeeps
  <2>8. CASE Relay
    BY <2>8, RelayKeeps
  <2>9. CASE RelayEnds
    BY <2>9, RelayEndsKeeps
  <2>10. CASE Leave
    BY <2>10, LeaveKeeps
  <2>11. CASE UNCHANGED vars
    BY <2>11, StutterKeeps
  <2>12. QED
    BY <2>1, <2>2, <2>3, <2>4, <2>5, <2>6, <2>7, <2>8, <2>9, <2>10, <2>11 DEF Next
<1>2. QED
    BY <1>1, InitInv, PTL DEF Spec

-----------------------------------------------------------------------------
(***************************************************************************)
(* The properties.                                                         *)
(***************************************************************************)

(* The types; and what the client of a stream has is the beginning of what *)
(* the upstream sent in the attempt under way, for any number of events:   *)
(* the relay of handleOpenAIResponse and the translator's goroutine lose,  *)
(* repeat and move nothing, and calls are numbered from zero.              *)
THEOREM RelayedInOrder == Spec => []PipeInvariant
<1>1. IInv => PipeInvariant
  <2> SUFFICES ASSUME IInv PROVE PipeInvariant
    OBVIOUS
  <2>1. TypeOK
    BY DEF IInv
  <2>2. lane = "stream" => Begins(out, Read(seen, TRUE))
    BY DEF IInv, Streaming, Delivered, FoldFollows
  <2>3. QED
    BY <2>1, <2>2 DEF PipeInvariant, Begins, Numbered
<1>2. QED
    BY <1>1, Invariant, PTL

(* A stream whose chunks all came is complete when its body ended well. *)
LEMMA CompleteEnds ==
    ASSUME TypeOK, Streaming, Intact, IsComplete(out)
    PROVE  Closed /\ tr.pending = <<>>
<1>1. out \in Seq(Chunk) /\ tr.pending \in Seq(Chunk) /\ tr.fold \in FoldType
    BY TrTyped DEF Streaming
<1> DEFINE n == Len(out)
<1>2. n \in Nat /\ n \in 1..n /\ out[n].kind = "DONE" /\ n \in DOMAIN Wire /\ Wire[n] = out[n]
    BY <1>1 DEF IsComplete, Last, Wire
<1>3. Closed
    BY <1>2 DEF Streaming, Shape, OnlyContent
<1>4. PICK p \in Seq(Chunk) : OnlyContent(p) /\ Wire = p \o Closing(tr.fold)
    BY <1>3 DEF Streaming, Shape, EndsWith
<1> DEFINE c == Closing(tr.fold)
<1>5. /\ c \in Seq(Chunk)
      /\ \A i \in 1..Len(c) : c[i].kind = "DONE" => i = Len(c)
    BY <1>1, ClosingTells
<1> HIDE DEF n, c
<1>6. Wire = p \o c
    BY <1>4 DEF c
<1>7. n > Len(p)
  <2> SUFFICES ASSUME n <= Len(p) PROVE FALSE
    BY <1>2
  <2>1. n \in DOMAIN p /\ Wire[n] = p[n]
    BY <1>2, <1>5, <1>6
  <2>2. p[n].kind \in {"text", "call"}
    BY <1>4, <2>1 DEF OnlyContent
  <2>3. QED
    BY <1>2, <2>1, <2>2
<1>8. n - Len(p) \in 1..Len(c) /\ Wire[n] = c[n - Len(p)]
    BY <1>2, <1>5, <1>6, <1>7
<1>9. n - Len(p) = Len(c)
    BY <1>2, <1>5, <1>8
<1>10. Len(Wire) = Len(p) + Len(c) /\ Len(Wire) = n + Len(tr.pending)
    BY <1>1, <1>5, <1>6 DEF Wire, n
<1>11. Len(tr.pending) = 0
    BY <1>1, <1>2, <1>5, <1>9, <1>10
<1>12. QED
    BY <1>1, <1>3, <1>11

LEMMA ContentHasNoEnd ==
    ASSUME NEW s \in Seq(Chunk), OnlyContent(s)
    PROVE  Gathered(s, "finish", "finish") = <<>> /\ Gathered(s, "usage", "usage") = <<>>
<1> DEFINE None(u) == OnlyContent(u) => /\ Gathered(u, "finish", "finish") = <<>>
                                        /\ Gathered(u, "usage", "usage") = <<>>
           T == {u \in Seq(Chunk) : None(u)}
<1>1. <<>> \in T
  <2>1. <<>> \in Seq(Chunk)
    OBVIOUS
  <2>2. QED
    BY <2>1, GatheredEmpty
<1>2. ASSUME NEW u \in Seq(Chunk), NEW c \in Chunk, u \in T PROVE Append(u, c) \in T
  <2>1. Append(u, c) = u \o <<c>> /\ <<c>> \in Seq(Chunk) /\ Append(u, c) \in Seq(Chunk)
    OBVIOUS
  <2>2. None(Append(u, c))
    <3> SUFFICES ASSUME OnlyContent(Append(u, c))
                 PROVE  /\ Gathered(Append(u, c), "finish", "finish") = <<>>
                        /\ Gathered(Append(u, c), "usage", "usage") = <<>>
      OBVIOUS
    <3>1. OnlyContent(u) /\ OnlyContent(<<c>>)
      BY <2>1, ContentCat
    <3>2. c.kind # "finish" /\ c.kind # "usage"
      <4>1. 1 \in DOMAIN <<c>> /\ <<c>>[1] = c
        OBVIOUS
      <4>2. QED
        BY <3>1, <4>1 DEF OnlyContent
    <3>3. Gathered(u, "finish", "finish") = <<>> /\ Gathered(u, "usage", "usage") = <<>>
      BY <1>2, <3>1
    <3>4. Splits(u, <<c>>)
      BY <2>1, GatheredCat
    <3>5. /\ Gathered(u \o <<c>>, "finish", "finish") = <<>> \o <<>>
          /\ Gathered(u \o <<c>>, "usage", "usage") = <<>> \o <<>>
      <4>1. /\ Gathered(<<c>>, "finish", "finish") = <<>>
            /\ Gathered(<<c>>, "usage", "usage") = <<>>
        BY <3>2, GatheredOne DEF Piece
      <4>2. QED
        BY <3>3, <3>4, <4>1 DEF Splits
    <3>6. <<>> \o <<>> = <<>>
      OBVIOUS
    <3>7. QED
      BY <2>1, <3>5, <3>6
  <2>3. QED
    BY <2>1, <2>2
<1>3. QED
  <2> HIDE DEF None
  <2>1. \A u \in Seq(Chunk) : u \in T
    BY <1>1, <1>2, SeqInduction
  <2>2. QED
    BY <2>1 DEF None

(* What is assembled from a stream that is complete is the answer of its fold. *)
LEMMA CompleteTells ==
    ASSUME NEW s \in Seq(Chunk), NEW f \in FoldType, Tells(s, f), EndsWith(s, f)
    PROVE  Assembled(s) = Answer(f)
<1>1. PICK p \in Seq(Chunk) : OnlyContent(p) /\ s = p \o Closing(f)
    BY DEF EndsWith
<1> DEFINE c == Closing(f)
<1>2. /\ c \in Seq(Chunk)
      /\ Gathered(c, "finish", "finish") = <<f.finish>>
      /\ Gathered(c, "usage", "usage") = IF f.usage = NoUsage THEN <<>> ELSE <<f.usage>>
    BY ClosingTells
<1> HIDE DEF c
<1>3. s = p \o c
    BY <1>1 DEF c
<1>4. Splits(p, c)
    BY <1>2, GatheredCat
<1>5. Gathered(p, "finish", "finish") = <<>> /\ Gathered(p, "usage", "usage") = <<>>
    BY <1>1, ContentHasNoEnd
<1>6. Gathered(s, "finish", "finish") = <<>> \o <<f.finish>>
    BY <1>2, <1>3, <1>4, <1>5 DEF Splits
<1> DEFINE us == IF f.usage = NoUsage THEN <<>> ELSE <<f.usage>>
<1>7. Gathered(s, "usage", "usage") = <<>> \o us
    BY <1>2, <1>3, <1>4, <1>5 DEF Splits
<1>8. <<>> \o <<f.finish>> = <<f.finish>> /\ <<f.finish>>[1] = f.finish /\ <<>> \o us = us
    OBVIOUS
<1>9. (IF us = <<>> THEN NoUsage ELSE us[1]) = f.usage
    OBVIOUS
<1> HIDE DEF us
<1>10. QED
    BY <1>6, <1>7, <1>8, <1>9 DEF Assembled, Answer, Tells

(* Both lanes come to the same answer, for any body of typed events: what  *)
(* translateZenResponsesStream lets a client that stays assemble is what   *)
(* parseZenResponsesEvents folds, [DONE] is sent for an answer only, and a *)
(* request fails only if the fold does.                                    *)
THEOREM LanesComeToTheSame == Spec => []LanesAgree
<1>1. IInv => LanesAgree
  <2> SUFFICES ASSUME IInv, lane = "stream", ~gone, ending # "open",
                      \A i \in DOMAIN seen : seen[i].typed
               PROVE  LET answer == Aggregated(seen, ending)
                      IN  /\ relay = "failed" => answer.failed
                          /\ relay = "done" => IsComplete(out) = ~answer.failed
                          /\ IsComplete(out) => Assembled(out) = answer
    BY DEF LanesAgree
  <2> DEFINE f == tr.fold
             answer == Aggregated(seen, ending)
  <2>1. TypeOK /\ Streaming /\ Intact
    BY DEF IInv, Intact
  <2>2. seen \in Seq(Event) /\ f \in FoldType /\ tr.pending \in Seq(Chunk) /\ out \in Seq(Chunk)
    BY <2>1, TrTyped DEF TypeOK, Streaming
  <2>3. Parsed(seen) = f
    BY <2>1, <2>2, ReadTyped DEF Parsed, Streaming, FoldFollows
  <2>4. answer = IF Closed THEN Answer(f) ELSE Failure
    BY <2>1, <2>3 DEF Aggregated, Closed, Unfinished, TypeOK
  <2>5. answer.failed = ~Closed
    <3>1. Failure.failed = TRUE /\ Answer(f).failed = FALSE
      BY DEF Failure, Answer
    <3>2. Closed \in BOOLEAN
      BY DEF Closed
    <3> HIDE DEF f, answer
    <3>3. QED
      BY <2>4, <3>1, <3>2
  <2> HIDE DEF answer
  <2>6. relay = "failed" => answer.failed
    BY <2>1, <2>5 DEF Streaming, Ends
  <2>7. IsComplete(out) => Closed /\ tr.pending = <<>>
    BY <2>1, CompleteEnds
  <2>8. relay = "done" /\ Closed => IsComplete(out)
    <3> SUFFICES ASSUME relay = "done", Closed PROVE IsComplete(out)
      OBVIOUS
    <3>1. tr.pending = <<>>
      BY <2>1 DEF Streaming, Ends
    <3>2. Wire = out
      BY <2>2, <3>1 DEF Wire
    <3>3. PICK p \in Seq(Chunk) : out = p \o Closing(f)
      BY <2>1, <3>2 DEF Streaming, Shape, EndsWith
    <3> DEFINE c == Closing(f)
    <3>4. c \in Seq(Chunk) /\ c # <<>> /\ c[Len(c)].kind = "DONE"
      BY <2>2, ClosingTells
    <3> HIDE DEF c
    <3>5. out = p \o c
      BY <3>3 DEF c
    <3>6. Len(c) \in 1..Len(c) /\ Len(out) = Len(p) + Len(c)
      BY <3>4, <3>5
    <3>7. out[Len(out)] = c[Len(c)] /\ out # <<>>
      BY <3>4, <3>5, <3>6
    <3>8. QED
      BY <3>4, <3>7 DEF IsComplete, Last
  <2>9. relay = "done" => IsComplete(out) = ~answer.failed
    <3>1. IsComplete(out) \in BOOLEAN /\ Closed \in BOOLEAN
      BY DEF IsComplete, Closed
    <3>2. QED
      BY <2>5, <2>7, <2>8, <3>1
  <2>10. IsComplete(out) => Assembled(out) = answer
    <3> SUFFICES ASSUME IsComplete(out) PROVE Assembled(out) = answer
      OBVIOUS
    <3>1. Closed /\ Wire = out
      BY <2>2, <2>7 DEF Wire
    <3>2. Tells(out, f) /\ EndsWith(out, f)
      BY <2>1, <3>1 DEF Streaming, Delivered, Shape
    <3>3. Assembled(out) = Answer(f)
      BY <2>2, <3>2, CompleteTells
    <3>4. QED
      BY <2>4, <3>1, <3>3
  <2>11. QED
    BY <2>6, <2>9, <2>10 DEF answer
<1>2. QED
    BY <1>1, Invariant, PTL

================================================================================
