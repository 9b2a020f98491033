------------------------ MODULE FunctionLookupProofs ------------------------
(***************************************************************************)
(* The properties of FunctionLookup, for all classes and all sources.      *)
(***************************************************************************)
EXTENDS FunctionLookup, WellFoundedInduction, TLAPS

-----------------------------------------------------------------------------
(* Sequences of sequences, end to end.                                      *)

LEMMA LeastOf ==
    ASSUME NEW S, S \subseteq Nat, S # {}
    PROVE  \E x \in S : \A y \in S : x <= y
<1>1. PICK x \in S : \A y \in S : ~(<<y, x>> \in OpToRel(<, Nat))
  BY NatLessThanWellFounded, WFMin
<1>2. \A y \in S : ~(y < x)
  BY <1>1 DEF OpToRel
<1> QED  BY <1>2

\* A set of indexes has a greatest member.
LEMMA GreatestOf ==
    ASSUME NEW n \in Nat, NEW S, S \subseteq 1..n, S # {}
    PROVE  \E x \in S : \A y \in S : y <= x
<1> DEFINE T == {n - x : x \in S}
<1>1. T \subseteq Nat /\ T # {}
  <2>1. \A x \in S : n - x \in Nat
    OBVIOUS
  <2> QED  BY <2>1
<1>2. PICK t \in T : \A y \in T : t <= y
  <2> HIDE DEF T
  <2> QED  BY <1>1, LeastOf
<1>3. PICK x \in S : t = n - x
  OBVIOUS
<1>4. ASSUME NEW y \in S  PROVE y <= x
  <2>1. n - y \in T
    OBVIOUS
  <2> QED  BY <2>1, <1>2, <1>3
<1> QED  BY <1>4

\* F[i] is the first i of the sequences, end to end.
IsFlatTo(F, ss, T, n) ==
    /\ F \in [0..n -> Seq(T)]
    /\ F[0] = <<>>
    /\ \A i \in 1..n : F[i] = F[i - 1] \o ss[i]
Grows(F, ss, n) == F[0] = <<>> /\ \A i \in 1..n : F[i] = F[i - 1] \o ss[i]
IsFlat(F, ss, T) == IsFlatTo(F, ss, T, Len(ss))

LEMMA FlatExists ==
    ASSUME NEW T, NEW ss \in Seq(Seq(T))
    PROVE  \E F : IsFlat(F, ss, T)
<1> DEFINE Bad == {n \in 0..Len(ss) : ~\E F : IsFlatTo(F, ss, T, n)}
<1>1. CASE Bad = {}
  <2>1. Len(ss) \in 0..Len(ss)
    OBVIOUS
  <2>2. Len(ss) \notin Bad
    BY <1>1
  <2> QED  BY <2>1, <2>2 DEF IsFlat
<1>2. CASE Bad # {}
  <2>1. PICK n \in Bad : \A m \in Bad : n <= m
    <3>1. Bad \in SUBSET Nat
      <4>1. 0..Len(ss) \in SUBSET Nat
        OBVIOUS
      <4> QED  BY <4>1
    <3> QED  BY <1>2, <3>1, LeastOf
  <2>2. CASE n = 0
    <3>1. PICK F : F = [i \in 0..0 |-> <<>>]
      OBVIOUS
    <3>2. F \in [0..0 -> Seq(T)] /\ F[0] = <<>>
      BY <3>1
    <3>3. IsFlatTo(F, ss, T, 0)
      BY <3>2 DEF IsFlatTo
    <3> QED  BY <2>1, <2>2, <3>3
  <2>3. CASE n # 0
    <3>1. n - 1 \in 0..Len(ss) /\ n \in 1..Len(ss) /\ n - 1 < n
      BY <2>3
    <3>2a. n - 1 \notin Bad
      <4> HIDE DEF Bad
      <4> QED  BY <2>1, <3>1
    <3>2b. PICK F : IsFlatTo(F, ss, T, n - 1)
      BY <3>1, <3>2a
    <3>2. /\ F \in [0..n - 1 -> Seq(T)]
          /\ F[0] = <<>>
          /\ \A i \in 1..n - 1 : F[i] = F[i - 1] \o ss[i]
      BY <3>2b DEF IsFlatTo
    <3>3. PICK G : G = [i \in 0..n |-> IF i = n THEN F[n - 1] \o ss[n] ELSE F[i]]
      OBVIOUS
    <3>4. ss[n] \in Seq(T) /\ F[n - 1] \in Seq(T)
      BY <3>1, <3>2
    <3>5. G \in [0..n -> Seq(T)]
      BY <3>1, <3>2, <3>3, <3>4
    <3>6. G[0] = <<>>
      BY <3>1, <3>2, <3>3
    <3>7. \A i \in 1..n : G[i] = G[i - 1] \o ss[i]
      <4> TAKE i \in 1..n
      <4>1. i - 1 \in 0..n /\ i - 1 # n /\ i \in 0..n
        BY <3>1
      <4>2. G[i - 1] = F[i - 1]
        BY <3>3, <4>1
      <4>3. CASE i = n
        BY <3>3, <4>1, <4>2, <4>3
      <4>4. CASE i # n
        <5>1. i \in 1..n - 1
          BY <3>1, <4>4
        <5> QED  BY <3>2, <3>3, <4>1, <4>2, <4>4, <5>1
      <4> QED  BY <4>3, <4>4
    <3>8. IsFlatTo(G, ss, T, n)
      BY <3>5, <3>6, <3>7 DEF IsFlatTo
    <3> QED  BY <2>1, <3>8
  <2> QED  BY <2>2, <2>3
<1> QED  BY <1>1, <1>2

\* There is one such F.
LEMMA FlatIsUnique ==
    ASSUME NEW T, NEW ss \in Seq(Seq(T)), NEW F, IsFlat(F, ss, T),
           NEW G, NEW n \in 0..Len(ss),
           Grows(G, ss, n)
    PROVE  G[n] = F[n]
<1> DEFINE Bad == {i \in 0..n : G[i] # F[i]}
<1>1. CASE Bad = {}
  BY <1>1
<1>2. CASE Bad # {}
  <2>1. PICK m \in Bad : \A i \in Bad : m <= i
    <3>1. Bad \in SUBSET Nat
      OBVIOUS
    <3> QED  BY <1>2, <3>1, LeastOf
  <2>2. m # 0
    BY <2>1 DEF IsFlat, IsFlatTo, Grows
  <2>3. m - 1 \in 0..n /\ m - 1 < m /\ m \in 1..n /\ m \in 1..Len(ss)
    BY <2>2
  <2>4. G[m - 1] = F[m - 1]
    BY <2>1, <2>3
  <2>5. G[m] = F[m]
    BY <2>3, <2>4 DEF IsFlat, IsFlatTo, Grows
  <2> QED  BY <2>1, <2>5
<1> QED  BY <1>1, <1>2

LEMMA FlattenIsFlat ==
    ASSUME NEW T, NEW ss \in Seq(Seq(T)), NEW F, IsFlat(F, ss, T)
    PROVE  FlattenSeq(ss) = F[Len(ss)]
<1>1. CASE Len(ss) = 0
  BY <1>1 DEF FlattenSeq, IsFlat, IsFlatTo
<1>2. CASE Len(ss) # 0
  <2>1. PICK n \in Nat \ {0} : n = Len(ss)
    BY <1>2
  <2> DEFINE Step(f) == [i \in 1..n |-> IF i = 1 THEN ss[i] ELSE f[i - 1] \o ss[i]]
  <2>2. PICK f : f = CHOOSE h : h = Step(h)
    OBVIOUS
  <2>3. FlattenSeq(ss) = f[n]
    BY <1>2, <2>1, <2>2 DEF FlattenSeq
  <2>4. \E g : g = Step(g)
    <3>1. PICK g : g = [i \in 1..n |-> F[i]]
      OBVIOUS
    <3>2. \A i \in 1..n : g[i] = Step(g)[i]
      <4> TAKE i \in 1..n
      <4>1. CASE i = 1
        <5>1. 1 \in 1..Len(ss) /\ 1 - 1 = 0
          BY <2>1
        <5>2. F[1] = F[0] \o ss[1] /\ F[0] = <<>>
          BY <5>1 DEF IsFlat, IsFlatTo
        <5>3. ss[1] \in Seq(T)
          BY <5>1
        <5>4. <<>> \o ss[1] = ss[1]
          BY <5>3
        <5> QED  BY <3>1, <4>1, <5>2, <5>4
      <4>2. CASE i # 1
        <5>1. i - 1 \in 1..n
          BY <4>2
        <5>2. F[i] = F[i - 1] \o ss[i]
          BY <2>1 DEF IsFlat, IsFlatTo
        <5> QED  BY <3>1, <4>2, <5>1, <5>2
      <4> QED  BY <4>1, <4>2
    <3>3. g = Step(g)
      BY <3>1, <3>2
    <3> QED  BY <3>3
  <2>5. f = Step(f)
    BY <2>2, <2>4
  <2>6. PICK G : G = [i \in 0..n |-> IF i = 0 THEN <<>> ELSE f[i]]
    OBVIOUS
  <2>7. G[0] = <<>> /\ \A i \in 1..n : G[i] = G[i - 1] \o ss[i]
    <3>1. G[0] = <<>>
      BY <2>1, <2>6
    <3>2. ASSUME NEW i \in 1..n  PROVE G[i] = G[i - 1] \o ss[i]
      <4>1. G[i] = f[i] /\ i - 1 \in 0..n
        BY <2>6
      <4>2. f[i] = Step(f)[i]
        BY <2>5
      <4>3. CASE i = 1
        <5>1. ss[1] \in Seq(T)
          BY <2>1
        <5>2. G[i - 1] = <<>>
          BY <3>1, <4>3
        <5>3. f[i] = ss[i]
          BY <4>2, <4>3
        <5> QED  BY <4>1, <4>3, <5>1, <5>2, <5>3
      <4>4. CASE i # 1
        <5>1. G[i - 1] = f[i - 1]
          BY <2>6, <4>1, <4>4
        <5> QED  BY <4>1, <4>2, <4>4, <5>1
      <4> QED  BY <4>3, <4>4
    <3> QED  BY <3>1, <3>2
  <2>8. G[n] = F[n]
    <3>1. n \in 0..Len(ss)
      BY <2>1
    <3>2. Grows(G, ss, n)
      BY <2>7 DEF Grows
    <3> QED  BY <3>1, <3>2, FlatIsUnique
  <2> QED  BY <2>1, <2>3, <2>6, <2>8
<1> QED  BY <1>1, <1>2

\* What the first l - 1 sequences have together: the place before the l-th.
Place(ss, l) == Len(FlattenSeq(SubSeq(ss, 1, l - 1)))

LEMMA PlaceIsFlat ==
    ASSUME NEW T, NEW ss \in Seq(Seq(T)), NEW F, IsFlat(F, ss, T)
    PROVE  \A l \in 1..Len(ss) + 1 : Place(ss, l) = Len(F[l - 1]) /\ F[l - 1] \in Seq(T)
<1> TAKE l \in 1..Len(ss) + 1
<1>1. PICK m : m = l - 1
  OBVIOUS
<1>2. m \in 0..Len(ss) /\ m \in Nat
  BY <1>1
<1>3. PICK tt : tt = SubSeq(ss, 1, m)
  OBVIOUS
<1>4. tt \in Seq(Seq(T)) /\ Len(tt) = m /\ \A i \in 1..m : tt[i] = ss[i]
  BY <1>2, <1>3
<1>5. /\ F \in [0..Len(ss) -> Seq(T)] /\ F[0] = <<>>
      /\ \A i \in 1..Len(ss) : F[i] = F[i - 1] \o ss[i]
  BY DEF IsFlat, IsFlatTo
<1>6. PICK G : G = [i \in 0..m |-> F[i]]
  OBVIOUS
<1>7. \A i \in 0..m : i \in 0..Len(ss) /\ G[i] = F[i] /\ F[i] \in Seq(T)
  <2> TAKE i \in 0..m
  <2>1. i \in 0..Len(ss)
    BY <1>2
  <2>2. F[i] \in Seq(T)
    BY <1>5, <2>1
  <2> QED  BY <1>6, <2>1, <2>2
<1>8. G \in [0..m -> Seq(T)] /\ G[0] = <<>>
  BY <1>2, <1>5, <1>6, <1>7
<1>9. \A i \in 1..m : G[i] = G[i - 1] \o tt[i]
  <2> TAKE i \in 1..m
  <2>1. i \in 0..m /\ i - 1 \in 0..m /\ i \in 1..Len(ss)
    BY <1>2
  <2> QED  BY <1>4, <1>5, <1>7, <2>1
<1>10. IsFlat(G, tt, T)
  BY <1>4, <1>8, <1>9 DEF IsFlat, IsFlatTo
<1>11. FlattenSeq(tt) = G[m]
  BY <1>4, <1>10, FlattenIsFlat
<1>12. G[m] = F[m] /\ F[m] \in Seq(T)
  BY <1>2, <1>7
<1> QED  BY <1>1, <1>3, <1>11, <1>12 DEF Place

\* Where the elements are.
LEMMA FlattenPlaces ==
    ASSUME NEW T, NEW ss \in Seq(Seq(T))
    PROVE  /\ FlattenSeq(ss) \in Seq(T)
           /\ \A l \in 1..Len(ss) + 1 : Place(ss, l) \in Nat
           /\ Place(ss, 1) = 0
           /\ Place(ss, Len(ss) + 1) = Len(FlattenSeq(ss))
           /\ \A l \in 1..Len(ss) : Place(ss, l + 1) = Place(ss, l) + Len(ss[l])
<1>1. PICK F : IsFlat(F, ss, T)
  BY FlatExists
<1>2. /\ F \in [0..Len(ss) -> Seq(T)] /\ F[0] = <<>>
      /\ \A i \in 1..Len(ss) : F[i] = F[i - 1] \o ss[i]
  BY <1>1 DEF IsFlat, IsFlatTo
<1>3. PICK n \in Nat : n = Len(ss)
  OBVIOUS
<1>4. FlattenSeq(ss) = F[n] /\ F[n] \in Seq(T)
  BY <1>1, <1>2, <1>3, FlattenIsFlat
<1>5. \A l \in 1..n + 1 : Place(ss, l) = Len(F[l - 1]) /\ F[l - 1] \in Seq(T)
  BY <1>1, <1>3, PlaceIsFlat
<1>6. \A l \in 1..n + 1 : Place(ss, l) \in Nat
  BY <1>5
<1>7. Place(ss, 1) = 0
  <2>1. 1 \in 1..n + 1 /\ 1 - 1 = 0
    BY <1>3
  <2>2. Place(ss, 1) = Len(F[0])
    BY <1>5, <2>1
  <2> QED  BY <1>2, <2>2
<1>8. Place(ss, n + 1) = Len(FlattenSeq(ss))
  <2>1. n + 1 \in 1..n + 1 /\ (n + 1) - 1 = n
    BY <1>3
  <2>2. Place(ss, n + 1) = Len(F[n])
    BY <1>5, <2>1
  <2> QED  BY <1>4, <2>2
<1>9. \A l \in 1..n : Place(ss, l + 1) = Place(ss, l) + Len(ss[l])
  <2> TAKE l \in 1..n
  <2>1. l \in 1..n + 1 /\ l + 1 \in 1..n + 1 /\ (l + 1) - 1 = l
    BY <1>3
  <2>2. Place(ss, l + 1) = Len(F[l]) /\ Place(ss, l) = Len(F[l - 1]) /\ F[l - 1] \in Seq(T)
    BY <1>5, <2>1
  <2>3. ss[l] \in Seq(T)
    BY <1>3
  <2>4. F[l] = F[l - 1] \o ss[l]
    BY <1>2, <1>3
  <2>5. PICK f \in Seq(T) : f = F[l - 1]
    BY <2>2
  <2>6. PICK g \in Seq(T) : g = ss[l]
    BY <2>3
  <2>7. Len(f \o g) = Len(f) + Len(g)
    OBVIOUS
  <2> QED  BY <2>2, <2>4, <2>5, <2>6, <2>7
<1> QED  BY <1>3, <1>4, <1>6, <1>7, <1>8, <1>9

\* Places grow.
LEMMA PlacesGrow ==
    ASSUME NEW T, NEW ss \in Seq(Seq(T)), NEW l \in 1..Len(ss), NEW m \in 1..Len(ss) + 1, l < m
    PROVE  Place(ss, l) + Len(ss[l]) <= Place(ss, m)
<1>1. PICK n \in Nat : n = Len(ss)
  OBVIOUS
<1> DEFINE Bad == {i \in l + 1..n + 1 : ~(Place(ss, l) + Len(ss[l]) <= Place(ss, i))}
<1>2. CASE Bad = {}
  <2>1. m \in l + 1..n + 1
    BY <1>1
  <2> QED  BY <1>2, <2>1
<1>3. CASE Bad # {}
  <2>1. Bad \subseteq Nat
    OBVIOUS
  <2>2. PICK i \in Bad : \A j \in Bad : i <= j
    <3> HIDE DEF Bad
    <3> QED  BY <1>3, <2>1, LeastOf
  <2>3. Place(ss, l + 1) = Place(ss, l) + Len(ss[l]) /\ Place(ss, l + 1) \in Nat
    BY FlattenPlaces, l + 1 \in 1..Len(ss) + 1
  <2>4. i # l + 1 /\ i \in l + 1..n + 1
    BY <2>2, <2>3
  <2>5. i - 1 \in l + 1..n + 1 /\ i - 1 \in 1..Len(ss) /\ i - 1 < i /\ (i - 1) + 1 = i
    BY <1>1, <2>4
  <2>6. i - 1 \notin Bad
    <3>1. i \in Nat /\ \A j \in Bad : i <= j
      BY <2>1, <2>2
    <3> HIDE DEF Bad
    <3> QED  BY <2>5, <3>1
  <2>7. Place(ss, l) + Len(ss[l]) <= Place(ss, i - 1)
    BY <2>5, <2>6
  <2>8. Place(ss, i) = Place(ss, i - 1) + Len(ss[i - 1]) /\ Len(ss[i - 1]) \in Nat
        /\ Place(ss, i - 1) \in Nat
    <3>1. i - 1 \in 1..Len(ss) + 1
      BY <2>5
    <3>2. Len(ss[i - 1]) \in Nat
      BY <2>5
    <3>3. Place(ss, (i - 1) + 1) = Place(ss, i - 1) + Len(ss[i - 1]) /\ Place(ss, i - 1) \in Nat
      BY <2>5, <3>1, FlattenPlaces
    <3> QED  BY <2>5, <3>2, <3>3
  <2>9. Place(ss, l) + Len(ss[l]) \in Nat
    BY FlattenPlaces
  <2>10. Place(ss, l) + Len(ss[l]) <= Place(ss, i)
    <3>1. PICK a \in Nat : a = Place(ss, l) + Len(ss[l])
      BY <2>9
    <3>2. PICK b \in Nat, k \in Nat : b = Place(ss, i - 1) /\ k = Len(ss[i - 1])
      BY <2>8
    <3>3. Place(ss, i) = b + k /\ a <= b
      BY <2>7, <2>8, <3>1, <3>2
    <3>4. a <= b + k
      BY <3>3
    <3> QED  BY <3>1, <3>3, <3>4
  <2> QED  BY <2>2, <2>10
<1> QED  BY <1>2, <1>3

\* Each index of the whole is one of a part.
LEMMA PlaceOfIndex ==
    ASSUME NEW T, NEW ss \in Seq(Seq(T)), NEW m \in 1..Len(ss) + 1, NEW i \in 1..Place(ss, m)
    PROVE  \E l \in 1..m - 1 : \E k \in DOMAIN ss[l] : i = Place(ss, l) + k
<1>1. /\ \A l \in 1..Len(ss) + 1 : Place(ss, l) \in Nat
      /\ Place(ss, 1) = 0
      /\ \A l \in 1..Len(ss) : Place(ss, l + 1) = Place(ss, l) + Len(ss[l])
      /\ \A l \in 1..Len(ss) : ss[l] \in Seq(T) /\ DOMAIN ss[l] = 1..Len(ss[l]) /\ Len(ss[l]) \in Nat
  BY FlattenPlaces
<1> DEFINE Above == {l \in 1..m : i <= Place(ss, l)}
<1>2. m \in Above /\ Above \subseteq Nat
  BY <1>1
<1>3. PICK a \in Above : \A b \in Above : a <= b
  <2> HIDE DEF Above
  <2> QED  BY <1>2, LeastOf
<1>4. a # 1 /\ a \in 1..m
  BY <1>1, <1>3
<1>5. PICK l : l = a - 1
  OBVIOUS
<1>6. l \in 1..m - 1 /\ l \in 1..m /\ l < a /\ l + 1 = a /\ l \in 1..Len(ss)
  BY <1>4, <1>5
<1>7. l \notin Above
  <2>1. a \in Nat
    BY <1>4
  <2> HIDE DEF Above
  <2> QED  BY <1>3, <1>6, <2>1
<1>8. ~(i <= Place(ss, l)) /\ Place(ss, l) \in Nat
  BY <1>1, <1>6, <1>7
<1>9. i <= Place(ss, l) + Len(ss[l])
  <2>1. i <= Place(ss, a)
    BY <1>3
  <2> QED  BY <1>1, <1>6, <2>1
<1>10. i - Place(ss, l) \in DOMAIN ss[l]
  BY <1>1, <1>6, <1>8, <1>9
<1> QED  BY <1>6, <1>8, <1>10

\* The elements of the parts stand at their places in the whole.
LEMMA FlattenHas ==
    ASSUME NEW T, NEW ss \in Seq(Seq(T)), NEW l \in 1..Len(ss), NEW k \in DOMAIN ss[l]
    PROVE  /\ Place(ss, l) + k \in DOMAIN FlattenSeq(ss)
           /\ FlattenSeq(ss)[Place(ss, l) + k] = ss[l][k]
<1>1. PICK F : IsFlat(F, ss, T)
  BY FlatExists
<1>2. /\ F \in [0..Len(ss) -> Seq(T)] /\ F[0] = <<>>
      /\ \A i \in 1..Len(ss) : F[i] = F[i - 1] \o ss[i]
  BY <1>1 DEF IsFlat, IsFlatTo
<1>3. PICK n \in Nat : n = Len(ss)
  OBVIOUS
<1>4. FlattenSeq(ss) = F[n]
  BY <1>1, <1>3, FlattenIsFlat
<1>5. Place(ss, l) = Len(F[l - 1]) /\ F[l - 1] \in Seq(T)
  BY <1>1, <1>3, PlaceIsFlat
<1>6. ss[l] \in Seq(T) /\ k \in 1..Len(ss[l])
  BY <1>3
<1>7. PICK p : p = Place(ss, l) + k
  OBVIOUS
<1> DEFINE Bad == {i \in l..n : ~(p \in DOMAIN F[i] /\ F[i][p] = ss[l][k])}
<1>8. CASE Bad = {}
  <2>1. n \in l..n
    BY <1>3
  <2> QED  BY <1>4, <1>7, <1>8, <2>1
<1>9. CASE Bad # {}
  <2>1. Bad \subseteq Nat
    OBVIOUS
  <2>2. PICK i \in Bad : \A j \in Bad : i <= j
    <3> HIDE DEF Bad
    <3> QED  BY <1>9, <2>1, LeastOf
  <2>3. i \in 1..Len(ss) /\ i \in l..n /\ i - 1 \in 0..Len(ss)
    BY <1>3, <2>2
  <2>4. PICK f \in Seq(T) : f = F[i - 1]
    BY <1>2, <2>3
  <2>5. PICK g \in Seq(T) : g = ss[i]
    BY <2>3
  <2>6. F[i] = f \o g
    BY <1>2, <2>3, <2>4, <2>5
  <2>7. CASE i = l
    <3>1. p = Len(f) + k /\ k \in 1..Len(g)
      BY <1>5, <1>6, <1>7, <2>4, <2>5, <2>7
    <3>2. p \in DOMAIN (f \o g) /\ (f \o g)[p] = g[k]
      <4>1. Len(f \o g) = Len(f) + Len(g) /\ DOMAIN (f \o g) = 1..Len(f) + Len(g)
        OBVIOUS
      <4>2. p \in 1..Len(f) + Len(g) /\ p > Len(f) /\ p - Len(f) = k
        BY <3>1
      <4> QED  BY <3>1, <4>1, <4>2
    <3> QED  BY <2>2, <2>5, <2>6, <2>7, <3>2
  <2>8. CASE i # l
    <3>1. i - 1 \in l..n /\ i - 1 < i
      BY <2>3, <2>8
    <3>2. i - 1 \notin Bad
      <4>1. i \in Nat
        BY <2>3
      <4> HIDE DEF Bad
      <4> QED  BY <2>2, <3>1, <4>1
    <3>3. p \in DOMAIN f /\ f[p] = ss[l][k]
      BY <2>4, <3>1, <3>2
    <3>4. p \in DOMAIN (f \o g) /\ (f \o g)[p] = f[p]
      BY <3>3
    <3> QED  BY <2>2, <2>6, <3>3, <3>4
  <2> QED  BY <2>7, <2>8
<1> QED  BY <1>8, <1>9

\* Places depend on the lengths of the parts before.
LEMMA PlacesAgree ==
    ASSUME NEW T, NEW ss \in Seq(Seq(T)), NEW U, NEW tt \in Seq(Seq(U)),
           NEW n \in Nat, n <= Len(ss), n <= Len(tt),
           \A l \in 1..n : Len(ss[l]) = Len(tt[l])
    PROVE  \A l \in 1..n + 1 : Place(ss, l) = Place(tt, l)
<1> DEFINE Bad == {l \in 1..n + 1 : Place(ss, l) # Place(tt, l)}
<1>1. CASE Bad = {}
  BY <1>1
<1>2. CASE Bad # {}
  <2>1. Bad \subseteq Nat
    OBVIOUS
  <2>2. PICK i \in Bad : \A j \in Bad : i <= j
    <3> HIDE DEF Bad
    <3> QED  BY <1>2, <2>1, LeastOf
  <2>3. i # 1
    BY <2>2, FlattenPlaces
  <2>4. i \in 2..n + 1 /\ i - 1 \in 1..n /\ i - 1 \in 1..n + 1 /\ i - 1 < i /\ (i - 1) + 1 = i
        /\ i \in Nat /\ i - 1 \in 1..Len(ss) /\ i - 1 \in 1..Len(tt)
    BY <2>2, <2>3
  <2>5. i - 1 \notin Bad
    <3> HIDE DEF Bad
    <3> QED  BY <2>2, <2>4
  <2>6. Place(ss, i - 1) = Place(tt, i - 1)
    BY <2>4, <2>5
  <2>7. Place(ss, (i - 1) + 1) = Place(ss, i - 1) + Len(ss[i - 1])
    BY <2>4, FlattenPlaces
  <2>8. Place(tt, (i - 1) + 1) = Place(tt, i - 1) + Len(tt[i - 1])
    BY <2>4, FlattenPlaces
  <2> QED  BY <2>2, <2>4, <2>6, <2>7, <2>8
<1> QED  BY <1>1, <1>2

-----------------------------------------------------------------------------
(* The inductive invariant.                                                 *)

EntryType == [fun : Function, operator : BOOLEAN, linked : BOOLEAN, this : Int, super : Int]
With      == [class : Class, kinds : Arguments \cup {<<>>}]

OfOneKind(funs) ==
    /\ funs \in Seq(Function)
    /\ \A k \in DOMAIN funs : funs[k].native => IsOfC(funs[k])
    /\ \A j, k \in DOMAIN funs : funs[j].native = funs[k].native

\* What a table has for the k-th function of level l: of the C++ functions of one
\* name that are inherited the last.
IsLastNamed(f, funs, name) ==
    \E m \in DOMAIN funs : /\ f = funs[m] /\ f.name = name
                           /\ \A j \in DOMAIN funs : funs[j].name = name => j <= m
StandsFor(f, h, l, k) ==
    IF h[l][k].native /\ l < Len(h) THEN IsLastNamed(f, h[l], h[l][k].name) ELSE f = h[l][k]

\* A table has the functions of all levels, one level after the other.
Follows(t, h) ==
    /\ Len(t) = Place(h, Len(h) + 1)
    /\ \A l \in DOMAIN h : \A k \in DOMAIN h[l] : StandsFor(t[Place(h, l) + k].fun, h, l, k)

ClassSound(c) ==
    /\ ancestors[c] \in Seq(Class)
    /\ \A l \in DOMAIN ancestors[c] : Exists(ancestors[c][l])
    /\ heritage[c] \in Seq(Seq(Function))
    /\ Len(heritage[c]) = Len(ancestors[c])
    /\ \A l \in DOMAIN heritage[c] : OfOneKind(heritage[c][l])
    /\ own[c] = IF Exists(c) THEN heritage[c][Len(heritage[c])] ELSE <<>>
    /\ IsNative(c) => Len(ancestors[c]) = 1
    /\ table[c] \in Seq(EntryType)
    /\ Follows(table[c], heritage[c])

\* What is linked has the indexes that the table says, and a function that a later
\* source adds is the first of its name and its number of arguments.
EntrySound(t, j) ==
    /\ t[j].linked =>
          /\ t[j].fun.this # NoCall => t[j].this = ThisIndex(t, t[j].fun.this)
          /\ t[j].fun.super # NoSuper => t[j].super = SuperIndex(t, j - 1, t[j].fun.super)
    /\ ~t[j].operator =>
          \A i \in 1..j - 1 : ~Takes(t[i].fun, t[j].fun.name, Len(t[j].fun.params))
TableSound(t) == Links(t) /\ \A j \in DOMAIN t : EntrySound(t, j)

\* What an object has not is what later sources added.
ObjectSound ==
    \/ object = NoObject
    \/ /\ object \in [class : Class \ {Main}, size : Nat]
       /\ Exists(object.class)
       /\ object.size <= Len(table[object.class])
       /\ \A j \in object.size + 1..Len(table[object.class]) : ~table[object.class][j].operator

\* The index of a site that has seen one class and one list of kinds is what
\* a search finds now, or there is none.
IsFound(c, kinds, i) ==
    \/ i = Undefined
    \/ /\ i = NotFound
       /\ site.callee = "constructor" /\ kinds = <<>>
       /\ IsNative(c) \/ (linked => FIND_FUNCTION(table[c], site.callee, kinds) = Undefined)
    \/ i \in Nat /\ i = FIND_FUNCTION(table[c], site.callee, kinds)
SeenIsFound(c, kinds) ==
    /\ Exists(c) /\ Len(kinds) = site.args
    /\ c = Main <=> site.kind = "global"
    /\ IsFound(c, kinds, index_op2)
SiteSound ==
    /\ site \in Site
    /\ seen \in {Unseen, Mixed} \cup With
    /\ site.kind \in {"access", "global"} =>
          /\ seen = Unseen => index_op2 = Undefined
          /\ seen \in With => SeenIsFound(seen.class, seen.kinds)

ClassesSound == \A c \in Class : ClassSound(c)
TablesSound  == \A c \in Class : TableSound(table[c])
TablesLinked == linked => \A c \in Class : \A j \in DOMAIN table[c] : table[c][j].linked
Typed ==
    /\ ancestors \in [Class -> Seq(Class)] /\ own \in [Class -> Seq(Function)]
    /\ table \in [Class -> Seq(EntryType)] /\ heritage \in [Class -> Seq(Seq(Function))]
    /\ Exists(Main)

\* The last call, if it was a steady one, ran what it should.
RunsDeclared(c, kinds) ==
    Steady(c, kinds) =>
        /\ last.fun = Nearest(c, Len(heritage[c]),
                              {f \in Taking(c, site.callee, Len(kinds)) : FitsAll(f, kinds)})
        /\ last.fun # NoFunction => last.result = "ran"
LastSound ==
    last = NotCalled \/ \E w \in With : last.with = w /\ RunsDeclared(w.class, w.kinds)

StaticSound == Typed /\ ClassesSound /\ TablesSound /\ TablesLinked

LookupInv == StaticSound /\ ObjectSound /\ SiteSound /\ LastSound

-----------------------------------------------------------------------------
(* Searches.                                                                *)

LEMMA HighestIs ==
    ASSUME NEW n \in Nat, NEW S, S \subseteq 0..n - 1
    PROVE  /\ S = {} => Highest(S) = Undefined
           /\ S # {} => Highest(S) \in S /\ \A i \in S : i <= Highest(S)
<1>1. CASE S = {}
  BY <1>1 DEF Highest
<1>2. CASE S # {}
  <2> DEFINE R == {i + 1 : i \in S}
  <2>1. R \subseteq 1..n /\ R # {}
    <3>1. \A i \in S : i + 1 \in 1..n
      OBVIOUS
    <3>2. R \subseteq 1..n
      BY <3>1
    <3>3. R # {}
      BY <1>2
    <3> QED  BY <3>2, <3>3
  <2>2. PICK r \in R : \A q \in R : q <= r
    <3> HIDE DEF R
    <3> QED  BY <2>1, GreatestOf
  <2>3. PICK m \in S : r = m + 1
    OBVIOUS
  <2>4. \A i \in S : m >= i
    <3> TAKE i \in S
    <3>1. i + 1 \in R
      OBVIOUS
    <3>2. i + 1 <= m + 1
      BY <2>2, <2>3, <3>1
    <3> QED  BY <3>2
  <2>5. Max(S) \in S /\ \A i \in S : Max(S) >= i
    BY <2>4 DEF Max
  <2>6. \A i \in S : i <= Max(S)
    BY <2>5
  <2> QED  BY <1>2, <2>5, <2>6 DEF Highest
<1> QED  BY <1>1, <1>2

\* A search looks at the functions of the entries alone.
SameFuns(t, u) == Len(u) = Len(t) /\ \A j \in DOMAIN t : u[j].fun = t[j].fun

LEMMA SameSearch ==
    ASSUME NEW t \in Seq(EntryType), NEW u \in Seq(EntryType), SameFuns(t, u)
    PROVE  /\ \A name, n : getIdxFunctionObject(u, name, n) = getIdxFunctionObject(t, name, n)
           /\ \A name, kinds : FIND_FUNCTION(u, name, kinds) = FIND_FUNCTION(t, name, kinds)
           /\ \A j \in DOMAIN t : \A n : SuperIndex(u, j - 1, n) = SuperIndex(t, j - 1, n)
           /\ \A call : getIdxFunctionObject(t, call.name, call.args) # Undefined =>
                            ThisIndex(u, call) = ThisIndex(t, call)
<1>1. \A i \in 0..Len(t) - 1 : i + 1 \in DOMAIN t /\ u[i + 1].fun = t[i + 1].fun
  BY DEF SameFuns
<1>2. Indexes(u) = Indexes(t) /\ Indexes(t) = 0..Len(t) - 1 /\ Len(t) \in Nat
  BY DEF SameFuns, Indexes
<1>3. \A i \in Indexes(t) : At(u, i).fun = At(t, i).fun
  BY <1>1, <1>2 DEF At
<1>4. ASSUME NEW name, NEW n
      PROVE  getIdxFunctionObject(u, name, n) = getIdxFunctionObject(t, name, n)
  <2>1. {i \in Indexes(u) : Takes(At(u, i).fun, name, n)} =
        {i \in Indexes(t) : Takes(At(t, i).fun, name, n)}
    BY <1>2, <1>3
  <2> QED  BY <2>1 DEF getIdxFunctionObject
<1>5. ASSUME NEW name, NEW kinds
      PROVE  FIND_FUNCTION(u, name, kinds) = FIND_FUNCTION(t, name, kinds)
  <2>1. \A i \in Indexes(t) :
          (/\ Takes(At(u, i).fun, name, Len(kinds))
           /\ At(u, i).fun.native => MatchArgs(At(u, i).fun.params, kinds))
          <=> (/\ Takes(At(t, i).fun, name, Len(kinds))
               /\ At(t, i).fun.native => MatchArgs(At(t, i).fun.params, kinds))
    BY <1>3
  <2>2. {i \in Indexes(u) : /\ Takes(At(u, i).fun, name, Len(kinds))
                            /\ At(u, i).fun.native => MatchArgs(At(u, i).fun.params, kinds)} =
        {i \in Indexes(t) : /\ Takes(At(t, i).fun, name, Len(kinds))
                            /\ At(t, i).fun.native => MatchArgs(At(t, i).fun.params, kinds)}
    BY <1>2, <2>1
  <2> QED  BY <2>2 DEF FIND_FUNCTION
<1>6. ASSUME NEW j \in DOMAIN t, NEW n
      PROVE  SuperIndex(u, j - 1, n) = SuperIndex(t, j - 1, n)
  <2>1. j - 1 \in Indexes(t) /\ \A i \in 0..j - 1 - 1 : i \in Indexes(t)
    BY <1>2
  <2>2. At(u, j - 1).fun = At(t, j - 1).fun /\ \A i \in 0..j - 1 - 1 : At(u, i).fun = At(t, i).fun
    BY <1>3, <2>1
  <2>3. {i \in 0..j - 1 - 1 : Takes(At(u, i).fun, At(u, j - 1).fun.name, n)} =
        {i \in 0..j - 1 - 1 : Takes(At(t, i).fun, At(t, j - 1).fun.name, n)}
    BY <2>2
  <2> QED  BY <2>3 DEF SuperIndex
<1>7. ASSUME NEW call, getIdxFunctionObject(t, call.name, call.args) # Undefined
      PROVE  ThisIndex(u, call) = ThisIndex(t, call)
  <2>1. PICK i : i = getIdxFunctionObject(t, call.name, call.args)
    OBVIOUS
  <2>2. i = getIdxFunctionObject(u, call.name, call.args)
    BY <1>4, <2>1
  <2>3. i \in Indexes(t)
    <3>1. {k \in Indexes(t) : Takes(At(t, k).fun, call.name, call.args)} \subseteq 0..Len(t) - 1
      BY <1>2
    <3> QED  BY <1>2, <1>7, <2>1, <3>1, HighestIs DEF getIdxFunctionObject
  <2> QED  BY <1>3, <2>1, <2>2, <2>3 DEF ThisIndex
<1> QED  BY <1>4, <1>5, <1>6, <1>7

\* A search finds an entry that it looks for.
LEMMA SearchFinds ==
    ASSUME NEW t \in Seq(EntryType), NEW name, NEW n
    PROVE  LET i == getIdxFunctionObject(t, name, n)
           IN  /\ i # Undefined => /\ i \in 0..Len(t) - 1
                                   /\ Takes(t[i + 1].fun, name, n)
                                   /\ \A j \in i + 2..Len(t) : ~Takes(t[j].fun, name, n)
               /\ i = Undefined => \A j \in DOMAIN t : ~Takes(t[j].fun, name, n)
<1> DEFINE S == {k \in Indexes(t) : Takes(At(t, k).fun, name, n)}
<1>1. PICK i : i = getIdxFunctionObject(t, name, n)
  OBVIOUS
<1>2. S \subseteq 0..Len(t) - 1 /\ Len(t) \in Nat
  BY DEF Indexes
<1>3. i = Highest(S)
  BY <1>1 DEF getIdxFunctionObject
<1>4. /\ S = {} => i = Undefined
      /\ S # {} => i \in S /\ \A k \in S : k <= i
  BY <1>2, <1>3, HighestIs
<1>5. \A j \in DOMAIN t : Takes(t[j].fun, name, n) => j - 1 \in S
  BY DEF Indexes, At
<1>6. i # Undefined => /\ i \in 0..Len(t) - 1
                       /\ Takes(t[i + 1].fun, name, n)
                       /\ \A j \in i + 2..Len(t) : ~Takes(t[j].fun, name, n)
  <2> HAVE i # Undefined
  <2>1. i \in S /\ \A k \in S : k <= i
    BY <1>4
  <2>2. i \in 0..Len(t) - 1 /\ Takes(t[i + 1].fun, name, n)
    BY <2>1 DEF Indexes, At
  <2>3. ASSUME NEW j \in i + 2..Len(t), Takes(t[j].fun, name, n)  PROVE FALSE
    <3>1. j \in DOMAIN t
      BY <2>2
    <3>2. j - 1 <= i
      BY <1>5, <2>1, <2>3, <3>1
    <3> QED  BY <2>2, <3>2
  <2> QED  BY <2>2, <2>3
<1>7. i = Undefined => \A j \in DOMAIN t : ~Takes(t[j].fun, name, n)
  <2> HAVE i = Undefined
  <2>1. S = {}
    BY <1>2, <1>4 DEF Undefined
  <2> QED  BY <1>5, <2>1
<1> QED  BY <1>1, <1>6, <1>7

\* A later source adds what no search has found.
Adds(t, u) ==
    /\ Len(u) = Len(t) + 1
    /\ \A j \in DOMAIN t : u[j] = t[j]
    /\ getIdxFunctionObject(t, u[Len(u)].fun.name, Len(u[Len(u)].fun.params)) = Undefined

LEMMA AddedSearch ==
    ASSUME NEW t \in Seq(EntryType), NEW u \in Seq(EntryType), Adds(t, u)
    PROVE  /\ \A name, n : getIdxFunctionObject(t, name, n) # Undefined =>
                 getIdxFunctionObject(u, name, n) = getIdxFunctionObject(t, name, n)
           /\ \A name, kinds : FIND_FUNCTION(t, name, kinds) # Undefined =>
                 FIND_FUNCTION(u, name, kinds) = FIND_FUNCTION(t, name, kinds)
           /\ \A j \in DOMAIN t : \A n : SuperIndex(u, j - 1, n) = SuperIndex(t, j - 1, n)
           /\ \A call : getIdxFunctionObject(t, call.name, call.args) # Undefined =>
                            ThisIndex(u, call) = ThisIndex(t, call)
           /\ \A i \in 1..Len(t) : ~Takes(t[i].fun, u[Len(u)].fun.name, Len(u[Len(u)].fun.params))
<1>1. PICK f : f = u[Len(u)].fun
  OBVIOUS
<1>2. \A j \in DOMAIN t : ~Takes(t[j].fun, f.name, Len(f.params))
  BY <1>1, SearchFinds DEF Adds
<1>3. /\ Len(t) \in Nat /\ Len(u) = Len(t) + 1 /\ DOMAIN t = 1..Len(t)
      /\ Indexes(t) = 0..Len(t) - 1 /\ Indexes(u) = Indexes(t) \cup {Len(t)}
      /\ \A i \in Indexes(t) : At(u, i) = At(t, i) /\ i + 1 \in DOMAIN t
      /\ At(u, Len(t)).fun = f
  BY <1>1 DEF Adds, Indexes, At
<1>4. ASSUME NEW name, NEW n, \E i \in Indexes(t) : Takes(At(t, i).fun, name, n)
      PROVE  ~Takes(f, name, n)
  BY <1>2, <1>3, <1>4 DEF Takes, At
<1>5. ASSUME NEW name, NEW n, getIdxFunctionObject(t, name, n) # Undefined
      PROVE  getIdxFunctionObject(u, name, n) = getIdxFunctionObject(t, name, n)
  <2>1. \E i \in Indexes(t) : Takes(At(t, i).fun, name, n)
    BY <1>3, <1>5, SearchFinds DEF At
  <2>2. {i \in Indexes(u) : Takes(At(u, i).fun, name, n)} =
        {i \in Indexes(t) : Takes(At(t, i).fun, name, n)}
    BY <1>3, <1>4, <2>1
  <2> QED  BY <2>2 DEF getIdxFunctionObject
<1>6. ASSUME NEW name, NEW kinds, FIND_FUNCTION(t, name, kinds) # Undefined
      PROVE  FIND_FUNCTION(u, name, kinds) = FIND_FUNCTION(t, name, kinds)
  <2> DEFINE Good(g) == /\ Takes(g, name, Len(kinds))
                        /\ g.native => MatchArgs(g.params, kinds)
             S(v)    == {i \in Indexes(v) : Good(At(v, i).fun)}
  <2>1. S(t) # {}
    <3>1. S(t) = {} => Highest(S(t)) = Undefined
      BY DEF Highest
    <3> QED  BY <1>6, <3>1 DEF FIND_FUNCTION
  <2>2. ~Good(f)
    BY <1>4, <2>1
  <2>3. S(u) = S(t)
    <3> HIDE DEF Good
    <3> QED  BY <1>3, <2>2
  <2> QED  BY <2>3 DEF FIND_FUNCTION
<1>7. ASSUME NEW j \in DOMAIN t, NEW n
      PROVE  SuperIndex(u, j - 1, n) = SuperIndex(t, j - 1, n)
  <2>1. j - 1 \in Indexes(t) /\ \A i \in 0..j - 1 - 1 : i \in Indexes(t)
    BY <1>3
  <2>2. At(u, j - 1) = At(t, j - 1) /\ \A i \in 0..j - 1 - 1 : At(u, i) = At(t, i)
    BY <1>3, <2>1
  <2>3. {i \in 0..j - 1 - 1 : Takes(At(u, i).fun, At(u, j - 1).fun.name, n)} =
        {i \in 0..j - 1 - 1 : Takes(At(t, i).fun, At(t, j - 1).fun.name, n)}
    BY <2>2
  <2> QED  BY <2>3 DEF SuperIndex
<1>8. ASSUME NEW call, getIdxFunctionObject(t, call.name, call.args) # Undefined
      PROVE  ThisIndex(u, call) = ThisIndex(t, call)
  <2>1. PICK i : i = getIdxFunctionObject(t, call.name, call.args)
    OBVIOUS
  <2>2. i = getIdxFunctionObject(u, call.name, call.args)
    BY <1>5, <1>8, <2>1
  <2>3. i \in Indexes(t)
    BY <1>3, <1>8, <2>1, SearchFinds
  <2> QED  BY <1>3, <2>1, <2>2, <2>3 DEF ThisIndex
<1> QED  BY <1>1, <1>2, <1>3, <1>5, <1>6, <1>7, <1>8

-----------------------------------------------------------------------------
(* The tables and what inheritance means.                                   *)

\* A table that has just the functions of all levels.
IsExact(t, h) ==
    /\ Len(t) = Place(h, Len(h) + 1)
    /\ \A l \in DOMAIN h : \A k \in DOMAIN h[l] : t[Place(h, l) + k].fun = h[l][k]

LEMMA PlacesOf ==
    ASSUME NEW h \in Seq(Seq(Function))
    PROVE  /\ Len(h) \in Nat /\ DOMAIN h = 1..Len(h)
           /\ \A l \in 1..Len(h) + 1 : Place(h, l) \in Nat
           /\ \A l \in DOMAIN h : /\ h[l] \in Seq(Function) /\ Len(h[l]) \in Nat
                                  /\ DOMAIN h[l] = 1..Len(h[l])
                                  /\ Place(h, l + 1) = Place(h, l) + Len(h[l])
           /\ \A l \in DOMAIN h : \A m \in 1..Len(h) + 1 :
                 l < m => Place(h, l) + Len(h[l]) <= Place(h, m)
           /\ \A m \in 1..Len(h) + 1 : \A i \in 1..Place(h, m) :
                 \E l \in 1..m - 1 : \E k \in DOMAIN h[l] : i = Place(h, l) + k
<1>1. Len(h) \in Nat /\ DOMAIN h = 1..Len(h)
  OBVIOUS
<1>2. \A l \in DOMAIN h : h[l] \in Seq(Function) /\ Len(h[l]) \in Nat /\ DOMAIN h[l] = 1..Len(h[l])
  OBVIOUS
<1>3. /\ \A l \in 1..Len(h) + 1 : Place(h, l) \in Nat
      /\ \A l \in DOMAIN h : Place(h, l + 1) = Place(h, l) + Len(h[l])
  BY <1>1, FlattenPlaces
<1>4. \A l \in DOMAIN h : \A m \in 1..Len(h) + 1 : l < m => Place(h, l) + Len(h[l]) <= Place(h, m)
  BY <1>1, PlacesGrow
<1>5. \A m \in 1..Len(h) + 1 : \A i \in 1..Place(h, m) :
         \E l \in 1..m - 1 : \E k \in DOMAIN h[l] : i = Place(h, l) + k
  BY PlaceOfIndex
<1> QED  BY <1>1, <1>2, <1>3, <1>4, <1>5

NearestOf(h, below, wanted) ==
    LET level(l) == {k \in DOMAIN h[l] : h[l][k] \in wanted}
        levels == {l \in 1..below : level(l) # {}}
    IN  IF levels = {} THEN NoFunction ELSE h[Max(levels)][Max(level(Max(levels)))]

LEMMA MaxIs ==
    ASSUME NEW n \in Nat, NEW S, S \subseteq 1..n, S # {}
    PROVE  Max(S) \in S /\ \A i \in S : i <= Max(S)
<1>1. PICK m \in S : \A i \in S : i <= m
  BY GreatestOf
<1>2. \A i \in S : m >= i
  BY <1>1
<1>3. Max(S) \in S /\ \A i \in S : Max(S) >= i
  BY <1>2 DEF Max
<1> QED  BY <1>3

\* The highest entry for which a search looks, up to a level, is the nearest
\* function that inheritance means.
IsSearched(S, t, h, below, wanted) ==
    \A i : i \in S <=> i \in 0..Place(h, below + 1) - 1 /\ t[i + 1].fun \in wanted

LEMMA HighestIsNearest ==
    ASSUME NEW t \in Seq(EntryType), NEW h \in Seq(Seq(Function)), IsExact(t, h),
           NEW below \in 0..Len(h), NEW wanted, NEW S, IsSearched(S, t, h, below, wanted)
    PROVE  /\ S = {} => NearestOf(h, below, wanted) = NoFunction
           /\ S # {} => /\ Highest(S) \in S
                        /\ t[Highest(S) + 1].fun = NearestOf(h, below, wanted)
<1> DEFINE level(l) == {k \in DOMAIN h[l] : h[l][k] \in wanted}
           levels == {l \in 1..below : level(l) # {}}
<1>a. \A i : i \in S <=> i \in 0..Place(h, below + 1) - 1 /\ t[i + 1].fun \in wanted
  BY DEF IsSearched
<1>0. PICK N \in Nat : N = Len(h)
  OBVIOUS
<1>1. \A l \in 1..below : l \in DOMAIN h /\ l \in 1..N + 1 /\ l + 1 \in 1..N + 1
  BY <1>0
<1>2. below + 1 \in 1..Len(h) + 1 /\ Place(h, below + 1) \in Nat /\ below \in Nat
  BY <1>0, PlacesOf
<1>3. \A l \in 1..below : \A k \in level(l) :
         /\ Place(h, l) + k - 1 \in S
         /\ Place(h, l) + k \in 1..Place(h, below + 1)
  <2> TAKE l \in 1..below
  <2> TAKE k \in level(l)
  <2>1. /\ Place(h, l) \in Nat /\ k \in 1..Len(h[l]) /\ Len(h[l]) \in Nat
        /\ Place(h, l) + Len(h[l]) <= Place(h, below + 1)
    <3>1. l \in DOMAIN h /\ l \in 1..Len(h) + 1 /\ l < below + 1
      BY <1>0, <1>1, <1>2
    <3>2. Place(h, l) \in Nat /\ Len(h[l]) \in Nat /\ DOMAIN h[l] = 1..Len(h[l])
      BY <3>1, PlacesOf
    <3>3. Place(h, l) + Len(h[l]) <= Place(h, below + 1)
      BY <1>2, <3>1, PlacesOf
    <3> QED  BY <3>2, <3>3
  <2>2. Place(h, l) + k \in 1..Place(h, below + 1)
        /\ Place(h, l) + k - 1 \in 0..Place(h, below + 1) - 1
        /\ (Place(h, l) + k - 1) + 1 = Place(h, l) + k
    <3>1. PICK p \in Nat : p = Place(h, l)
      BY <2>1
    <3>2. PICK q \in Nat : q = Place(h, below + 1)
      BY <1>2
    <3>3. PICK n \in Nat : n = Len(h[l])
      BY <2>1
    <3>4. k \in 1..n /\ p + n <= q
      BY <2>1, <3>1, <3>2, <3>3
    <3>5. p + k \in 1..q /\ p + k - 1 \in 0..q - 1 /\ (p + k - 1) + 1 = p + k
      BY <3>4
    <3> QED  BY <3>1, <3>2, <3>5
  <2>3. t[Place(h, l) + k].fun \in wanted
    BY <1>1 DEF IsExact
  <2> QED  BY <1>a, <2>2, <2>3
<1>4. \A i \in S : \E l \in levels : \E k \in level(l) : i = Place(h, l) + k - 1
  <2> TAKE i \in S
  <2>1. i \in 0..Place(h, below + 1) - 1 /\ t[i + 1].fun \in wanted
    BY <1>a
  <2>2. i + 1 \in 1..Place(h, below + 1)
    BY <1>2, <2>1
  <2>3. PICK l \in 1..below : \E k \in DOMAIN h[l] : i + 1 = Place(h, l) + k
    <3>1. PICK m \in 1..Len(h) + 1 : m = below + 1
      BY <1>2
    <3>2. m - 1 = below
      BY <1>2, <3>1
    <3>3. i + 1 \in 1..Place(h, m)
      BY <2>2, <3>1
    <3>4. \E l \in 1..m - 1 : \E k \in DOMAIN h[l] : i + 1 = Place(h, l) + k
      BY <3>3, PlacesOf
    <3> QED  BY <3>2, <3>4
  <2>4. PICK k \in DOMAIN h[l] : i + 1 = Place(h, l) + k
    BY <2>3
  <2>5. h[l][k] \in wanted
    BY <1>1, <2>1, <2>4 DEF IsExact
  <2>6. k \in level(l) /\ l \in levels
    BY <2>5
  <2>7. i = Place(h, l) + k - 1
    <3>1. Place(h, l) \in Nat /\ k \in Nat
      <4>1. l \in DOMAIN h /\ l \in 1..Len(h) + 1
        BY <1>0, <1>1
      <4>2. DOMAIN h[l] = 1..Len(h[l]) /\ Place(h, l) \in Nat
        BY <4>1, PlacesOf
      <4> QED  BY <4>2
    <3>2. i \in Int
      BY <1>2, <2>1
    <3>3. PICK p \in Nat : p = Place(h, l)
      BY <3>1
    <3>4. i + 1 = p + k /\ k \in Nat
      BY <2>4, <3>1, <3>3
    <3>5. i = p + k - 1
      BY <3>2, <3>4
    <3> QED  BY <3>3, <3>5
  <2> QED  BY <2>6, <2>7
<1>5. CASE S = {}
  <2>1. levels = {}
    BY <1>3, <1>5
  <2> QED  BY <1>5, <2>1 DEF NearestOf
<1>6. CASE S # {}
  <2>1. Highest(S) \in S /\ \A i \in S : i <= Highest(S)
    <3>1. S \subseteq 0..Place(h, below + 1) - 1
      BY <1>a
    <3> QED  BY <1>2, <1>6, <3>1, HighestIs
  <2>2. levels # {} /\ levels \subseteq 1..below
    BY <1>4, <1>6
  <2>3. PICK L : L = Max(levels)
    OBVIOUS
  <2>4. L \in levels /\ \A l \in levels : l <= L
    <3> HIDE DEF levels, level
    <3> QED  BY <1>2, <2>2, <2>3, MaxIs
  <2>5. L \in 1..below /\ level(L) # {} /\ Len(h[L]) \in Nat /\ level(L) \subseteq 1..Len(h[L])
    BY <1>1, <2>4, PlacesOf
  <2>6. PICK K : K = Max(level(L))
    OBVIOUS
  <2>7. K \in level(L) /\ \A k \in level(L) : k <= K
    <3> HIDE DEF levels, level
    <3> QED  BY <2>5, <2>6, MaxIs
  <2>8. NearestOf(h, below, wanted) = h[L][K]
    BY <2>2, <2>3, <2>6 DEF NearestOf
  <2>9. Place(h, L) + K - 1 \in S
    BY <1>3, <2>5, <2>7
  <2>10a. PICK l \in levels : \E k \in level(l) : Highest(S) = Place(h, l) + k - 1
    BY <1>4, <2>1
  <2>10. PICK k \in level(l) : Highest(S) = Place(h, l) + k - 1
    BY <2>10a
  <2>11. /\ l \in 1..below /\ k \in 1..Len(h[l]) /\ k \in Nat /\ Place(h, l) \in Nat
         /\ K \in 1..Len(h[L]) /\ K \in Nat /\ Place(h, L) \in Nat
         /\ l \in DOMAIN h /\ L \in DOMAIN h /\ l \in 1..Len(h) + 1 /\ L \in 1..Len(h) + 1
         /\ Len(h[l]) \in Nat /\ Len(h[L]) \in Nat
    <3>1. l \in 1..below /\ l \in DOMAIN h /\ L \in DOMAIN h /\ l \in 1..Len(h) + 1 /\ L \in 1..Len(h) + 1
      BY <1>0, <1>1, <2>5, <2>10
    <3>2. /\ Place(h, l) \in Nat /\ Place(h, L) \in Nat /\ Len(h[l]) \in Nat /\ Len(h[L]) \in Nat
          /\ DOMAIN h[l] = 1..Len(h[l]) /\ DOMAIN h[L] = 1..Len(h[L])
      BY <3>1, PlacesOf
    <3>3. k \in DOMAIN h[l] /\ K \in DOMAIN h[L]
      BY <2>7, <2>10
    <3>4. k \in 1..Len(h[l]) /\ K \in 1..Len(h[L])
      BY <3>2, <3>3
    <3>5. k \in Nat /\ K \in Nat
      BY <3>4
    <3> HIDE DEF level, levels
    <3> QED  BY <3>1, <3>2, <3>4, <3>5
  <2>12. Place(h, L) + K - 1 <= Place(h, l) + k - 1
    BY <2>1, <2>9, <2>10
  <2>13. l <= L
    BY <2>4, <2>10
  <2>14. l = L
    <3>1. CASE l < L
      <4>1. Place(h, l) + Len(h[l]) <= Place(h, L)
        BY <2>11, <3>1, PlacesOf
      <4>2. PICK a \in Nat, b \in Nat, n \in Nat :
               a = Place(h, l) /\ b = Place(h, L) /\ n = Len(h[l])
        BY <2>11
      <4>3. a + n <= b /\ k <= n /\ b + K - 1 <= a + k - 1 /\ k \in Nat /\ K \in Nat /\ K >= 1
        BY <2>11, <2>12, <4>1, <4>2
      <4> QED  BY <4>3
    <3> QED  BY <2>11, <2>13, <3>1
  <2>15. k <= K
    BY <2>7, <2>10, <2>14
  <2>16. k = K
    BY <2>11, <2>12, <2>14, <2>15
  <2>17. Highest(S) + 1 = Place(h, L) + K
    BY <2>10, <2>11, <2>14, <2>16
  <2>18. t[Place(h, L) + K].fun = h[L][K]
    BY <2>7, <2>11 DEF IsExact
  <2> QED  BY <1>6, <2>1, <2>8, <2>17, <2>18
<1> QED  BY <1>5, <1>6

-----------------------------------------------------------------------------
(* Steps that declare.                                                      *)

LEMMA EntryTyped ==
    ASSUME NEW fun \in Function, NEW operator \in BOOLEAN
    PROVE  /\ Entry(fun, operator) \in EntryType
           /\ Entry(fun, operator).fun = fun /\ ~Entry(fun, operator).linked
           /\ Entry(fun, operator).operator = operator
BY DEF Entry, EntryType, Undefined

LEMMA MapIsSequence ==
    ASSUME NEW T, NEW n \in Nat, NEW f \in [1..n -> T]
    PROVE  f \in Seq(T) /\ Len(f) = n /\ DOMAIN f = 1..n
<1>1. f \in Seq(T) /\ DOMAIN f = 1..n
  OBVIOUS
<1>2. Len(f) \in Nat /\ 1..Len(f) = 1..n
  BY <1>1
<1>3. CASE Len(f) < n
  <2>1. n \in 1..n /\ n \notin 1..Len(f)
    BY <1>2, <1>3
  <2> QED  BY <1>2, <2>1
<1>4. CASE n < Len(f)
  <2>1. Len(f) \in 1..Len(f) /\ Len(f) \notin 1..n
    BY <1>2, <1>4
  <2> QED  BY <1>2, <2>1
<1> QED  BY <1>1, <1>2, <1>3, <1>4

LEMMA RegisteredIs ==
    ASSUME NEW funs \in Seq(Function)
    PROVE  /\ Registered(funs) \in Seq(EntryType) /\ Len(Registered(funs)) = Len(funs)
           /\ \A k \in DOMAIN funs : /\ Registered(funs)[k].fun = funs[k]
                                     /\ ~Registered(funs)[k].linked /\ Registered(funs)[k].operator
<1>1. DOMAIN funs = 1..Len(funs) /\ Len(funs) \in Nat
  OBVIOUS
<1>2. PICK t : t = Registered(funs)
  OBVIOUS
<1>3. ASSUME NEW k \in DOMAIN funs
      PROVE  t[k] \in EntryType /\ t[k].fun = funs[k] /\ ~t[k].linked /\ t[k].operator
  <2>1. t[k] = Entry(funs[k], TRUE)
    BY <1>2 DEF Registered
  <2>2. funs[k] \in Function
    OBVIOUS
  <2> QED  BY <2>1, <2>2, EntryTyped
<1>4. t \in [1..Len(funs) -> EntryType]
  BY <1>1, <1>2, <1>3 DEF Registered
<1>5. t \in Seq(EntryType) /\ Len(t) = Len(funs)
  BY <1>1, <1>4, MapIsSequence
<1> QED  BY <1>2, <1>3, <1>5

\* The table of a class of C++ has its own functions.
LEMMA NativeTable ==
    ASSUME ClassesSound, NEW d \in Class, IsNative(d)
    PROVE  /\ own[d] \in Seq(Function)
           /\ table[d] \in Seq(EntryType) /\ Len(table[d]) = Len(own[d])
           /\ \A k \in DOMAIN own[d] : table[d][k].fun = own[d][k]
<1>1. ClassSound(d)
  BY DEF ClassesSound
<1>2. PICK h : h = heritage[d]
  OBVIOUS
<1>3. h \in Seq(Seq(Function)) /\ Len(h) = 1 /\ own[d] = h[1] /\ 1 \in DOMAIN h
  <2>1. Len(ancestors[d]) = 1 /\ Exists(d)
    BY <1>1 DEF ClassSound, IsNative, Exists
  <2> QED  BY <1>1, <1>2, <2>1 DEF ClassSound
<1>4. Place(h, 1) = 0 /\ Place(h, 2) = Len(h[1])
  <2>1. Place(h, 1) = 0
    BY <1>3, FlattenPlaces
  <2>2. Place(h, 1 + 1) = Place(h, 1) + Len(h[1]) /\ Len(h[1]) \in Nat
    BY <1>3, PlacesOf
  <2> QED  BY <2>1, <2>2
<1>5. table[d] \in Seq(EntryType) /\ Follows(table[d], h)
  BY <1>1, <1>2 DEF ClassSound
<1>6. Len(table[d]) = Len(h[1])
  BY <1>3, <1>4, <1>5 DEF Follows
<1>7. \A k \in DOMAIN h[1] : table[d][k].fun = h[1][k]
  <2> TAKE k \in DOMAIN h[1]
  <2>1. StandsFor(table[d][Place(h, 1) + k].fun, h, 1, k)
    BY <1>3, <1>5 DEF Follows
  <2>2. Place(h, 1) + k = k
    <3>1. k \in Nat
      BY <1>3
    <3> QED  BY <1>4, <3>1
  <2>3. StandsFor(table[d][k].fun, h, 1, k)
    BY <2>1, <2>2
  <2> QED  BY <1>3, <2>3 DEF StandsFor
<1>8. own[d] \in Seq(Function)
  BY <1>3
<1>9. Len(table[d]) = Len(own[d])
  BY <1>3, <1>6
<1>10. \A k \in DOMAIN own[d] : table[d][k].fun = own[d][k]
  BY <1>3, <1>7
<1> QED  BY <1>5, <1>8, <1>9, <1>10

\* What a class inherits from an ancestor.
LEMMA InheritedIs ==
    ASSUME ClassesSound, NEW d \in Class, Exists(d)
    PROVE  /\ own[d] \in Seq(Function) /\ OfOneKind(own[d])
           /\ Inherited(d) \in Seq(EntryType) /\ Len(Inherited(d)) = Len(own[d])
           /\ \A k \in DOMAIN own[d] :
                 /\ ~Inherited(d)[k].linked /\ Inherited(d)[k].operator
                 /\ IF own[d][k].native
                    THEN IsLastNamed(Inherited(d)[k].fun, own[d], own[d][k].name)
                    ELSE Inherited(d)[k].fun = own[d][k]
<1>1. OfOneKind(own[d]) /\ own[d] \in Seq(Function)
  <2>1. ClassSound(d)
    BY DEF ClassesSound
  <2>2. Len(heritage[d]) \in DOMAIN heritage[d]
    BY <2>1 DEF ClassSound, Exists
  <2> QED  BY <2>1, <2>2 DEF ClassSound, OfOneKind
<1>2. DOMAIN own[d] = 1..Len(own[d]) /\ Len(own[d]) \in Nat
  BY <1>1
<1>3. PICK s : s = Inherited(d)
  OBVIOUS
<1>4. ASSUME NEW k \in DOMAIN own[d]
      PROVE  /\ s[k] \in EntryType /\ ~s[k].linked /\ s[k].operator
             /\ IF own[d][k].native THEN IsLastNamed(s[k].fun, own[d], own[d][k].name)
                ELSE s[k].fun = own[d][k]
  <2>1. own[d][k] \in Function
    BY <1>1
  <2>2. CASE ~own[d][k].native
    <3>1. s[k] = Entry(own[d][k], TRUE)
      BY <1>3, <2>2 DEF Inherited
    <3> QED  BY <2>1, <2>2, <3>1, EntryTyped
  <2>3. CASE own[d][k].native
    <3>1. PICK name : name = own[d][k].name
      OBVIOUS
    <3>2. PICK f : f = LastNamed(table[d], name)
      OBVIOUS
    <3>3. s[k] = Entry(f, TRUE)
      BY <1>3, <2>3, <3>1, <3>2 DEF Inherited
    <3>4. IsNative(d)
      <4>1. 1 \in DOMAIN own[d] /\ own[d] # <<>> /\ Head(own[d]) = own[d][1]
        BY <1>1, <1>2
      <4>2. own[d][1].native
        BY <1>1, <2>3, <4>1 DEF OfOneKind
      <4> QED  BY <4>1, <4>2 DEF IsNative
    <3>5. /\ table[d] \in Seq(EntryType) /\ Len(table[d]) = Len(own[d])
          /\ \A j \in DOMAIN own[d] : table[d][j].fun = own[d][j]
      BY <3>4, NativeTable
    <3> DEFINE S == {i \in Indexes(table[d]) : At(table[d], i).fun.name = name}
    <3>6. S \subseteq 0..Len(own[d]) - 1
      BY <3>5 DEF Indexes
    <3>7. \A i \in 0..Len(own[d]) - 1 : i \in S <=> own[d][i + 1].name = name
      <4> TAKE i \in 0..Len(own[d]) - 1
      <4>1. i + 1 \in DOMAIN own[d]
        BY <1>2
      <4> QED  BY <3>5, <4>1 DEF Indexes, At
    <3>8. k - 1 \in S
      <4>1. k - 1 \in 0..Len(own[d]) - 1 /\ (k - 1) + 1 = k
        BY <1>2
      <4> QED  BY <3>1, <3>7, <4>1
    <3>9. Highest(S) \in S /\ \A i \in S : i <= Highest(S)
      <4> HIDE DEF S
      <4> QED  BY <1>2, <3>6, <3>8, HighestIs
    <3>10. PICK m : m = Highest(S) + 1
      OBVIOUS
    <3>11. m \in DOMAIN own[d] /\ own[d][m].name = name
      <4>1. Highest(S) \in 0..Len(own[d]) - 1
        BY <3>6, <3>9
      <4> HIDE DEF S
      <4> QED  BY <1>2, <3>7, <3>9, <3>10, <4>1
    <3>12. f = own[d][m]
      <4>1. f = At(table[d], Highest(S)).fun
        BY <3>2 DEF LastNamed
      <4> QED  BY <3>5, <3>10, <3>11, <4>1 DEF At
    <3>13. \A j \in DOMAIN own[d] : own[d][j].name = name => j <= m
      <4> TAKE j \in DOMAIN own[d]
      <4> HAVE own[d][j].name = name
      <4>1. j - 1 \in 0..Len(own[d]) - 1 /\ (j - 1) + 1 = j /\ j \in Int
        BY <1>2
      <4>2. j - 1 \in S
        BY <3>7, <4>1
      <4>3. j - 1 <= Highest(S) /\ Highest(S) \in 0..Len(own[d]) - 1
        BY <3>6, <3>9, <4>2
      <4> HIDE DEF S
      <4> QED  BY <1>2, <3>10, <4>1, <4>3
    <3>14. IsLastNamed(f, own[d], name)
      BY <3>11, <3>12, <3>13 DEF IsLastNamed
    <3>15. f \in Function
      BY <1>1, <3>11, <3>12
    <3> QED  BY <2>3, <3>1, <3>3, <3>14, <3>15, EntryTyped
  <2> QED  BY <2>2, <2>3
<1>5. s \in [1..Len(own[d]) -> EntryType]
  BY <1>2, <1>3, <1>4 DEF Inherited
<1>6. s \in Seq(EntryType) /\ Len(s) = Len(own[d])
  BY <1>2, <1>5, MapIsSequence
<1> QED  BY <1>1, <1>3, <1>4, <1>6

-----------------------------------------------------------------------------
(* The table of a class when it is declared.                                *)

\* Nothing in it is linked, and all of it is in metamethod_operator.
IsFresh(t) == \A j \in DOMAIN t : ~t[j].linked /\ t[j].operator

LEMMA FreshIsSound ==
    ASSUME NEW t \in Seq(EntryType), IsFresh(t), Links(t)
    PROVE  TableSound(t)
BY DEF IsFresh, TableSound, EntrySound

LEMMA RegisteredFollows ==
    ASSUME NEW funs \in Seq(Function)
    PROVE  /\ Registered(funs) \in Seq(EntryType)
           /\ IsFresh(Registered(funs))
           /\ <<funs>> \in Seq(Seq(Function))
           /\ Follows(Registered(funs), <<funs>>)
<1>1. PICK t : t = Registered(funs)
  OBVIOUS
<1>2. /\ t \in Seq(EntryType) /\ Len(t) = Len(funs)
      /\ \A k \in DOMAIN funs : t[k].fun = funs[k] /\ ~t[k].linked /\ t[k].operator
  BY <1>1, RegisteredIs
<1>3. PICK h : h = <<funs>>
  OBVIOUS
<1>4. h \in Seq(Seq(Function)) /\ Len(h) = 1 /\ DOMAIN h = {1} /\ h[1] = funs
  BY <1>3
<1>5. DOMAIN t = DOMAIN funs /\ DOMAIN funs = 1..Len(funs) /\ Len(funs) \in Nat
  BY <1>2
<1>6. Place(h, 1) = 0 /\ Place(h, 2) = Len(funs)
  <2>1. Place(h, 1) = 0
    BY <1>4, FlattenPlaces
  <2>2. Place(h, 1 + 1) = Place(h, 1) + Len(h[1])
    BY <1>4, PlacesOf
  <2> QED  BY <1>4, <1>5, <2>1, <2>2
<1>7. \A k \in DOMAIN h[1] : StandsFor(t[Place(h, 1) + k].fun, h, 1, k)
  <2> TAKE k \in DOMAIN h[1]
  <2>1. k \in DOMAIN funs /\ Place(h, 1) + k = k
    BY <1>4, <1>5, <1>6
  <2>2. t[Place(h, 1) + k].fun = h[1][k]
    BY <1>2, <1>4, <2>1
  <2>3. ~(1 < Len(h))
    BY <1>4
  <2> QED  BY <2>2, <2>3 DEF StandsFor
<1>8. Follows(t, h)
  BY <1>2, <1>4, <1>6, <1>7 DEF Follows
<1>9. IsFresh(t)
  BY <1>2, <1>5 DEF IsFresh
<1> QED  BY <1>1, <1>2, <1>3, <1>4, <1>8, <1>9

\* A C++ function calls nothing.
LEMMA NativesLink ==
    ASSUME NEW funs \in Seq(Function), \A k \in DOMAIN funs : IsOfC(funs[k])
    PROVE  Links(Registered(funs)) /\ OfOneKind(funs)
<1>1. OfOneKind(funs)
  BY DEF OfOneKind, IsOfC
<1>2. PICK t : t = Registered(funs)
  OBVIOUS
<1>3. /\ t \in Seq(EntryType) /\ Len(t) = Len(funs)
      /\ \A k \in DOMAIN funs : t[k].fun = funs[k]
  BY <1>2, RegisteredIs
<1>4. \A j \in DOMAIN t : t[j].fun.this = NoCall /\ t[j].fun.super = NoSuper
  BY <1>3 DEF IsOfC
<1>5. Links(t)
  BY <1>4 DEF Links
<1> QED  BY <1>1, <1>2, <1>5

\* What gacClass puts into the table and what the class inherits.
InheritedLine(line) == FlattenSeq([l \in DOMAIN line |-> Inherited(line[l])])
OwnLine(line)       == [l \in DOMAIN line |-> own[line[l]]]

LEMMA DeclaredTable ==
    ASSUME ClassesSound, NEW line \in Seq(Class), \A l \in DOMAIN line : Exists(line[l]),
           NEW funs \in Seq(Function), OfOneKind(funs),
           NEW t, t = InheritedLine(line) \o Registered(funs),
           NEW h, h = Append(OwnLine(line), funs)
    PROVE  /\ t \in Seq(EntryType) /\ IsFresh(t)
           /\ h \in Seq(Seq(Function)) /\ Len(h) = Len(line) + 1 /\ h[Len(h)] = funs
           /\ \A l \in DOMAIN h : OfOneKind(h[l])
           /\ Follows(t, h)
<1>1. PICK n \in Nat : n = Len(line) /\ DOMAIN line = 1..n
  OBVIOUS
<1>2. PICK ss : ss = [l \in 1..n |-> Inherited(line[l])]
  OBVIOUS
<1>3. PICK pp : pp = [l \in 1..n |-> own[line[l]]]
  OBVIOUS
<1>4. ASSUME NEW l \in 1..n
      PROVE  /\ pp[l] \in Seq(Function) /\ OfOneKind(pp[l])
             /\ ss[l] \in Seq(EntryType) /\ Len(ss[l]) = Len(pp[l])
             /\ \A k \in DOMAIN pp[l] :
                   /\ ~ss[l][k].linked /\ ss[l][k].operator
                   /\ IF pp[l][k].native THEN IsLastNamed(ss[l][k].fun, pp[l], pp[l][k].name)
                      ELSE ss[l][k].fun = pp[l][k]
  <2>1. PICK d \in Class : d = line[l] /\ Exists(d)
    BY <1>1
  <2>2. pp[l] = own[d] /\ ss[l] = Inherited(d)
    BY <1>2, <1>3, <2>1
  <2> QED  BY <2>1, <2>2, InheritedIs
<1>5. ss \in [1..n -> Seq(EntryType)] /\ pp \in [1..n -> Seq(Function)]
  BY <1>2, <1>3, <1>4
<1>6. /\ ss \in Seq(Seq(EntryType)) /\ Len(ss) = n
      /\ pp \in Seq(Seq(Function)) /\ Len(pp) = n
  BY <1>5, MapIsSequence
<1>7. h = Append(pp, funs)
  BY <1>1, <1>3 DEF OwnLine
<1>8. /\ h \in Seq(Seq(Function)) /\ Len(h) = n + 1 /\ DOMAIN h = 1..n + 1
      /\ h[n + 1] = funs
      /\ \A l \in 1..n : h[l] = pp[l]
  <2>1. PICK s \in Seq(Seq(Function)) : s = pp
    BY <1>6
  <2> QED  BY <1>6, <1>7, <2>1
<1>9. PICK u : u = FlattenSeq(ss)
  OBVIOUS
<1>10. PICK r : r = Registered(funs)
  OBVIOUS
<1>11. t = u \o r
  BY <1>1, <1>2, <1>9, <1>10 DEF InheritedLine
<1>12. /\ r \in Seq(EntryType) /\ Len(r) = Len(funs)
       /\ \A k \in DOMAIN funs : r[k].fun = funs[k] /\ ~r[k].linked /\ r[k].operator
  BY <1>10, RegisteredIs
<1>13. u \in Seq(EntryType) /\ Place(ss, n + 1) = Len(u)
  BY <1>6, <1>9, FlattenPlaces
<1>14. \A l \in 1..n + 1 : Place(ss, l) = Place(h, l)
  <2>1. \A l \in 1..n : Len(ss[l]) = Len(h[l])
    BY <1>4, <1>8
  <2>2. n <= Len(ss) /\ n <= Len(h)
    BY <1>6, <1>8
  <2> QED  BY <1>6, <1>8, <2>1, <2>2, PlacesAgree
<1>15. Place(h, n + 1) = Len(u) /\ Place(h, (n + 1) + 1) = Len(u) + Len(funs)
  <2>1. n + 1 \in 1..n + 1 /\ n + 1 \in DOMAIN h
    BY <1>8
  <2>2. Place(h, (n + 1) + 1) = Place(h, n + 1) + Len(h[n + 1])
    BY <1>8, <2>1, PlacesOf
  <2> QED  BY <1>8, <1>13, <1>14, <2>1, <2>2
<1>16. t \in Seq(EntryType) /\ Len(t) = Len(u) + Len(r)
       /\ (\A j \in DOMAIN u : t[j] = u[j])
       /\ (\A k \in DOMAIN r : t[Len(u) + k] = r[k])
  <2>1. u \in Seq(EntryType) /\ r \in Seq(EntryType)
    BY <1>12, <1>13
  <2> HIDE DEF EntryType
  <2>2. u \o r \in Seq(EntryType) /\ Len(u \o r) = Len(u) + Len(r)
    BY <2>1
  <2>3. \A j \in DOMAIN u : (u \o r)[j] = u[j]
    BY <2>1
  <2>4. \A k \in DOMAIN r : (u \o r)[Len(u) + k] = r[k]
    BY <2>1
  <2> QED  BY <1>11, <2>2, <2>3, <2>4
<1>17. Len(t) = Place(h, Len(h) + 1)
  BY <1>8, <1>12, <1>15, <1>16
<1>18. ASSUME NEW l \in 1..n, NEW k \in DOMAIN h[l]
       PROVE  t[Place(h, l) + k] = ss[l][k]
  <2>1. k \in DOMAIN ss[l]
    <3>1. ss[l] \in Seq(EntryType) /\ h[l] \in Seq(Function) /\ Len(ss[l]) = Len(h[l])
      BY <1>4, <1>8
    <3>2. PICK a \in Seq(EntryType) : a = ss[l]
      BY <3>1
    <3>3. PICK b \in Seq(Function) : b = h[l]
      BY <3>1
    <3>4. DOMAIN a = 1..Len(a) /\ DOMAIN b = 1..Len(b)
      OBVIOUS
    <3> QED  BY <3>1, <3>2, <3>3, <3>4
  <2>2. Place(ss, l) + k \in DOMAIN u /\ u[Place(ss, l) + k] = ss[l][k]
    <3>1. ss \in Seq(Seq(EntryType)) /\ l \in 1..Len(ss)
      BY <1>6
    <3> HIDE DEF EntryType
    <3> QED  BY <1>9, <2>1, <3>1, FlattenHas
  <2>3. Place(ss, l) = Place(h, l)
    BY <1>14
  <2> QED  BY <1>16, <2>2, <2>3
<1>19. ASSUME NEW l \in DOMAIN h, NEW k \in DOMAIN h[l]
       PROVE  StandsFor(t[Place(h, l) + k].fun, h, l, k)
  <2>1. CASE l \in 1..n
    <3>1. t[Place(h, l) + k] = ss[l][k]
      BY <1>18, <2>1
    <3>2. h[l] = pp[l] /\ l < Len(h)
      BY <1>8, <2>1
    <3>3. IF h[l][k].native THEN IsLastNamed(ss[l][k].fun, h[l], h[l][k].name)
          ELSE ss[l][k].fun = h[l][k]
      BY <1>4, <2>1, <3>2
    <3> QED  BY <3>1, <3>2, <3>3 DEF StandsFor
  <2>2. CASE l = n + 1
    <3>1. k \in DOMAIN funs /\ k \in DOMAIN r
      BY <1>8, <1>12, <2>2
    <3>2. t[Place(h, l) + k].fun = h[l][k]
      <4>1. Place(h, l) = Len(u) /\ h[l][k] = funs[k]
        BY <1>8, <1>15, <2>2
      <4>2. t[Len(u) + k] = r[k] /\ r[k].fun = funs[k]
        BY <1>12, <1>16, <3>1
      <4> QED  BY <4>1, <4>2
    <3>3. ~(l < Len(h))
      BY <1>8, <2>2
    <3> QED  BY <3>2, <3>3 DEF StandsFor
  <2>3. l \in 1..n \/ l = n + 1
    BY <1>8
  <2> QED  BY <2>1, <2>2, <2>3
<1>20. Follows(t, h)
  BY <1>17, <1>19 DEF Follows
<1>21. IsFresh(t)
  <2> SUFFICES ASSUME NEW j \in DOMAIN t  PROVE ~t[j].linked /\ t[j].operator
    BY DEF IsFresh
  <2>1. j \in 1..Len(u) + Len(r) /\ Len(u) \in Nat /\ Len(r) \in Nat
    BY <1>12, <1>13, <1>16
  <2>2. CASE j \in 1..Len(u)
    <3>1. n + 1 \in 1..Len(ss) + 1 /\ j \in 1..Place(ss, n + 1)
      BY <1>6, <1>13, <2>2
    <3>2. \E l \in 1..(n + 1) - 1 : \E k \in DOMAIN ss[l] : j = Place(ss, l) + k
      BY <1>6, <3>1, PlaceOfIndex
    <3>3. PICK l \in 1..n : \E k \in DOMAIN ss[l] : j = Place(ss, l) + k
      BY <3>2
    <3>4. PICK k \in DOMAIN ss[l] : j = Place(ss, l) + k
      BY <3>3
    <3>5. t[j] = ss[l][k]
      <4>1. l \in 1..Len(ss) /\ k \in DOMAIN ss[l]
        BY <1>6, <3>4
      <4>2. u[Place(ss, l) + k] = ss[l][k] /\ Place(ss, l) + k \in DOMAIN u
        BY <1>6, <1>9, <4>1, FlattenHas
      <4> QED  BY <1>16, <3>4, <4>2
    <3>6. k \in DOMAIN pp[l]
      <4>1. ss[l] \in Seq(EntryType) /\ pp[l] \in Seq(Function) /\ Len(ss[l]) = Len(pp[l])
        BY <1>4
      <4> QED  BY <4>1
    <3> QED  BY <1>4, <3>5, <3>6
  <2>3. CASE j \notin 1..Len(u)
    <3>1. PICK k : k = j - Len(u)
      OBVIOUS
    <3>2. k \in 1..Len(r) /\ j = Len(u) + k
      BY <2>1, <2>3, <3>1
    <3>3. k \in DOMAIN r /\ k \in DOMAIN funs
      BY <1>12, <3>2
    <3> QED  BY <1>12, <1>16, <3>2, <3>3
  <2> QED  BY <2>2, <2>3
<1>22. \A l \in DOMAIN h : OfOneKind(h[l])
  BY <1>4, <1>8
<1> QED  BY <1>1, <1>8, <1>16, <1>20, <1>21, <1>22

-----------------------------------------------------------------------------
(* The invariant, part by part: what follows from a step of each kind.      *)

\* What a class keeps when another one is declared or extended.
Keeps(c) ==
    /\ ancestors'[c] = ancestors[c] /\ own'[c] = own[c]
    /\ heritage'[c] = heritage[c] /\ table'[c] = table[c]

LEMMA KeptClass ==
    ASSUME NEW c \in Class, Keeps(c), ClassSound(c),
           \A d \in Class : Exists(d) => Exists(d)'
    PROVE  ClassSound(c)'
<1>1. PICK line : line = ancestors[c]
  OBVIOUS
<1>2. line = ancestors'[c]
  BY <1>1 DEF Keeps
<1>3. line \in Seq(Class) /\ \A l \in DOMAIN line : Exists(line[l])
  BY <1>1 DEF ClassSound
<1>4. \A l \in DOMAIN line : ancestors'[line[l]] # <<>>
  <2> TAKE l \in DOMAIN line
  <2>1. PICK d \in Class : d = line[l]
    BY <1>3
  <2>2. Exists(d)
    BY <1>3, <2>1
  <2> QED  BY <2>1, <2>2 DEF Exists
<1>5. (ancestors[c] # <<>>) <=> (ancestors'[c] # <<>>)
  BY DEF Keeps
<1> QED  BY <1>1, <1>2, <1>3, <1>4, <1>5 DEF ClassSound, Keeps, Exists, IsNative

LEMMA DeclaresKeeps ==
    ASSUME Typed, ClassesSound, TablesSound, TablesLinked,
           NEW c \in Class, NEW line \in Seq(Class), \A l \in DOMAIN line : Exists(line[l]),
           NEW funs \in Seq(Function), OfOneKind(funs),
           (funs # <<>> /\ Head(funs).native) => line = <<>>,
           NEW t \in Seq(EntryType), IsFresh(t), Links(t),
           NEW h \in Seq(Seq(Function)), h = Append(OwnLine(line), funs),
           Len(h) = Len(line) + 1, h[Len(h)] = funs, \A l \in DOMAIN h : OfOneKind(h[l]),
           Follows(t, h),
           Declares(c, line, funs, t)
    PROVE  /\ Typed' /\ ClassesSound' /\ TablesSound' /\ TablesLinked'
           /\ \A d \in Class : Exists(d) => Keeps(d) /\ Exists(d)'
<1>1. ~Exists(c) /\ linked' = FALSE
  BY DEF Declares
<1>2. PICK a \in Seq(Class) : a = Append(line, c)
  <2>1. Append(line, c) \in Seq(Class)
    OBVIOUS
  <2> QED  BY <2>1
<1>3. /\ ancestors' = [ancestors EXCEPT ![c] = a]
      /\ own' = [own EXCEPT ![c] = funs]
      /\ table' = [table EXCEPT ![c] = t]
      /\ heritage' = [heritage EXCEPT ![c] = h]
  BY <1>2 DEF Declares, OwnLine
<1>4. /\ ancestors'[c] = a /\ own'[c] = funs /\ table'[c] = t /\ heritage'[c] = h
      /\ ancestors' \in [Class -> Seq(Class)] /\ own' \in [Class -> Seq(Function)]
      /\ table' \in [Class -> Seq(EntryType)] /\ heritage' \in [Class -> Seq(Seq(Function))]
  <2>1. ancestors' \in [Class -> Seq(Class)] /\ ancestors'[c] = a
    BY <1>3 DEF Typed
  <2>2. own' \in [Class -> Seq(Function)] /\ own'[c] = funs
    BY <1>3 DEF Typed
  <2>3. table' \in [Class -> Seq(EntryType)] /\ table'[c] = t
    BY <1>3 DEF Typed
  <2>4. heritage' \in [Class -> Seq(Seq(Function))] /\ heritage'[c] = h
    BY <1>3 DEF Typed
  <2> QED  BY <2>1, <2>2, <2>3, <2>4
<1>5. ASSUME NEW d \in Class, d # c  PROVE Keeps(d)
  BY <1>3, <1>5 DEF Keeps, Typed
<1>6. Len(a) = Len(line) + 1 /\ a # <<>> /\ Len(line) \in Nat
      /\ \A l \in DOMAIN a : a[l] = c \/ \E m \in DOMAIN line : a[l] = line[m]
  <2>1. Len(a) = Len(line) + 1 /\ Len(line) \in Nat
    BY <1>2
  <2>2. ASSUME NEW l \in DOMAIN a  PROVE a[l] = c \/ \E m \in DOMAIN line : a[l] = line[m]
    <3>1. l \in DOMAIN line \/ l = Len(line) + 1
      BY <2>1
    <3> QED  BY <1>2, <3>1
  <2> QED  BY <2>1, <2>2
<1>7. ASSUME NEW d \in Class, Exists(d)  PROVE d # c /\ Keeps(d) /\ Exists(d)'
  <2>1. d # c
    BY <1>1, <1>7
  <2>2. Keeps(d)
    BY <1>5, <2>1
  <2> QED  BY <1>7, <2>1, <2>2 DEF Exists, Keeps
<1>8. ClassSound(c)'
  <2>1. \A l \in DOMAIN a : ancestors'[a[l]] # <<>>
    <3> TAKE l \in DOMAIN a
    <3>1. CASE a[l] = c
      BY <1>4, <1>6, <3>1
    <3>2. CASE \E m \in DOMAIN line : a[l] = line[m]
      <4>1. PICK m \in DOMAIN line : a[l] = line[m]
        BY <3>2
      <4>2. PICK d \in Class : d = line[m] /\ Exists(d)
        OBVIOUS
      <4> QED  BY <1>7, <4>1, <4>2 DEF Exists
    <3> QED  BY <1>6, <3>1, <3>2
  <2>2. Exists(c)'
    BY <1>4, <1>6 DEF Exists
  <2>3. IsNative(c)' => Len(a) = 1
    <3>1. IsNative(c)' => funs # <<>> /\ Head(funs).native
      BY <1>4 DEF IsNative
    <3> QED  BY <1>6, <3>1
  <2>4. Len(h) = Len(a)
    BY <1>6
  <2> QED  BY <1>4, <2>1, <2>2, <2>3, <2>4 DEF ClassSound, Exists
<1>9. ClassesSound'
  <2> SUFFICES ASSUME NEW d \in Class  PROVE ClassSound(d)'
    BY DEF ClassesSound
  <2>1. CASE d = c
    BY <1>8, <2>1
  <2>2. CASE d # c
    <3>1. Keeps(d) /\ ClassSound(d)
      BY <1>5, <2>2 DEF ClassesSound
    <3>2. \A x \in Class : Exists(x) => Exists(x)'
      BY <1>7
    <3> QED  BY <3>1, <3>2, KeptClass
  <2> QED  BY <2>1, <2>2
<1>10. TablesSound'
  <2> SUFFICES ASSUME NEW d \in Class  PROVE TableSound(table'[d])
    BY DEF TablesSound
  <2>1. TableSound(t)
    BY FreshIsSound
  <2> QED  BY <1>4, <1>5, <2>1 DEF Keeps, TablesSound
<1>11. TablesLinked'
  BY <1>1 DEF TablesLinked
<1>12. Typed'
  BY <1>4, <1>7, ClassAssumption DEF Typed
<1> QED  BY <1>7, <1>9, <1>10, <1>11, <1>12

\* What is declared stays as it is.
OthersKept == \A d \in Class : Exists(d) => Keeps(d) /\ Exists(d)'

LEMMA RegisterNativeStep ==
    ASSUME StaticSound, NEW c \in Class, NEW funs \in NativeSources, registerNative(c, funs)
    PROVE  StaticSound' /\ OthersKept
<1>1. funs \in Seq(Function) /\ \A k \in DOMAIN funs : IsOfC(funs[k])
  BY SourceAssumption
<1>2. PICK t : t = Registered(funs)
  OBVIOUS
<1>3. /\ t \in Seq(EntryType) /\ IsFresh(t) /\ <<funs>> \in Seq(Seq(Function))
      /\ Follows(t, <<funs>>) /\ Links(t) /\ OfOneKind(funs)
  BY <1>1, <1>2, RegisteredFollows, NativesLink
<1>4. PICK line : line = <<>>
  OBVIOUS
<1>5. line \in Seq(Class) /\ \A l \in DOMAIN line : Exists(line[l])
  BY <1>4
<1>6. PICK h : h = <<funs>>
  OBVIOUS
<1>7. h = Append(OwnLine(line), funs)
  <2>1. OwnLine(line) = <<>>
    BY <1>4 DEF OwnLine
  <2> QED  BY <1>6, <2>1
<1>8. Len(h) = Len(line) + 1 /\ h[Len(h)] = funs /\ \A l \in DOMAIN h : OfOneKind(h[l])
  BY <1>3, <1>4, <1>6
<1>9. Declares(c, line, funs, t)
  BY <1>2, <1>4 DEF registerNative
<1>10. (funs # <<>> /\ Head(funs).native) => line = <<>>
  BY <1>4
<1>11. h \in Seq(Seq(Function)) /\ Follows(t, h)
  BY <1>3, <1>6
<1> QED
  BY <1>1, <1>3, <1>5, <1>7, <1>8, <1>9, <1>10, <1>11, DeclaresKeeps DEF StaticSound, OthersKept

LEMMA GacClassStep ==
    ASSUME StaticSound, NEW c \in Class, NEW parent \in Class \cup {None},
           NEW funs \in ScriptSources, gacClass(c, parent, funs)
    PROVE  StaticSound' /\ OthersKept
<1>1. funs \in Seq(Function) /\ \A k \in DOMAIN funs : ~funs[k].native
  BY SourceAssumption
<1>2. OfOneKind(funs)
  <2>1. ASSUME NEW k \in DOMAIN funs  PROVE funs[k].native = FALSE
    <3>1. funs[k] \in Function
      BY <1>1
    <3>2. funs[k].native \in BOOLEAN
      BY <3>1 DEF Function
    <3> QED  BY <1>1, <3>2
  <2> QED  BY <1>1, <2>1 DEF OfOneKind
<1>3. PICK line : line = IF parent = None THEN <<>> ELSE ancestors[parent]
  OBVIOUS
<1>4. line \in Seq(Class) /\ \A l \in DOMAIN line : Exists(line[l])
  <2>1. CASE parent = None
    BY <1>3, <2>1
  <2>2. CASE parent # None
    <3>1. parent \in Class /\ line = ancestors[parent]
      BY <1>3, <2>2
    <3>2. ClassSound(parent)
      BY <3>1 DEF StaticSound, ClassesSound
    <3> QED  BY <3>1, <3>2 DEF ClassSound
  <2> QED  BY <2>1, <2>2
<1>5. PICK t : t = InheritedLine(line) \o Registered(funs)
  OBVIOUS
<1>6. PICK h : h = Append(OwnLine(line), funs)
  OBVIOUS
<1>7. /\ t \in Seq(EntryType) /\ IsFresh(t)
      /\ h \in Seq(Seq(Function)) /\ Len(h) = Len(line) + 1 /\ h[Len(h)] = funs
      /\ \A l \in DOMAIN h : OfOneKind(h[l])
      /\ Follows(t, h)
  BY <1>1, <1>2, <1>4, <1>5, <1>6, DeclaredTable DEF StaticSound
<1>8. Links(t) /\ Declares(c, line, funs, t)
  BY <1>3, <1>5 DEF gacClass, InheritedLine
<1>9. ~(funs # <<>> /\ Head(funs).native)
  BY <1>1
<1> QED
  BY <1>1, <1>2, <1>4, <1>6, <1>7, <1>8, <1>9, DeclaresKeeps DEF StaticSound, OthersKept

LEMMA InitStatic ==
    ASSUME Init
    PROVE  StaticSound
<1>1. Globals \in Seq(Function) /\ \A k \in DOMAIN Globals : IsOfC(Globals[k])
  BY SourceAssumption
<1>2. Main \in Class
  BY ClassAssumption
<1>3. <<>> \in Seq(Function) /\ \A k \in DOMAIN <<>> : IsOfC(<<>>[k])
  OBVIOUS
<1>4. own \in [Class -> Seq(Function)]
  BY <1>1, <1>3 DEF Init
<1>5. ASSUME NEW c \in Class
      PROVE  /\ table[c] = Registered(own[c]) /\ own[c] \in Seq(Function)
             /\ \A k \in DOMAIN own[c] : IsOfC(own[c][k])
             /\ table[c] \in Seq(EntryType) /\ IsFresh(table[c]) /\ Links(table[c])
             /\ Follows(table[c], <<own[c]>>) /\ OfOneKind(own[c])
             /\ <<own[c]>> \in Seq(Seq(Function))
  <2>1. table[c] = Registered(own[c])
    BY DEF Init
  <2>2. own[c] \in Seq(Function) /\ \A k \in DOMAIN own[c] : IsOfC(own[c][k])
    BY <1>1, <1>3 DEF Init
  <2> QED  BY <2>1, <2>2, RegisteredFollows, NativesLink
<1>6. ClassSound(Main)
  <2>1. PICK s : s = <<own[Main]>>
    OBVIOUS
  <2>2. s \in Seq(Seq(Function)) /\ Len(s) = 1 /\ DOMAIN s = {1} /\ s[1] = own[Main]
    BY <1>2, <1>5, <2>1
  <2>3. heritage[Main] = s /\ own[Main] = Globals
    BY <1>2, <2>1 DEF Init
  <2>4. ancestors[Main] = <<Main>>
    BY <1>2 DEF Init
  <2>5. ancestors[Main] \in Seq(Class) /\ Len(ancestors[Main]) = 1 /\ Exists(Main)
        /\ \A l \in DOMAIN ancestors[Main] : ancestors[Main][l] = Main
    BY <1>2, <2>4 DEF Exists
  <2>6. table[Main] \in Seq(EntryType) /\ Follows(table[Main], s)
    BY <1>2, <1>5, <2>1
  <2>7. \A l \in DOMAIN s : OfOneKind(s[l])
    BY <1>2, <1>5, <2>2
  <2> QED  BY <2>2, <2>3, <2>5, <2>6, <2>7 DEF ClassSound
<1>7. ASSUME NEW c \in Class, c # Main  PROVE ClassSound(c)
  <2>1. ancestors[c] = <<>> /\ own[c] = <<>> /\ heritage[c] = <<>>
    BY <1>7 DEF Init
  <2>2. table[c] \in Seq(EntryType) /\ Len(table[c]) = 0
    <3>1. PICK funs \in Seq(Function) : funs = own[c]
      BY <1>5
    <3>2. Len(Registered(funs)) = Len(funs) /\ Len(funs) = 0
      BY <2>1, <3>1, RegisteredIs
    <3> QED  BY <1>5, <3>1, <3>2
  <2>3. heritage[c] \in Seq(Seq(Function)) /\ Len(heritage[c]) = 0 /\ DOMAIN heritage[c] = {}
    BY <2>1
  <2>4. Place(heritage[c], Len(heritage[c]) + 1) = 0
    BY <2>3, FlattenPlaces
  <2>5. Follows(table[c], heritage[c])
    BY <2>2, <2>3, <2>4 DEF Follows
  <2>6. ~Exists(c) /\ ~IsNative(c)
    BY <2>1 DEF Exists, IsNative
  <2> QED  BY <2>1, <2>2, <2>3, <2>5, <2>6 DEF ClassSound
<1>8. ClassesSound
  BY <1>6, <1>7 DEF ClassesSound
<1>9. TablesSound
  BY <1>5, FreshIsSound DEF TablesSound
<1>10. TablesLinked
  BY DEF TablesLinked, Init
<1>11. Typed
  <2>1. ancestors \in [Class -> Seq(Class)]
    <3>1. \A c \in Class : (IF c = Main THEN <<c>> ELSE <<>>) \in Seq(Class)
      OBVIOUS
    <3> QED  BY <3>1 DEF Init
  <2>2. table \in [Class -> Seq(EntryType)]
    <3>1. table = [c \in Class |-> Registered(own[c])]
      BY DEF Init
    <3> QED  BY <1>5, <3>1
  <2>3. heritage \in [Class -> Seq(Seq(Function))]
    <3>1. \A c \in Class : (IF c = Main THEN <<Globals>> ELSE <<>>) \in Seq(Seq(Function))
      BY <1>1
    <3> QED  BY <3>1 DEF Init
  <2>4. Exists(Main)
    BY <1>2 DEF Init, Exists
  <2> QED  BY <1>4, <2>1, <2>2, <2>3, <2>4 DEF Typed
<1> QED  BY <1>8, <1>9, <1>10, <1>11 DEF StaticSound

\* A function that a later source adds to a class.
LEMMA ExtendStep ==
    ASSUME StaticSound, NEW c \in Class, NEW fun \in Extensions, Extend(c, fun)
    PROVE  /\ StaticSound'
           /\ Adds(table[c], table'[c]) /\ ~table'[c][Len(table'[c])].operator
           /\ \A d \in Class : d # c => Keeps(d)
           /\ \A d \in Class : Exists(d) => Exists(d)'
<1>1. fun \in Function /\ fun.native = FALSE
  <2>1. fun \in Function /\ ~fun.native
    BY SourceAssumption
  <2>2. fun.native \in BOOLEAN
    BY <2>1 DEF Function
  <2> QED  BY <2>1, <2>2
<1>2. Exists(c) /\ ~IsNative(c) /\ linked' = FALSE /\ ancestors' = ancestors
  BY DEF Extend
<1>3. ClassSound(c) /\ TableSound(table[c])
  BY DEF StaticSound, ClassesSound, TablesSound
<1>4. PICK h : h = heritage[c]
  OBVIOUS
<1>5. PICK n \in Nat \ {0} : n = Len(ancestors[c])
  BY <1>2, <1>3 DEF ClassSound, Exists
<1>6. PICK o : o = own[c]
  OBVIOUS
<1>7. PICK t : t = table[c]
  OBVIOUS
<1>8. /\ h \in Seq(Seq(Function)) /\ Len(h) = n /\ DOMAIN h = 1..n
      /\ \A l \in DOMAIN h : OfOneKind(h[l])
      /\ o = h[n] /\ o \in Seq(Function)
      /\ t \in Seq(EntryType) /\ Follows(t, h)
  <2>1. /\ h \in Seq(Seq(Function)) /\ Len(h) = n /\ \A l \in DOMAIN h : OfOneKind(h[l])
    BY <1>3, <1>4, <1>5 DEF ClassSound
  <2>2. o = h[n]
    BY <1>2, <1>3, <1>4, <1>6, <2>1 DEF ClassSound
  <2>3. o \in Seq(Function)
    BY <2>1, <2>2
  <2>4. t \in Seq(EntryType) /\ Follows(t, h)
    BY <1>3, <1>4, <1>7 DEF ClassSound
  <2> QED  BY <2>1, <2>2, <2>3, <2>4
<1>9. PICK e \in EntryType : e = Entry(fun, FALSE)
  BY <1>1, EntryTyped
<1>10. e.fun = fun /\ ~e.linked /\ ~e.operator
  BY <1>1, <1>9, EntryTyped
<1>11. PICK oo \in Seq(Function) : oo = Append(o, fun)
  <2>1. Append(o, fun) \in Seq(Function)
    BY <1>1, <1>8
  <2> QED  BY <2>1
<1>12. PICK tt \in Seq(EntryType) : tt = Append(t, e)
  <2>1. Append(t, e) \in Seq(EntryType)
    BY <1>8
  <2> QED  BY <2>1
<1>13. PICK hh : hh = [h EXCEPT ![n] = oo]
  OBVIOUS
<1>14. /\ own' = [own EXCEPT ![c] = oo]
       /\ table' = [table EXCEPT ![c] = tt]
       /\ heritage' = [heritage EXCEPT ![c] = hh]
       /\ Links(tt)
       /\ getIdxFunctionObject(t, fun.name, Len(fun.params)) = Undefined
  <2>1. own' = [own EXCEPT ![c] = Append(@, fun)]
    BY DEF Extend
  <2>2. own' = [own EXCEPT ![c] = oo]
    BY <1>6, <1>11, <2>1
  <2>3. table' = [table EXCEPT ![c] = tt] /\ Links(tt)
    BY <1>7, <1>9, <1>12 DEF Extend
  <2>4. heritage' = [heritage EXCEPT ![c][n] = Append(@, fun)]
    BY <1>5 DEF Extend
  <2>5. heritage' = [heritage EXCEPT ![c] = hh]
    <3>1. heritage' = [heritage EXCEPT ![c] = [heritage[c] EXCEPT ![n] = Append(heritage[c][n], fun)]]
      BY <2>4
    <3> QED  BY <1>4, <1>8, <1>11, <1>13, <3>1
  <2>6. getIdxFunctionObject(t, fun.name, Len(fun.params)) = Undefined
    BY <1>7 DEF Extend
  <2> QED  BY <2>2, <2>3, <2>5, <2>6
<1>15. /\ hh \in Seq(Seq(Function)) /\ Len(hh) = n /\ DOMAIN hh = 1..n
       /\ hh[n] = oo
       /\ \A l \in 1..n : l # n => hh[l] = h[l]
  <2>1. n \in DOMAIN h
    BY <1>8
  <2>2. hh \in [1..n -> Seq(Function)]
    <3>1. h \in [1..n -> Seq(Function)]
      BY <1>8
    <3> QED  BY <1>13, <3>1
  <2>3. hh \in Seq(Seq(Function)) /\ Len(hh) = n /\ DOMAIN hh = 1..n
    BY <2>2, MapIsSequence
  <2> QED  BY <1>8, <1>13, <2>1, <2>3
<1>16. /\ ancestors'[c] = ancestors[c] /\ own'[c] = oo /\ table'[c] = tt /\ heritage'[c] = hh
       /\ own' \in [Class -> Seq(Function)]
       /\ table' \in [Class -> Seq(EntryType)] /\ heritage' \in [Class -> Seq(Seq(Function))]
  <2>1. own' \in [Class -> Seq(Function)] /\ own'[c] = oo
    BY <1>14 DEF StaticSound, Typed
  <2>2. table' \in [Class -> Seq(EntryType)] /\ table'[c] = tt
    BY <1>14 DEF StaticSound, Typed
  <2>3. heritage' \in [Class -> Seq(Seq(Function))] /\ heritage'[c] = hh
    BY <1>14, <1>15 DEF StaticSound, Typed
  <2> QED  BY <1>2, <2>1, <2>2, <2>3
<1>17. ASSUME NEW d \in Class, d # c  PROVE Keeps(d)
  BY <1>2, <1>14, <1>17 DEF Keeps, StaticSound, Typed
<1>18. \A d \in Class : Exists(d) => Exists(d)'
  BY <1>2 DEF Exists
<1>19. Len(tt) = Len(t) + 1 /\ Len(t) \in Nat /\ tt[Len(tt)] = e
       /\ \A j \in DOMAIN t : tt[j] = t[j]
  <2>1. Len(Append(t, e)) = Len(t) + 1 /\ Len(t) \in Nat /\ Append(t, e)[Len(t) + 1] = e
    BY <1>8
  <2>2. \A j \in DOMAIN t : Append(t, e)[j] = t[j]
    BY <1>8
  <2> QED  BY <1>12, <2>1, <2>2
<1>20. Adds(t, tt)
  BY <1>10, <1>14, <1>19 DEF Adds
<1>21. OfOneKind(oo) /\ ~(oo # <<>> /\ Head(oo).native)
  <2>1. \A k \in DOMAIN o : o[k].native = FALSE
    <3> TAKE k \in DOMAIN o
    <3>1. OfOneKind(o)
      <4>1. n \in DOMAIN h /\ o = h[n]
        BY <1>8
      <4>2. OfOneKind(h[n])
        BY <1>8, <4>1
      <4> QED  BY <4>1, <4>2
    <3>2. 1 \in DOMAIN o /\ Head(o) = o[1] /\ o # <<>>
      BY <1>8
    <3>3. ~o[1].native
      BY <1>2, <1>6, <3>2 DEF IsNative
    <3>4. o[k].native = o[1].native /\ o[k] \in Function
      BY <1>8, <3>1, <3>2 DEF OfOneKind
    <3>5. o[k].native \in BOOLEAN
      BY <3>4 DEF Function
    <3> QED  BY <3>3, <3>4, <3>5
  <2>2. \A k \in DOMAIN oo : oo[k].native = FALSE
    <3> TAKE k \in DOMAIN oo
    <3>1. k \in DOMAIN o \/ oo[k] = fun
      BY <1>8, <1>11
    <3>2. k \in DOMAIN o => oo[k] = o[k]
      BY <1>8, <1>11
    <3> QED  BY <1>1, <2>1, <3>1, <3>2
  <2>3. Head(oo).native = FALSE
    <3>1. 1 \in DOMAIN oo /\ Head(oo) = oo[1]
      BY <1>8, <1>11
    <3> QED  BY <2>2, <3>1
  <2> QED  BY <2>2, <2>3 DEF OfOneKind
<1>22. Follows(tt, hh)
  <2>1. \A l \in 1..n : Place(hh, l) = Place(h, l)
    <3>1. PICK m \in Nat : m = n - 1
      OBVIOUS
    <3>2. m <= Len(h) /\ m <= Len(hh) /\ \A l \in 1..m : Len(hh[l]) = Len(h[l])
      BY <1>8, <1>15, <3>1
    <3>3. \A l \in 1..m + 1 : Place(hh, l) = Place(h, l)
      BY <1>8, <1>15, <3>2, PlacesAgree
    <3>4. m + 1 = n
      BY <3>1
    <3> QED  BY <3>3, <3>4
  <2>2. PICK p \in Nat : p = Place(h, n)
    <3>1. n \in 1..Len(h) + 1
      BY <1>8
    <3> QED  BY <1>8, <3>1, PlacesOf
  <2>3. PICK q \in Nat : q = Len(o)
    BY <1>8
  <2>4. Len(t) = p + q
    <3>1. Place(h, n + 1) = Place(h, n) + Len(h[n])
      <4>1. n \in DOMAIN h
        BY <1>8
      <4> QED  BY <1>8, <4>1, PlacesOf
    <3> QED  BY <1>8, <2>2, <2>3, <3>1 DEF Follows
  <2>5. Len(oo) = q + 1 /\ oo[q + 1] = fun /\ \A k \in 1..q : oo[k] = o[k] /\ k \in DOMAIN o
    BY <1>1, <1>8, <1>11, <2>3
  <2>6. Len(tt) = Place(hh, Len(hh) + 1)
    <3>1. Place(hh, n + 1) = Place(hh, n) + Len(hh[n])
      <4>1. n \in DOMAIN hh
        BY <1>15
      <4> QED  BY <1>15, <4>1, PlacesOf
    <3>2. Place(hh, n) = p
      BY <2>1, <2>2
    <3>3. Place(hh, n + 1) = p + (q + 1)
      BY <1>15, <2>5, <3>1, <3>2
    <3> QED  BY <1>15, <1>19, <2>4, <3>3
  <2>7. ASSUME NEW l \in 1..n, l # n, NEW k \in DOMAIN hh[l]
        PROVE  StandsFor(tt[Place(hh, l) + k].fun, hh, l, k)
    <3>1. hh[l] = h[l] /\ Place(hh, l) = Place(h, l) /\ l \in DOMAIN h /\ k \in DOMAIN h[l]
      BY <1>8, <1>15, <2>1, <2>7
    <3>2. StandsFor(t[Place(h, l) + k].fun, h, l, k)
      BY <1>8, <3>1 DEF Follows
    <3>3. Place(h, l) + k \in DOMAIN t
      <4>1. PICK x \in Nat : x = Place(h, l)
        BY <1>8, <3>1, PlacesOf, l \in 1..Len(h) + 1
      <4>2. PICK y \in Nat : y = Len(h[l])
        BY <1>8, <3>1, PlacesOf
      <4>3. k \in 1..y
        BY <1>8, <3>1, <4>2, PlacesOf
      <4>4. x + y <= p
        <5>1. l < n /\ n \in 1..Len(h) + 1
          BY <1>8, <2>7
        <5>2. Place(h, l) + Len(h[l]) <= Place(h, n)
          BY <1>8, <3>1, <5>1, PlacesOf
        <5> QED  BY <2>2, <4>1, <4>2, <5>2
      <4>5. x + k \in 1..Len(t)
        BY <2>4, <4>3, <4>4
      <4> QED  BY <1>8, <4>1, <4>5
    <3>4. tt[Place(hh, l) + k] = t[Place(h, l) + k]
      BY <1>19, <3>1, <3>3
    <3>5. l < Len(hh) /\ l < Len(h)
      BY <1>8, <1>15, <2>7
    <3> QED  BY <3>1, <3>2, <3>4, <3>5 DEF StandsFor
  <2>8. ASSUME NEW k \in DOMAIN hh[n]
        PROVE  StandsFor(tt[Place(hh, n) + k].fun, hh, n, k)
    <3>1. hh[n] = oo /\ Place(hh, n) = p /\ k \in 1..q + 1
      BY <1>11, <1>15, <2>1, <2>2, <2>5
    <3>2. CASE k = q + 1
      <4>1. p + k = Len(tt)
        BY <1>19, <2>4, <3>2
      <4>2. tt[p + k].fun = oo[k]
        BY <1>10, <1>19, <2>5, <3>2, <4>1
      <4> QED  BY <1>15, <3>1, <4>2 DEF StandsFor
    <3>3. CASE k # q + 1
      <4>1. k \in 1..q
        BY <3>1, <3>3
      <4>2. p + k \in 1..Len(t) /\ p + k \in DOMAIN t
        BY <1>8, <2>4, <4>1
      <4>3. k \in DOMAIN h[n] /\ n \in DOMAIN h
        BY <1>8, <2>5, <4>1
      <4>4. StandsFor(t[Place(h, n) + k].fun, h, n, k)
        BY <1>8, <4>3 DEF Follows
      <4>5. t[p + k].fun = o[k]
        BY <1>8, <2>2, <4>4 DEF StandsFor
      <4>6. tt[p + k].fun = oo[k]
        BY <1>19, <2>5, <4>1, <4>2, <4>5
      <4> QED  BY <1>15, <3>1, <4>6 DEF StandsFor
    <3> QED  BY <3>2, <3>3
  <2>9. \A l \in DOMAIN hh : \A k \in DOMAIN hh[l] : StandsFor(tt[Place(hh, l) + k].fun, hh, l, k)
    BY <1>15, <2>7, <2>8
  <2> QED  BY <2>6, <2>9 DEF Follows
<1>23. ClassSound(c)'
  <2>1. Exists(c)' /\ ~IsNative(c)'
    BY <1>2, <1>16, <1>18, <1>21 DEF IsNative
  <2>2. \A l \in DOMAIN hh : OfOneKind(hh[l])
    BY <1>8, <1>15, <1>21
  <2>3. \A l \in DOMAIN ancestors[c] : ancestors'[ancestors[c][l]] # <<>>
    BY <1>2, <1>3 DEF ClassSound, Exists
  <2>4. ancestors[c] \in Seq(Class)
    BY <1>3 DEF ClassSound
  <2> QED  BY <1>5, <1>15, <1>16, <1>22, <2>1, <2>2, <2>3, <2>4 DEF ClassSound, Exists
<1>24. TableSound(tt)
  <2>1. /\ \A j \in DOMAIN t : \A m : SuperIndex(tt, j - 1, m) = SuperIndex(t, j - 1, m)
        /\ \A call : getIdxFunctionObject(t, call.name, call.args) # Undefined =>
                         ThisIndex(tt, call) = ThisIndex(t, call)
        /\ \A i \in 1..Len(t) :
              ~Takes(t[i].fun, tt[Len(tt)].fun.name, Len(tt[Len(tt)].fun.params))
    BY <1>8, <1>20, AddedSearch
  <2>2. ASSUME NEW j \in DOMAIN t  PROVE EntrySound(tt, j)
    <3>1. EntrySound(t, j) /\ tt[j] = t[j]
      BY <1>3, <1>7, <1>19 DEF TableSound
    <3>2. t[j].fun.this # NoCall => ThisIndex(tt, t[j].fun.this) = ThisIndex(t, t[j].fun.this)
      BY <1>3, <1>7, <2>1 DEF TableSound, Links
    <3>3. t[j].fun.super # NoSuper =>
             SuperIndex(tt, j - 1, t[j].fun.super) = SuperIndex(t, j - 1, t[j].fun.super)
      BY <2>1
    <3>4. \A i \in 1..j - 1 : tt[i] = t[i]
      <4>1. \A i \in 1..j - 1 : i \in DOMAIN t
        BY <1>8
      <4> QED  BY <1>19, <4>1
    <3> QED  BY <3>1, <3>2, <3>3, <3>4 DEF EntrySound
  <2>3. EntrySound(tt, Len(tt))
    <3>1. Len(tt) - 1 = Len(t) /\ \A i \in 1..Len(t) : i \in DOMAIN t /\ tt[i] = t[i]
      BY <1>8, <1>19
    <3>2. \A i \in 1..Len(tt) - 1 :
             ~Takes(tt[i].fun, tt[Len(tt)].fun.name, Len(tt[Len(tt)].fun.params))
      BY <2>1, <3>1
    <3> QED  BY <1>10, <1>19, <3>2 DEF EntrySound
  <2>4. \A j \in DOMAIN tt : j \in DOMAIN t \/ j = Len(tt)
    BY <1>8, <1>19
  <2> QED  BY <1>14, <2>2, <2>3, <2>4 DEF TableSound
<1>25. ClassesSound'
  <2> SUFFICES ASSUME NEW d \in Class  PROVE ClassSound(d)'
    BY DEF ClassesSound
  <2>1. CASE d = c
    BY <1>23, <2>1
  <2>2. CASE d # c
    <3>1. Keeps(d) /\ ClassSound(d)
      BY <1>17, <2>2 DEF StaticSound, ClassesSound
    <3> QED  BY <1>18, <3>1, KeptClass
  <2> QED  BY <2>1, <2>2
<1>26. TablesSound'
  BY <1>16, <1>17, <1>24 DEF TablesSound, StaticSound, Keeps
<1>27. TablesLinked'
  BY <1>2 DEF TablesLinked
<1>28. Typed'
  BY <1>2, <1>16, <1>18, ClassAssumption DEF Typed, StaticSound
<1>29. Adds(table[c], table'[c]) /\ ~table'[c][Len(table'[c])].operator
  BY <1>7, <1>10, <1>16, <1>19, <1>20
<1> QED  BY <1>17, <1>18, <1>25, <1>26, <1>27, <1>28, <1>29 DEF StaticSound

\* The linker gives the entries their indexes and leaves their functions alone.
LEMMA LinkedIs ==
    ASSUME NEW t \in Seq(EntryType), TableSound(t)
    PROVE  /\ Linked(t) \in Seq(EntryType) /\ SameFuns(t, Linked(t)) /\ TableSound(Linked(t))
           /\ \A j \in DOMAIN t : Linked(t)[j].linked /\ Linked(t)[j].operator = t[j].operator
<1>1. PICK u : u = Linked(t)
  OBVIOUS
<1>2. DOMAIN t = 1..Len(t) /\ Len(t) \in Nat
  OBVIOUS
<1>3. ASSUME NEW j \in DOMAIN t
      PROVE  /\ u[j] \in EntryType /\ u[j].fun = t[j].fun
             /\ u[j].operator = t[j].operator /\ u[j].linked
             /\ t[j].linked => u[j] = t[j]
             /\ ~t[j].linked => /\ u[j].this = ThisIndex(t, t[j].fun.this)
                                /\ u[j].super = SuperIndex(t, j - 1, t[j].fun.super)
  <2>1. t[j] \in EntryType
    OBVIOUS
  <2>2. CASE t[j].linked
    <3>1. u[j] = t[j]
      BY <1>1, <2>2 DEF Linked
    <3> QED  BY <2>1, <2>2, <3>1
  <2>3. CASE ~t[j].linked
    <3>1. PICK x : x = ThisIndex(t, t[j].fun.this)
      OBVIOUS
    <3>2. PICK y : y = SuperIndex(t, j - 1, t[j].fun.super)
      OBVIOUS
    <3>3. x \in Int
      <4>1. PICK name, n : name = t[j].fun.this.name /\ n = t[j].fun.this.args
        OBVIOUS
      <4>2. getIdxFunctionObject(t, name, n) \in Int
        BY SearchFinds DEF Undefined
      <4> QED  BY <3>1, <4>1, <4>2 DEF ThisIndex, Undefined
    <3>4. y \in Int
      <4> DEFINE S == {i \in 0..j - 1 - 1 : Takes(At(t, i).fun, At(t, j - 1).fun.name, t[j].fun.super)}
      <4>1. y = Highest(S)
        BY <3>2 DEF SuperIndex
      <4>2. PICK n \in Nat : n = j - 1
        BY <1>2
      <4>3. S \subseteq 0..n - 1
        BY <4>2
      <4>4. Highest(S) \in Int
        <5> HIDE DEF S
        <5>1. S = {} => Highest(S) = Undefined
          BY <4>3, HighestIs
        <5>2. S # {} => Highest(S) \in S
          BY <4>3, HighestIs
        <5>3. \A i \in S : i \in Int
          BY <4>3
        <5> QED  BY <5>1, <5>2, <5>3 DEF Undefined
      <4> QED  BY <4>1, <4>4
    <3>5. u[j] = [t[j] EXCEPT !.linked = TRUE, !.this = x, !.super = y]
      BY <1>1, <2>3, <3>1, <3>2 DEF Linked
    <3>6. u[j] \in EntryType /\ u[j].fun = t[j].fun /\ u[j].operator = t[j].operator
          /\ u[j].linked /\ u[j].this = x /\ u[j].super = y
      BY <2>1, <3>3, <3>4, <3>5 DEF EntryType
    <3> QED  BY <2>3, <3>1, <3>2, <3>6
  <2> QED  BY <2>2, <2>3
<1>4. u \in [1..Len(t) -> EntryType]
  BY <1>1, <1>2, <1>3 DEF Linked
<1>5. u \in Seq(EntryType) /\ Len(u) = Len(t) /\ DOMAIN u = DOMAIN t
  BY <1>2, <1>4, MapIsSequence
<1>6. SameFuns(t, u)
  BY <1>3, <1>5 DEF SameFuns
<1>7. /\ \A name, n : getIdxFunctionObject(u, name, n) = getIdxFunctionObject(t, name, n)
      /\ \A j \in DOMAIN t : \A n : SuperIndex(u, j - 1, n) = SuperIndex(t, j - 1, n)
      /\ \A call : getIdxFunctionObject(t, call.name, call.args) # Undefined =>
                       ThisIndex(u, call) = ThisIndex(t, call)
  BY <1>5, <1>6, SameSearch
<1>8. Links(t) /\ \A j \in DOMAIN t : EntrySound(t, j)
  BY DEF TableSound
<1>9. Links(u)
  <2> SUFFICES ASSUME NEW j \in DOMAIN u
               PROVE  /\ u[j].fun.this # NoCall =>
                           getIdxFunctionObject(u, u[j].fun.this.name, u[j].fun.this.args) # Undefined
                      /\ u[j].fun.super # NoSuper =>
                           SuperIndex(u, j - 1, u[j].fun.super) # Undefined
    BY DEF Links
  <2>1. j \in DOMAIN t /\ u[j].fun = t[j].fun
    BY <1>3, <1>5
  <2> QED  BY <1>7, <1>8, <2>1 DEF Links
<1>10. ASSUME NEW j \in DOMAIN u  PROVE EntrySound(u, j)
  <2>1. j \in DOMAIN t /\ EntrySound(t, j) /\ u[j].fun = t[j].fun /\ u[j].operator = t[j].operator
    BY <1>3, <1>5, <1>8
  <2>2. PICK call : call = t[j].fun.this
    OBVIOUS
  <2>3. PICK n : n = t[j].fun.super
    OBVIOUS
  <2>4. call # NoCall => u[j].this = ThisIndex(u, call)
    <3> HAVE call # NoCall
    <3>1. ThisIndex(u, call) = ThisIndex(t, call)
      BY <1>7, <1>8, <2>1, <2>2 DEF Links
    <3>2. u[j].this = ThisIndex(t, call)
      BY <1>3, <2>1, <2>2 DEF EntrySound
    <3> QED  BY <3>1, <3>2
  <2>5. n # NoSuper => u[j].super = SuperIndex(u, j - 1, n)
    <3> HAVE n # NoSuper
    <3>1. SuperIndex(u, j - 1, n) = SuperIndex(t, j - 1, n)
      BY <1>7, <2>1
    <3>2. u[j].super = SuperIndex(t, j - 1, n)
      BY <1>3, <2>1, <2>3 DEF EntrySound
    <3> QED  BY <3>1, <3>2
  <2>6. \A i \in 1..j - 1 : u[i].fun = t[i].fun
    <3>1. \A i \in 1..j - 1 : i \in DOMAIN t
      BY <1>2, <2>1
    <3> QED  BY <1>3, <3>1
  <2> QED  BY <2>1, <2>2, <2>3, <2>4, <2>5, <2>6 DEF EntrySound
<1>11. TableSound(u)
  BY <1>9, <1>10 DEF TableSound
<1> QED  BY <1>1, <1>3, <1>5, <1>6, <1>11

LEMMA LinkStep ==
    ASSUME StaticSound, updateReferenceSymbols
    PROVE  /\ StaticSound'
           /\ \A c \in Class : /\ SameFuns(table[c], table'[c])
                               /\ \A j \in DOMAIN table[c] :
                                     table'[c][j].operator = table[c][j].operator
<1>1. /\ table' = [c \in Class |-> Linked(table[c])]
      /\ ancestors' = ancestors /\ own' = own /\ heritage' = heritage
  BY DEF updateReferenceSymbols
<1>2. ASSUME NEW c \in Class
      PROVE  /\ table[c] \in Seq(EntryType) /\ table'[c] \in Seq(EntryType)
             /\ SameFuns(table[c], table'[c]) /\ TableSound(table'[c])
             /\ \A j \in DOMAIN table[c] : /\ table'[c][j].linked
                                           /\ table'[c][j].operator = table[c][j].operator
  <2>1. table[c] \in Seq(EntryType) /\ TableSound(table[c])
    BY DEF StaticSound, Typed, TablesSound
  <2>2. table'[c] = Linked(table[c])
    BY <1>1
  <2> QED  BY <2>1, <2>2, LinkedIs
<1>3. ASSUME NEW c \in Class  PROVE ClassSound(c)'
  <2>1. ClassSound(c)
    BY DEF StaticSound, ClassesSound
  <2>2. PICK t : t = table[c]
    OBVIOUS
  <2>3. PICK u : u = table'[c]
    OBVIOUS
  <2>4. PICK h : h = heritage[c]
    OBVIOUS
  <2>5. t \in Seq(EntryType) /\ u \in Seq(EntryType) /\ SameFuns(t, u)
    BY <1>2, <2>2, <2>3
  <2>6. Follows(t, h) /\ h \in Seq(Seq(Function))
    BY <2>1, <2>2, <2>4 DEF ClassSound
  <2>7. Follows(u, h)
    <3>1. Len(u) = Place(h, Len(h) + 1)
      BY <2>5, <2>6 DEF SameFuns, Follows
    <3>2. ASSUME NEW l \in DOMAIN h, NEW k \in DOMAIN h[l]
          PROVE  StandsFor(u[Place(h, l) + k].fun, h, l, k)
      <4>1. StandsFor(t[Place(h, l) + k].fun, h, l, k)
        BY <2>6 DEF Follows
      <4>2. Place(h, l) + k \in DOMAIN t
        <5>1. PICK x \in Nat : x = Place(h, l)
          BY <2>6, PlacesOf, l \in 1..Len(h) + 1
        <5>2. PICK y \in Nat : y = Len(h[l])
          BY <2>6, PlacesOf
        <5>3. k \in 1..y
          BY <2>6, <5>2, PlacesOf
        <5>4. x + y <= Len(t)
          <6>1. PICK m \in 1..Len(h) + 1 : m = Len(h) + 1
            BY <2>6
          <6>2. l < m
            BY <2>6, <6>1
          <6>3. Place(h, l) + Len(h[l]) <= Place(h, m)
            BY <2>6, <6>2, PlacesOf
          <6> QED  BY <2>6, <5>1, <5>2, <6>1, <6>3 DEF Follows
        <5>5. x + k \in 1..Len(t)
          BY <2>5, <5>3, <5>4
        <5> QED  BY <2>5, <5>1, <5>5
      <4>3. u[Place(h, l) + k].fun = t[Place(h, l) + k].fun
        BY <2>5, <4>2 DEF SameFuns
      <4> QED  BY <4>1, <4>3
    <3> QED  BY <3>1, <3>2 DEF Follows
  <2>8. Follows(table'[c], heritage'[c]) /\ table'[c] \in Seq(EntryType)
    BY <1>1, <2>3, <2>4, <2>5, <2>7
  <2> QED  BY <1>1, <2>1, <2>8 DEF ClassSound, Exists, IsNative
<1>4. ClassesSound'
  BY <1>3 DEF ClassesSound
<1>5. TablesSound'
  BY <1>2 DEF TablesSound
<1>6. TablesLinked'
  <2> SUFFICES ASSUME NEW c \in Class, NEW j \in DOMAIN table'[c]  PROVE table'[c][j].linked
    BY DEF TablesLinked
  <2>1. j \in DOMAIN table[c]
    <3>1. PICK t \in Seq(EntryType) : t = table[c]
      BY <1>2
    <3>2. PICK u \in Seq(EntryType) : u = table'[c]
      BY <1>2
    <3>3. Len(u) = Len(t)
      BY <1>2, <3>1, <3>2 DEF SameFuns
    <3> QED  BY <3>1, <3>2, <3>3
  <2> QED  BY <1>2, <2>1
<1>7. Typed'
  <2>1. table' \in [Class -> Seq(EntryType)]
    BY <1>1, <1>2
  <2> QED  BY <1>1, <2>1 DEF Typed, StaticSound, Exists
<1> QED  BY <1>2, <1>4, <1>5, <1>6, <1>7 DEF StaticSound

-----------------------------------------------------------------------------
(* Objects and the call that is looked at.                                  *)

\* The strings that stand for no class are not classes.
LEMMA WithIsACall ==
    ASSUME NEW c \in Class, NEW kinds \in Arguments \cup {<<>>}
    PROVE  /\ [class |-> c, kinds |-> kinds] \in With
           /\ [class |-> c, kinds |-> kinds] # Unseen /\ [class |-> c, kinds |-> kinds] # Mixed
           /\ Unseen \notin With /\ Mixed \notin With /\ Unseen # Mixed
<1>1. c # None /\ c # "mixed"
  BY ClassAssumption
<1>2. \A w \in With : w.class \in Class
  BY DEF With
<1>3. Unseen.class = None /\ Mixed.class = "mixed" /\ None # "mixed"
  BY DEF Unseen, Mixed, None
<1>4. Unseen \notin With /\ Mixed \notin With /\ Unseen # Mixed
  BY <1>2, <1>3, ClassAssumption
<1> QED  BY <1>1, <1>3, <1>4 DEF With

\* Declarations of other classes.
LEMMA DeclareDynamic ==
    ASSUME StaticSound, ObjectSound, SiteSound, OthersKept,
           linked' = FALSE, UNCHANGED <<object, site, index_op2, seen>>
    PROVE  ObjectSound' /\ SiteSound'
<1>1. ObjectSound'
  <2>1. CASE object = NoObject
    BY <2>1 DEF ObjectSound
  <2>2. CASE object # NoObject
    <3>1. /\ object \in [class : Class \ {Main}, size : Nat] /\ Exists(object.class)
          /\ object.size <= Len(table[object.class])
          /\ \A j \in object.size + 1..Len(table[object.class]) : ~table[object.class][j].operator
      BY <2>2 DEF ObjectSound
    <3>2. PICK d \in Class : d = object.class
      BY <3>1
    <3>3. Exists(d)' /\ table'[d] = table[d]
      BY <3>1, <3>2 DEF OthersKept, Keeps
    <3> QED  BY <3>1, <3>2, <3>3 DEF ObjectSound, Exists
  <2> QED  BY <2>1, <2>2
<1>2. SiteSound'
  <2>1. ASSUME site.kind \in {"access", "global"}, seen \in With
        PROVE  SeenIsFound(seen.class, seen.kinds)'
    <3>1. PICK c, kinds : c = seen.class /\ kinds = seen.kinds
      OBVIOUS
    <3>2. c \in Class
      BY <2>1, <3>1 DEF With
    <3>3. SeenIsFound(c, kinds)
      BY <2>1, <3>1 DEF SiteSound
    <3>4. Exists(c)' /\ Keeps(c)
      BY <3>2, <3>3 DEF SeenIsFound, OthersKept
    <3>5. SeenIsFound(c, kinds)'
      BY <3>3, <3>4 DEF SeenIsFound, IsFound, Keeps, IsNative
    <3> QED  BY <3>1, <3>5
  <2> QED  BY <2>1 DEF SiteSound
<1> QED  BY <1>1, <1>2

LEMMA ExtendDynamic ==
    ASSUME StaticSound, ObjectSound, SiteSound,
           NEW c \in Class, NEW fun \in Extensions, Extend(c, fun)
    PROVE  ObjectSound' /\ SiteSound'
<1>1. /\ StaticSound' /\ Adds(table[c], table'[c]) /\ ~table'[c][Len(table'[c])].operator
      /\ \A d \in Class : d # c => Keeps(d)
      /\ \A d \in Class : Exists(d) => Exists(d)'
  BY ExtendStep
<1>2. linked' = FALSE /\ UNCHANGED <<object, site, index_op2, seen>>
  BY DEF Extend
<1>3. PICK t \in Seq(EntryType) : t = table[c]
  BY DEF StaticSound, Typed
<1>4. PICK u \in Seq(EntryType) : u = table'[c]
  BY <1>1 DEF StaticSound, Typed
<1>5. Len(u) = Len(t) + 1 /\ (\A j \in DOMAIN t : u[j] = t[j]) /\ ~u[Len(u)].operator
      /\ Len(t) \in Nat /\ DOMAIN t = 1..Len(t)
  BY <1>1, <1>3, <1>4 DEF Adds
<1>6. ObjectSound'
  <2>1. CASE object = NoObject
    BY <1>2, <2>1 DEF ObjectSound
  <2>2. CASE object # NoObject
    <3>1. /\ object \in [class : Class \ {Main}, size : Nat] /\ Exists(object.class)
          /\ object.size <= Len(table[object.class])
          /\ \A j \in object.size + 1..Len(table[object.class]) : ~table[object.class][j].operator
      BY <2>2 DEF ObjectSound
    <3>2. PICK d \in Class : d = object.class
      BY <3>1
    <3>3. PICK s \in Nat : s = object.size
      BY <3>1
    <3>4. Exists(d)'
      BY <1>1, <3>1, <3>2
    <3>5. s <= Len(table'[d]) /\ \A j \in s + 1..Len(table'[d]) : ~table'[d][j].operator
      <4>1. CASE d = c
        <5>1. s <= Len(t) /\ \A j \in s + 1..Len(t) : ~t[j].operator
          BY <1>3, <3>1, <3>2, <3>3, <4>1
        <5>2. s <= Len(u)
          BY <1>5, <5>1
        <5>3. ASSUME NEW j \in s + 1..Len(u)  PROVE ~u[j].operator
          <6>1. CASE j = Len(u)
            BY <1>5, <6>1
          <6>2. CASE j # Len(u)
            <7>1. j \in s + 1..Len(t) /\ j \in DOMAIN t
              BY <1>5, <6>2
            <7> QED  BY <1>5, <5>1, <7>1
          <6> QED  BY <6>1, <6>2
        <5> QED  BY <1>4, <4>1, <5>2, <5>3
      <4>2. CASE d # c
        <5>1. table'[d] = table[d]
          BY <1>1, <4>2 DEF Keeps
        <5> QED  BY <3>1, <3>2, <3>3, <5>1
      <4> QED  BY <4>1, <4>2
    <3> QED  BY <1>2, <3>1, <3>2, <3>3, <3>4, <3>5 DEF ObjectSound
  <2> QED  BY <2>1, <2>2
<1>7. SiteSound'
  <2>1. ASSUME site.kind \in {"access", "global"}, seen \in With
        PROVE  SeenIsFound(seen.class, seen.kinds)'
    <3>1. PICK d, kinds : d = seen.class /\ kinds = seen.kinds
      OBVIOUS
    <3>2. d \in Class
      BY <2>1, <3>1 DEF With
    <3>3. SeenIsFound(d, kinds)
      BY <2>1, <3>1 DEF SiteSound
    <3>4. Exists(d)'
      BY <1>1, <3>2, <3>3 DEF SeenIsFound
    <3>5. index_op2 \in Nat /\ index_op2 = FIND_FUNCTION(table[d], site.callee, kinds) =>
             index_op2 = FIND_FUNCTION(table'[d], site.callee, kinds)
      <4>1. CASE d = c
        <5>1. FIND_FUNCTION(t, site.callee, kinds) # Undefined =>
                 FIND_FUNCTION(u, site.callee, kinds) = FIND_FUNCTION(t, site.callee, kinds)
          BY <1>1, <1>3, <1>4, AddedSearch
        <5> QED  BY <1>3, <1>4, <4>1, <5>1 DEF Undefined
      <4>2. CASE d # c
        BY <1>1, <3>2, <4>2 DEF Keeps
      <4> QED  BY <4>1, <4>2
    <3>6. SeenIsFound(d, kinds)'
      BY <1>2, <3>3, <3>4, <3>5 DEF SeenIsFound, IsFound
    <3> QED  BY <1>2, <3>1, <3>6
  <2> QED  BY <1>2, <2>1 DEF SiteSound
<1> QED  BY <1>6, <1>7

LEMMA LinkDynamic ==
    ASSUME StaticSound, ObjectSound, SiteSound, updateReferenceSymbols
    PROVE  ObjectSound' /\ SiteSound'
<1>1. /\ StaticSound'
      /\ \A c \in Class : /\ SameFuns(table[c], table'[c])
                          /\ \A j \in DOMAIN table[c] :
                                table'[c][j].operator = table[c][j].operator
  BY LinkStep
<1>2. /\ UNCHANGED <<ancestors, own, object, site, heritage>> /\ linked' = TRUE
      /\ index_op2' = Relinked
      /\ seen' = IF site.kind = "access" THEN Unseen ELSE seen
  BY DEF updateReferenceSymbols
<1>3. ObjectSound'
  <2>1. CASE object = NoObject
    BY <1>2, <2>1 DEF ObjectSound
  <2>2. CASE object # NoObject
    <3>1. /\ object \in [class : Class \ {Main}, size : Nat] /\ Exists(object.class)
          /\ object.size <= Len(table[object.class])
          /\ \A j \in object.size + 1..Len(table[object.class]) : ~table[object.class][j].operator
      BY <2>2 DEF ObjectSound
    <3>2. PICK d \in Class : d = object.class
      BY <3>1
    <3>3. PICK s \in Nat : s = object.size
      BY <3>1
    <3>4. Len(table'[d]) = Len(table[d]) /\ table[d] \in Seq(EntryType)
      BY <1>1 DEF SameFuns, StaticSound, Typed
    <3>5. \A j \in s + 1..Len(table[d]) : j \in DOMAIN table[d]
      BY <3>4
    <3>6. \A j \in s + 1..Len(table'[d]) : ~table'[d][j].operator
      BY <1>1, <3>1, <3>2, <3>3, <3>4, <3>5
    <3>7. Exists(d)' /\ s <= Len(table'[d])
      BY <1>2, <3>1, <3>2, <3>3, <3>4 DEF Exists
    <3> QED  BY <1>2, <3>1, <3>2, <3>3, <3>6, <3>7 DEF ObjectSound
  <2> QED  BY <2>1, <2>2
<1>4. SiteSound'
  <2>1. CASE site.kind = "access"
    <3>1. index_op2' = Undefined /\ seen' = Unseen
      BY <1>2, <2>1 DEF Relinked
    <3>2. Unseen \notin With
      BY ClassAssumption DEF With, Unseen
    <3> QED  BY <1>2, <3>1, <3>2 DEF SiteSound
  <2>2. CASE site.kind # "access"
    <3>1. seen' = seen
      BY <1>2, <2>2
    <3>2. CASE site.kind \notin {"access", "global"}
      BY <1>2, <3>1, <3>2 DEF SiteSound
    <3>3. CASE site.kind = "global"
      <4>1. index_op2' = index_op2
        BY <1>2, <3>3 DEF Relinked
      <4>2. site.callee # "constructor"
        BY <3>3, SiteAssumption DEF SiteSound
      <4>3. ASSUME seen \in With  PROVE SeenIsFound(seen.class, seen.kinds)'
        <5>1. PICK d, kinds : d = seen.class /\ kinds = seen.kinds
          OBVIOUS
        <5>2. d \in Class
          BY <4>3, <5>1 DEF With
        <5>3. SeenIsFound(d, kinds)
          BY <3>3, <4>3, <5>1 DEF SiteSound
        <5>4. FIND_FUNCTION(table'[d], site.callee, kinds) = FIND_FUNCTION(table[d], site.callee, kinds)
          <6>1. table[d] \in Seq(EntryType) /\ table'[d] \in Seq(EntryType)
            BY <1>1, <5>2 DEF StaticSound, Typed
          <6>2. PICK t \in Seq(EntryType) : t = table[d]
            BY <6>1
          <6>3. PICK u \in Seq(EntryType) : u = table'[d]
            BY <6>1
          <6>4. SameFuns(t, u)
            BY <1>1, <5>2, <6>2, <6>3
          <6> QED  BY <6>2, <6>3, <6>4, SameSearch
        <5>5. SeenIsFound(d, kinds)'
          BY <1>2, <4>1, <4>2, <5>3, <5>4 DEF SeenIsFound, IsFound, Exists
        <5> QED  BY <3>1, <5>1, <5>5
      <4> QED  BY <1>2, <3>1, <4>1, <4>3 DEF SiteSound
    <3> QED  BY <2>2, <3>2, <3>3
  <2> QED  BY <2>1, <2>2
<1> QED  BY <1>3, <1>4

LEMMA CreateDynamic ==
    ASSUME StaticSound, SiteSound, NEW c \in Class, createSymbols(c)
    PROVE  ObjectSound' /\ SiteSound'
<1>1. /\ Exists(c) /\ c # Main /\ object' = [class |-> c, size |-> Len(table[c])]
      /\ UNCHANGED <<ancestors, own, table, linked, site, index_op2, heritage, seen>>
  BY DEF createSymbols
<1>2. PICK n \in Nat : n = Len(table[c])
  BY DEF StaticSound, Typed
<1>3. \A j \in n + 1..n : FALSE
  OBVIOUS
<1>4. object'.class = c /\ object'.size = n /\ object' \in [class : Class \ {Main}, size : Nat]
  BY <1>1, <1>2
<1>5. Exists(c)' /\ table' = table
  BY <1>1 DEF Exists
<1>6. ObjectSound'
  BY <1>2, <1>3, <1>4, <1>5 DEF ObjectSound
<1>7. SiteSound'
  BY <1>1 DEF SiteSound, SeenIsFound, IsFound, Exists, IsNative
<1> QED  BY <1>6, <1>7

-----------------------------------------------------------------------------
(* Calls.                                                                   *)

\* FIND_FUNCTION looks for a function that takes this call.
TakesCall(f, name, kinds) ==
    Takes(f, name, Len(kinds)) /\ (f.native => MatchArgs(f.params, kinds))

LEMMA FindFinds ==
    ASSUME NEW t \in Seq(EntryType), NEW name, NEW kinds,
           NEW i, i = FIND_FUNCTION(t, name, kinds)
    PROVE  /\ i # Undefined => /\ i \in 0..Len(t) - 1
                               /\ TakesCall(t[i + 1].fun, name, kinds)
                               /\ \A j \in DOMAIN t : TakesCall(t[j].fun, name, kinds) => j - 1 <= i
           /\ i = Undefined => \A j \in DOMAIN t : ~TakesCall(t[j].fun, name, kinds)
<1> DEFINE S == {k \in 0..Len(t) - 1 : TakesCall(t[k + 1].fun, name, kinds)}
<1>1. i = Highest(S)
  <2>1. S = {k \in Indexes(t) :
               /\ Takes(At(t, k).fun, name, Len(kinds))
               /\ At(t, k).fun.native => MatchArgs(At(t, k).fun.params, kinds)}
    BY DEF Indexes, At, TakesCall
  <2> QED  BY <2>1 DEF FIND_FUNCTION
<1>2. S \subseteq 0..Len(t) - 1 /\ Len(t) \in Nat
  OBVIOUS
<1>3. /\ S = {} => i = Undefined
      /\ S # {} => i \in S /\ \A k \in S : k <= i
  <2> HIDE DEF S
  <2> QED  BY <1>1, <1>2, HighestIs
<1>4. \A j \in DOMAIN t : TakesCall(t[j].fun, name, kinds) => j - 1 \in S
  <2> TAKE j \in DOMAIN t
  <2>1. j - 1 \in 0..Len(t) - 1 /\ (j - 1) + 1 = j
    BY <1>2
  <2> QED  BY <2>1
<1>5. i = Undefined => S = {}
  <2>1. i \notin 0..Len(t) - 1 \/ i # Undefined
    BY <1>2 DEF Undefined
  <2> QED  BY <1>2, <1>3, <2>1
<1>6. i # Undefined => i \in S /\ \A k \in S : k <= i
  BY <1>3
<1> QED  BY <1>4, <1>5, <1>6

\* A search among the functions that an object has finds what a search among all
\* functions of its class finds: what came later is of another name, or takes
\* another number of arguments.
AddedAfter(t, n) == \A j \in n + 1..Len(t) : ~t[j].operator

LEMMA OldSearch ==
    ASSUME NEW t \in Seq(EntryType), TableSound(t), NEW n \in 0..Len(t), AddedAfter(t, n),
           NEW name, NEW kinds
    PROVE  LET i == FIND_FUNCTION(SubSeq(t, 1, n), name, kinds)
           IN  i # Undefined => i \in Nat /\ i = FIND_FUNCTION(t, name, kinds)
<1>a. PICK u : u = SubSeq(t, 1, n)
  OBVIOUS
<1>b. PICK i : i = FIND_FUNCTION(u, name, kinds)
  OBVIOUS
<1>c. SUFFICES ASSUME i # Undefined
               PROVE  i \in Nat /\ i = FIND_FUNCTION(t, name, kinds)
  BY <1>a, <1>b
<1>1. u \in Seq(EntryType) /\ Len(u) = n /\ \A j \in 1..n : u[j] = t[j]
  BY <1>a
<1>2. /\ i \in 0..n - 1 /\ TakesCall(u[i + 1].fun, name, kinds)
      /\ \A j \in DOMAIN u : TakesCall(u[j].fun, name, kinds) => j - 1 <= i
  BY <1>1, <1>b, <1>c, FindFinds
<1>3. /\ i + 1 \in 1..n /\ i + 1 \in DOMAIN t /\ i \in Nat /\ n \in Nat
      /\ TakesCall(t[i + 1].fun, name, kinds)
  BY <1>1, <1>2
<1>4. PICK k : k = FIND_FUNCTION(t, name, kinds)
  OBVIOUS
<1>5. /\ k # Undefined /\ k \in 0..Len(t) - 1 /\ TakesCall(t[k + 1].fun, name, kinds)
      /\ i <= k
  <2>1. k # Undefined
    BY <1>3, <1>4, FindFinds
  <2>2. /\ k \in 0..Len(t) - 1 /\ TakesCall(t[k + 1].fun, name, kinds)
        /\ (i + 1) - 1 <= k
    BY <1>3, <1>4, <2>1, FindFinds
  <2> QED  BY <1>3, <2>1, <2>2
<1>6. CASE k >= n
  <2>1. k + 1 \in n + 1..Len(t) /\ k + 1 \in DOMAIN t /\ i + 1 \in 1..(k + 1) - 1
    BY <1>3, <1>5, <1>6
  <2>2. ~t[k + 1].operator /\ EntrySound(t, k + 1)
    BY <2>1 DEF TableSound, AddedAfter
  <2>3. ~Takes(t[i + 1].fun, t[k + 1].fun.name, Len(t[k + 1].fun.params))
    BY <2>1, <2>2 DEF EntrySound
  <2>4. t[k + 1].fun.name = name /\ Len(t[k + 1].fun.params) = Len(kinds)
    BY <1>5 DEF TakesCall, Takes
  <2> QED  BY <1>3, <2>3, <2>4 DEF TakesCall
<1>7. CASE k < n
  <2>1. k + 1 \in 1..n /\ k + 1 \in DOMAIN u /\ (k + 1) - 1 = k
    BY <1>1, <1>3, <1>5, <1>7
  <2>2. k <= i
    BY <1>1, <1>2, <1>5, <2>1
  <2> QED  BY <1>3, <1>4, <1>5, <2>2
<1> QED  BY <1>3, <1>5, <1>6, <1>7

LEMMA FoundNow ==
    ASSUME StaticSound, ObjectSound, SiteSound, NEW c \in Class, NEW kinds, Callable(c, kinds)
    PROVE  /\ linked /\ Exists(c) /\ Len(kinds) = site.args
           /\ c = Main <=> site.kind = "global"
           /\ \A i : i = FIND_FUNCTION(m_functionSymbol(c), site.callee, kinds) /\ i # Undefined =>
                        i \in Nat /\ i = FIND_FUNCTION(table[c], site.callee, kinds)
           /\ (c # Main => object.size = Len(table[c])) => m_functionSymbol(c) = table[c]
           /\ site.callee = "constructor" => m_functionSymbol(c) = table[c]
<1>1. /\ linked /\ Exists(c) /\ Len(kinds) = site.args
      /\ c = IF site.kind = "global" THEN Main ELSE object.class
      /\ site.callee = "constructor" => object.size = Len(table[c])
  BY DEF Callable
<1>2. PICK t \in Seq(EntryType) : t = table[c] /\ TableSound(t)
  BY DEF StaticSound, Typed, TablesSound
<1>3. CASE site.kind = "global"
  <2>1. c = Main /\ m_functionSymbol(c) = t
    BY <1>1, <1>2, <1>3 DEF m_functionSymbol
  <2>2. \A i : i = FIND_FUNCTION(t, site.callee, kinds) /\ i # Undefined => i \in Nat
    BY FindFinds
  <2> QED  BY <1>1, <1>2, <1>3, <2>1, <2>2
<1>4. CASE site.kind # "global"
  <2>1. c = object.class
    BY <1>1, <1>4
  <2>2. object # NoObject
    BY <2>1, ClassAssumption DEF NoObject
  <2>3. PICK n \in Nat : n = object.size
    BY <2>2 DEF ObjectSound
  <2>4. c # Main /\ n <= Len(t) /\ \A j \in n + 1..Len(t) : ~t[j].operator
    BY <1>2, <2>1, <2>2, <2>3 DEF ObjectSound
  <2>5. PICK u : u = SubSeq(t, 1, n)
    OBVIOUS
  <2>6. m_functionSymbol(c) = u
    BY <1>2, <2>3, <2>4, <2>5 DEF m_functionSymbol
  <2>7. ASSUME NEW i, i = FIND_FUNCTION(u, site.callee, kinds), i # Undefined
        PROVE  i \in Nat /\ i = FIND_FUNCTION(t, site.callee, kinds)
    <3>1. n \in 0..Len(t) /\ AddedAfter(t, n)
      BY <2>4 DEF AddedAfter
    <3>2. PICK name : name = site.callee
      OBVIOUS
    <3>3. i = FIND_FUNCTION(SubSeq(t, 1, n), name, kinds)
      BY <2>5, <2>7, <3>2
    <3>4. i \in Nat /\ i = FIND_FUNCTION(t, name, kinds)
      BY <1>2, <2>7, <3>1, <3>3, OldSearch
    <3> QED  BY <3>2, <3>4
  <2>8. n = Len(t) => u = t
    BY <2>5
  <2> QED  BY <1>1, <1>2, <1>4, <2>3, <2>4, <2>6, <2>7, <2>8
<1> QED  BY <1>3, <1>4

\* A table of a class that loses nothing is exact.
LEMMA NothingLost ==
    ASSUME StaticSound, NEW c \in Class, ~LosesOverloads(c)
    PROVE  /\ IsExact(table[c], heritage[c])
           /\ heritage[c] \in Seq(Seq(Function)) /\ table[c] \in Seq(EntryType)
<1>1. PICK h : h = heritage[c]
  OBVIOUS
<1>2. PICK t : t = table[c]
  OBVIOUS
<1>3. h \in Seq(Seq(Function)) /\ t \in Seq(EntryType) /\ Follows(t, h)
  BY <1>1, <1>2 DEF StaticSound, ClassesSound, ClassSound
<1>4. ASSUME NEW l \in DOMAIN h, NEW k \in DOMAIN h[l]
      PROVE  t[Place(h, l) + k].fun = h[l][k]
  <2>1. PICK f : f = t[Place(h, l) + k].fun
    OBVIOUS
  <2>2. StandsFor(f, h, l, k)
    BY <1>3, <2>1 DEF Follows
  <2>3. CASE h[l][k].native /\ l < Len(h)
    <3>1. IsLastNamed(f, h[l], h[l][k].name)
      BY <2>2, <2>3 DEF StandsFor
    <3>2. PICK m \in DOMAIN h[l] : /\ f = h[l][m] /\ f.name = h[l][k].name
                                   /\ k <= m
      BY <3>1 DEF IsLastNamed
    <3>3. l \in 1..Len(h) - 1
      BY <1>3, <2>3
    <3>4. ~(k < m)
      BY <1>1, <2>3, <3>2, <3>3 DEF LosesOverloads
    <3>5. k \in Nat /\ m \in Nat
      <4>1. DOMAIN h[l] = 1..Len(h[l])
        BY <1>3, PlacesOf
      <4> QED  BY <3>2, <4>1
    <3>6. k = m
      BY <3>2, <3>4, <3>5
    <3> QED  BY <2>1, <3>2, <3>6
  <2>4. CASE ~(h[l][k].native /\ l < Len(h))
    BY <2>1, <2>2, <2>4 DEF StandsFor
  <2> QED  BY <2>3, <2>4
<1>5. IsExact(t, h)
  BY <1>3, <1>4 DEF IsExact, Follows
<1> QED  BY <1>1, <1>2, <1>3, <1>5

\* The functions of an exact table are those that the class has.
LEMMA ExactHas ==
    ASSUME NEW c \in Class, NEW t \in Seq(EntryType), NEW h \in Seq(Seq(Function)),
           h = heritage[c], IsExact(t, h)
    PROVE  \A j \in DOMAIN t : t[j].fun \in Functions(c) /\ t[j].fun \in Function
<1> TAKE j \in DOMAIN t
<1>1. PICK m \in 1..Len(h) + 1 : m = Len(h) + 1
  OBVIOUS
<1>2. j \in 1..Place(h, m)
  BY <1>1 DEF IsExact
<1>3. \E l \in 1..m - 1 : \E k \in DOMAIN h[l] : j = Place(h, l) + k
  BY <1>2, PlacesOf
<1>4. PICK l \in DOMAIN h : \E k \in DOMAIN h[l] : j = Place(h, l) + k
  BY <1>1, <1>3
<1>5. PICK k \in DOMAIN h[l] : j = Place(h, l) + k
  BY <1>4
<1>6. t[j].fun = h[l][k]
  BY <1>5 DEF IsExact
<1>7. h[l] \in Seq(Function)
  BY PlacesOf
<1>8. h[l][k] \in Range(heritage[c][l]) /\ l \in DOMAIN heritage[c] /\ h[l][k] \in Function
  BY <1>7 DEF Range
<1> QED  BY <1>6, <1>8 DEF Functions

\* The arguments of a call fit a function if none of them is a text after another one.
LEMMA MatchIsFit ==
    ASSUME NEW f \in Function, NEW kinds \in Seq(Kind), Len(f.params) = Len(kinds),
           \A j, k \in DOMAIN kinds : j < k => kinds[k] # "text"
    PROVE  /\ MatchArgs(f.params, kinds) <=> \A k \in DOMAIN kinds : Fits(f.params[k], kinds[k])
           /\ MatchArgs(f.params, kinds) =>
                 \A k \in DOMAIN kinds : Converts(f.params[k], kinds[k])
<1>1. f.params \in Seq(Type)
  BY DEF Function
<1>2. ASSUME NEW k \in DOMAIN kinds
      PROVE  f.params[k] \in Type /\ kinds[k] \in Kind
  BY <1>1
<1>3. ASSUME NEW k \in DOMAIN kinds, kinds[k] = "text"
      PROVE  IdxType(kinds, k) = None
  <2>1. \A j \in 1..k - 1 : j \in DOMAIN kinds /\ j < k
    OBVIOUS
  <2>2. \A j \in 1..k - 1 : FALSE
    BY <1>3, <2>1
  <2>3. {j \in 1..k - 1 : PointerOf(kinds[j]) # None} = {}
    BY <2>2
  <2> QED  BY <2>3 DEF IdxType
<1> DEFINE Match(k) == CASE kinds[k] = "int"   -> f.params[k] \in {"int", "int*"}
                         [] kinds[k] = "float" -> f.params[k] = "float*"
                         [] kinds[k] = "text"  -> f.params[k] \in {"string*", IdxType(kinds, k)}
<1>4. ASSUME NEW k \in DOMAIN kinds
      PROVE  /\ Match(k) <=> Fits(f.params[k], kinds[k])
             /\ Match(k) => Converts(f.params[k], kinds[k])
  <2>1. CASE kinds[k] = "int"
    BY <2>1 DEF Fits, Converts
  <2>2. CASE kinds[k] = "float"
    BY <2>2 DEF Fits, Converts
  <2>3. CASE kinds[k] = "text"
    <3>1. IdxType(kinds, k) = None /\ f.params[k] # None
      BY <1>2, <1>3, <2>3 DEF Type
    <3> QED  BY <2>3, <3>1 DEF Fits, Converts
  <2> QED  BY <1>2, <2>1, <2>2, <2>3 DEF Kind
<1>5. MatchArgs(f.params, kinds) <=> \A k \in DOMAIN kinds : Match(k)
  BY DEF MatchArgs
<1> HIDE DEF Match
<1> QED  BY <1>4, <1>5

\* No text after another argument.
TextsFirst(kinds) == \A j, k \in DOMAIN kinds : j < k => kinds[k] # "text"

Wanted(c, name, kinds) == {f \in Taking(c, name, Len(kinds)) : FitsAll(f, kinds)}

\* What a search finds is what inheritance and the arguments say.
LEMMA FoundIsDeclared ==
    ASSUME StaticSound, NEW c \in Class, ~LosesOverloads(c),
           NEW kinds \in Seq(Kind), TextsFirst(kinds), NEW name,
           NEW i, i = FIND_FUNCTION(table[c], name, kinds),
           NEW best, best = Nearest(c, Len(heritage[c]), Wanted(c, name, kinds))
    PROVE  /\ i = Undefined => best = NoFunction
           /\ i # Undefined => /\ i \in Indexes(table[c])
                               /\ At(table[c], i).fun = best
                               /\ ResultOf(best, c, kinds) \in {"ran", "undefined"}
                               /\ HasObject(c) \/ ~best.native => ResultOf(best, c, kinds) = "ran"
<1>1. PICK h \in Seq(Seq(Function)) : h = heritage[c]
  BY NothingLost
<1>2. PICK t \in Seq(EntryType) : t = table[c]
  BY NothingLost
<1>3. IsExact(t, h)
  BY <1>1, <1>2, NothingLost
<1>4. PICK W : W = Wanted(c, name, kinds)
  OBVIOUS
<1>5. ASSUME NEW j \in DOMAIN t  PROVE TakesCall(t[j].fun, name, kinds) <=> t[j].fun \in W
  <2>1. PICK f \in Function : f = t[j].fun /\ f \in Functions(c)
    BY <1>1, <1>3, ExactHas
  <2>2. f \in W <=> Takes(f, name, Len(kinds)) /\ FitsAll(f, kinds)
    BY <1>4, <2>1 DEF Wanted, Taking
  <2>3. Takes(f, name, Len(kinds)) =>
           (MatchArgs(f.params, kinds) <=> \A k \in DOMAIN kinds : Fits(f.params[k], kinds[k]))
    BY MatchIsFit DEF Takes, TextsFirst
  <2> QED  BY <2>1, <2>2, <2>3 DEF TakesCall, FitsAll
<1> DEFINE S == {k \in 0..Len(t) - 1 : TakesCall(t[k + 1].fun, name, kinds)}
<1>6. i = Highest(S)
  <2>1. S = {k \in Indexes(t) :
               /\ Takes(At(t, k).fun, name, Len(kinds))
               /\ At(t, k).fun.native => MatchArgs(At(t, k).fun.params, kinds)}
    BY DEF Indexes, At, TakesCall
  <2> QED  BY <1>2, <2>1 DEF FIND_FUNCTION
<1>7. PICK below \in 0..Len(h) : below = Len(h)
  OBVIOUS
<1>8. \A k : k \in S <=> k \in 0..Place(h, below + 1) - 1 /\ t[k + 1].fun \in W
  <2>1. Place(h, below + 1) = Len(t)
    BY <1>3, <1>7 DEF IsExact
  <2>2. \A k \in 0..Len(t) - 1 : k + 1 \in DOMAIN t
    OBVIOUS
  <2> QED  BY <1>5, <2>1, <2>2
<1>9. best = NearestOf(h, below, W)
  BY <1>1, <1>4, <1>7 DEF Nearest, NearestOf
<1>10. /\ S = {} => best = NoFunction
       /\ S # {} => i \in S /\ t[i + 1].fun = best
  <2> HIDE DEF S
  <2>1. /\ S = {} => NearestOf(h, below, W) = NoFunction
        /\ S # {} => /\ Highest(S) \in S
                     /\ t[Highest(S) + 1].fun = NearestOf(h, below, W)
    <3>1. IsSearched(S, t, h, below, W)
      BY <1>8 DEF IsSearched
    <3> QED  BY <1>3, <3>1, HighestIsNearest
  <2> QED  BY <1>6, <1>9, <2>1
<1>11. S = {} => i = Undefined
  <2>1. S = {} => Highest(S) = Undefined
    BY DEF Highest
  <2> QED  BY <1>6, <2>1
<1>12. S # {} => i # Undefined
  BY <1>10 DEF Undefined
<1>13. ASSUME S # {}
       PROVE  /\ i \in Indexes(t) /\ At(t, i).fun = best
              /\ ResultOf(best, c, kinds) \in {"ran", "undefined"}
              /\ HasObject(c) \/ ~best.native => ResultOf(best, c, kinds) = "ran"
  <2>1. i \in 0..Len(t) - 1 /\ t[i + 1].fun = best /\ TakesCall(best, name, kinds)
        /\ i + 1 \in DOMAIN t
    BY <1>10, <1>13
  <2>2. best \in Function
    BY <1>1, <1>3, <2>1, ExactHas
  <2>3. CASE ~best.native
    BY <2>1, <2>3 DEF ResultOf, Indexes, At
  <2>4. CASE best.native
    <3>1. Len(best.params) = Len(kinds) /\ MatchArgs(best.params, kinds)
      BY <2>1, <2>4 DEF TakesCall, Takes
    <3>2. \A k \in DOMAIN kinds : Converts(best.params[k], kinds[k])
      BY <2>2, <3>1, MatchIsFit DEF TextsFirst
    <3> QED  BY <2>1, <2>4, <3>1, <3>2 DEF ResultOf, Indexes, At
  <2> QED  BY <2>3, <2>4
<1> HIDE DEF S
<1> QED  BY <1>2, <1>10, <1>11, <1>12, <1>13

\* What a call may leave in the instruction, and what it must run if it is steady.
Steadily(c, kinds) ==
    /\ site.kind \in {"access", "global"}
    /\ seen \in {Unseen, [class |-> c, kinds |-> kinds]}
    /\ c # Main => object.size = Len(table[c])
    /\ ~LosesOverloads(c)
    /\ TextsFirst(kinds)
    /\ site.callee = "constructor" /\ kinds = <<>> => ~IsNative(c)

Keeping(c, kinds, found) ==
    site.kind \in {"access", "global"} /\ seen \in {Unseen, [class |-> c, kinds |-> kinds]} =>
        IsFound(c, kinds, found)

RunsFound(c, kinds, result, fun) ==
    LET i == FIND_FUNCTION(table[c], site.callee, kinds)
    IN  IF i = Undefined THEN result \in {"skipped", "error"} /\ fun = NoFunction
        ELSE fun = At(table[c], i).fun /\ result = ResultOf(fun, c, kinds)

\* The nearest function that takes a call, of a heritage.
BestOf(h, name, kinds) ==
    LET Has     == UNION {Range(h[l]) : l \in DOMAIN h}
        wanted  == {f \in {g \in Has : Takes(g, name, Len(kinds))} : FitsAll(f, kinds)}
        level(l) == {k \in DOMAIN h[l] : h[l][k] \in wanted}
        levels == {l \in 1..Len(h) : level(l) # {}}
    IN  IF levels = {} THEN NoFunction ELSE h[Max(levels)][Max(level(Max(levels)))]

LEMMA CallStep ==
    ASSUME StaticSound, ObjectSound, SiteSound,
           NEW c \in Class, NEW kinds \in Arguments \cup {<<>>}, kinds \in Seq(Kind),
           NEW result, NEW fun, NEW found, Calls(c, kinds, result, fun, found),
           site.kind \in {"access", "global"} =>
              Exists(c) /\ Len(kinds) = site.args /\ (c = Main <=> site.kind = "global"),
           Keeping(c, kinds, found),
           Steadily(c, kinds) => RunsFound(c, kinds, result, fun)
    PROVE  StaticSound' /\ ObjectSound' /\ SiteSound' /\ LastSound'
<1>1. PICK w \in With : w = [class |-> c, kinds |-> kinds]
  BY WithIsACall
<1>2. /\ last' = [with |-> w, result |-> result,
                  fun |-> IF result \in {"ran", "undefined"} THEN fun ELSE NoFunction]
      /\ seen' = IF seen \in {Unseen, w} THEN w ELSE Mixed
      /\ index_op2' = found
      /\ UNCHANGED <<ancestors, own, table, linked, object, site, heritage>>
  BY <1>1 DEF Calls
<1>3. StaticSound'
  <2>1. Typed'
    BY <1>2 DEF StaticSound, Typed, Exists
  <2>2. ClassesSound'
    BY <1>2 DEF StaticSound, ClassesSound, ClassSound, Exists, IsNative
  <2>3. TablesSound' /\ TablesLinked'
    BY <1>2 DEF StaticSound, TablesSound, TablesLinked
  <2> QED  BY <2>1, <2>2, <2>3 DEF StaticSound
<1>4. ObjectSound'
  BY <1>2 DEF ObjectSound, Exists
<1>5. SiteSound'
  <2>1. w.class = c /\ w.kinds = kinds /\ w # Unseen /\ w # Mixed
        /\ Unseen \notin With /\ Mixed \notin With /\ Unseen # Mixed
    BY <1>1, WithIsACall
  <2>2. seen' \in {Mixed, w} /\ seen' # Unseen
    BY <1>2, <2>1
  <2>3. ASSUME site.kind \in {"access", "global"}, seen' \in With
        PROVE  SeenIsFound(c, kinds)' /\ seen' = w
    <3>1. seen' = w /\ seen \in {Unseen, w}
      BY <1>2, <2>1, <2>3
    <3>2. IsFound(c, kinds, found)
      BY <1>1, <2>3, <3>1 DEF Keeping
    <3>3. IsFound(c, kinds, found)'
      BY <1>2, <3>2 DEF IsFound, IsNative
    <3>4. Exists(c) /\ Len(kinds) = site.args /\ (c = Main <=> site.kind = "global")
      BY <2>3
    <3>5. Exists(c)' /\ Len(kinds) = site'.args /\ (c = Main <=> site'.kind = "global")
      BY <1>2, <3>4 DEF Exists
    <3> QED  BY <1>2, <3>1, <3>3, <3>5 DEF SeenIsFound, IsFound
  <2>4. site' = site /\ site \in Site
    BY <1>2 DEF SiteSound
  <2>5. seen' \in {Unseen, Mixed} \cup With
    BY <2>2
  <2>6. site'.kind \in {"access", "global"} /\ seen' \in With =>
           seen'.class = c /\ seen'.kinds = kinds /\ SeenIsFound(c, kinds)'
    BY <2>1, <2>3, <2>4
  <2> QED  BY <2>2, <2>4, <2>5, <2>6 DEF SiteSound, SeenIsFound, IsFound, Exists, IsNative
<1>6. RunsDeclared(c, kinds)'
  <2>1. SUFFICES ASSUME Steady(c, kinds)'
                 PROVE  (/\ last.fun = Nearest(c, Len(heritage[c]), Wanted(c, site.callee, kinds))
                         /\ last.fun # NoFunction => last.result = "ran")'
    BY DEF RunsDeclared, Wanted
  <2>2. PICK best : best = Nearest(c, Len(heritage[c]), Wanted(c, site.callee, kinds))
    OBVIOUS
  <2>3. best = Nearest(c, Len(heritage[c]), Wanted(c, site.callee, kinds))'
    <3>1. best = BestOf(heritage[c], site.callee, kinds)
      BY <2>2 DEF BestOf, Nearest, Wanted, Taking, Functions
    <3>2. best = BestOf(heritage'[c], site'.callee, kinds)
      BY <1>2, <3>1
    <3> QED  BY <3>2 DEF BestOf, Nearest, Wanted, Taking, Functions
  <2>4. /\ site.kind \in {"access", "global"} /\ seen' = last'.with
        /\ c # Main => object.size = Len(table[c])
        /\ HasObject(c) \/ ~last'.fun.native
        /\ ~LosesOverloads(c)
        /\ TextsFirst(kinds)
        /\ site.callee = "constructor" /\ kinds = <<>> => ~IsNative(c)
    BY <1>2, <2>1 DEF Steady, HasObject, LosesOverloads, IsNative, TextsFirst
  <2>5. Steadily(c, kinds)
    <3>1. seen' = w
      BY <1>2, <2>4
    <3>2. w # Mixed
      BY <1>1, WithIsACall
    <3>3. seen \in {Unseen, w}
      BY <1>2, <3>1, <3>2
    <3> QED  BY <1>1, <2>4, <3>3 DEF Steadily
  <2>6. RunsFound(c, kinds, result, fun)
    BY <2>5
  <2>7. PICK name : name = site.callee
    OBVIOUS
  <2>8. PICK i : i = FIND_FUNCTION(table[c], name, kinds)
    OBVIOUS
  <2>9. best = Nearest(c, Len(heritage[c]), Wanted(c, name, kinds))
    BY <2>2, <2>7
  <2>10. /\ i = Undefined => best = NoFunction
         /\ i # Undefined => /\ i \in Indexes(table[c])
                             /\ At(table[c], i).fun = best
                             /\ ResultOf(best, c, kinds) \in {"ran", "undefined"}
                             /\ HasObject(c) \/ ~best.native => ResultOf(best, c, kinds) = "ran"
    BY <2>4, <2>8, <2>9, FoundIsDeclared
  <2>11. CASE i = Undefined
    <3>1. result \in {"skipped", "error"}
      BY <2>6, <2>7, <2>8, <2>11 DEF RunsFound
    <3>2. last'.fun = NoFunction
      BY <1>2, <3>1
    <3> QED  BY <2>3, <2>10, <2>11, <3>2
  <2>12. CASE i # Undefined
    <3>1. fun = best /\ result = ResultOf(best, c, kinds)
      BY <2>6, <2>7, <2>8, <2>10, <2>12 DEF RunsFound
    <3>2. last'.fun = best /\ last'.result = result
      BY <1>2, <2>10, <2>12, <3>1
    <3>3. result = "ran"
      BY <2>4, <2>10, <2>12, <3>1, <3>2
    <3> QED  BY <2>3, <3>2, <3>3
  <2> QED  BY <2>11, <2>12
<1>7. LastSound'
  <2>1. last'.with = w /\ w.class = c /\ w.kinds = kinds
    BY <1>1, <1>2
  <2>2. RunsDeclared(w.class, w.kinds)'
    BY <1>6, <2>1
  <2> QED  BY <2>1, <2>2 DEF LastSound
<1> QED  BY <1>3, <1>4, <1>5, <1>7

LEMMA CallByIndexStep ==
    ASSUME StaticSound, ObjectSound, SiteSound,
           NEW c \in Class, NEW kinds \in Arguments, CallByIndex(c, kinds)
    PROVE  StaticSound' /\ ObjectSound' /\ SiteSound' /\ LastSound'
<1>1. PICK i : i = index_op2
  OBVIOUS
<1>2. PICK t \in Seq(EntryType) : t = table[c]
  BY DEF StaticSound, Typed
<1>3. PICK fun : fun = IF i \in Indexes(t) THEN At(t, i).fun ELSE NoFunction
  OBVIOUS
<1>4. PICK result : result = IF i \in Indexes(t) THEN ResultOf(fun, c, kinds) ELSE "error"
  OBVIOUS
<1>5. Callable(c, kinds) /\ i >= 0 /\ Calls(c, kinds, result, fun, i)
  BY <1>1, <1>2, <1>3, <1>4 DEF CallByIndex
<1>6. Exists(c) /\ Len(kinds) = site.args /\ (c = Main <=> site.kind = "global")
  BY <1>5, FoundNow
<1>7. kinds \in Seq(Kind)
  BY SiteAssumption
<1>8. ASSUME site.kind \in {"access", "global"}, seen \in {Unseen, [class |-> c, kinds |-> kinds]}
      PROVE  i \in Nat /\ i = FIND_FUNCTION(t, site.callee, kinds)
  <2>1. PICK w \in With : w = [class |-> c, kinds |-> kinds]
    BY WithIsACall
  <2>2. i # Undefined /\ i # NotFound
    BY <1>5 DEF Undefined, NotFound
  <2>3. seen = w
    BY <1>1, <1>8, <2>1, <2>2 DEF SiteSound
  <2>4. SeenIsFound(w.class, w.kinds)
    BY <1>8, <2>3 DEF SiteSound
  <2>5. w.class = c /\ w.kinds = kinds
    BY <2>1
  <2> QED  BY <1>1, <1>2, <2>2, <2>4, <2>5 DEF SeenIsFound, IsFound
<1>9. Keeping(c, kinds, i)
  BY <1>2, <1>8 DEF Keeping, IsFound
<1>10. ASSUME Steadily(c, kinds)  PROVE RunsFound(c, kinds, result, fun)
  <2>1. i \in Nat /\ i = FIND_FUNCTION(t, site.callee, kinds)
    BY <1>8, <1>10 DEF Steadily
  <2>2. i # Undefined
    BY <2>1 DEF Undefined
  <2>3. i \in Indexes(t)
    <3>1. PICK name : name = site.callee
      OBVIOUS
    <3>2. i \in 0..Len(t) - 1
      BY <2>1, <2>2, <3>1, FindFinds
    <3> QED  BY <3>2 DEF Indexes
  <2> QED  BY <1>2, <1>3, <1>4, <2>1, <2>2, <2>3 DEF RunsFound
<1> QED  BY <1>5, <1>6, <1>7, <1>9, <1>10, CallStep

LEMMA CallBySearchStep ==
    ASSUME StaticSound, ObjectSound, SiteSound,
           NEW c \in Class, NEW kinds \in Arguments, CallBySearch(c, kinds)
    PROVE  StaticSound' /\ ObjectSound' /\ SiteSound' /\ LastSound'
<1>1. PICK i : i = FIND_FUNCTION(m_functionSymbol(c), site.callee, kinds)
  OBVIOUS
<1>2. PICK t \in Seq(EntryType) : t = table[c]
  BY DEF StaticSound, Typed
<1>3. Callable(c, kinds)
  BY DEF CallBySearch
<1>4. /\ linked /\ Exists(c) /\ Len(kinds) = site.args /\ (c = Main <=> site.kind = "global")
      /\ i # Undefined => i \in Nat /\ i = FIND_FUNCTION(t, site.callee, kinds)
      /\ (c # Main => object.size = Len(table[c])) => i = FIND_FUNCTION(t, site.callee, kinds)
      /\ site.callee = "constructor" => i = FIND_FUNCTION(t, site.callee, kinds)
  <2>1. /\ linked /\ Exists(c) /\ Len(kinds) = site.args /\ (c = Main <=> site.kind = "global")
        /\ \A k : k = FIND_FUNCTION(m_functionSymbol(c), site.callee, kinds) /\ k # Undefined =>
                     k \in Nat /\ k = FIND_FUNCTION(table[c], site.callee, kinds)
        /\ (c # Main => object.size = Len(table[c])) => m_functionSymbol(c) = table[c]
        /\ site.callee = "constructor" => m_functionSymbol(c) = table[c]
    BY <1>3, FoundNow
  <2> QED  BY <1>1, <1>2, <2>1
<1>5. kinds \in Seq(Kind)
  BY SiteAssumption
<1>6. CASE IsImplicit(c, kinds, i)
  <2>1. Calls(c, kinds, "skipped", NoFunction, NotFound)
    BY <1>1, <1>6 DEF CallBySearch
  <2>2. site.callee = "constructor" /\ kinds = <<>> /\ (i = Undefined \/ IsNative(c))
    BY <1>6 DEF IsImplicit
  <2>3. IsFound(c, kinds, NotFound)
    BY <1>2, <1>4, <2>2 DEF IsFound
  <2>4. Keeping(c, kinds, NotFound)
    BY <2>3 DEF Keeping
  <2>5. Steadily(c, kinds) => RunsFound(c, kinds, "skipped", NoFunction)
    BY <1>2, <1>4, <2>2 DEF Steadily, RunsFound
  <2> QED  BY <1>4, <1>5, <2>1, <2>4, <2>5, CallStep
<1>7. CASE ~IsImplicit(c, kinds, i) /\ i = Undefined
  <2>1. Calls(c, kinds, "error", NoFunction, Undefined)
    BY <1>1, <1>7 DEF CallBySearch
  <2>2. Keeping(c, kinds, Undefined)
    BY DEF Keeping, IsFound
  <2>3. Steadily(c, kinds) => RunsFound(c, kinds, "error", NoFunction)
    BY <1>2, <1>4, <1>7 DEF Steadily, RunsFound
  <2> QED  BY <1>4, <1>5, <2>1, <2>2, <2>3, CallStep
<1>8. CASE ~IsImplicit(c, kinds, i) /\ i # Undefined
  <2>1. PICK fun : fun = At(t, i).fun
    OBVIOUS
  <2>2. PICK result : result = ResultOf(fun, c, kinds)
    OBVIOUS
  <2>3. Calls(c, kinds, result, fun, i)
    BY <1>1, <1>2, <1>8, <2>1, <2>2 DEF CallBySearch
  <2>4. Keeping(c, kinds, i)
    BY <1>2, <1>4, <1>8 DEF Keeping, IsFound
  <2>5. Steadily(c, kinds) => RunsFound(c, kinds, result, fun)
    BY <1>2, <1>4, <1>8, <2>1, <2>2 DEF RunsFound
  <2> QED  BY <1>4, <1>5, <2>3, <2>4, <2>5, CallStep
<1> QED  BY <1>6, <1>7, <1>8

LEMMA CallNotFoundStep ==
    ASSUME StaticSound, ObjectSound, SiteSound,
           NEW c \in Class, NEW kinds \in Arguments, CallNotFound(c, kinds)
    PROVE  StaticSound' /\ ObjectSound' /\ SiteSound' /\ LastSound'
<1>1. Callable(c, kinds) /\ index_op2 = NotFound /\ Calls(c, kinds, "skipped", NoFunction, NotFound)
  BY DEF CallNotFound
<1>2. linked /\ Exists(c) /\ Len(kinds) = site.args /\ (c = Main <=> site.kind = "global")
  BY <1>1, FoundNow
<1>3. kinds \in Seq(Kind)
  BY SiteAssumption
<1>4. Keeping(c, kinds, NotFound)
  <2> SUFFICES ASSUME site.kind \in {"access", "global"},
                      seen \in {Unseen, [class |-> c, kinds |-> kinds]}
               PROVE  IsFound(c, kinds, NotFound)
    BY DEF Keeping
  <2>1. PICK w \in With : w = [class |-> c, kinds |-> kinds]
    BY WithIsACall
  <2>2. seen = w
    BY <1>1, <2>1 DEF SiteSound, Undefined, NotFound
  <2>3. SeenIsFound(w.class, w.kinds)
    BY <2>2 DEF SiteSound
  <2>4. w.class = c /\ w.kinds = kinds
    BY <2>1
  <2> QED  BY <1>1, <2>3, <2>4 DEF SeenIsFound
<1>5. Steadily(c, kinds) => RunsFound(c, kinds, "skipped", NoFunction)
  <2> HAVE Steadily(c, kinds)
  <2>1. IsFound(c, kinds, NotFound)
    BY <1>4 DEF Keeping, Steadily
  <2>2. site.callee = "constructor" /\ kinds = <<>>
        /\ (IsNative(c) \/ FIND_FUNCTION(table[c], site.callee, kinds) = Undefined)
    BY <1>2, <2>1 DEF IsFound, NotFound, Undefined
  <2> QED  BY <2>2 DEF Steadily, RunsFound
<1> QED  BY <1>1, <1>2, <1>3, <1>4, <1>5, CallStep

LEMMA MetamethodStep ==
    ASSUME StaticSound, ObjectSound, SiteSound, NEW c \in Class, APPLY_METAMETHOD(c)
    PROVE  StaticSound' /\ ObjectSound' /\ SiteSound' /\ LastSound'
<1>1. site.kind = "operator"
  BY DEF APPLY_METAMETHOD
<1>2. PICK kinds : kinds = <<>>
  OBVIOUS
<1>3. PICK result, fun, found : Calls(c, kinds, result, fun, found)
  <2>1. PICK t : t = metamethod_operator(c, site.callee)
    OBVIOUS
  <2>2. CASE index_op2 = Undefined /\ t = <<>>
    BY <1>2, <2>1, <2>2 DEF APPLY_METAMETHOD
  <2>3. CASE index_op2 = Undefined /\ t # <<>>
    BY <1>2, <2>1, <2>3 DEF APPLY_METAMETHOD
  <2>4. CASE index_op2 # Undefined
    BY <1>2, <2>1, <2>4 DEF APPLY_METAMETHOD
  <2> QED  BY <2>2, <2>3, <2>4
<1>4. kinds \in Seq(Kind) /\ kinds \in Arguments \cup {<<>>}
  BY <1>2
<1>5. Keeping(c, kinds, found) /\ ~Steadily(c, kinds)
  BY <1>1 DEF Keeping, Steadily
<1> QED  BY <1>1, <1>3, <1>4, <1>5, CallStep

-----------------------------------------------------------------------------
(* The invariant and what follows from it.                                  *)

\* What LookupInv says holds in every state of every library of classes.
THEOREM LookupIsSound == Spec => []LookupInv
<1>1. ASSUME Init  PROVE LookupInv
  <2>1. ObjectSound
    BY <1>1 DEF Init, ObjectSound
  <2>2. SiteSound
    <3>1. Unseen \notin With
      BY ClassAssumption DEF With, Unseen
    <3> QED  BY <1>1, <3>1 DEF Init, SiteSound
  <2>3. LastSound
    BY <1>1 DEF Init, LastSound
  <2> QED  BY <1>1, <2>1, <2>2, <2>3, InitStatic DEF LookupInv
<1>2. ASSUME LookupInv, [Next]_vars  PROVE LookupInv'
  <2>0. StaticSound /\ ObjectSound /\ SiteSound /\ LastSound
    BY <1>2 DEF LookupInv
  <2>1. ASSUME NEW c \in Class, NEW funs \in NativeSources, registerNative(c, funs)
        PROVE  LookupInv'
    <3>1. StaticSound' /\ OthersKept
      BY <2>0, <2>1, RegisterNativeStep
    <3>2. /\ linked' = FALSE /\ UNCHANGED <<object, site, index_op2, seen>>
          /\ last' = NotCalled
      BY <2>1 DEF registerNative, Declares
    <3>3. ObjectSound' /\ SiteSound'
      BY <2>0, <3>1, <3>2, DeclareDynamic
    <3> QED  BY <3>1, <3>2, <3>3 DEF LookupInv, LastSound
  <2>2. ASSUME NEW c \in Class, NEW parent \in Class \cup {None}, NEW funs \in ScriptSources,
               gacClass(c, parent, funs)
        PROVE  LookupInv'
    <3>1. StaticSound' /\ OthersKept
      BY <2>0, <2>2, GacClassStep
    <3>2. /\ linked' = FALSE /\ UNCHANGED <<object, site, index_op2, seen>>
          /\ last' = NotCalled
      BY <2>2 DEF gacClass, Declares
    <3>3. ObjectSound' /\ SiteSound'
      BY <2>0, <3>1, <3>2, DeclareDynamic
    <3> QED  BY <3>1, <3>2, <3>3 DEF LookupInv, LastSound
  <2>3. ASSUME NEW c \in Class, NEW fun \in Extensions, Extend(c, fun)
        PROVE  LookupInv'
    <3>1. StaticSound'
      BY <2>0, <2>3, ExtendStep
    <3>2. ObjectSound' /\ SiteSound'
      BY <2>0, <2>3, ExtendDynamic
    <3>3. last' = NotCalled
      BY <2>3 DEF Extend
    <3> QED  BY <3>1, <3>2, <3>3 DEF LookupInv, LastSound
  <2>4. CASE updateReferenceSymbols
    <3>1. StaticSound'
      BY <2>0, <2>4, LinkStep
    <3>2. ObjectSound' /\ SiteSound'
      BY <2>0, <2>4, LinkDynamic
    <3>3. last' = NotCalled
      BY <2>4 DEF updateReferenceSymbols
    <3> QED  BY <3>1, <3>2, <3>3 DEF LookupInv, LastSound
  <2>5. ASSUME NEW c \in Class, createSymbols(c)  PROVE LookupInv'
    <3>1. ObjectSound' /\ SiteSound'
      BY <2>0, <2>5, CreateDynamic
    <3>2. /\ UNCHANGED <<ancestors, own, table, linked, heritage>> /\ last' = NotCalled
      BY <2>5 DEF createSymbols
    <3>3. StaticSound'
      <4>1. Typed'
        BY <2>0, <3>2 DEF StaticSound, Typed, Exists
      <4>2. ClassesSound'
        BY <2>0, <3>2 DEF StaticSound, ClassesSound, ClassSound, Exists, IsNative
      <4>3. TablesSound' /\ TablesLinked'
        BY <2>0, <3>2 DEF StaticSound, TablesSound, TablesLinked
      <4> QED  BY <4>1, <4>2, <4>3 DEF StaticSound
    <3> QED  BY <3>1, <3>2, <3>3 DEF LookupInv, LastSound
  <2>6. ASSUME NEW c \in Class, APPLY_METAMETHOD(c)  PROVE LookupInv'
    BY <2>0, <2>6, MetamethodStep DEF LookupInv
  <2>7. ASSUME NEW c \in Class, NEW kinds \in Arguments,
               \/ CallByIndex(c, kinds) \/ CallBySearch(c, kinds) \/ CallNotFound(c, kinds)
        PROVE  LookupInv'
    <3>1. CASE CallByIndex(c, kinds)
      BY <2>0, <3>1, CallByIndexStep DEF LookupInv
    <3>2. CASE CallBySearch(c, kinds)
      BY <2>0, <3>2, CallBySearchStep DEF LookupInv
    <3>3. CASE CallNotFound(c, kinds)
      BY <2>0, <3>3, CallNotFoundStep DEF LookupInv
    <3> QED  BY <2>7, <3>1, <3>2, <3>3
  <2>8. CASE UNCHANGED vars
    <3>1. UNCHANGED <<ancestors, own, table, linked, object, site, index_op2, heritage, seen, last>>
      BY <2>8 DEF vars
    <3>2. Typed'
      BY <2>0, <3>1 DEF StaticSound, Typed, Exists
    <3>3. ClassesSound'
      BY <2>0, <3>1 DEF StaticSound, ClassesSound, ClassSound, Exists, IsNative
    <3>4. TablesSound' /\ TablesLinked'
      BY <2>0, <3>1 DEF StaticSound, TablesSound, TablesLinked
    <3>5. ObjectSound'
      BY <2>0, <3>1 DEF ObjectSound, Exists
    <3>6. SiteSound'
      BY <2>0, <3>1 DEF SiteSound, SeenIsFound, IsFound, Exists, IsNative
    <3>7. LastSound'
      <4>1. CASE last = NotCalled
        BY <3>1, <4>1 DEF LastSound
      <4>2. CASE last # NotCalled
        <5>1. PICK w \in With : last.with = w /\ RunsDeclared(w.class, w.kinds)
          BY <2>0, <4>2 DEF LastSound
        <5>2. PICK c, kinds : c = w.class /\ kinds = w.kinds
          OBVIOUS
        <5>3. RunsDeclared(c, kinds)'
          <6>1. RunsDeclared(c, kinds)
            BY <5>1, <5>2
          <6>2. Steady(c, kinds)' => Steady(c, kinds)
            BY <3>1 DEF Steady, HasObject, LosesOverloads, IsNative
          <6>3. PICK best : best = BestOf(heritage[c], site.callee, kinds)
            OBVIOUS
          <6>4. Steady(c, kinds)' => last.fun = best /\ (last.fun # NoFunction => last.result = "ran")
            BY <6>1, <6>2, <6>3 DEF RunsDeclared, BestOf, Nearest, Taking, Functions
          <6>5. best = BestOf(heritage'[c], site'.callee, kinds)
            BY <3>1, <6>3
          <6> QED  BY <3>1, <6>4, <6>5 DEF RunsDeclared, BestOf, Nearest, Taking, Functions
        <5> QED  BY <3>1, <5>1, <5>2, <5>3 DEF LastSound
      <4> QED  BY <4>1, <4>2
    <3> QED  BY <3>2, <3>3, <3>4, <3>5, <3>6, <3>7 DEF LookupInv, StaticSound
  <2> QED  BY <1>2, <2>1, <2>2, <2>3, <2>4, <2>5, <2>6, <2>7, <2>8 DEF Next
<1> QED  BY <1>1, <1>2, PTL DEF Spec

\* A steady call runs, whenever and how often it is executed, the function that
\* inheritance and the types of its arguments say (FIND_FUNCTION, and the index that
\* CALL keeps in the instruction).
THEOREM CallsRunDeclared == Spec => []SiteRunsDeclared
<1>1. LookupInv => SiteRunsDeclared
  <2> SUFFICES ASSUME LookupInv, last # NotCalled, Steady(last.with.class, last.with.kinds)
               PROVE  SiteRunsDeclared
    BY DEF SiteRunsDeclared
  <2>1. PICK w \in With : last.with = w /\ RunsDeclared(w.class, w.kinds)
    BY DEF LookupInv, LastSound
  <2> QED  BY <2>1 DEF RunsDeclared, SiteRunsDeclared
<1> QED  BY <1>1, LookupIsSound, PTL

\* Each table is sound, and linked when all are.
LEMMA LinkedTable ==
    ASSUME LookupInv, linked, NEW c \in Class, NEW j \in DOMAIN table[c]
    PROVE  /\ table[c] \in Seq(EntryType) /\ Links(table[c])
           /\ table[c][j].fun.this # NoCall =>
                 table[c][j].this = ThisIndex(table[c], table[c][j].fun.this)
           /\ table[c][j].fun.super # NoSuper =>
                 table[c][j].super = SuperIndex(table[c], j - 1, table[c][j].fun.super)
<1>1. table[c] \in Seq(EntryType) /\ TableSound(table[c]) /\ table[c][j].linked
  BY DEF LookupInv, StaticSound, Typed, TablesSound, TablesLinked
<1> QED  BY <1>1 DEF TableSound, EntrySound

\* What a search for a name and a number of arguments finds in an exact table.
LEMMA NameIsNearest ==
    ASSUME NEW c \in Class, NEW t \in Seq(EntryType), NEW h \in Seq(Seq(Function)),
           h = heritage[c], IsExact(t, h), NEW name, NEW n,
           getIdxFunctionObject(t, name, n) # Undefined
    PROVE  At(t, getIdxFunctionObject(t, name, n)).fun = Nearest(c, Len(h), Taking(c, name, n))
<1> DEFINE S == {k \in 0..Len(t) - 1 : Takes(t[k + 1].fun, name, n)}
<1>1. getIdxFunctionObject(t, name, n) = Highest(S)
  <2>1. S = {i \in Indexes(t) : Takes(At(t, i).fun, name, n)}
    BY DEF Indexes, At
  <2> QED  BY <2>1 DEF getIdxFunctionObject
<1>2. PICK W : W = Taking(c, name, n)
  OBVIOUS
<1>3. PICK below \in 0..Len(h) : below = Len(h)
  OBVIOUS
<1>4. \A k : k \in S <=> k \in 0..Place(h, below + 1) - 1 /\ t[k + 1].fun \in W
  <2>1. Place(h, below + 1) = Len(t)
    BY <1>3 DEF IsExact
  <2>2. \A i \in 0..Len(t) - 1 : i + 1 \in DOMAIN t
    OBVIOUS
  <2>3. \A j \in DOMAIN t : t[j].fun \in Functions(c)
    BY ExactHas
  <2> QED  BY <1>2, <2>1, <2>2, <2>3 DEF Taking
<1>5. S # {}
  <2>1. S = {} => Highest(S) = Undefined
    BY DEF Highest
  <2> QED  BY <1>1, <2>1
<1>6. t[Highest(S) + 1].fun = NearestOf(h, below, W)
  <2> HIDE DEF S
  <2>1. IsSearched(S, t, h, below, W)
    BY <1>4 DEF IsSearched
  <2> QED  BY <1>5, <2>1, HighestIsNearest
<1>7. NearestOf(h, below, W) = Nearest(c, Len(h), W)
  BY <1>3 DEF NearestOf, Nearest
<1> QED  BY <1>1, <1>2, <1>6, <1>7 DEF At

\* A call this.f runs the most derived f of the class of the object (the index that
\* searchVarFunctionSymbol gives to the load).
THEOREM ThisIsMostDerived == Spec => []ThisRunsMostDerived
<1>1. LookupInv => ThisRunsMostDerived
  <2> SUFFICES ASSUME LookupInv, linked, NEW c \in Class, NEW j \in DOMAIN table[c],
                      table[c][j].fun.this # NoCall, ~LosesOverloads(c),
                      NEW call, call = table[c][j].fun.this,
                      NEW wanted,
                      wanted = Nearest(c, Len(heritage[c]), Taking(c, call.name, call.args))
               PROVE  IF table[c][j].this = Undefined THEN wanted.native
                      ELSE At(table[c], table[c][j].this).fun = wanted
    BY DEF ThisRunsMostDerived
  <2>1. PICK t \in Seq(EntryType) : t = table[c]
    BY LinkedTable
  <2>2. PICK h \in Seq(Seq(Function)) : h = heritage[c]
    BY NothingLost DEF LookupInv
  <2>3. IsExact(t, h)
    BY <2>1, <2>2, NothingLost DEF LookupInv
  <2>4. Links(t) /\ t[j].this = ThisIndex(t, call)
    BY <2>1, LinkedTable
  <2>5. PICK name, n : name = call.name /\ n = call.args
    OBVIOUS
  <2>6. PICK i : i = getIdxFunctionObject(t, name, n)
    OBVIOUS
  <2>7. i # Undefined
    BY <2>1, <2>4, <2>5, <2>6 DEF Links
  <2>8. At(t, i).fun = wanted
    <3>1. At(t, getIdxFunctionObject(t, name, n)).fun = Nearest(c, Len(h), Taking(c, name, n))
      BY <2>2, <2>3, <2>6, <2>7, NameIsNearest
    <3> QED  BY <2>2, <2>5, <2>6, <3>1
  <2>9. t[j].this = IF At(t, i).fun.native THEN Undefined ELSE i
    BY <2>4, <2>5, <2>6, <2>7 DEF ThisIndex
  <2> QED  BY <2>1, <2>7, <2>8, <2>9
<1> QED  BY <1>1, LookupIsSound, PTL

\* The level of an index.
LevelIn(h, i) == Max({l \in DOMAIN h : Place(h, l) <= i})

LEMMA LevelIs ==
    ASSUME NEW h \in Seq(Seq(Function)), NEW i \in Nat, i < Place(h, Len(h) + 1)
    PROVE  /\ LevelIn(h, i) \in DOMAIN h
           /\ Place(h, LevelIn(h, i)) <= i
           /\ i < Place(h, LevelIn(h, i)) + Len(h[LevelIn(h, i)])
           /\ \A l \in DOMAIN h : Place(h, l) <= i => l <= LevelIn(h, i)
<1> DEFINE S == {l \in DOMAIN h : Place(h, l) <= i}
<1>1. PICK n \in Nat : n = Len(h) /\ DOMAIN h = 1..n
  OBVIOUS
<1>2. PICK m \in 1..Len(h) + 1 : m = n + 1
  BY <1>1
<1>3. i + 1 \in 1..Place(h, m)
  <2>1. PICK q \in Nat : q = Place(h, m)
    BY PlacesOf
  <2>2. i < q
    BY <1>1, <1>2, <2>1
  <2> QED  BY <2>1, <2>2
<1>4. \E l \in 1..m - 1 : \E k \in DOMAIN h[l] : i + 1 = Place(h, l) + k
  BY <1>3, PlacesOf
<1>5. PICK l \in 1..n : \E k \in DOMAIN h[l] : i + 1 = Place(h, l) + k
  BY <1>2, <1>4
<1>6. PICK k \in DOMAIN h[l] : i + 1 = Place(h, l) + k
  BY <1>5
<1>7. PICK x \in Nat : x = Place(h, l)
  BY <1>1, PlacesOf, l \in 1..Len(h) + 1
<1>8. PICK y \in Nat : y = Len(h[l]) /\ k \in 1..y
  BY <1>1, PlacesOf
<1>9. x <= i /\ i < x + y
  <2>1. i + 1 = x + k /\ k >= 1 /\ k <= y /\ k \in Nat
    BY <1>6, <1>7, <1>8
  <2> QED  BY <2>1
<1>10. l \in S
  BY <1>1, <1>7, <1>9
<1>11. \A o \in S : o <= l
  <2> TAKE o \in S
  <2>1. CASE o > l
    <3>1. o \in 1..n /\ l < o /\ o \in 1..Len(h) + 1 /\ l \in DOMAIN h
      BY <1>1, <2>1
    <3>2. Place(h, l) + Len(h[l]) <= Place(h, o) /\ Place(h, o) \in Nat
      BY <3>1, PlacesOf
    <3>3. PICK z \in Nat : z = Place(h, o)
      BY <3>2
    <3>4. z <= i /\ x + y <= z
      BY <1>7, <1>8, <3>2, <3>3
    <3> QED  BY <1>9, <3>4
  <2>2. o \in Nat
    BY <1>1
  <2> QED  BY <2>1, <2>2
<1>12. LevelIn(h, i) = l
  <2>1. S \subseteq 1..n
    BY <1>1
  <2>2. LevelIn(h, i) = Max(S)
    BY DEF LevelIn
  <2> HIDE DEF S
  <2>3. Max(S) \in S /\ \A o \in S : o <= Max(S)
    BY <1>10, <2>1, MaxIs
  <2>4. PICK M \in 1..n : M = Max(S)
    BY <2>1, <2>3
  <2>5. M <= l /\ l <= M
    BY <1>10, <1>11, <2>3, <2>4
  <2> QED  BY <2>2, <2>4, <2>5
<1> QED  BY <1>1, <1>7, <1>8, <1>9, <1>11, <1>12

\* A call super goes up (the index that the linker gives to it).
THEOREM SuperIsAbove == Spec => []SuperGoesUp
<1>1. LookupInv => SuperGoesUp
  <2> SUFFICES ASSUME LookupInv, linked, NEW c \in Class, NEW j \in DOMAIN table[c],
                      NEW e, e = table[c][j], e.fun.super # NoSuper,
                      NEW up, up = LevelOf(c, j - 1), NEW to, to = LevelOf(c, e.super)
               PROVE  /\ e.super < j - 1
                      /\ to = up => \E k \in 1..j - 1 - Before(c, up) :
                                       Takes(heritage[c][up][k], e.fun.name, e.fun.super)
                      /\ to < up /\ ~LosesOverloads(c) =>
                            At(table[c], e.super).fun =
                                Nearest(c, up - 1, Taking(c, e.fun.name, e.fun.super))
    BY DEF SuperGoesUp
  <2>1. PICK t \in Seq(EntryType) : t = table[c]
    BY LinkedTable
  <2>2. PICK h \in Seq(Seq(Function)) : h = heritage[c]
    BY DEF LookupInv, StaticSound, Typed
  <2>3. Follows(t, h) /\ \A l \in DOMAIN h : OfOneKind(h[l])
    BY <2>1, <2>2 DEF LookupInv, StaticSound, ClassesSound, ClassSound
  <2>4. PICK name, n : name = e.fun.name /\ n = e.fun.super
    OBVIOUS
  <2>5. PICK s : s = e.super
    OBVIOUS
  <2>6. Links(t) /\ s = SuperIndex(t, j - 1, n)
    BY <2>1, <2>4, <2>5, LinkedTable
  <2>7. s # Undefined
    BY <2>1, <2>4, <2>6 DEF Links
  <2>8. PICK p \in Nat : p = j - 1 /\ p < Len(t)
    BY <2>1
  <2> DEFINE S == {i \in 0..p - 1 : Takes(t[i + 1].fun, name, n)}
  <2>9. s = Highest(S)
    <3>1. At(t, p).fun.name = name
      BY <2>1, <2>4, <2>8 DEF At
    <3>2. SuperIndex(t, p, n) = Highest(S)
      BY <3>1 DEF SuperIndex, At
    <3> QED  BY <2>6, <2>8, <3>2
  <2>10. s \in S /\ \A i \in S : i <= s
    <3>1. S \subseteq 0..p - 1
      OBVIOUS
    <3> HIDE DEF S
    <3> QED  BY <2>7, <2>8, <2>9, <3>1, HighestIs
  <2>11. s \in Nat /\ s < p /\ Takes(t[s + 1].fun, name, n) /\ s + 1 \in DOMAIN t
    BY <2>8, <2>10
  <2>12. up = LevelIn(h, p) /\ to = LevelIn(h, s) /\ Before(c, up) = Place(h, up)
    BY <2>2, <2>5, <2>8 DEF LevelOf, LevelIn, Before, Place
  <2>13. /\ up \in DOMAIN h /\ Place(h, up) <= p /\ p < Place(h, up) + Len(h[up])
         /\ \A l \in DOMAIN h : Place(h, l) <= p => l <= up
    <3>1. p < Place(h, Len(h) + 1)
      BY <2>3, <2>8 DEF Follows
    <3> QED  BY <2>12, <3>1, LevelIs
  <2>14. /\ to \in DOMAIN h /\ Place(h, to) <= s /\ s < Place(h, to) + Len(h[to])
         /\ \A l \in DOMAIN h : Place(h, l) <= s => l <= to
    <3>1. s < Place(h, Len(h) + 1)
      <4>1. s < Len(t)
        BY <2>8, <2>11
      <4> QED  BY <2>3, <4>1 DEF Follows
    <3> QED  BY <2>11, <2>12, <3>1, LevelIs
  <2>15. PICK x \in Nat : x = Place(h, up)
    BY <2>13, PlacesOf, up \in 1..Len(h) + 1
  <2>16. PICK y \in Nat : y = Len(h[up]) /\ DOMAIN h[up] = 1..y
    BY <2>13, PlacesOf
  <2>17. ASSUME to = up
         PROVE  \E k \in 1..p - x : Takes(h[up][k], name, n)
    <3>1. x <= s /\ s < x + y /\ x <= p /\ p < x + y
      BY <2>13, <2>14, <2>15, <2>16, <2>17
    <3>2. PICK a : a = p + 1 - x
      OBVIOUS
    <3>3. PICK b : b = s + 1 - x
      OBVIOUS
    <3>4. a \in 1..y /\ x + a = p + 1 /\ b \in 1..y /\ x + b = s + 1 /\ b \in 1..p - x
      BY <2>11, <3>1, <3>2, <3>3
    <3>5. StandsFor(t[x + a].fun, h, up, a) /\ StandsFor(t[x + b].fun, h, up, b)
      <4>1. a \in DOMAIN h[up] /\ b \in DOMAIN h[up]
        BY <2>16, <3>4
      <4> QED  BY <2>3, <2>13, <2>15, <4>1 DEF Follows
    <3>6. OfOneKind(h[up])
      BY <2>3, <2>13
    <3>7. ~h[up][a].native
      <4> SUFFICES ASSUME h[up][a].native  PROVE FALSE
        OBVIOUS
      <4>1. PICK m \in DOMAIN h[up] : t[x + a].fun = h[up][m]
        BY <2>16, <3>4, <3>5 DEF StandsFor, IsLastNamed
      <4>2. h[up][m].native = h[up][a].native
        BY <2>16, <3>4, <3>6, <4>1 DEF OfOneKind
      <4>3. h[up][m].native /\ IsOfC(h[up][m])
        BY <3>6, <4>1, <4>2 DEF OfOneKind
      <4>4. t[p + 1].fun = e.fun
        BY <2>1, <2>8
      <4> QED  BY <3>4, <4>1, <4>3, <4>4 DEF IsOfC
    <3>8. ~h[up][b].native
      BY <2>16, <3>4, <3>6, <3>7 DEF OfOneKind
    <3>9. t[s + 1].fun = h[up][b]
      BY <3>4, <3>5, <3>8 DEF StandsFor
    <3> QED  BY <2>11, <3>4, <3>9
  <2>18. ASSUME to < up, ~LosesOverloads(c)
         PROVE  t[s + 1].fun = Nearest(c, up - 1, Taking(c, name, n))
    <3>1. IsExact(t, h)
      BY <2>1, <2>2, <2>18, NothingLost DEF LookupInv
    <3>2. PICK W : W = Taking(c, name, n)
      OBVIOUS
    <3>3. PICK below \in 0..Len(h) : below = up - 1 /\ below + 1 = up
      <4>1. up \in 1..Len(h)
        BY <2>13
      <4>2. up - 1 \in 0..Len(h) /\ (up - 1) + 1 = up
        BY <4>1
      <4> QED  BY <4>2
    <3> DEFINE R == {k \in 0..x - 1 : Takes(t[k + 1].fun, name, n)}
    <3>4. x <= p
      BY <2>13, <2>15
    <3>5. \A i \in 0..x - 1 : i + 1 \in DOMAIN t
      BY <2>8, <3>4
    <3>6. \A k : k \in R <=> k \in 0..Place(h, below + 1) - 1 /\ t[k + 1].fun \in W
      <4>1. \A i \in 0..x - 1 : t[i + 1].fun \in Functions(c)
        BY <2>2, <3>1, <3>5, ExactHas
      <4> QED  BY <2>15, <3>2, <3>3, <4>1 DEF Taking
    <3>7. s < x
      <4>1. ~(Place(h, up) <= s)
        <5>1. to \in Nat /\ up \in Nat
          BY <2>13, <2>14
        <5> QED  BY <2>13, <2>14, <2>18, <5>1
      <4> QED  BY <2>11, <2>15, <4>1
    <3>8. s \in R
      BY <2>11, <3>7
    <3>0. PICK r : r = Highest(R)
      OBVIOUS
    <3>9. r \in R /\ t[r + 1].fun = NearestOf(h, below, W)
      <4> HIDE DEF R
      <4>1. IsSearched(R, t, h, below, W)
        BY <3>6 DEF IsSearched
      <4> QED  BY <3>0, <3>1, <3>8, <4>1, HighestIsNearest
    <3>10. r = s
      <4>1. \A i \in R : i \in S
        BY <2>8, <3>4
      <4>2. r <= s /\ r \in Nat
        <5>1. r \in S /\ r \in Nat
          BY <3>9, <4>1
        <5> QED  BY <2>10, <5>1
      <4>3. R \subseteq 0..x - 1
        OBVIOUS
      <4>4. s <= r
        <5> HIDE DEF R
        <5> QED  BY <3>0, <3>8, <4>3, HighestIs
      <4> QED  BY <2>11, <4>2, <4>4
    <3>11. NearestOf(h, below, W) = Nearest(c, up - 1, W)
      BY <2>2, <3>3 DEF NearestOf, Nearest
    <3> QED  BY <3>2, <3>9, <3>10, <3>11
  <2>19. e.super < j - 1
    BY <2>5, <2>8, <2>11
  <2>20. to = up => \E k \in 1..j - 1 - Before(c, up) :
                       Takes(heritage[c][up][k], e.fun.name, e.fun.super)
    BY <2>2, <2>4, <2>8, <2>12, <2>15, <2>17
  <2>21. to < up /\ ~LosesOverloads(c) =>
            At(table[c], e.super).fun = Nearest(c, up - 1, Taking(c, e.fun.name, e.fun.super))
    BY <2>1, <2>4, <2>5, <2>18 DEF At
  <2> QED  BY <2>19, <2>20, <2>21
<1> QED  BY <1>1, LookupIsSound, PTL

=============================================================================
