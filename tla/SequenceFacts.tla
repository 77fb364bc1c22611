---------------------------- MODULE SequenceFacts ----------------------------
(***************************************************************************)
(* Induction over the natural numbers, stated of sets of them, and what    *)
(* FlattenSeq returns.  The provers cannot instantiate an operator, which  *)
(* is what the library's induction theorems take; a set they can.          *)
(***************************************************************************)
EXTENDS Integers, SequencesExt, SequenceTheorems, WellFoundedInduction, TLAPS

-----------------------------------------------------------------------------
(* Induction.                                                              *)

LEMMA LeastNumber ==
    ASSUME NEW T \in SUBSET Nat, T # {}
    PROVE  \E n \in T : \A m \in T : n <= m
<1> DEFINE R == OpToRel(<, Nat)
<1>1. PICK n \in T : \A m \in T : ~(<<m, n>> \in R)
  <2>1. IsWellFoundedOn(R, Nat)
    BY NatLessThanWellFounded
  <2> HIDE DEF R
  <2> QED BY <2>1, WFMin
<1>2. \A m \in T : ~(m < n)
  BY <1>1 DEF OpToRel
<1> QED BY <1>2

LEMMA Induction ==
    ASSUME NEW S \in SUBSET Nat, 0 \in S, \A n \in S : n + 1 \in S
    PROVE  S = Nat
<1> SUFFICES ASSUME Nat \ S # {} PROVE FALSE
  OBVIOUS
<1>1. PICK n \in Nat \ S : \A m \in Nat \ S : n <= m
  BY LeastNumber
<1>2. n # 0 /\ n - 1 \in Nat /\ n - 1 \in S
  BY <1>1
<1> QED BY <1>1, <1>2

\* The same, up to n.
LEMMA InductionTo ==
    ASSUME NEW n \in Nat, NEW T, 0 \in T, \A p \in 1..n : p - 1 \in T => p \in T
    PROVE  0..n \subseteq T
<1> DEFINE U == {p \in Nat : p <= n => p \in T}
<1>1. 0 \in U
  OBVIOUS
<1>2. ASSUME NEW p \in U PROVE p + 1 \in U
  <2> SUFFICES ASSUME p + 1 <= n PROVE p + 1 \in T
    OBVIOUS
  <2>1. p \in T /\ p + 1 \in 1..n /\ (p + 1) - 1 = p
    OBVIOUS
  <2>2. (p + 1) - 1 \in T
    BY <2>1
  <2> QED BY <2>1, <2>2
<1>3. U = Nat
  <2>1. U \in SUBSET Nat
    OBVIOUS
  <2> HIDE DEF U
  <2> QED BY <1>1, <1>2, <2>1, Induction
<1> QED BY <1>3

\* f is the function on 0..n defined by its first value and by a step.
Recurses(f, n, D, a, g) ==
    /\ f \in [0..n -> D]
    /\ f[0] = a
    /\ \A p \in 1..n : f[p] = g[p][f[p-1]]

LEMMA Recursion ==
    ASSUME NEW D, NEW a \in D, NEW n \in Nat, NEW g \in [1..n -> [D -> D]]
    PROVE  \E f : Recurses(f, n, D, a, g)
<1> DEFINE T == {m \in Nat : \E f : Recurses(f, m, D, a, g)}
<1>1. 0 \in T
  <2>1. Recurses([p \in 0..0 |-> a], 0, D, a, g)
    BY DEF Recurses
  <2> QED BY <2>1
<1>2. ASSUME NEW p \in 1..n, p - 1 \in T PROVE p \in T
  <2>1. PICK f : Recurses(f, p - 1, D, a, g)
    BY <1>2
  <2>2. p \in Nat /\ p - 1 \in 0..(p - 1) /\ f[p-1] \in D
    BY <2>1 DEF Recurses
  <2> DEFINE h == [q \in 0..p |-> IF q = p THEN g[p][f[p-1]] ELSE f[q]]
  <2>3. g[p][f[p-1]] \in D
    BY <2>2
  <2>4. h \in [0..p -> D]
    BY <2>1, <2>2, <2>3 DEF Recurses
  <2>5. h[0] = a /\ h[p] = g[p][f[p-1]] /\ \A q \in 0..(p-1) : h[q] = f[q]
    BY <2>1, <2>2 DEF Recurses
  <2> HIDE DEF h
  <2>6. ASSUME NEW q \in 1..p PROVE h[q] = g[q][h[q-1]]
    <3>1. CASE q = p
      <4>1. p - 1 \in 0..(p - 1)
        BY <2>2
      <4>2. h[p-1] = f[p-1]
        BY <2>5, <4>1
      <4> QED BY <3>1, <2>5, <4>2
    <3>2. CASE q # p
      <4>1. q \in 1..(p - 1) /\ q \in 0..(p - 1) /\ q - 1 \in 0..(p - 1)
        BY <2>2, <3>2
      <4> QED BY <2>1, <2>5, <4>1 DEF Recurses
    <3> QED BY <3>1, <3>2
  <2>7. Recurses(h, p, D, a, g)
    BY <2>4, <2>5, <2>6 DEF Recurses
  <2> QED BY <2>2, <2>7
<1>3. 0..n \subseteq T
  <2> HIDE DEF T
  <2> QED BY <1>1, <1>2, InductionTo
<1>4. n \in T
  BY <1>3
<1> QED BY <1>4

-----------------------------------------------------------------------------
(* Concatenation (SequencesExt: FlattenSeq).                               *)

\* The prefixes that FlattenSeq concatenates.
IsFlattening(f, seqs, n) ==
    f = [i \in 1..n |-> IF i = 1 THEN seqs[i] ELSE f[i-1] \o seqs[i]]

LEMMA FlatteningExists ==
    ASSUME NEW seqs, NEW n \in Nat
    PROVE  \E f : IsFlattening(f, seqs, n)
<1> DEFINE T == {m \in Nat : \E f : IsFlattening(f, seqs, m)}
<1>1. 0 \in T
  <2>1. IsFlattening(<<>>, seqs, 0)
    BY DEF IsFlattening
  <2> QED BY <2>1
<1>2. ASSUME NEW m \in T PROVE m + 1 \in T
  <2>1. PICK f : IsFlattening(f, seqs, m)
    OBVIOUS
  <2> DEFINE g == [i \in 1..(m + 1) |->
                      IF i = 1 THEN seqs[i]
                      ELSE IF i = m + 1 THEN f[m] \o seqs[i] ELSE f[i]]
  <2>2. m \in Nat /\ \A i \in 1..m : f[i] = IF i = 1 THEN seqs[i] ELSE f[i-1] \o seqs[i]
    BY <2>1 DEF IsFlattening
  <2>3. /\ \A i \in 1..m : g[i] = f[i]
        /\ m # 0 => g[m + 1] = f[m] \o seqs[m + 1]
        /\ g[1] = seqs[1]
    <3> HIDE DEF T
    <3>1. 1 \in 1..(m + 1) /\ m + 1 \in 1..(m + 1) /\ (m # 0 => m + 1 # 1)
      BY <2>2
    <3>2. \A i \in 1..m : i \in 1..(m + 1) /\ i # m + 1
      BY <2>2
    <3>3. \A i \in 1..m : i = 1 => f[i] = seqs[i]
      BY <2>2
    <3> QED BY <3>1, <3>2, <3>3, Zenon
  <2> HIDE DEF T
  <2>4. \A i \in 1..(m + 1) : g[i] = IF i = 1 THEN seqs[i] ELSE g[i-1] \o seqs[i]
    <3> HIDE DEF g
    <3> SUFFICES ASSUME NEW i \in 1..(m + 1), i # 1
                 PROVE  g[i] = g[i-1] \o seqs[i]
      BY <2>3
    <3>1. i - 1 \in 1..m /\ g[i-1] = f[i-1]
      BY <2>2, <2>3
    <3>2. CASE i = m + 1
      <4>1. m # 0 /\ i - 1 = m
        BY <2>2, <3>1, <3>2
      <4> QED BY <2>3, <3>1, <3>2, <4>1, Zenon
    <3>3. CASE i # m + 1
      <4>1. i \in 1..m
        BY <2>2, <3>3
      <4> QED BY <2>2, <2>3, <3>1, <4>1
    <3> QED BY <3>2, <3>3
  <2>5. IsFlattening(g, seqs, m + 1)
    <3> HIDE DEF g
    <3>1. DOMAIN g = 1..(m + 1) /\ g = [i \in 1..(m + 1) |-> g[i]]
      BY DEF g
    <3> QED BY <2>4, <3>1 DEF IsFlattening
  <2> QED BY <2>2, <2>5 DEF T
<1>3. T = Nat
  <2> HIDE DEF T
  <2>1. T \in SUBSET Nat
    BY DEF T
  <2> QED BY <1>1, <1>2, <2>1, Induction
<1> QED BY <1>3

LEMMA FlattenSteps ==
    ASSUME NEW seqs, Len(seqs) \in Nat, Len(seqs) # 0
    PROVE  \E f : /\ FlattenSeq(seqs) = f[Len(seqs)]
                  /\ f[1] = seqs[1]
                  /\ \A i \in 2..Len(seqs) : f[i] = f[i-1] \o seqs[i]
<1> DEFINE n == Len(seqs)
           flatten[i \in 1..Len(seqs)] ==
               IF i = 1 THEN seqs[i] ELSE flatten[i-1] \o seqs[i]
<1>1. FlattenSeq(seqs) = flatten[Len(seqs)]
  BY DEF FlattenSeq
<1>2. IsFlattening(flatten, seqs, n)
  BY FlatteningExists DEF IsFlattening
<1> HIDE DEF flatten
<1>3. /\ flatten[1] = seqs[1]
      /\ \A i \in 2..n : flatten[i] = flatten[i-1] \o seqs[i]
  <2>1. \A i \in 1..n : flatten[i] = IF i = 1 THEN seqs[i] ELSE flatten[i-1] \o seqs[i]
    BY <1>2 DEF IsFlattening
  <2> HIDE DEF n
  <2>2. 1 \in 1..n /\ \A i \in 2..n : i \in 1..n /\ i # 1
    <3>1. n \in Nat /\ n # 0
      BY DEF n
    <3> QED BY <3>1
  <2> QED BY <2>1, <2>2
<1> QED BY <1>1, <1>3


\* Position k of flat, the concatenation of the first n sequences, is position
\* pos[k] of sequence part[k]; the positions run through them in order.
Placed(part, pos, flat, seqs, n) ==
    /\ part \in [1..Len(flat) -> Nat] /\ pos \in [1..Len(flat) -> Nat]
    /\ \A k \in 1..Len(flat) :
          /\ part[k] \in 1..n
          /\ pos[k] \in 1..Len(seqs[part[k]])
          /\ flat[k] = seqs[part[k]][pos[k]]
    /\ \A p \in 1..n : \A a \in 1..Len(seqs[p]) :
          \E k \in 1..Len(flat) : part[k] = p /\ pos[k] = a
    /\ \A j, l \in 1..Len(flat) :
          j < l => part[j] < part[l] \/ (part[j] = part[l] /\ pos[j] < pos[l])

LEMMA PlacesGrow ==
    ASSUME NEW S, NEW n \in Nat, NEW seqs \in Seq(Seq(S)), n + 1 \in 1..Len(seqs),
           NEW flat \in Seq(S), NEW part, NEW pos, Placed(part, pos, flat, seqs, n)
    PROVE  \E part1, pos1 : Placed(part1, pos1, flat \o seqs[n + 1], seqs, n + 1)
<1> DEFINE s == seqs[n + 1]
           L == Len(flat)
           M == Len(s)
           new == flat \o s
           part1 == [k \in 1..(L + M) |-> IF k <= L THEN part[k] ELSE n + 1]
           pos1 == [k \in 1..(L + M) |-> IF k <= L THEN pos[k] ELSE k - L]
<1>1. s \in Seq(S) /\ L \in Nat /\ M \in Nat
  BY LenProperties, ElementOfSeq
<1>2. /\ Len(new) = L + M
      /\ \A k \in 1..(L + M) : new[k] = IF k <= L THEN flat[k] ELSE s[k - L]
  BY <1>1, ConcatProperties
<1>3. /\ \A k \in 1..L : part[k] \in Nat /\ pos[k] \in Nat /\ part[k] \in 1..n
                         /\ pos[k] \in 1..Len(seqs[part[k]]) /\ flat[k] = seqs[part[k]][pos[k]]
      /\ \A p \in 1..n : \A a \in 1..Len(seqs[p]) : \E k \in 1..L : part[k] = p /\ pos[k] = a
      /\ \A j, l \in 1..L : j < l => part[j] < part[l] \/ (part[j] = part[l] /\ pos[j] < pos[l])
  BY DEF Placed
<1>4. /\ \A k \in 1..L : k \in 1..(L + M) /\ part1[k] = part[k] /\ pos1[k] = pos[k] /\ new[k] = flat[k]
      /\ \A k \in (L + 1)..(L + M) : k \in 1..(L + M) /\ part1[k] = n + 1 /\ pos1[k] = k - L
                                     /\ new[k] = s[k - L]
      /\ 1..(L + M) = 1..L \union (L + 1)..(L + M)
  BY <1>1, <1>2
<1>5. part1 \in [1..(L + M) -> Nat] /\ pos1 \in [1..(L + M) -> Nat]
  BY <1>1, <1>3
<1>6. s = seqs[n + 1] /\ M = Len(s)
  OBVIOUS
<1> HIDE DEF s, L, M, new, part1, pos1
<1>7. ASSUME NEW k \in 1..(L + M)
      PROVE  /\ part1[k] \in 1..(n + 1)
             /\ pos1[k] \in 1..Len(seqs[part1[k]])
             /\ new[k] = seqs[part1[k]][pos1[k]]
  <2>1. CASE k \in 1..L
    <3>1. part1[k] = part[k] /\ pos1[k] = pos[k] /\ new[k] = flat[k]
      BY <2>1, <1>4
    <3>2. part[k] \in 1..n /\ pos[k] \in 1..Len(seqs[part[k]]) /\ flat[k] = seqs[part[k]][pos[k]]
      BY <2>1, <1>3
    <3> QED BY <3>1, <3>2
  <2>2. CASE k \in (L + 1)..(L + M)
    BY <2>2, <1>1, <1>4, <1>6
  <2> QED BY <2>1, <2>2, <1>4
<1>8. ASSUME NEW p \in 1..(n + 1), NEW a \in 1..Len(seqs[p])
      PROVE  \E k \in 1..(L + M) : part1[k] = p /\ pos1[k] = a
  <2>1. CASE p \in 1..n
    <3>1. PICK k \in 1..L : part[k] = p /\ pos[k] = a
      BY <2>1, <1>3
    <3>2. k \in 1..(L + M) /\ part1[k] = part[k] /\ pos1[k] = pos[k]
      BY <1>4
    <3> QED BY <3>1, <3>2
  <2>2. CASE p = n + 1
    <3>1. L + a \in (L + 1)..(L + M) /\ (L + a) - L = a
      BY <2>2, <1>1, <1>6
    <3> QED BY <2>2, <3>1, <1>4
  <2> QED BY <2>1, <2>2
<1>9. ASSUME NEW j \in 1..(L + M), NEW l \in 1..(L + M), j < l
      PROVE  part1[j] < part1[l] \/ (part1[j] = part1[l] /\ pos1[j] < pos1[l])
  <2>1. CASE l \in 1..L
    <3>1. j \in 1..L
      BY <2>1, <1>1, <1>9
    <3> QED BY <2>1, <3>1, <1>3, <1>4, <1>9
  <2>2. CASE l \in (L + 1)..(L + M) /\ j \in 1..L
    <3>1. part1[j] \in 1..n /\ part1[l] = n + 1
      BY <2>2, <1>3, <1>4
    <3> QED BY <3>1
  <2>3. CASE l \in (L + 1)..(L + M) /\ j \in (L + 1)..(L + M)
    <3>1. part1[j] = part1[l] /\ pos1[j] = j - L /\ pos1[l] = l - L
      BY <2>3, <1>4
    <3> QED BY <3>1, <1>1, <1>9
  <2> QED BY <2>1, <2>2, <2>3, <1>4
<1>10. Placed(part1, pos1, new, seqs, n + 1)
  BY <1>2, <1>5, <1>7, <1>8, <1>9 DEF Placed
<1> QED BY <1>10 DEF new, s

\* What FlattenSeq returns: every position of every sequence, in order.
LEMMA FlattenPlaces ==
    ASSUME NEW S, NEW seqs \in Seq(Seq(S))
    PROVE  /\ FlattenSeq(seqs) \in Seq(S)
           /\ \E part, pos : Placed(part, pos, FlattenSeq(seqs), seqs, Len(seqs))
<1>1. Len(seqs) \in Nat /\ DOMAIN seqs = 1..Len(seqs)
  OBVIOUS
<1>2. CASE Len(seqs) = 0
  <2>1. FlattenSeq(seqs) = <<>> /\ seqs = <<>>
    BY <1>2 DEF FlattenSeq
  <2>2. Placed(<<>>, <<>>, <<>>, <<>>, 0)
    BY DEF Placed
  <2> QED BY <1>2, <2>1, <2>2
<1>3. CASE Len(seqs) # 0
  <2> DEFINE n == Len(seqs)
  <2>1. n \in Nat \ {0}
    BY <1>1, <1>3
  <2>2. PICK f : /\ FlattenSeq(seqs) = f[n] /\ f[1] = seqs[1]
                 /\ \A i \in 2..n : f[i] = f[i-1] \o seqs[i]
    BY <1>1, <1>3, FlattenSteps
  <2> HIDE DEF n
  <2> DEFINE Good(i) == f[i] \in Seq(S) /\ \E part, pos : Placed(part, pos, f[i], seqs, i)
             T == {i \in Nat : i + 1 \in 1..n => Good(i + 1)}
  <2>3. 0 \in T
    <3>1. f[1] \in Seq(S)
      BY <2>1, <2>2 DEF n
    <3>2. Placed(<<>>, <<>>, <<>>, seqs, 0)
      BY DEF Placed
    <3>3. \E part, pos : Placed(part, pos, <<>> \o seqs[0 + 1], seqs, 0 + 1)
      <4>1. 0 + 1 \in 1..Len(seqs) /\ <<>> \in Seq(S)
        BY <2>1 DEF n
      <4> QED BY <3>2, <4>1, PlacesGrow
    <3>4. <<>> \o seqs[1] = f[1]
      BY <2>1, <2>2, <3>1, ConcatEmptySeq
    <3> QED BY <3>1, <3>3, <3>4
  <2>4. ASSUME NEW i \in T PROVE i + 1 \in T
    <3> SUFFICES ASSUME i + 1 + 1 \in 1..n PROVE Good(i + 1 + 1)
      OBVIOUS
    <3>1. i \in Nat /\ i + 1 \in 1..n
      <4>1. i \in Nat /\ i + 1 + 1 <= n
        OBVIOUS
      <4> QED BY <2>1, <4>1
    <3>2. Good(i + 1)
      BY <3>1
    <3>3. f[i + 1 + 1] = f[i + 1] \o seqs[i + 1 + 1] /\ seqs[i + 1 + 1] \in Seq(S)
      <4>1. i + 1 + 1 \in 2..n /\ (i + 1 + 1) - 1 = i + 1
        BY <3>1
      <4>2. f[i + 1 + 1] = f[(i + 1 + 1) - 1] \o seqs[i + 1 + 1]
        BY <2>2, <4>1, Zenon
      <4>3. seqs[i + 1 + 1] \in Seq(S)
        BY <3>1, ElementOfSeq DEF n
      <4> QED BY <4>1, <4>2, <4>3
    <3>4. f[i + 1 + 1] \in Seq(S)
      BY <3>2, <3>3, ConcatProperties
    <3>5. PICK part, pos : Placed(part, pos, f[i + 1], seqs, i + 1)
      BY <3>2
    <3>6. \E part1, pos1 : Placed(part1, pos1, f[i + 1] \o seqs[i + 1 + 1], seqs, i + 1 + 1)
      <4>1. i + 1 \in Nat /\ i + 1 + 1 \in 1..Len(seqs)
        BY <3>1 DEF n
      <4> QED BY <3>2, <3>5, <4>1, PlacesGrow
    <3> QED BY <3>3, <3>4, <3>6
  <2>5. T = Nat
    <3> HIDE DEF T
    <3>1. T \in SUBSET Nat
      BY DEF T
    <3> QED BY <2>3, <2>4, <3>1, Induction
  <2>6. Good(n)
    <3>1. \A i \in Nat : i + 1 \in 1..n => Good(i + 1)
      BY <2>5
    <3>2. n - 1 \in Nat /\ (n - 1) + 1 = n /\ n \in 1..n
      BY <2>1
    <3> HIDE DEF Good
    <3> QED BY <3>1, <3>2
  <2> QED BY <2>2, <2>6 DEF n
<1> QED BY <1>2, <1>3

\* The elements of the concatenation are those of the sequences.
LEMMA FlattenElements ==
    ASSUME NEW S, NEW seqs \in Seq(Seq(S))
    PROVE  /\ FlattenSeq(seqs) \in Seq(S)
           /\ \A x : x \in ToSet(FlattenSeq(seqs)) <=>
                        \E p \in 1..Len(seqs) : x \in ToSet(seqs[p])
<1> DEFINE flat == FlattenSeq(seqs)
<1>1. flat \in Seq(S) /\ DOMAIN flat = 1..Len(flat)
  BY FlattenPlaces, LenProperties
<1>2. PICK part, pos : Placed(part, pos, flat, seqs, Len(seqs))
  BY FlattenPlaces
<1>3. \A p \in 1..Len(seqs) : DOMAIN seqs[p] = 1..Len(seqs[p])
  BY ElementOfSeq, LenProperties
<1> HIDE DEF flat
<1>4. ASSUME NEW x, x \in ToSet(flat)
      PROVE  \E p \in 1..Len(seqs) : x \in ToSet(seqs[p])
  <2>1. PICK k \in 1..Len(flat) : flat[k] = x
    BY <1>1, <1>4 DEF ToSet
  <2>2. part[k] \in 1..Len(seqs) /\ pos[k] \in 1..Len(seqs[part[k]]) /\ x = seqs[part[k]][pos[k]]
    BY <1>2, <2>1 DEF Placed
  <2> QED BY <1>3, <2>2 DEF ToSet
<1>5. ASSUME NEW x, NEW p \in 1..Len(seqs), x \in ToSet(seqs[p])
      PROVE  x \in ToSet(flat)
  <2>1. PICK a \in 1..Len(seqs[p]) : seqs[p][a] = x
    BY <1>3, <1>5 DEF ToSet
  <2>2. PICK k \in 1..Len(flat) : part[k] = p /\ pos[k] = a
    BY <1>2, <2>1 DEF Placed
  <2>3. flat[k] = seqs[part[k]][pos[k]]
    BY <1>2, <2>2 DEF Placed
  <2> QED BY <1>1, <2>1, <2>2, <2>3 DEF ToSet
<1> QED BY <1>1, <1>4, <1>5 DEF flat

-----------------------------------------------------------------------------
\* off[p] is the number of elements of the first p sequences.
IsOffsets(off, seqs) ==
    /\ off \in [0..Len(seqs) -> Nat]
    /\ off[0] = 0
    /\ \A p \in 1..Len(seqs) : off[p] = off[p-1] + Len(seqs[p])

LEMMA OffsetsExist ==
    ASSUME NEW S, NEW seqs \in Seq(Seq(S))
    PROVE  \E off : IsOffsets(off, seqs)
<1> DEFINE n == Len(seqs)
           g == [p \in 1..n |-> [k \in Nat |-> k + Len(seqs[p])]]
<1>1. n \in Nat /\ \A p \in 1..n : Len(seqs[p]) \in Nat
  <2>1. n \in Nat /\ \A p \in 1..n : seqs[p] \in Seq(S)
    BY LenProperties, ElementOfSeq
  <2> QED BY <2>1, LenProperties
<1>2. g \in [1..n -> [Nat -> Nat]]
  BY <1>1
<1>3. PICK off : Recurses(off, n, Nat, 0, g)
  <2> HIDE DEF g, n
  <2> QED BY <1>1, <1>2, Recursion
<1>4. ASSUME NEW p \in 1..n PROVE off[p] = off[p-1] + Len(seqs[p])
  <2>1. p - 1 \in 0..n
    BY <1>1
  <2>2. off[p-1] \in Nat /\ off[p] = g[p][off[p-1]]
    BY <1>3, <2>1 DEF Recurses
  <2> QED BY <2>2
<1> QED BY <1>3, <1>4 DEF Recurses, IsOffsets

\* Where FlattenSeq puts element a of sequence p.
LEMMA FlattenOffsets ==
    ASSUME NEW S, NEW seqs \in Seq(Seq(S)), NEW off, IsOffsets(off, seqs)
    PROVE  /\ FlattenSeq(seqs) \in Seq(S)
           /\ Len(FlattenSeq(seqs)) = off[Len(seqs)]
           /\ \A p \in 1..Len(seqs) : \A a \in 1..Len(seqs[p]) :
                 /\ off[p-1] + a \in 1..Len(FlattenSeq(seqs))
                 /\ FlattenSeq(seqs)[off[p-1] + a] = seqs[p][a]
<1> DEFINE n == Len(seqs)
<1>1. n \in Nat /\ \A p \in 1..n : seqs[p] \in Seq(S) /\ Len(seqs[p]) \in Nat
  <2>1. n \in Nat /\ \A p \in 1..n : seqs[p] \in Seq(S)
    BY LenProperties, ElementOfSeq
  <2> QED BY <2>1, LenProperties
<1>2. /\ \A p \in 0..n : off[p] \in Nat
      /\ off[0] = 0 /\ \A p \in 1..n : off[p] = off[p-1] + Len(seqs[p])
  BY DEF IsOffsets
<1>3. CASE n = 0
  <2>1. FlattenSeq(seqs) = <<>>
    BY <1>3 DEF FlattenSeq
  <2> QED BY <1>2, <1>3, <2>1
<1>4. CASE n # 0
  <2>1. PICK f : /\ FlattenSeq(seqs) = f[n] /\ f[1] = seqs[1]
                 /\ \A i \in 2..n : f[i] = f[i-1] \o seqs[i]
    BY <1>1, <1>4, FlattenSteps
  <2> HIDE DEF n
  <2> DEFINE Good(i) == /\ f[i] \in Seq(S) /\ Len(f[i]) = off[i]
                        /\ \A p \in 1..i : \A a \in 1..Len(seqs[p]) :
                              /\ off[p-1] + a \in 1..Len(f[i])
                              /\ f[i][off[p-1] + a] = seqs[p][a]
             T == {i \in 0..n : i # 0 => Good(i)}
  <2>2. 0 \in T
    BY <1>1
  <2>3. ASSUME NEW i \in 1..n, i - 1 \in T PROVE i \in T
    <3>1. i \in 0..n /\ i - 1 \in 0..n /\ off[i] \in Nat /\ off[i-1] \in Nat
          /\ off[i] = off[i-1] + Len(seqs[i]) /\ seqs[i] \in Seq(S) /\ Len(seqs[i]) \in Nat
      BY <1>1, <1>2
    <3>2. CASE i = 1
      <4>1. f[i] = seqs[1] /\ off[i-1] = 0 /\ off[i] = Len(seqs[1])
        BY <1>2, <2>1, <3>1, <3>2
      <4>2. \A p \in 1..i : p = 1
        BY <3>2
      <4>3. Good(i)
        BY <1>2, <3>1, <3>2, <4>1, <4>2
      <4> QED BY <3>1, <4>3
    <3>3. CASE i # 1
      <4>1. i - 1 # 0 /\ i \in 2..n
        BY <3>1, <3>3
      <4>2. /\ f[i-1] \in Seq(S) /\ Len(f[i-1]) = off[i-1]
            /\ \A p \in 1..(i-1) : \A a \in 1..Len(seqs[p]) :
                  /\ off[p-1] + a \in 1..Len(f[i-1])
                  /\ f[i-1][off[p-1] + a] = seqs[p][a]
        BY <2>3, <4>1
      <4>3. f[i] = f[i-1] \o seqs[i]
        BY <2>1, <4>1
      <4> HIDE DEF T, Good
      <4>4. /\ f[i] \in Seq(S) /\ Len(f[i]) = Len(f[i-1]) + Len(seqs[i])
            /\ \A k \in 1..(Len(f[i-1]) + Len(seqs[i])) :
                  f[i][k] = IF k <= Len(f[i-1]) THEN f[i-1][k] ELSE seqs[i][k - Len(f[i-1])]
        <5>1. f[i-1] \in Seq(S) /\ seqs[i] \in Seq(S)
          BY <3>1, <4>2
        <5>2. /\ f[i-1] \o seqs[i] \in Seq(S)
              /\ Len(f[i-1] \o seqs[i]) = Len(f[i-1]) + Len(seqs[i])
              /\ \A k \in 1..(Len(f[i-1]) + Len(seqs[i])) : (f[i-1] \o seqs[i])[k] =
                    IF k <= Len(f[i-1]) THEN f[i-1][k] ELSE seqs[i][k - Len(f[i-1])]
          BY <5>1, ConcatProperties, Zenon
        <5> QED BY <4>3, <5>2, Zenon
      <4>5. ASSUME NEW p \in 1..i, NEW a \in 1..Len(seqs[p])
            PROVE  off[p-1] + a \in 1..Len(f[i]) /\ f[i][off[p-1] + a] = seqs[p][a]
        <5>1. CASE p = i
          <6>1. a \in 1..Len(seqs[i])
            BY <5>1
          <6>2. /\ off[i-1] + a \in 1..(off[i-1] + Len(seqs[i])) /\ ~(off[i-1] + a <= off[i-1])
                /\ (off[i-1] + a) - off[i-1] = a
            <7>1. \A x, y \in Nat : \A b \in 1..y :
                      x + b \in 1..(x + y) /\ ~(x + b <= x) /\ (x + b) - x = b
              OBVIOUS
            <7> QED BY <3>1, <6>1, <7>1
          <6>3. /\ off[i-1] + a \in 1..Len(f[i])
                /\ f[i][off[i-1] + a] = seqs[i][a]
            BY <4>2, <4>4, <6>2, Zenon
          <6> QED BY <5>1, <6>3
        <5>2. CASE p # i
          <6>1. p \in 1..(i - 1)
            BY <3>1, <5>2
          <6>2. off[p-1] + a \in 1..Len(f[i-1]) /\ f[i-1][off[p-1] + a] = seqs[p][a]
            BY <4>2, <6>1
          <6>3. off[p-1] + a \in 1..off[i-1]
            BY <4>2, <6>2
          <6>4. off[p-1] + a \in 1..(off[i-1] + Len(seqs[i])) /\ off[p-1] + a <= off[i-1]
            BY <3>1, <6>3
          <6> QED BY <4>2, <4>4, <6>2, <6>4
        <5> QED BY <5>1, <5>2
      <4>6. Len(f[i]) = off[i]
        BY <3>1, <4>2, <4>4
      <4>7. Good(i)
        BY <4>4, <4>5, <4>6 DEF Good
      <4> QED BY <3>1, <4>7 DEF T
    <3> QED BY <3>2, <3>3
  <2>4. 0..n \subseteq T
    <3> HIDE DEF T
    <3> QED BY <1>1, <2>2, <2>3, InductionTo
  <2>5. n \in T
    <3>1. n \in 0..n
      BY <1>1
    <3> HIDE DEF T
    <3> QED BY <2>4, <3>1
  <2>6. Good(n)
    BY <1>4, <2>5
  <2> QED BY <2>1, <2>6 DEF n
<1> QED BY <1>3, <1>4
=============================================================================
