--------------------------- MODULE SlicingProofs ---------------------------
(***************************************************************************)
(* The helpers of partition.rs tile the interval they are asked for, for   *)
(* every interval that is Exact and every number of partitions.  Each turn *)
(* of the loop is a step of Tiling or a stutter, and so the theorem of     *)
(* Tiling about its ranges holds of the slices the helpers return.  They   *)
(* are at most as many as were asked for, and evenly sized.                *)
(***************************************************************************)
EXTENDS UuidSlicing, SequenceFacts, FiniteSetTheorems

-----------------------------------------------------------------------------
(* Integer division.                                                       *)

LEMMA DivisionFact ==
    ASSUME NEW a \in Int, NEW d \in Nat \ {0}
    PROVE  a \div d \in Int /\ (a \div d) * d <= a /\ a < (a \div d) * d + d
OBVIOUS

LEMMA DivisionMonotone ==
    ASSUME NEW a \in Int, NEW b \in Int, a <= b, NEW d \in Nat \ {0}
    PROVE  a \div d <= b \div d
<1> DEFINE p == a \div d
           q == b \div d
<1>1. /\ p \in Int /\ p * d <= a
      /\ q \in Int /\ b < q * d + d
  BY DivisionFact
<1> HIDE DEF p, q
<1>2. p * d < (q + 1) * d
  BY <1>1
<1>3. p < q + 1
  BY <1>1, <1>2
<1> QED BY <1>1, <1>3 DEF p, q

LEMMA DivisionExact ==
    ASSUME NEW a \in Int, NEW d \in Nat \ {0}
    PROVE  (a * d) \div d = a /\ 0 \div d = 0
OBVIOUS

LEMMA Remainder ==
    ASSUME NEW a \in Int, NEW d \in Nat \ {0}
    PROVE  a = ((a \div d) * d) + (a % d) /\ a % d \in 0..(d - 1)
OBVIOUS

LEMMA ProductMonotone ==
    ASSUME NEW w \in Nat, NEW j \in Nat, NEW l \in Nat, j <= l
    PROVE  w * j \in Nat /\ w * l \in Nat /\ w * j <= w * l
<1>1. w * l = w * j + w * (l - j)
  OBVIOUS
<1>2. l - j \in Nat
  OBVIOUS
<1>3. w * (l - j) \in Nat
  BY <1>2
<1> QED BY <1>1, <1>3

\* mul_div interpolates from 0 to a, and never goes back.
LEMMA Interpolates ==
    ASSUME NEW a \in Nat, NEW n \in Nat \ {0}, NEW j \in Nat, NEW l \in Nat, j <= l
    PROVE  /\ MulDiv(a, 0, n) = 0
           /\ MulDiv(a, n, n) = a
           /\ MulDiv(a, j, n) \in Int
           /\ MulDiv(a, l, n) \in Int
           /\ MulDiv(a, j, n) <= MulDiv(a, l, n)
<1> DEFINE q == a \div n
           m == a % n
<1>1. q \in Nat /\ m \in Nat /\ a = q * n + m
  BY Remainder, DivisionFact
<1>2. \A k : MulDiv(a, k, n) = q * k + (m * k) \div n
  BY DEF MulDiv
<1> HIDE DEF q, m
<1>3. q * 0 = 0 /\ m * 0 = 0 /\ 0 \div n = 0 /\ (m * n) \div n = m
  BY <1>1, DivisionExact
<1>4. q * j \in Int /\ q * l \in Int /\ q * j <= q * l
      /\ m * j \in Int /\ m * l \in Int /\ m * j <= m * l
  BY <1>1, ProductMonotone
<1>5. (m * j) \div n \in Int /\ (m * l) \div n \in Int
      /\ (m * j) \div n <= (m * l) \div n
  BY <1>4, DivisionFact, DivisionMonotone
<1>6. MulDiv(a, 0, n) = 0 /\ MulDiv(a, n, n) = a
  BY <1>1, <1>2, <1>3
<1> QED BY <1>2, <1>4, <1>5, <1>6

-----------------------------------------------------------------------------
(* The boundaries.                                                         *)

IsRequest(r) ==
    /\ r.helper \in Helpers
    /\ r.min \in Int /\ r.max \in Int /\ r.n \in Nat
    /\ Asked(r)

LEMMA IntBoundaries ==
    ASSUME NEW r, IsRequest(r), Wanted(r), r.helper = "int",
           NEW j \in Nat, NEW l \in Nat, j <= l
    PROVE  /\ FirstKey(r, 0) = r.min /\ FirstKey(r, r.n) = r.max + 1
           /\ FirstKey(r, j) \in Int /\ FirstKey(r, l) \in Int
           /\ FirstKey(r, j) <= FirstKey(r, l)
<1> DEFINE w == r.max - r.min + 1
           n == r.n
           lo == r.min
           hi == r.max
<1>1. lo \in Int /\ hi \in Int /\ w \in Nat \ {0} /\ n \in Nat \ {0} /\ hi + 1 = lo + w
  BY DEF IsRequest, Wanted
<1>2. \A k : FirstKey(r, k) = lo + (w * k) \div n
  BY DEF FirstKey, CutInt
<1>3. r.min = lo /\ r.max = hi /\ r.n = n
  OBVIOUS
<1> HIDE DEF w, n, lo, hi
<1>4. w * j \in Int /\ w * l \in Int /\ w * j <= w * l
  BY <1>1, ProductMonotone
<1>5. (w * n) \div n = w /\ w * 0 = 0 /\ 0 \div n = 0
  BY <1>1, DivisionExact
<1>6. (w * j) \div n \in Int /\ (w * l) \div n \in Int /\ (w * j) \div n <= (w * l) \div n
  BY <1>1, <1>4, DivisionFact, DivisionMonotone
<1> QED BY <1>1, <1>2, <1>3, <1>5, <1>6

LEMMA KeyBoundaries ==
    ASSUME NEW r, IsRequest(r), Wanted(r), r.helper \in {"uuid", "date"},
           NEW j \in Nat, NEW l \in Nat, j <= l
    PROVE  /\ FirstKey(r, 0) = r.min /\ FirstKey(r, r.n) = r.max
           /\ FirstKey(r, j) \in Int /\ FirstKey(r, l) \in Int
           /\ FirstKey(r, j) <= FirstKey(r, l)
<1> DEFINE a == r.max - r.min
           n == r.n
           lo == r.min
           hi == r.max
<1>1. lo \in Int /\ hi \in Int /\ a \in Nat /\ n \in Nat \ {0} /\ hi = lo + a
  BY DEF IsRequest, Wanted
<1>2. \A k : FirstKey(r, k) = lo + MulDiv(a, k, n)
  BY DEF FirstKey, CutKey
<1>3. r.min = lo /\ r.max = hi /\ r.n = n
  OBVIOUS
<1> HIDE DEF a, n, lo, hi
<1>4. /\ MulDiv(a, 0, n) = 0 /\ MulDiv(a, n, n) = a
      /\ MulDiv(a, j, n) \in Int /\ MulDiv(a, l, n) \in Int
      /\ MulDiv(a, j, n) <= MulDiv(a, l, n)
  BY <1>1, Interpolates
<1> QED BY <1>1, <1>2, <1>3, <1>4

\* Printing loses nothing of a whole number of units.
LEMMA PrintedExact ==
    ASSUME NEW t \in Int, t % Unit = 0, NEW g \in Nat \ {0}, g % Unit = 0, NEW k \in Int
    PROVE  t + g * k \in Int /\ Printed(t + g * k) = t + g * k
<1> DEFINE u == Unit
           p == t \div u
           q == g \div u
<1>1. u \in Nat \ {0}
  BY SlicesAssumption
<1>2. p \in Int /\ q \in Int /\ t = p * u /\ g = q * u
  BY <1>1, Remainder, DivisionFact
<1>3. \A x : Printed(x) = (x \div u) * u
  BY DEF Printed
<1> HIDE DEF u, p, q
<1>4. p + q * k \in Int /\ t + g * k = (p + q * k) * u
  BY <1>1, <1>2
<1>5. ((p + q * k) * u) \div u = p + q * k
  BY <1>1, <1>4, DivisionExact
<1> QED BY <1>1, <1>3, <1>4, <1>5

LEMMA TimeBoundaries ==
    ASSUME NEW r, IsRequest(r), Wanted(r), r.helper = "datetime", Exact(r),
           NEW j \in Nat, NEW l \in Nat, j <= l
    PROVE  /\ FirstKey(r, 0) = r.min /\ FirstKey(r, r.n) = r.max
           /\ FirstKey(r, j) \in Int /\ FirstKey(r, l) \in Int
           /\ FirstKey(r, j) <= FirstKey(r, l)
<1> DEFINE g == Grain(r)
           a == (r.max - r.min) \div g
           n == r.n
           lo == r.min
           hi == r.max
<1>1. lo \in Int /\ hi \in Int /\ n \in Nat \ {0} /\ hi - lo \in Nat
  BY DEF IsRequest, Wanted
<1>2. g \in Nat \ {0} /\ g % Unit = 0
  <2>1. Unit % Unit = 0
    BY SlicesAssumption
  <2> QED BY <2>1, SlicesAssumption DEF Grain
<1>3. lo % Unit = 0 /\ (hi - lo) % g = 0
  BY DEF Exact
<1>4. \A k : FirstKey(r, k) = Printed(lo + g * MulDiv(a, k, n))
  BY DEF FirstKey, CutTime, SplitDuration
<1>5. a = (hi - lo) \div g /\ r.min = lo /\ r.max = hi /\ r.n = n
  OBVIOUS
<1> HIDE DEF a, n, lo, hi, g
<1>6. a \in Nat /\ hi = lo + g * a
  <2>1. a \in Int /\ hi - lo = a * g
    BY <1>1, <1>2, <1>3, <1>5, Remainder, DivisionFact
  <2>2. a >= 0
    <3>1. 0 <= hi - lo /\ hi - lo \in Int
      BY <1>1
    <3>2. 0 \div g <= (hi - lo) \div g /\ 0 \div g = 0
      BY <1>2, <3>1, DivisionMonotone, DivisionExact
    <3> QED BY <1>5, <3>2
  <2> QED BY <2>1, <2>2, <1>1, <1>2
<1>7. /\ MulDiv(a, 0, n) = 0 /\ MulDiv(a, n, n) = a
      /\ MulDiv(a, j, n) \in Int /\ MulDiv(a, l, n) \in Int
      /\ MulDiv(a, j, n) <= MulDiv(a, l, n)
  BY <1>1, <1>6, Interpolates
<1>8. \A k \in Int : lo + g * k \in Int /\ Printed(lo + g * k) = lo + g * k
  BY <1>1, <1>2, <1>3, PrintedExact
<1>9. /\ FirstKey(r, 0) = lo + g * 0 /\ FirstKey(r, n) = lo + g * a
      /\ FirstKey(r, j) = lo + g * MulDiv(a, j, n)
      /\ FirstKey(r, l) = lo + g * MulDiv(a, l, n)
  BY <1>4, <1>6, <1>7, <1>8
<1>10. g * MulDiv(a, j, n) <= g * MulDiv(a, l, n)
  BY <1>2, <1>7
<1> QED BY <1>1, <1>2, <1>5, <1>6, <1>7, <1>9, <1>10

-----------------------------------------------------------------------------
(* The slices.                                                             *)

\* The first key that is left after the slices before turn j.
Edge(r, j) == IF More(r, j) THEN FirstKey(r, j) ELSE r.max + 1

\* The offset has not wrapped when turn j comes.
NoWrap(r, j) == r.helper = "offset" => FirstKey(r, j) = Page(r) * j

\* What turn j does, as seen from the edges.
TurnFacts(r, j) ==
    /\ FirstKey(r, j) \in Int
    /\ FirstKey(r, j) = Edge(r, j)
    /\ NoWrap(r, j + 1)
    /\ Edge(r, j + 1) \in Int
    /\ ~Skipped(r, j) => /\ LastKey(r, j) \in Int
                         /\ FirstKey(r, j) <= LastKey(r, j) /\ LastKey(r, j) <= r.max
                         /\ LastKey(r, j) + 1 = Edge(r, j + 1)
    /\ Skipped(r, j) => Edge(r, j + 1) = FirstKey(r, j)

LEMMA IntTurn ==
    ASSUME NEW r, IsRequest(r), Wanted(r), r.helper = "int",
           NEW j \in Nat, More(r, j)
    PROVE  TurnFacts(r, j)
<1>1. r.n \in Nat \ {0} /\ r.max \in Int
  BY DEF IsRequest, Wanted
<1>2. j < r.n
  BY DEF More
<1>3. /\ FirstKey(r, j) \in Int /\ FirstKey(r, j + 1) \in Int
      /\ FirstKey(r, j) <= FirstKey(r, j + 1)
      /\ FirstKey(r, j + 1) <= FirstKey(r, r.n) /\ FirstKey(r, r.n) = r.max + 1
  BY <1>1, <1>2, IntBoundaries
<1>4. LastKey(r, j) = FirstKey(r, j + 1) - 1
  BY DEF LastKey, Closed
<1>5. Skipped(r, j) <=> FirstKey(r, j) > LastKey(r, j)
  BY DEF Skipped
<1>6. Edge(r, j) = FirstKey(r, j)
  BY DEF Edge
<1>7. Edge(r, j + 1) = FirstKey(r, j + 1)
  <2>1. CASE j + 1 < r.n
    BY <2>1 DEF Edge, More
  <2>2. CASE ~(j + 1 < r.n)
    <3>1. j + 1 = r.n
      BY <2>2, <1>1, <1>2
    <3> QED BY <3>1, <2>2, <1>3 DEF Edge, More
  <2> QED BY <2>1, <2>2
<1>8. NoWrap(r, j + 1)
  BY DEF NoWrap
<1> QED BY <1>1, <1>3, <1>4, <1>5, <1>6, <1>7, <1>8 DEF TurnFacts

LEMMA ClosedTurn ==
    ASSUME NEW r, IsRequest(r), Wanted(r), r.helper \in {"uuid", "date", "datetime"},
           Exact(r), NEW j \in Nat, More(r, j)
    PROVE  TurnFacts(r, j)
<1>1. r.n \in Nat \ {0} /\ r.max \in Int
  BY DEF IsRequest, Wanted
<1>2. j < r.n
  BY DEF More
<1>3. /\ FirstKey(r, j) \in Int /\ FirstKey(r, j + 1) \in Int
      /\ FirstKey(r, j) <= FirstKey(r, j + 1)
      /\ FirstKey(r, j + 1) <= FirstKey(r, r.n) /\ FirstKey(r, r.n) = r.max
  <2>1. CASE r.helper = "datetime"
    BY <2>1, <1>1, <1>2, TimeBoundaries
  <2>2. CASE r.helper \in {"uuid", "date"}
    BY <2>2, <1>1, <1>2, KeyBoundaries
  <2> QED BY <2>1, <2>2
<1>4. Closed(r, j) <=> j + 1 = r.n
  BY DEF Closed
<1>5. Edge(r, j) = FirstKey(r, j) /\ NoWrap(r, j + 1)
  BY DEF Edge, NoWrap
<1>6. CASE j + 1 = r.n
  <2>1. LastKey(r, j) = r.max
    BY <1>3, <1>4, <1>6 DEF LastKey
  <2>2. ~Skipped(r, j)
    BY <1>1, <1>3, <1>4, <1>6 DEF Skipped
  <2>3. Edge(r, j + 1) = r.max + 1
    BY <1>1, <1>6 DEF Edge, More
  <2>4. FirstKey(r, j) <= r.max
    BY <1>1, <1>3
  <2> QED BY <1>1, <1>3, <1>5, <2>1, <2>2, <2>3, <2>4 DEF TurnFacts
<1>7. CASE j + 1 # r.n
  <2>1. LastKey(r, j) = FirstKey(r, j + 1) - 1
    BY <1>4, <1>7 DEF LastKey
  <2>2. Skipped(r, j) <=> FirstKey(r, j) = FirstKey(r, j + 1)
    BY <1>3, <1>4, <1>7 DEF Skipped
  <2>3. Edge(r, j + 1) = FirstKey(r, j + 1)
    BY <1>1, <1>2, <1>7 DEF Edge, More
  <2> QED BY <1>1, <1>3, <1>5, <2>1, <2>2, <2>3 DEF TurnFacts
<1> QED BY <1>6, <1>7

LEMMA PageFacts ==
    ASSUME NEW r, IsRequest(r), Wanted(r), r.helper = "offset"
    PROVE  /\ r.n \in Nat \ {0} /\ r.max \in Nat /\ r.min = 0
           /\ Page(r) \in Nat \ {0} /\ Page(r) <= r.max + 1
           /\ r.max < Page(r) * r.n
<1> DEFINE n == r.n
           m == r.max
           w == Page(r)
<1>1. n \in Nat \ {0} /\ m \in Nat /\ r.min = 0
  BY DEF IsRequest, Wanted, Asked
<1>2. w = (m + n) \div n
  BY DEF Page
<1> HIDE DEF n, m, w
<1>3. w \in Int /\ w * n <= m + n /\ m + n < w * n + n
  BY <1>1, <1>2, DivisionFact
<1>4. m < w * n
  BY <1>1, <1>3
<1>5. w > 0
  <2> SUFFICES ASSUME w <= 0 PROVE FALSE
    BY <1>3
  <2>1. w * n <= 0
    BY <1>1, <1>3
  <2> QED BY <2>1, <1>1, <1>3, <1>4
<1>6. w <= m + 1
  <2> SUFFICES ASSUME w >= m + 2 PROVE FALSE
    BY <1>1, <1>3
  <2>1. w * n >= (m + 2) * n
    BY <1>1, <1>3
  <2>2. (m + 2) * n = m * n + 2 * n /\ m * n >= m
    BY <1>1
  <2>3. w * n \in Int /\ m * n \in Int
    BY <1>1, <1>3
  <2> QED BY ONLY <2>1, <2>2, <2>3, <1>1, <1>3
<1> QED BY <1>1, <1>3, <1>4, <1>5, <1>6 DEF n, m, w

LEMMA OffsetTurn ==
    ASSUME NEW r, IsRequest(r), Wanted(r), r.helper = "offset", Exact(r),
           NEW j \in Nat, More(r, j), NoWrap(r, j)
    PROVE  TurnFacts(r, j) /\ j < r.n
<1> DEFINE w == Page(r)
           m == r.max
           f == FirstKey(r, j)
           g == FirstKey(r, j + 1)
<1>1. r.n \in Nat \ {0} /\ m \in Nat /\ w \in Nat \ {0} /\ w <= m + 1 /\ m < w * r.n
  BY PageFacts
<1>2. f = w * j /\ f < m + 1 /\ f \in Int
  BY <1>1 DEF NoWrap, More
<1>3. g = (w * (j + 1)) % Word
  BY DEF FirstKey, Offset
<1>4. 2 * m + 1 < Word /\ Word \in Nat \ {0}
  BY SlicesAssumption DEF Exact
<1>5. LastKey(r, j) = f + Smaller(w, m + 1 - f) - 1
  BY DEF LastKey
<1>6. /\ More(r, j + 1) <=> g < m + 1
      /\ Edge(r, j) = f
      /\ Edge(r, j + 1) = IF g < m + 1 THEN g ELSE m + 1
      /\ ~Skipped(r, j)
      /\ NoWrap(r, j + 1) <=> g = w * (j + 1)
  BY DEF More, Edge, Skipped, NoWrap
<1> HIDE DEF w, m, f, g
<1>7. w * (j + 1) = f + w /\ f >= 0
  BY <1>1, <1>2
<1>8. f + w \in Nat /\ f + w < Word
  BY <1>1, <1>2, <1>4, <1>7
<1>9. g = f + w
  BY <1>3, <1>4, <1>7, <1>8
<1>10. /\ LastKey(r, j) \in Int
       /\ f <= LastKey(r, j) /\ LastKey(r, j) <= m
       /\ LastKey(r, j) + 1 = Edge(r, j + 1)
  <2>1. CASE w <= m + 1 - f
    <3>1. LastKey(r, j) = f + w - 1
      BY <2>1, <1>5 DEF Smaller
    <3> QED BY <2>1, <3>1, <1>1, <1>2, <1>6, <1>9
  <2>2. CASE ~(w <= m + 1 - f)
    <3>1. LastKey(r, j) = f + (m + 1 - f) - 1
      BY <2>2, <1>5 DEF Smaller
    <3> QED BY <2>2, <3>1, <1>1, <1>2, <1>6, <1>9
  <2> QED BY <2>1, <2>2
<1>11. Edge(r, j + 1) \in Int
  BY <1>1, <1>2, <1>6, <1>9
<1>12. j < r.n
  <2> SUFFICES ASSUME r.n <= j PROVE FALSE
    BY <1>1
  <2>1. w * r.n <= w * j
    BY <1>1, ProductMonotone
  <2>2. w * r.n \in Int /\ w * j \in Int
    BY <1>1
  <2> QED BY ONLY <2>1, <2>2, <1>1, <1>2
<1>13. FirstKey(r, j) = f /\ r.max = m
  BY DEF f, m
<1> QED BY <1>2, <1>6, <1>7, <1>9, <1>10, <1>11, <1>12, <1>13 DEF TurnFacts

LEMMA Turn ==
    ASSUME NEW r, IsRequest(r), Wanted(r), Exact(r),
           NEW j \in Nat, More(r, j), NoWrap(r, j)
    PROVE  TurnFacts(r, j) /\ j < r.n
<1>1. CASE r.helper = "offset"
  BY <1>1, OffsetTurn
<1>2. CASE r.helper # "offset"
  <2>1. j < r.n
    BY <1>2 DEF More
  <2>2. CASE r.helper = "int"
    BY <2>1, <2>2, IntTurn
  <2>3. CASE r.helper \in {"uuid", "date", "datetime"}
    BY <2>1, <2>3, ClosedTurn
  <2> QED BY <1>2, <2>1, <2>2, <2>3 DEF IsRequest, Helpers
<1> QED BY <1>1, <1>2

LEMMA FirstEdge ==
    ASSUME NEW r, IsRequest(r), Wanted(r), Exact(r)
    PROVE  Edge(r, 0) = r.min /\ NoWrap(r, 0)
<1>1. r.n \in Nat \ {0} /\ r.min <= r.max /\ r.min \in Int /\ r.max \in Int
  BY DEF IsRequest, Wanted
<1>2. CASE r.helper = "offset"
  <2>1. Page(r) \in Nat /\ r.min = 0
    BY <1>2, PageFacts
  <2>2. FirstKey(r, 0) = (Page(r) * 0) % Word
    BY <1>2 DEF FirstKey, Offset
  <2>3. Page(r) * 0 = 0
    BY <2>1
  <2>4. 0 % Word = 0
    BY SlicesAssumption
  <2> QED BY <1>1, <1>2, <2>1, <2>2, <2>3, <2>4 DEF Edge, More, NoWrap
<1>3. CASE r.helper # "offset"
  <2>1. FirstKey(r, 0) = r.min
    <3>1. CASE r.helper = "int"
      BY <1>1, <3>1, IntBoundaries
    <3>2. CASE r.helper \in {"uuid", "date"}
      BY <1>1, <3>2, KeyBoundaries
    <3>3. CASE r.helper = "datetime"
      BY <1>1, <3>3, TimeBoundaries
    <3> QED BY <1>3, <3>1, <3>2, <3>3 DEF IsRequest, Helpers
  <2>2. 0 < r.n
    BY <1>1
  <2> QED BY <1>3, <2>1, <2>2 DEF Edge, More, NoWrap
<1> QED BY <1>2, <1>3

-----------------------------------------------------------------------------
(* All turns of a loop that is not stopped: those of a request, by number. *)

Taken(r, j) == More(r, j) /\ ~Skipped(r, j)

\* Turn j gives a slice, whose predicate selects the key.
Takes(r, j, key) == Taken(r, j) /\ FirstKey(r, j) <= key /\ key <= LastKey(r, j)

\* No offset wraps, in a turn that the loop takes or in a later one.
OffsetsFit(r) == r.helper = "offset" => r.max + r.n < Word

LEMMA OffsetsFitTo ==
    ASSUME NEW r, IsRequest(r), Wanted(r), OffsetsFit(r), r.helper = "offset",
           NEW j \in 0..r.n
    PROVE  /\ NoWrap(r, j) /\ FirstKey(r, j) \in Nat
           /\ Page(r) * j \in Nat
           /\ j = r.n => r.max < FirstKey(r, j)
<1> DEFINE w == Page(r)
<1>1. r.n \in Nat \ {0} /\ r.max \in Nat /\ w \in Nat \ {0} /\ r.max < w * r.n
  BY PageFacts
<1>2. w * r.n <= r.max + r.n
  <2>1. w = (r.max + r.n) \div r.n
    BY DEF Page
  <2>2. r.max + r.n \in Int
    BY <1>1
  <2> HIDE DEF w
  <2> QED BY <1>1, <2>1, <2>2, DivisionFact
<1>3. w * j \in Nat /\ w * r.n \in Nat /\ w * j <= w * r.n
  BY <1>1, ProductMonotone
<1>4. w * j < Word /\ Word \in Nat
  BY <1>1, <1>2, <1>3, SlicesAssumption DEF OffsetsFit
<1>5. FirstKey(r, j) = (w * j) % Word
  BY DEF FirstKey, Offset
<1> HIDE DEF w
<1>6. (w * j) % Word = w * j
  <2> DEFINE x == w * j
  <2>1. x \in Nat /\ x < Word
    BY <1>3, <1>4
  <2> HIDE DEF x
  <2>2. x % Word = x
    BY <1>4, <2>1
  <2> QED BY <2>2 DEF x
<1> QED BY <1>1, <1>3, <1>5, <1>6 DEF NoWrap, w

LEMMA AllTurns ==
    ASSUME NEW r, IsRequest(r), Wanted(r), Exact(r), OffsetsFit(r)
    PROVE  /\ Edge(r, 0) = r.min /\ Edge(r, r.n) = r.max + 1
           /\ \A j \in 0..r.n : Edge(r, j) \in Int
           /\ \A j \in 0..(r.n - 1) :
                 /\ Edge(r, j) <= Edge(r, j + 1)
                 /\ Taken(r, j) => /\ FirstKey(r, j) = Edge(r, j)
                                   /\ LastKey(r, j) = Edge(r, j + 1) - 1
                                   /\ LastKey(r, j) <= r.max
                                   /\ FirstKey(r, j) <= LastKey(r, j)
                 /\ ~Taken(r, j) => Edge(r, j) = Edge(r, j + 1)
<1>1. r.n \in Nat \ {0} /\ r.max \in Int /\ r.min \in Int
  BY DEF IsRequest, Wanted
<1>2. \A j \in 0..r.n : NoWrap(r, j)
  BY OffsetsFitTo DEF NoWrap
<1>3. Edge(r, 0) = r.min
  BY FirstEdge
<1>4. ~More(r, r.n)
  <2>1. CASE r.helper = "offset"
    <3>1. r.max < FirstKey(r, r.n) /\ FirstKey(r, r.n) \in Nat
      BY <1>1, <2>1, OffsetsFitTo
    <3> QED BY <1>1, <2>1, <3>1 DEF More
  <2>2. CASE r.helper # "offset"
    BY <1>1, <2>2 DEF More
  <2> QED BY <2>1, <2>2
<1>5. Edge(r, r.n) = r.max + 1
  BY <1>4 DEF Edge
<1>6. ASSUME NEW j \in 0..(r.n - 1), ~More(r, j) PROVE ~More(r, j + 1)
  <2>1. j \in 0..r.n /\ j + 1 \in 0..r.n /\ j < r.n
    BY <1>1
  <2>2. r.helper = "offset"
    BY <1>6, <2>1 DEF More
  <2> DEFINE w == Page(r)
             f == FirstKey(r, j)
             g == FirstKey(r, j + 1)
  <2>3. w \in Nat /\ f = w * j /\ g = w * (j + 1)
    BY <1>2, <2>1, <2>2, PageFacts DEF NoWrap
  <2>4. ~(f < r.max + 1) /\ (More(r, j + 1) <=> g < r.max + 1)
    BY <1>6, <2>2 DEF More
  <2> HIDE DEF w, f, g
  <2>5. g = f + w /\ f \in Int
    BY <2>1, <2>3
  <2> QED BY <1>1, <2>3, <2>4, <2>5
<1>7. ASSUME NEW j \in 0..(r.n - 1)
      PROVE  /\ Edge(r, j) \in Int /\ Edge(r, j + 1) \in Int
             /\ Edge(r, j) <= Edge(r, j + 1)
             /\ Taken(r, j) => /\ FirstKey(r, j) = Edge(r, j)
                               /\ LastKey(r, j) = Edge(r, j + 1) - 1
                               /\ LastKey(r, j) <= r.max
                               /\ FirstKey(r, j) <= LastKey(r, j)
             /\ ~Taken(r, j) => Edge(r, j) = Edge(r, j + 1)
  <2>1. CASE More(r, j)
    <3>1. j \in Nat /\ j \in 0..r.n
      BY <1>1
    <3>2. TurnFacts(r, j)
      BY <1>2, <2>1, <3>1, Turn
    <3>3. CASE Skipped(r, j)
      <4>1. Edge(r, j + 1) = FirstKey(r, j) /\ Edge(r, j) = FirstKey(r, j) /\ FirstKey(r, j) \in Int
        BY <3>2, <3>3 DEF TurnFacts
      <4> QED BY <3>3, <4>1 DEF Taken
    <3>4. CASE ~Skipped(r, j)
      <4> DEFINE f == FirstKey(r, j)
                 k == LastKey(r, j)
                 e == Edge(r, j + 1)
      <4>1. f \in Int /\ f = Edge(r, j) /\ e \in Int /\ k \in Int /\ f <= k /\ k <= r.max /\ k + 1 = e
        BY <3>2, <3>4 DEF TurnFacts
      <4>2. Taken(r, j)
        BY <2>1, <3>4 DEF Taken
      <4> HIDE DEF f, k, e
      <4>3. f <= e /\ k = e - 1
        BY <4>1
      <4> QED BY <4>1, <4>2, <4>3 DEF f, k, e
    <3> QED BY <3>3, <3>4
  <2>2. CASE ~More(r, j)
    <3>1. ~More(r, j + 1)
      BY <1>6, <2>2
    <3> QED BY <1>1, <2>2, <3>1 DEF Edge, Taken
  <2> QED BY <2>1, <2>2
<1>8. \A j \in 0..r.n : Edge(r, j) \in Int
  <2> SUFFICES ASSUME NEW j \in 0..r.n PROVE Edge(r, j) \in Int
    OBVIOUS
  <2>1. CASE j = r.n
    BY <1>1, <1>5, <2>1
  <2>2. CASE j # r.n
    <3>1. j \in 0..(r.n - 1)
      BY <1>1, <2>2
    <3> QED BY <1>7, <3>1
  <2> QED BY <2>1, <2>2
<1> QED BY <1>3, <1>5, <1>7, <1>8

LEMMA EdgesGrow ==
    ASSUME NEW n \in Nat, NEW e \in [0..n -> Int], \A j \in 0..(n - 1) : e[j] <= e[j + 1],
           NEW j \in 0..n, NEW l \in 0..n, j <= l
    PROVE  e[j] <= e[l]
<1> DEFINE T == {k \in Nat : j + k <= n => e[j] <= e[j + k]}
<1>1. 0 \in T
  OBVIOUS
<1>2. ASSUME NEW k \in T PROVE k + 1 \in T
  <2> SUFFICES ASSUME j + (k + 1) <= n PROVE e[j] <= e[j + (k + 1)]
    OBVIOUS
  <2>1. j + k \in 0..(n - 1) /\ (j + k) + 1 = j + (k + 1) /\ e[j] <= e[j + k]
    OBVIOUS
  <2>2. e[j + k] <= e[(j + k) + 1]
    BY <2>1
  <2>3. e[j] \in Int /\ e[j + k] \in Int /\ e[j + (k + 1)] \in Int
    BY <2>1
  <2> QED BY <2>1, <2>2, <2>3
<1>3. T = Nat
  <2> HIDE DEF T
  <2>1. T \in SUBSET Nat
    BY DEF T
  <2> QED BY <1>1, <1>2, <2>1, Induction
<1> DEFINE d == l - j
<1>4. d \in Nat /\ j + d = l
  OBVIOUS
<1>5. d \in T
  BY <1>3, <1>4
<1> HIDE DEF d
<1>6. e[j] <= e[j + d]
  BY <1>4, <1>5
<1> QED BY <1>4, <1>6

\* The slices of a request select each key of its interval, and none twice.
LEMMA TurnsTile ==
    ASSUME NEW r, IsRequest(r), Wanted(r), Exact(r), OffsetsFit(r)
    PROVE  /\ \A j \in 0..(r.n - 1) : Taken(r, j) =>
                 FirstKey(r, j) \in r.min..r.max /\ LastKey(r, j) \in r.min..r.max
           /\ \A key \in Int : \A j, l \in 0..(r.n - 1) :
                 Takes(r, j, key) /\ Takes(r, l, key) => j = l
           /\ \A key \in r.min..r.max : \E j \in 0..(r.n - 1) : Takes(r, j, key)
<1> DEFINE n == r.n
           e == [j \in 0..n |-> Edge(r, j)]
<1>1. n \in Nat \ {0} /\ r.max \in Int /\ r.min \in Int
  BY DEF IsRequest, Wanted
<1>2. e \in [0..n -> Int]
  <2>1. \A j \in 0..n : Edge(r, j) \in Int
    BY AllTurns
  <2> QED BY <2>1
<1>3. e[0] = r.min /\ e[n] = r.max + 1
  <2>1. Edge(r, 0) = r.min /\ Edge(r, r.n) = r.max + 1
    BY AllTurns
  <2>2. 0 \in 0..n /\ n \in 0..n
    BY <1>1
  <2> QED BY <2>1, <2>2
<1>4. ASSUME NEW j \in 0..(n - 1)
      PROVE  /\ j \in 0..n /\ j + 1 \in 0..n
             /\ e[j] <= e[j + 1]
             /\ Taken(r, j) => /\ FirstKey(r, j) = e[j] /\ LastKey(r, j) = e[j + 1] - 1
                               /\ LastKey(r, j) <= r.max
                               /\ FirstKey(r, j) <= LastKey(r, j)
             /\ ~Taken(r, j) => e[j] = e[j + 1]
  <2>1. j \in 0..n /\ j + 1 \in 0..n
    BY <1>1
  <2> QED BY <2>1, AllTurns
<1> HIDE DEF e, n
<1>5. ASSUME NEW j \in 0..(n - 1), NEW key \in Int
      PROVE  Takes(r, j, key) <=> e[j] <= key /\ key < e[j + 1]
  <2>1. e[j] \in Int /\ e[j + 1] \in Int
    BY <1>2, <1>4
  <2>2. CASE Taken(r, j)
    <3>1. FirstKey(r, j) = e[j] /\ LastKey(r, j) = e[j + 1] - 1
      BY <1>4, <2>2
    <3> QED BY <2>1, <2>2, <3>1 DEF Takes
  <2>3. CASE ~Taken(r, j)
    <3>1. e[j] = e[j + 1]
      BY <1>4, <2>3
    <3> QED BY <2>1, <2>3, <3>1 DEF Takes
  <2> QED BY <2>2, <2>3
<1>6. ASSUME NEW j \in 0..n, NEW l \in 0..n, j <= l
      PROVE  e[j] <= e[l] /\ e[j] \in Int /\ e[l] \in Int
  BY <1>1, <1>2, <1>4, <1>6, EdgesGrow
<1>7. ASSUME NEW j \in 0..(n - 1), Taken(r, j)
      PROVE  FirstKey(r, j) \in r.min..r.max /\ LastKey(r, j) \in r.min..r.max
  <2> DEFINE f == FirstKey(r, j)
             k == LastKey(r, j)
  <2>1. f = e[j] /\ k <= r.max /\ f <= k /\ k = e[j + 1] - 1 /\ j \in 0..n /\ j + 1 \in 0..n
    BY <1>4, <1>7
  <2>2. e[0] <= e[j] /\ e[j] \in Int /\ e[j + 1] \in Int
    BY <1>1, <1>2, <1>6, <2>1
  <2> HIDE DEF f, k
  <2>3. f \in Int /\ k \in Int /\ r.min <= f
    BY <1>3, <2>1, <2>2
  <2>4. f \in r.min..r.max /\ k \in r.min..r.max
    BY <1>1, <2>1, <2>3
  <2> QED BY <2>4 DEF f, k
<1>8. ASSUME NEW key \in Int, NEW j \in 0..(n - 1), NEW l \in 0..(n - 1),
             Takes(r, j, key), Takes(r, l, key)
      PROVE  ~(j < l)
  <2> SUFFICES ASSUME j < l PROVE FALSE
    OBVIOUS
  <2>1. key < e[j + 1] /\ e[l] <= key
    BY <1>5, <1>8
  <2>2. e[j + 1] <= e[l] /\ e[j + 1] \in Int /\ e[l] \in Int
    <3>1. j + 1 \in 0..n /\ l \in 0..n /\ j + 1 <= l
      BY <1>1
    <3> QED BY <1>6, <3>1
  <2> QED BY <2>1, <2>2
<1>9. ASSUME NEW key \in r.min..r.max
      PROVE  \E j \in 0..(n - 1) : Takes(r, j, key)
  <2> SUFFICES ASSUME \A j \in 0..(n - 1) : ~Takes(r, j, key) PROVE FALSE
    OBVIOUS
  <2>1. key \in Int /\ r.min <= key /\ key <= r.max
    BY <1>1
  <2> DEFINE T == {j \in 0..n : e[j] <= key}
  <2>2. 0 \in T
    BY <1>1, <1>3, <2>1
  <2>3. ASSUME NEW p \in 1..n, p - 1 \in T PROVE p \in T
    <3>1. p - 1 \in 0..(n - 1) /\ (p - 1) + 1 = p /\ p \in 0..n /\ e[p - 1] <= key
      BY <1>1, <2>3
    <3>2. ~(key < e[p])
      BY <1>5, <2>1, <3>1
    <3>3. e[p] \in Int
      BY <1>2, <3>1
    <3> QED BY <2>1, <3>1, <3>2, <3>3
  <2>4. 0..n \subseteq T
    <3> HIDE DEF T
    <3> QED BY <1>1, <2>2, <2>3, InductionTo
  <2>5. n \in T
    BY <1>1, <2>4
  <2> QED BY <1>1, <1>3, <2>1, <2>5
<1>10. \A key \in Int : \A j, l \in 0..(n - 1) :
          Takes(r, j, key) /\ Takes(r, l, key) => j = l
  <2> SUFFICES ASSUME NEW key \in Int, NEW j \in 0..(n - 1), NEW l \in 0..(n - 1),
                      Takes(r, j, key), Takes(r, l, key)
               PROVE  j = l
    OBVIOUS
  <2>1. ~(j < l) /\ ~(l < j)
    BY <1>8
  <2> QED BY <1>1, <2>1
<1> QED BY <1>7, <1>9, <1>10 DEF n

-----------------------------------------------------------------------------
(* The loop: before turn i the slices end where slice i begins.            *)

LoopInv ==
    /\ TypeOK
    /\ IsRequest(ask) /\ Exact(ask)
    /\ Wanted(ask) => At = Edge(ask, i) /\ NoWrap(ask, i)
    /\ ~Wanted(ask) => out = <<>>
    /\ done /\ Wanted(ask) => ~More(ask, i)

LEMMA InitLoop == Init /\ Exact(ask) => LoopInv
<1> SUFFICES ASSUME Init, Exact(ask) PROVE LoopInv
  OBVIOUS
<1>1. PICK h \in Helpers, n \in Counts : \E a, b \in Ends[h] :
         /\ ask = [helper |-> h, min |-> a, max |-> b, n |-> n]
         /\ Asked(ask)
  BY DEF Init
<1>2. PICK a \in Ends[h], b \in Ends[h] :
         /\ ask = [helper |-> h, min |-> a, max |-> b, n |-> n]
         /\ Asked(ask)
  BY <1>1
<1>3. i = 0 /\ out = <<>> /\ done = FALSE
  BY DEF Init
<1>4. a \in Int /\ b \in Int /\ n \in Nat
  <2>1. Ends[h] \subseteq Int
    BY SlicingAssumption
  <2> QED BY <2>1, SlicingAssumption
<1>5. IsRequest(ask)
  BY <1>2, <1>4 DEF IsRequest
<1>6. TypeOK
  <2>1. i \in 0..ask.n
    BY <1>2, <1>3, <1>4
  <2>2. out \in Seq(Int \X Int)
    BY <1>3
  <2> QED BY <1>2, <1>3, <1>4, <2>1, <2>2 DEF TypeOK
<1>7. Wanted(ask) => Edge(ask, 0) = ask.min /\ NoWrap(ask, 0)
  BY <1>5, FirstEdge
<1> QED BY <1>3, <1>5, <1>6, <1>7 DEF LoopInv, At

LEMMA PushFacts ==
    ASSUME LoopInv, Push
    PROVE  /\ Wanted(ask) /\ ~done /\ ask' = ask /\ done' = done /\ i' = i + 1
           /\ i' \in 0..ask.n
           /\ At \in Int /\ LastKey(ask, i) \in At..ask.max
           /\ out' = Append(out, <<At, LastKey(ask, i)>>)
           /\ out' \in Seq(Int \X Int)
           /\ At' = LastKey(ask, i) + 1
           /\ At' = Edge(ask, i + 1) /\ NoWrap(ask, i + 1)
<1>1. /\ Wanted(ask) /\ More(ask, i) /\ ~Skipped(ask, i)
      /\ ~done /\ ask' = ask /\ done' = done /\ i' = i + 1
      /\ out' = Append(out, <<FirstKey(ask, i), LastKey(ask, i)>>)
  BY DEF Push
<1>2. IsRequest(ask) /\ Exact(ask) /\ i \in Nat /\ ask.n \in Nat /\ ask.max \in Int
      /\ At = Edge(ask, i) /\ NoWrap(ask, i)
  BY <1>1 DEF LoopInv, TypeOK, IsRequest
<1>3. TurnFacts(ask, i) /\ i < ask.n
  BY <1>1, <1>2, Turn
<1> DEFINE lo == FirstKey(ask, i)
           hi == LastKey(ask, i)
<1>4. /\ lo \in Int /\ hi \in Int /\ lo = At /\ lo <= hi /\ hi <= ask.max
      /\ hi + 1 = Edge(ask, i + 1) /\ NoWrap(ask, i + 1)
      /\ out' = Append(out, <<lo, hi>>)
  BY <1>1, <1>2, <1>3 DEF TurnFacts
<1> HIDE DEF lo
<1> HIDE DEF hi
<1>5. out' \in Seq(Int \X Int) /\ out' # <<>> /\ out'[Len(out')] = <<lo, hi>>
  BY <1>4 DEF LoopInv, TypeOK
<1>6. At' = hi + 1
  BY <1>5 DEF At
<1>7. i + 1 \in 0..ask.n
  BY <1>2, <1>3
<1>8. hi = LastKey(ask, i)
  BY DEF hi
<1> QED BY <1>1, <1>2, <1>4, <1>5, <1>6, <1>7, <1>8

LEMMA LoopStep == LoopInv /\ [Next]_vars => LoopInv'
<1> SUFFICES ASSUME LoopInv, [Next]_vars PROVE LoopInv'
  OBVIOUS
<1>1. CASE Refuse
  BY <1>1 DEF Refuse, LoopInv, TypeOK, At
<1>2. CASE Push
  <2>1. IsRequest(ask)' /\ Exact(ask)' /\ Wanted(ask)' = Wanted(ask)
        /\ Edge(ask, i)' = Edge(ask, i + 1) /\ NoWrap(ask, i)' = NoWrap(ask, i + 1)
    BY <1>2, PushFacts DEF LoopInv
  <2>2. TypeOK'
    BY <1>2, PushFacts DEF LoopInv, TypeOK
  <2> QED BY <1>2, <2>1, <2>2, PushFacts DEF LoopInv
<1>3. CASE Skip
  <2>1. /\ Wanted(ask) /\ More(ask, i) /\ Skipped(ask, i)
        /\ ~done /\ UNCHANGED <<ask, out, done>> /\ i' = i + 1
    BY <1>3 DEF Skip
  <2>2. IsRequest(ask) /\ Exact(ask) /\ i \in Nat /\ ask.n \in Nat
        /\ At = Edge(ask, i) /\ NoWrap(ask, i)
    BY <2>1 DEF LoopInv, TypeOK, IsRequest
  <2>3. TurnFacts(ask, i) /\ i < ask.n
    BY <2>1, <2>2, Turn
  <2>4. At = Edge(ask, i + 1) /\ NoWrap(ask, i + 1)
    BY <2>1, <2>2, <2>3 DEF TurnFacts
  <2>5. At' = At /\ Wanted(ask)' = Wanted(ask) /\ IsRequest(ask)' /\ Exact(ask)'
        /\ Edge(ask, i)' = Edge(ask, i + 1) /\ NoWrap(ask, i)' = NoWrap(ask, i + 1)
    BY <2>1, <2>2 DEF At
  <2>6. i + 1 \in 0..ask.n
    BY <2>2, <2>3
  <2>7. TypeOK'
    BY <2>1, <2>6 DEF LoopInv, TypeOK
  <2> QED BY <2>1, <2>4, <2>5, <2>7 DEF LoopInv
<1>4. CASE Return
  BY <1>4 DEF Return, LoopInv, TypeOK, At
<1>5. CASE UNCHANGED vars
  BY <1>5 DEF vars, LoopInv, TypeOK, At
<1> QED BY <1>1, <1>2, <1>3, <1>4, <1>5 DEF Next

LEMMA LoopAlways == Spec /\ Exact(ask) => []LoopInv
BY InitLoop, LoopStep, PTL DEF Spec

-----------------------------------------------------------------------------
(* The sizes: every slice is at least Width(r) wide, and wider by no more  *)
(* than Slack(r); the last page alone may be narrower.                     *)

Width(r) ==
    CASE r.helper = "int"              -> (r.max - r.min + 1) \div r.n
      [] r.helper \in {"uuid", "date"} -> (r.max - r.min) \div r.n
      [] r.helper = "datetime"         -> Grain(r) * (((r.max - r.min) \div Grain(r)) \div r.n)
      [] r.helper = "offset"           -> Page(r)

Slack(r) ==
    CASE r.helper = "int"              -> 1
      [] r.helper \in {"uuid", "date"} -> 2
      [] r.helper = "datetime"         -> Grain(r) + 1
      [] r.helper = "offset"           -> 0

\* The keys of the slice that turn j pushes.
SizeOf(r, j) == LastKey(r, j) - FirstKey(r, j) + 1

SizeFacts(r, j) ==
    /\ Width(r) \in Int /\ Slack(r) \in Nat
    /\ ~Skipped(r, j) => /\ SizeOf(r, j) <= Width(r) + Slack(r)
                         /\ \/ SizeOf(r, j) >= Width(r)
                            \/ r.helper = "offset" /\ LastKey(r, j) = r.max

\* Two neighbouring multiples of w, divided by n, are w \div n apart or one more.
LEMMA DivisionSteps ==
    ASSUME NEW w \in Nat, NEW n \in Nat \ {0}, NEW j \in Nat
    PROVE  /\ w \div n \in Int
           /\ (w * j) \div n \in Int /\ (w * (j + 1)) \div n \in Int
           /\ (w * (j + 1)) \div n - (w * j) \div n \in {w \div n, w \div n + 1}
<1> DEFINE q  == w \div n
           a  == w * j
           b  == w * (j + 1)
           lo == a \div n
           hi == b \div n
<1>1. a \in Int /\ b \in Int /\ b = a + w
  OBVIOUS
<1>2. q \in Int /\ q * n <= w /\ w < q * n + n
  BY DivisionFact
<1>3. lo \in Int /\ lo * n <= a /\ a < lo * n + n
  BY <1>1, DivisionFact
<1>4. hi \in Int /\ hi * n <= b /\ b < hi * n + n
  BY <1>1, DivisionFact
<1> HIDE DEF q, a, b, lo, hi
<1>5. (lo + q) * n < (hi + 1) * n
  <2>1. (lo + q) * n = lo * n + q * n /\ (hi + 1) * n = hi * n + n
    BY <1>2, <1>3, <1>4
  <2>2. lo * n \in Int /\ q * n \in Int /\ hi * n \in Int
    BY <1>2, <1>3, <1>4
  <2> QED BY ONLY <2>1, <2>2, <1>1, <1>2, <1>3, <1>4, w \in Nat, n \in Nat
<1>6. hi * n < (lo + q + 2) * n
  <2>1. (lo + q + 2) * n = lo * n + q * n + n + n
    BY <1>2, <1>3
  <2>2. lo * n \in Int /\ q * n \in Int /\ hi * n \in Int
    BY <1>2, <1>3, <1>4
  <2> QED BY ONLY <2>1, <2>2, <1>1, <1>2, <1>3, <1>4, w \in Nat, n \in Nat
<1>7. lo + q < hi + 1
  BY <1>2, <1>3, <1>4, <1>5
<1>8. hi < lo + q + 2
  BY <1>2, <1>3, <1>4, <1>6
<1>9. hi - lo \in {q, q + 1}
  BY <1>2, <1>3, <1>4, <1>7, <1>8
<1> QED BY <1>2, <1>3, <1>4, <1>9 DEF q, a, b, lo, hi

\* The same of mul_div.
LEMMA InterpolationSteps ==
    ASSUME NEW w \in Nat, NEW n \in Nat \ {0}, NEW j \in Nat
    PROVE  /\ w \div n \in Int
           /\ MulDiv(w, j, n) \in Int /\ MulDiv(w, j + 1, n) \in Int
           /\ MulDiv(w, j + 1, n) - MulDiv(w, j, n) \in {w \div n, w \div n + 1}
<1> DEFINE q  == w \div n
           m  == w % n
           lo == (m * j) \div n
           hi == (m * (j + 1)) \div n
<1>1. q \in Nat /\ m \in Nat /\ m < n
  BY Remainder, DivisionFact
<1>2. m \div n = 0
  BY <1>1
<1>3. lo \in Int /\ hi \in Int /\ hi - lo \in {0, 1}
  BY <1>1, <1>2, DivisionSteps
<1>4. MulDiv(w, j, n) = q * j + lo /\ MulDiv(w, j + 1, n) = q * (j + 1) + hi
  BY DEF MulDiv
<1> HIDE DEF q, m, lo, hi
<1>5. q * (j + 1) = q * j + q /\ q * j \in Int
  BY <1>1
<1>6. /\ MulDiv(w, j, n) \in Int /\ MulDiv(w, j + 1, n) \in Int
      /\ MulDiv(w, j + 1, n) - MulDiv(w, j, n) \in {q, q + 1}
  BY <1>1, <1>3, <1>4, <1>5
<1> QED BY <1>1, <1>6 DEF q

LEMMA IntSizes ==
    ASSUME NEW r, IsRequest(r), Wanted(r), r.helper = "int", NEW j \in Nat, More(r, j)
    PROVE  SizeFacts(r, j)
<1> DEFINE w == r.max - r.min + 1
           n == r.n
           lo == r.min
           a == (w * j) \div n
           b == (w * (j + 1)) \div n
           q == w \div n
<1>1. lo \in Int /\ w \in Nat /\ n \in Nat \ {0}
  BY DEF IsRequest, Wanted
<1>2. q \in Int /\ a \in Int /\ b \in Int /\ b - a \in {q, q + 1}
  BY <1>1, DivisionSteps
<1>3. FirstKey(r, j) = lo + a /\ FirstKey(r, j + 1) = lo + b
  BY DEF FirstKey, CutInt
<1>4. LastKey(r, j) = FirstKey(r, j + 1) - 1
  BY DEF LastKey, Closed
<1>5. Width(r) = q /\ Slack(r) = 1
  BY DEF Width, Slack
<1> HIDE DEF w, n, lo, a, b, q
<1>6. SizeOf(r, j) = b - a
  BY <1>1, <1>2, <1>3, <1>4 DEF SizeOf
<1> QED BY <1>2, <1>5, <1>6 DEF SizeFacts

\* A slice of the others is a step wide, and one key more when it is closed.
LEMMA ClosedSize ==
    ASSUME NEW r, IsRequest(r), Wanted(r), r.helper \in {"uuid", "date", "datetime"},
           Exact(r), NEW j \in Nat, More(r, j),
           FirstKey(r, j) \in Int, FirstKey(r, j + 1) \in Int
    PROVE  SizeOf(r, j) - (FirstKey(r, j + 1) - FirstKey(r, j)) \in {0, 1}
<1>1. r.n \in Nat \ {0}
  BY DEF IsRequest, Wanted
<1>2. FirstKey(r, r.n) = r.max
  <2>1. CASE r.helper = "datetime"
    BY <2>1, <1>1, TimeBoundaries
  <2>2. CASE r.helper \in {"uuid", "date"}
    BY <2>2, <1>1, KeyBoundaries
  <2> QED BY <2>1, <2>2
<1>3. CASE j + 1 = r.n
  <2>1. LastKey(r, j) = FirstKey(r, j + 1)
    BY <1>2, <1>3 DEF LastKey, Closed
  <2> QED BY <2>1 DEF SizeOf
<1>4. CASE j + 1 # r.n
  <2>1. LastKey(r, j) = FirstKey(r, j + 1) - 1
    BY <1>4 DEF LastKey, Closed
  <2> QED BY <2>1 DEF SizeOf
<1> QED BY <1>3, <1>4

LEMMA KeySizes ==
    ASSUME NEW r, IsRequest(r), Wanted(r), r.helper \in {"uuid", "date"}, Exact(r),
           NEW j \in Nat, More(r, j)
    PROVE  SizeFacts(r, j)
<1> DEFINE w == r.max - r.min
           n == r.n
           lo == r.min
           a == MulDiv(w, j, n)
           b == MulDiv(w, j + 1, n)
           q == w \div n
           s == SizeOf(r, j)
<1>1. lo \in Int /\ w \in Nat /\ n \in Nat \ {0}
  BY DEF IsRequest, Wanted
<1>2. q \in Int /\ a \in Int /\ b \in Int /\ b - a \in {q, q + 1}
  BY <1>1, InterpolationSteps
<1>3. FirstKey(r, j) = lo + a /\ FirstKey(r, j + 1) = lo + b
  BY DEF FirstKey, CutKey
<1>4. Width(r) = q /\ Slack(r) = 2
  BY DEF Width, Slack
<1> HIDE DEF w, n, lo, a, b, q
<1>5. FirstKey(r, j) \in Int /\ FirstKey(r, j + 1) \in Int
      /\ FirstKey(r, j + 1) - FirstKey(r, j) = b - a
  BY <1>1, <1>2, <1>3
<1>6. s - (b - a) \in {0, 1} /\ s \in Int
  <2>1. LastKey(r, j) \in Int
    BY <1>5, KeyBoundaries DEF IsRequest, Wanted, LastKey
  <2>2. s \in Int
    BY <1>5, <2>1 DEF SizeOf
  <2> QED BY <1>5, <2>2, ClosedSize
<1> HIDE DEF s
<1>7. s <= q + 2 /\ s >= q
  BY <1>2, <1>6
<1> QED BY <1>2, <1>4, <1>7 DEF SizeFacts, s

LEMMA TimeSizes ==
    ASSUME NEW r, IsRequest(r), Wanted(r), r.helper = "datetime", Exact(r),
           NEW j \in Nat, More(r, j)
    PROVE  SizeFacts(r, j)
<1> DEFINE g == Grain(r)
           w == (r.max - r.min) \div g
           n == r.n
           lo == r.min
           a == MulDiv(w, j, n)
           b == MulDiv(w, j + 1, n)
           q == w \div n
           s == SizeOf(r, j)
<1>1. lo \in Int /\ n \in Nat \ {0} /\ r.max - r.min \in Nat
  BY DEF IsRequest, Wanted
<1>2. g \in Nat \ {0} /\ g % Unit = 0
  <2>1. Unit % Unit = 0
    BY SlicesAssumption
  <2> QED BY <2>1, SlicesAssumption DEF Grain
<1>3. lo % Unit = 0
  BY DEF Exact
<1>4. w \in Nat
  <2> DEFINE d == r.max - r.min
  <2>1. d \in Int /\ 0 <= d
    BY <1>1
  <2> HIDE DEF d
  <2>2. d \div g \in Int /\ 0 \div g <= d \div g /\ 0 \div g = 0
    BY <1>2, <2>1, DivisionFact, DivisionMonotone, DivisionExact
  <2> QED BY <2>2 DEF d
<1>5. FirstKey(r, j) = Printed(lo + g * a) /\ FirstKey(r, j + 1) = Printed(lo + g * b)
  BY DEF FirstKey, CutTime, SplitDuration
<1>6. Width(r) = g * q /\ Slack(r) = g + 1
  BY DEF Width, Slack
<1> HIDE DEF g, lo, w, n, a, b, q
<1>7. q \in Int /\ a \in Int /\ b \in Int /\ b - a \in {q, q + 1}
  BY <1>1, <1>4, InterpolationSteps DEF q, a, b
<1>8. FirstKey(r, j) = lo + g * a /\ FirstKey(r, j + 1) = lo + g * b
  BY <1>1, <1>2, <1>3, <1>5, <1>7, PrintedExact
<1>9. g * a \in Int /\ g * b \in Int /\ g * q \in Int
      /\ (b = a + q => g * b = g * a + g * q)
      /\ (b = a + q + 1 => g * b = g * a + g * q + g)
  BY <1>2, <1>7
<1>10. FirstKey(r, j) \in Int /\ FirstKey(r, j + 1) \in Int
       /\ FirstKey(r, j + 1) - FirstKey(r, j) = g * b - g * a
  BY <1>1, <1>8, <1>9
<1>11. s - (g * b - g * a) \in {0, 1} /\ s \in Int
  <2>1. LastKey(r, j) \in Int
    BY <1>10, TimeBoundaries DEF IsRequest, Wanted, LastKey
  <2>2. s \in Int
    BY <1>10, <2>1 DEF SizeOf
  <2> QED BY <1>10, <2>2, ClosedSize
<1> HIDE DEF s
<1>12. g * b - g * a \in {g * q, g * q + g}
  <2>1. b = a + q \/ b = a + q + 1
    BY <1>7
  <2> QED BY <1>2, <1>9, <2>1
<1>13. s <= g * q + (g + 1) /\ s >= g * q
  <2> DEFINE step == g * b - g * a
             width == g * q
  <2>1. step \in {width, width + g} /\ width \in Int /\ s - step \in {0, 1}
    BY <1>9, <1>11, <1>12
  <2> HIDE DEF step, width
  <2>2. s <= width + (g + 1) /\ s >= width
    BY <1>2, <1>11, <2>1
  <2> QED BY <2>2 DEF width
<1> QED BY <1>2, <1>6, <1>9, <1>13 DEF SizeFacts, s

LEMMA PageSizes ==
    ASSUME NEW r, IsRequest(r), Wanted(r), r.helper = "offset", NEW j \in Nat, More(r, j),
           FirstKey(r, j) \in Int
    PROVE  SizeFacts(r, j)
<1> DEFINE w == Page(r)
           m == r.max
           f == FirstKey(r, j)
<1>1. m \in Nat /\ w \in Nat \ {0}
  BY PageFacts
<1>2. Width(r) = w /\ Slack(r) = 0
  BY DEF Width, Slack
<1>3. LastKey(r, j) = f + Smaller(w, m + 1 - f) - 1
  BY DEF LastKey
<1>4. f \in Int
  OBVIOUS
<1>5. SizeOf(r, j) = LastKey(r, j) - f + 1
  BY DEF SizeOf
<1> HIDE DEF w, f
<1>6. CASE w <= m + 1 - f
  BY <1>1, <1>2, <1>3, <1>4, <1>5, <1>6 DEF SizeFacts, Smaller
<1>7. CASE ~(w <= m + 1 - f)
  BY <1>1, <1>2, <1>3, <1>4, <1>5, <1>7 DEF SizeFacts, Smaller
<1> QED BY <1>6, <1>7

LEMMA Sizes ==
    ASSUME NEW r, IsRequest(r), Wanted(r), Exact(r),
           NEW j \in Nat, More(r, j), FirstKey(r, j) \in Int
    PROVE  SizeFacts(r, j)
BY IntSizes, KeySizes, TimeSizes, PageSizes DEF IsRequest, Helpers

\* The slices so far, at most one a turn.
Sized(j) ==
    LET size == out[j][2] - out[j][1] + 1
    IN  /\ out[j] \in Int \X Int
        /\ size > 0
        /\ size <= Width(ask) + Slack(ask)
        /\ \/ size >= Width(ask)
           \/ ask.helper = "offset" /\ j = Len(out) /\ At = ask.max + 1

SizeInv ==
    /\ Len(out) <= i
    /\ \A j \in DOMAIN out : Sized(j)
    /\ out # <<>> => Wanted(ask) /\ Width(ask) \in Int /\ Slack(ask) \in Nat

LEMMA SizeStep == LoopInv /\ SizeInv /\ [Next]_vars => SizeInv'
<1> SUFFICES ASSUME LoopInv, SizeInv, [Next]_vars PROVE SizeInv'
  OBVIOUS
<1>1. CASE Push
  <2> DEFINE lo == At
             hi == LastKey(ask, i)
             w  == Width(ask)
             k  == Slack(ask)
  <2>1. /\ Wanted(ask) /\ ask' = ask /\ i' = i + 1
        /\ lo \in Int /\ hi \in Int /\ lo <= hi
        /\ out' = Append(out, <<lo, hi>>) /\ At' = hi + 1
    BY <1>1, PushFacts DEF LoopInv, IsRequest
  <2>2. More(ask, i) /\ ~Skipped(ask, i)
    BY <1>1 DEF Push
  <2>3. IsRequest(ask) /\ Exact(ask) /\ i \in Nat /\ ask.max \in Int
        /\ FirstKey(ask, i) = lo /\ lo \in Int
    BY <2>1, <2>2 DEF LoopInv, TypeOK, IsRequest, Edge
  <2>4. SizeFacts(ask, i)
    BY <2>1, <2>2, <2>3, Sizes
  <2>5. /\ w \in Int /\ k \in Nat
        /\ hi - lo + 1 <= w + k
        /\ hi - lo + 1 >= w \/ (ask.helper = "offset" /\ hi = ask.max)
    BY <2>2, <2>3, <2>4 DEF SizeFacts, SizeOf
  <2>6. w' = w /\ k' = k
    BY <2>1
  <2>7. ask.helper = "offset" => lo <= ask.max
    BY <2>2, <2>3 DEF More
  <2>8. out \in Seq(Int \X Int)
    BY DEF LoopInv, TypeOK
  <2> HIDE DEF lo, hi, w, k
  <2>9. /\ Len(out) \in Nat /\ DOMAIN out = 1..Len(out)
        /\ Len(out') = Len(out) + 1 /\ DOMAIN out' = 1..(Len(out) + 1)
        /\ out'[Len(out) + 1] = <<lo, hi>>
        /\ \A j \in DOMAIN out : out'[j] = out[j]
    BY <2>1, <2>8
  <2>10. ASSUME NEW j \in DOMAIN out PROVE Sized(j)'
    <3>1. Sized(j)
      BY DEF SizeInv
    <3>2. ~(ask.helper = "offset" /\ At = ask.max + 1)
      BY <2>3, <2>7 DEF lo
    <3>3. /\ out[j] \in Int \X Int /\ out[j][2] - out[j][1] + 1 > 0
          /\ out[j][2] - out[j][1] + 1 <= w + k /\ out[j][2] - out[j][1] + 1 >= w
      BY <3>1, <3>2 DEF Sized, w, k
    <3>4. out'[j] = out[j]
      BY <2>9
    <3>5. Width(ask)' = w /\ Slack(ask)' = k
      BY <2>6 DEF w, k
    <3> QED BY <3>3, <3>4, <3>5 DEF Sized
  <2>11. ASSUME NEW j \in DOMAIN out', j \notin DOMAIN out PROVE Sized(j)'
    <3>1. j = Len(out') /\ out'[j] = <<lo, hi>>
      BY <2>9, <2>11
    <3>2. Width(ask)' = w /\ Slack(ask)' = k
      BY <2>6 DEF w, k
    <3>3. /\ out'[j] \in Int \X Int
          /\ out'[j][2] - out'[j][1] + 1 > 0
          /\ out'[j][2] - out'[j][1] + 1 <= w + k
          /\ \/ out'[j][2] - out'[j][1] + 1 >= w
             \/ ask.helper = "offset" /\ hi = ask.max
      BY <2>1, <2>5, <3>1
    <3> QED BY <2>1, <3>1, <3>2, <3>3 DEF Sized
  <2>12. Len(out') <= i'
    BY <2>1, <2>3, <2>9 DEF SizeInv
  <2> QED BY <2>1, <2>5, <2>6, <2>9, <2>10, <2>11, <2>12 DEF SizeInv, w, k
<1>2. CASE Refuse \/ Skip \/ Return \/ UNCHANGED vars
  <2>1. UNCHANGED <<ask, out>> /\ i' >= i /\ At' = At
    BY <1>2 DEF Refuse, Skip, Return, vars, At, LoopInv, TypeOK
  <2>2. Width(ask)' = Width(ask) /\ Slack(ask)' = Slack(ask) /\ Wanted(ask)' = Wanted(ask)
    BY <2>1
  <2>3. ASSUME NEW j \in DOMAIN out PROVE Sized(j)'
    <3>1. Sized(j)
      BY DEF SizeInv
    <3> QED BY <2>1, <2>2, <3>1 DEF Sized
  <2>4. Len(out') <= i'
    <3>1. Len(out) \in Nat /\ i \in Int /\ i' \in Int /\ Len(out') = Len(out)
      BY <1>2, <2>1 DEF Refuse, Skip, Return, vars, LoopInv, TypeOK
    <3> QED BY <2>1, <3>1 DEF SizeInv
  <2> QED BY <2>1, <2>2, <2>3, <2>4 DEF SizeInv
<1> QED BY <1>1, <1>2 DEF Next

-----------------------------------------------------------------------------
(* Tiling: the ranges so far select the keys from min to at, each once.    *)

Covered ==
    /\ ask.min \in Int
    /\ ask.max \in Int
    /\ At \in Int
    /\ out \in Seq(Int \X Int)
    /\ Wanted(ask) => ask.min <= At /\ At <= ask.max + 1
    /\ \A j \in DOMAIN out :
          ask.min <= out[j][1] /\ out[j][1] <= out[j][2] /\ out[j][2] < At
    /\ \A key \in Int :
          ask.min <= key /\ key < At => \E j \in DOMAIN out : Abstract!Selects(out[j], key)
    /\ \A key \in Int : \A j, l \in DOMAIN out :
          Abstract!Selects(out[j], key) /\ Abstract!Selects(out[l], key) => j = l
    /\ done /\ Wanted(ask) => At = ask.max + 1

LEMMA CoveredAtFirst == Abstract!Init => Covered
<1> SUFFICES ASSUME Abstract!Init PROVE Covered
  OBVIOUS
<1>1. DOMAIN out = {} /\ out \in Seq(Int \X Int)
  BY DEF Abstract!Init
<1> QED BY <1>1 DEF Abstract!Init, Covered

LEMMA CutKeepsCovered ==
    ASSUME Covered, Abstract!Cut
    PROVE  Covered'
<1>1. PICK last \in At..ask.max :
         /\ out' = Append(out, <<At, last>>)
         /\ At' = last + 1
  BY DEF Abstract!Cut
<1> DEFINE m == Len(out)
<1>2. /\ m \in Nat
      /\ DOMAIN out = 1..m
      /\ DOMAIN out' = 1..(m + 1)
      /\ \A j \in 1..m : out'[j] = out[j]
      /\ out'[m + 1] = <<At, last>>
      /\ out' \in Seq(Int \X Int)
  BY <1>1 DEF Covered
<1> HIDE DEF m
<1>3. /\ ask.min' = ask.min /\ ask.max' = ask.max /\ Wanted(ask)' = Wanted(ask) /\ done' = done
      /\ Wanted(ask) /\ ~done
      /\ At \in Int /\ last \in Int /\ At <= last /\ last <= ask.max
      /\ ask.min <= At
  BY DEF Abstract!Cut, Covered
<1>4. \A j \in 1..(m + 1) : j \in 1..m \/ j = m + 1
  BY <1>2
<1>5. \A j \in 1..m : out[j] \in Int \X Int
  BY <1>2 DEF Covered
<1>6. \A j \in DOMAIN out' :
         ask.min <= out'[j][1] /\ out'[j][1] <= out'[j][2] /\ out'[j][2] < At'
  <2> SUFFICES ASSUME NEW j \in 1..(m + 1)
               PROVE  ask.min <= out'[j][1] /\ out'[j][1] <= out'[j][2]
                        /\ out'[j][2] < At'
    BY <1>2
  <2>1. CASE j \in 1..m
    <3>1. out'[j] = out[j] /\ out[j] \in Int \X Int /\ j \in DOMAIN out
      BY <2>1, <1>2, <1>5
    <3>2. ask.min <= out[j][1] /\ out[j][1] <= out[j][2] /\ out[j][2] < At
      BY <3>1 DEF Covered
    <3>3. out[j][1] \in Int /\ out[j][2] \in Int
      BY <3>1
    <3> QED BY <3>1, <3>2, <3>3, <1>1, <1>3
  <2>2. CASE j = m + 1
    BY <2>2, <1>1, <1>2, <1>3
  <2> QED BY <1>4, <2>1, <2>2
<1>7. ASSUME NEW key \in Int, ask.min <= key, key < At'
      PROVE  \E j \in DOMAIN out' : Abstract!Selects(out'[j], key)
  <2>1. CASE key < At
    <3>1. PICK j \in 1..m : Abstract!Selects(out[j], key)
      BY <1>2, <1>7, <2>1 DEF Covered
    <3>2. j \in DOMAIN out' /\ out'[j] = out[j]
      BY <1>2
    <3> QED BY <3>1, <3>2 DEF Abstract!Selects
  <2>2. CASE ~(key < At)
    <3>1. Abstract!Selects(out'[m + 1], key)
      BY <1>1, <1>2, <1>3, <1>7, <2>2 DEF Abstract!Selects
    <3> QED BY <3>1, <1>2 DEF Abstract!Selects
  <2> QED BY <2>1, <2>2
<1>8. ASSUME NEW key \in Int, NEW j \in DOMAIN out', NEW l \in DOMAIN out',
             Abstract!Selects(out'[j], key), Abstract!Selects(out'[l], key)
      PROVE  j = l
  <2>0. /\ out'[j][1] <= key /\ key <= out'[j][2]
        /\ out'[l][1] <= key /\ key <= out'[l][2]
    BY <1>8 DEF Abstract!Selects
  <2>1. \A k \in 1..m : key <= out'[k][2] => key < At
    <3> SUFFICES ASSUME NEW k \in 1..m, key <= out'[k][2]
                 PROVE  key < At
      OBVIOUS
    <3>1. out'[k] = out[k] /\ out[k] \in Int \X Int /\ out[k][2] < At
      BY <1>2, <1>5 DEF Covered
    <3>2. out[k][2] \in Int
      BY <3>1
    <3> QED BY <3>1, <3>2, <1>3
  <2>2. out'[m + 1][1] = At
    BY <1>2
  <2>3. CASE j \in 1..m /\ l \in 1..m
    BY <2>3, <1>2, <1>8 DEF Covered, Abstract!Selects
  <2>4. CASE j = m + 1 /\ l = m + 1
    BY <2>4
  <2>5. CASE j \in 1..m /\ l = m + 1
    <3>1. key < At /\ At <= key
      BY <2>0, <2>1, <2>2, <2>5
    <3> QED BY <3>1, <1>3
  <2>6. CASE j = m + 1 /\ l \in 1..m
    <3>1. key < At /\ At <= key
      BY <2>0, <2>1, <2>2, <2>6
    <3> QED BY <3>1, <1>3
  <2> QED BY <1>2, <1>4, <2>3, <2>4, <2>5, <2>6
<1>9. Wanted(ask)' => ask.min' <= At' /\ At' <= ask.max' + 1
  BY <1>1, <1>3 DEF Covered
<1>10. ask.min' \in Int /\ ask.max' \in Int /\ At' \in Int
  BY <1>1, <1>3 DEF Covered
<1> QED BY <1>2, <1>3, <1>6, <1>7, <1>8, <1>9, <1>10 DEF Covered

LEMMA CoveredAlways == Abstract!Spec => []Covered
<1>1. Covered /\ [Abstract!Next]_(Abstract!tilingVars) => Covered'
  <2> SUFFICES ASSUME Covered, [Abstract!Next]_(Abstract!tilingVars) PROVE Covered'
    OBVIOUS
  <2>1. CASE Abstract!Cut
    BY <2>1, CutKeepsCovered
  <2>2. CASE Abstract!Finish
    BY <2>2 DEF Abstract!Finish, Covered, Abstract!Selects
  <2>3. CASE UNCHANGED Abstract!tilingVars
    BY <2>3 DEF Abstract!tilingVars, Covered, Abstract!Selects
  <2> QED BY <2>1, <2>2, <2>3 DEF Abstract!Next
<1> QED BY CoveredAtFirst, <1>1, PTL DEF Abstract!Spec

\* Ranges cut one after the other select every key of the interval once, and
\* no key outside it, for every interval and every way to cut it.
THEOREM TilesSelectOnce == Abstract!Spec => []Abstract!EachKeyOnce
<1>1. Covered => Abstract!EachKeyOnce
  <2> SUFFICES ASSUME Covered, done, Wanted(ask)
               PROVE  /\ \A key \in ask.min..ask.max :
                            \E j \in DOMAIN out :
                                /\ Abstract!Selects(out[j], key)
                                /\ \A l \in DOMAIN out :
                                      Abstract!Selects(out[l], key) => l = j
                      /\ \A j \in DOMAIN out :
                            ask.min <= out[j][1] /\ out[j][2] <= ask.max
    BY DEF Abstract!EachKeyOnce
  <2>1. At = ask.max + 1 /\ ask.max \in Int /\ ask.min \in Int
    BY DEF Covered
  <2>2. ASSUME NEW key \in ask.min..ask.max
        PROVE  \E j \in DOMAIN out :
                  /\ Abstract!Selects(out[j], key)
                  /\ \A l \in DOMAIN out : Abstract!Selects(out[l], key) => l = j
    <3>1. PICK j \in DOMAIN out : Abstract!Selects(out[j], key)
      BY <2>1 DEF Covered
    <3>2. \A l \in DOMAIN out : Abstract!Selects(out[l], key) => l = j
      BY <2>1, <3>1 DEF Covered
    <3> QED BY <3>1, <3>2
  <2>3. ASSUME NEW j \in DOMAIN out
        PROVE  ask.min <= out[j][1] /\ out[j][2] <= ask.max
    <3>1. out[j] \in Int \X Int
      BY DEF Covered
    <3> QED BY <2>1, <3>1 DEF Covered
  <2> QED BY <2>2, <2>3
<1> QED BY <1>1, CoveredAlways, PTL

-----------------------------------------------------------------------------
(* The loop is a way to tile.                                              *)

LEMMA InitMaps == LoopInv /\ Init => Abstract!Init
BY DEF LoopInv, IsRequest, Init, Abstract!Init, Wanted, At

LEMMA StepMaps == LoopInv /\ [Next]_vars => [Abstract!Next]_(Abstract!tilingVars)
<1> SUFFICES ASSUME LoopInv, [Next]_vars
             PROVE  Abstract!Next \/ UNCHANGED Abstract!tilingVars
  BY DEF Abstract!Next, Abstract!tilingVars
<1>1. CASE Refuse
  <2>1. Abstract!Finish
    BY <1>1 DEF Refuse, Abstract!Finish, At
  <2> QED BY <2>1 DEF Abstract!Next
<1>2. CASE Push
  <2>1. Abstract!Cut
    BY <1>2, PushFacts DEF Abstract!Cut
  <2> QED BY <2>1 DEF Abstract!Next
<1>3. CASE Skip
  BY <1>3 DEF Skip, Abstract!tilingVars, At
<1>4. CASE Return
  <2>1. Wanted(ask) /\ ~More(ask, i) /\ ~done /\ done' = TRUE /\ UNCHANGED <<ask, i, out>>
    BY <1>4 DEF Return
  <2>2. At = ask.max + 1
    BY <2>1 DEF LoopInv, Edge
  <2>3. Abstract!Finish
    BY <2>1, <2>2 DEF Abstract!Finish, At
  <2> QED BY <2>3 DEF Abstract!Next
<1>5. CASE UNCHANGED vars
  BY <1>5 DEF vars, Abstract!tilingVars, At
<1> QED BY <1>1, <1>2, <1>3, <1>4, <1>5 DEF Next

\* The loop's variables keep their types; it takes no more turns than it was
\* asked for partitions, the while loop of by_offset included.
THEOREM TypeCorrect == Spec /\ Exact(ask) => []TypeOK
<1>1. LoopInv => TypeOK
  BY DEF LoopInv
<1> QED BY <1>1, LoopAlways, PTL

\* Every helper of partition.rs implements Tiling: contiguous, non-empty ranges
\* from min to max, or none for a request it refuses.
THEOREM HelpersTile == Spec /\ Exact(ask) => Tiles
<1>1. Spec /\ Exact(ask) => Abstract!Spec
  BY InitLoop, InitMaps, StepMaps, LoopAlways, PTL DEF Spec, Abstract!Spec
<1> QED BY <1>1 DEF Tiles

\* The predicates of the partitions select every key of [min, max] once, and no
\* other key.
THEOREM HelpersSelectOnce == Spec /\ Exact(ask) => []EachKeyOnce
<1>1. Spec /\ Exact(ask) => Abstract!Spec
  BY HelpersTile DEF Tiles
<1>2. Abstract!Spec => []Abstract!EachKeyOnce
  BY TilesSelectOnce
<1> QED BY <1>1, <1>2, PTL DEF EachKeyOnce

\* The docs of the helpers: at most n partitions, none empty, and sized as
\* evenly as the helper's grain allows.
THEOREM HelpersEvenlySized == Spec /\ Exact(ask) => []EvenlySized
<1>1. Init /\ Exact(ask) => SizeInv
  BY DEF Init, SizeInv
<1>2. LoopInv /\ SizeInv => EvenlySized
  <2> SUFFICES ASSUME LoopInv, SizeInv PROVE EvenlySized
    OBVIOUS
  <2> DEFINE size(j) == out[j][2] - out[j][1] + 1
             w == Width(ask)
             k == Slack(ask)
  <2>1. /\ Len(out) <= ask.n /\ DOMAIN out = 1..Len(out) /\ Len(out) \in Nat
    <3>1. out \in Seq(Int \X Int) /\ i \in 0..ask.n /\ ask.n \in Nat /\ Len(out) <= i
      BY DEF LoopInv, TypeOK, IsRequest, SizeInv
    <3>2. Len(out) \in Nat /\ DOMAIN out = 1..Len(out)
      BY <3>1
    <3> QED BY <3>1, <3>2
  <2>2. ASSUME NEW j \in DOMAIN out
        PROVE  /\ size(j) \in Int /\ size(j) > 0 /\ size(j) <= w + k
               /\ size(j) >= w \/ (ask.helper = "offset" /\ j = Len(out))
               /\ w \in Int /\ k \in Nat
    BY DEF SizeInv, Sized
  <2>3. ask.helper = "offset" => k = 0
    BY DEF Slack
  <2> HIDE DEF w, k, size
  <2>4. ASSUME NEW j \in DOMAIN out, NEW l \in DOMAIN out
        PROVE  IF ask.helper = "offset" /\ l = Len(out)
               THEN size(l) <= size(j)
               ELSE size(j) - size(l) <= k
    <3>1. CASE ask.helper = "offset" /\ l = Len(out)
      BY <2>2, <2>3, <3>1
    <3>2. CASE ~(ask.helper = "offset" /\ l = Len(out))
      BY <2>2, <3>2
    <3> QED BY <3>1, <3>2
  <2> QED BY <2>1, <2>2, <2>4 DEF EvenlySized, size, k, Slack
<1> QED BY <1>1, <1>2, InitLoop, LoopStep, SizeStep, PTL DEF Spec

-----------------------------------------------------------------------------
(* UUIDs: a backend orders them as their sort keys are ordered, and every  *)
(* key is the key of the UUID written for it.                              *)


LEMMA SignificanceFacts ==
    ASSUME NEW order \in Orders
    PROVE  /\ Len(ServerOrder) \in Nat
           /\ Significance(order) \in [Positions -> Positions]
           /\ \A p, q \in Positions :
                 Significance(order)[p] = Significance(order)[q] => p = q
           /\ \A q \in Positions : \E p \in Positions : Significance(order)[p] = q
<1> DEFINE n == Len(ServerOrder)
<1>1. n \in Nat /\ DOMAIN ServerOrder = 1..n /\ Positions = 1..n
  BY UuidOrderAssumption, LenProperties DEF Positions
<1>2. CASE order = "lexical"
  <2>1. Significance(order) = [p \in Positions |-> p]
    BY <1>2 DEF Significance
  <2> QED BY <1>1, <2>1
<1>3. CASE order = "sqlserver"
  <2>1. Significance(order) = ServerOrder
    BY <1>3 DEF Significance
  <2>2. ServerOrder \in [1..n -> 1..n] /\ \A q \in 1..n : \E p \in 1..n : ServerOrder[p] = q
    <3>1. {ServerOrder[p] : p \in 1..n} = 1..n
      BY <1>1, UuidOrderAssumption DEF ToSet
    <3>2. ServerOrder = [p \in 1..n |-> ServerOrder[p]]
      BY <1>1, UuidOrderAssumption
    <3> HIDE DEF n
    <3> QED BY <3>1, <3>2
  <2>3. ServerOrder \in Surjection(1..n, 1..n)
    BY <2>2 DEF Surjection
  <2>4. IsFiniteSet(1..n)
    BY <1>1, FS_Interval
  <2>5. ServerOrder \in Injection(1..n, 1..n)
    <3> HIDE DEF n
    <3> QED BY <2>3, <2>4, FS_SurjSameCardinalityImpliesInj
  <2>6. \A p, q \in 1..n : ServerOrder[p] = ServerOrder[q] => p = q
    BY <2>5 DEF Injection, IsInjective
  <2> QED BY <1>1, <2>1, <2>2, <2>6
<1> QED BY <1>2, <1>3 DEF Orders

\* The sort key, byte by byte.
KeySteps(key, u, order) ==
    /\ key \in [0..Len(ServerOrder) -> Nat]
    /\ key[0] = 0
    /\ \A p \in Positions : key[p] = key[p-1] * Radix + u[Significance(order)[p]]

LEMMA KeyBytes ==
    ASSUME NEW order \in Orders, NEW u \in Uuids
    PROVE  \E key : KeySteps(key, u, order) /\ UuidToKey(u, order) = key[Len(ServerOrder)]
<1> DEFINE n == Len(ServerOrder)
           key[p \in 0..Len(ServerOrder)] ==
               IF p = 0 THEN 0 ELSE key[p-1] * Radix + u[Significance(order)[p]]
<1>1. n \in Nat /\ Positions = 1..n /\ Radix \in Nat
  BY SignificanceFacts, UuidOrderAssumption DEF Positions
<1>2. \A p \in Positions : u[Significance(order)[p]] \in Nat
  <2>1. \A p \in Positions : Significance(order)[p] \in Positions
    BY SignificanceFacts
  <2>2. \A p \in Positions : u[p] \in 0..(Radix - 1)
    BY DEF Uuids
  <2> QED BY <2>1, <2>2, <1>1
<1> DEFINE g == [p \in 1..n |-> [k \in Nat |-> k * Radix + u[Significance(order)[p]]]]
<1>3. g \in [1..n -> [Nat -> Nat]]
  <2> SUFFICES ASSUME NEW p \in 1..n, NEW k \in Nat
               PROVE  k * Radix + u[Significance(order)[p]] \in Nat
    OBVIOUS
  <2>1. k * Radix \in Nat
    BY <1>1
  <2>2. u[Significance(order)[p]] \in Nat
    BY <1>1, <1>2
  <2> QED BY <2>1, <2>2
<1>4. PICK f : Recurses(f, n, Nat, 0, g)
  <2> HIDE DEF g, n, key
  <2> QED BY <1>1, <1>3, Recursion
<1>5. f[0] = 0 /\ \A p \in 1..n : f[p] = f[p-1] * Radix + u[Significance(order)[p]]
  <2>1. ASSUME NEW p \in 1..n PROVE f[p] = f[p-1] * Radix + u[Significance(order)[p]]
    <3>1. p - 1 \in 0..n
      BY <1>1
    <3>2. f[p-1] \in Nat /\ f[p] = g[p][f[p-1]]
      BY <1>4, <3>1 DEF Recurses
    <3> QED BY <3>2
  <2> QED BY <1>4, <2>1 DEF Recurses
<1>6. f = [p \in 0..n |-> IF p = 0 THEN 0 ELSE f[p-1] * Radix + u[Significance(order)[p]]]
  <2> SUFFICES ASSUME NEW p \in 0..n
               PROVE  f[p] = IF p = 0 THEN 0 ELSE f[p-1] * Radix + u[Significance(order)[p]]
    BY <1>4 DEF Recurses
  <2>1. p # 0 => p \in 1..n
    BY <1>1
  <2> QED BY <1>5, <2>1
<1>7. key = [p \in 0..n |-> IF p = 0 THEN 0 ELSE key[p-1] * Radix + u[Significance(order)[p]]]
  BY <1>6
<1>8. UuidToKey(u, order) = key[n]
  BY DEF UuidToKey
<1> HIDE DEF key
<1>9. key[0] = 0 /\ \A p \in 1..n : key[p] = key[p-1] * Radix + u[Significance(order)[p]]
  <2>1. \A p \in 0..n : key[p] = IF p = 0 THEN 0 ELSE key[p-1] * Radix + u[Significance(order)[p]]
    BY <1>7
  <2>2. 0 \in 0..n /\ \A p \in 1..n : p \in 0..n /\ p # 0
    BY <1>1
  <2> QED BY <2>1, <2>2
<1>10. \A p \in 0..n : key[p] \in Nat
  <2> DEFINE T == {p \in 0..n : key[p] \in Nat}
  <2>1. 0 \in T
    BY <1>1, <1>9
  <2>2. ASSUME NEW p \in 1..n, p - 1 \in T PROVE p \in T
    <3>1. key[p-1] \in Nat
      BY <2>2
    <3>2. key[p-1] * Radix \in Nat /\ u[Significance(order)[p]] \in Nat
      BY <1>1, <1>2, <3>1
    <3>3. key[p] = key[p-1] * Radix + u[Significance(order)[p]]
      BY <1>9
    <3>4. key[p] \in Nat
      BY <3>2, <3>3
    <3> QED BY <1>1, <3>4
  <2> HIDE DEF T
  <2>3. 0..n \subseteq T
    BY <1>1, <2>1, <2>2, InductionTo
  <2> QED BY <2>3 DEF T
<1>11. KeySteps(key, u, order)
  <2>1. DOMAIN key = 0..n
    BY <1>7
  <2>2. key = [p \in 0..n |-> key[p]]
    BY <1>7, <2>1
  <2> QED BY <1>1, <1>9, <1>10, <2>2 DEF KeySteps
<1> QED BY <1>8, <1>11

\* The bytes in their order of significance.
LEMMA SignificantBytes ==
    ASSUME NEW order \in Orders, NEW u \in Uuids, NEW p \in Positions
    PROVE  /\ u[Significance(order)[p]] \in 0..(Radix - 1)
           /\ p \in 1..Len(ServerOrder) /\ p - 1 \in 0..Len(ServerOrder)
           /\ p \in 0..Len(ServerOrder) /\ Len(ServerOrder) \in Nat
<1>1. Len(ServerOrder) \in Nat /\ Significance(order)[p] \in Positions
  BY SignificanceFacts
<1> QED BY <1>1 DEF Uuids, Positions

LEMMA Carry ==
    ASSUME NEW a \in Nat, NEW b \in Nat, a < b, NEW r \in Nat,
           NEW x \in 0..(r - 1), NEW y \in 0..(r - 1)
    PROVE  a * r + x < b * r + y
<1>1. PICK c \in Nat : b = a + 1 + c
  <2>1. b - a - 1 \in Nat /\ b = a + 1 + (b - a - 1)
    OBVIOUS
  <2> QED BY <2>1
<1>2. b * r = a * r + r + c * r
  BY <1>1
<1>3. c * r \in Nat /\ a * r \in Nat
  OBVIOUS
<1> QED BY <1>2, <1>3

\* Keys whose UUIDs agree up to byte m - 1 and differ in byte m.
LEMMA FirstDifference ==
    ASSUME NEW order \in Orders, NEW u \in Uuids, NEW v \in Uuids,
           NEW k, NEW l, KeySteps(k, u, order), KeySteps(l, v, order),
           NEW m \in Positions,
           u[Significance(order)[m]] < v[Significance(order)[m]],
           \A q \in 1..(m - 1) : u[Significance(order)[q]] = v[Significance(order)[q]]
    PROVE  k[Len(ServerOrder)] < l[Len(ServerOrder)]
<1> DEFINE n == Len(ServerOrder)
           d(p) == u[Significance(order)[p]]
           e(p) == v[Significance(order)[p]]
           T == {p \in 0..n : (p < m => k[p] = l[p]) /\ (m <= p => k[p] < l[p])}
<1>1. n \in Nat /\ m \in 1..n /\ Positions = 1..n /\ Radix \in Nat
  BY SignificanceFacts, UuidOrderAssumption DEF Positions
<1>2. /\ \A p \in 0..n : k[p] \in Nat /\ l[p] \in Nat
      /\ k[0] = 0 /\ l[0] = 0
      /\ \A p \in 1..n : k[p] = k[p-1] * Radix + d(p) /\ l[p] = l[p-1] * Radix + e(p)
  BY <1>1 DEF KeySteps
<1>3. \A p \in 1..n : d(p) \in 0..(Radix - 1) /\ e(p) \in 0..(Radix - 1)
  BY <1>1, SignificantBytes
<1>4. d(m) < e(m) /\ \A q \in 1..(m - 1) : d(q) = e(q)
  OBVIOUS
<1> HIDE DEF d, e, n
<1>5. 0 \in T
  BY <1>1, <1>2
<1>6. ASSUME NEW p \in 1..n, p - 1 \in T PROVE p \in T
  <2>0. p \in 0..n /\ p - 1 \in 0..n /\ k[p-1] \in Nat /\ l[p-1] \in Nat
        /\ d(p) \in Nat /\ e(p) \in Nat
    BY <1>1, <1>2, <1>3
  <2>1. CASE p < m
    <3>1. k[p-1] = l[p-1] /\ d(p) = e(p)
      BY <1>1, <1>4, <1>6, <2>1
    <3> QED BY <1>1, <1>2, <2>0, <2>1, <3>1
  <2>2. CASE p = m
    <3>1. k[p-1] = l[p-1] /\ d(p) < e(p)
      BY <1>1, <1>4, <1>6, <2>2
    <3>2. k[p] = k[p-1] * Radix + d(p) /\ l[p] = k[p-1] * Radix + e(p)
          /\ k[p-1] * Radix \in Nat
      BY <1>1, <1>2, <2>0, <3>1
    <3>3. k[p] < l[p]
      BY <2>0, <3>1, <3>2
    <3> QED BY <1>1, <2>0, <2>2, <3>3
  <2>3. CASE p > m
    <3>1. k[p-1] < l[p-1]
      BY <1>1, <1>6, <2>3
    <3>2. k[p-1] * Radix + d(p) < l[p-1] * Radix + e(p)
      BY <1>1, <1>3, <2>0, <3>1, Carry
    <3>3. k[p] < l[p]
      BY <1>2, <3>2
    <3> QED BY <1>1, <2>0, <2>3, <3>3
  <2> QED BY <1>1, <2>0, <2>1, <2>2, <2>3
<1>7. 0..n \subseteq T
  <2> HIDE DEF T
  <2> QED BY <1>1, <1>5, <1>6, InductionTo
<1>8. n \in T
  BY <1>1, <1>7
<1> QED BY <1>1, <1>8 DEF n

\* UUIDs with the same bytes have the same key.
LEMMA NoDifference ==
    ASSUME NEW order \in Orders, NEW u \in Uuids, NEW v \in Uuids,
           \A q \in Positions : u[Significance(order)[q]] = v[Significance(order)[q]]
    PROVE  u = v
<1>1. \A p \in Positions : u[p] = v[p]
  BY SignificanceFacts
<1> QED BY <1>1 DEF Uuids

\* The backend's order of the UUIDs is the order of their sort keys.
LEMMA KeysSortAsUuids ==
    ASSUME NEW order \in Orders, NEW u \in Uuids, NEW v \in Uuids
    PROVE  /\ UuidToKey(u, order) \in Nat /\ UuidToKey(v, order) \in Nat
           /\ SortsBefore(u, v, order) <=> UuidToKey(u, order) < UuidToKey(v, order)
<1> DEFINE n == Len(ServerOrder)
           d(p) == u[Significance(order)[p]]
           e(p) == v[Significance(order)[p]]
<1>1. PICK k : KeySteps(k, u, order) /\ UuidToKey(u, order) = k[n]
  BY KeyBytes
<1>2. PICK l : KeySteps(l, v, order) /\ UuidToKey(v, order) = l[n]
  BY KeyBytes
<1>3. n \in Nat /\ n \in 0..n /\ Positions = 1..n /\ Radix \in Nat
  BY SignificanceFacts, UuidOrderAssumption DEF Positions
<1>4. k[n] \in Nat /\ l[n] \in Nat
  BY <1>1, <1>2, <1>3 DEF KeySteps
<1>5. SortsBefore(u, v, order) => k[n] < l[n]
  <2> SUFFICES ASSUME SortsBefore(u, v, order) PROVE k[n] < l[n]
    OBVIOUS
  <2>1. PICK m \in Positions : d(m) < e(m) /\ \A q \in 1..(m - 1) : d(q) = e(q)
    BY DEF SortsBefore
  <2> QED BY <1>1, <1>2, <2>1, FirstDifference
<1>6. ASSUME ~SortsBefore(u, v, order) PROVE ~(k[n] < l[n])
  <2> DEFINE T == {p \in 1..n : d(p) # e(p)}
  <2>1. CASE T = {}
    <3>1. u = v
      BY <1>3, <2>1, NoDifference
    <3> QED BY <1>1, <1>2, <1>4, <3>1
  <2>2. CASE T # {}
    <3>1. PICK m \in T : \A q \in T : m <= q
      <4>1. T \in SUBSET Nat
        BY <1>3
      <4> HIDE DEF T
      <4> QED BY <2>2, <4>1, LeastNumber
    <3>2. m \in 1..n /\ \A q \in 1..(m - 1) : d(q) = e(q)
      BY <1>3, <3>1
    <3>3. d(m) \in Int /\ e(m) \in Int /\ d(m) # e(m)
      BY <1>3, <3>1, SignificantBytes
    <3>4. e(m) < d(m)
      <4>1. ~(d(m) < e(m))
        BY <1>3, <1>6, <3>2 DEF SortsBefore
      <4> HIDE DEF d, e
      <4> QED BY <3>3, <4>1
    <3>5. l[n] < k[n]
      BY <1>1, <1>2, <1>3, <3>2, <3>4, FirstDifference
    <3> QED BY <1>4, <3>5
  <2> QED BY <2>1, <2>2
<1> QED BY <1>1, <1>2, <1>4, <1>5, <1>6

\* What is left of a key when its last bytes are gone.
RestSteps(rest, key) ==
    /\ rest \in [0..Len(ServerOrder) -> Nat]
    /\ rest[0] = key
    /\ \A p \in 1..Len(ServerOrder) : rest[p] = rest[p-1] \div Radix

LEMMA BytesOfKey ==
    ASSUME NEW key \in Nat
    PROVE  \E rest : /\ RestSteps(rest, key)
                     /\ \A p \in Positions : ByteOfKey(key, p) = rest[Len(ServerOrder) - p] % Radix
<1> DEFINE n == Len(ServerOrder)
           g == [p \in 1..n |-> [k \in Nat |-> k \div Radix]]
           rest[k \in 0..Len(ServerOrder)] == IF k = 0 THEN key ELSE rest[k-1] \div Radix
<1>1. n \in Nat /\ Radix \in Nat \ {0}
  BY UuidOrderAssumption, LenProperties
<1>2. g \in [1..n -> [Nat -> Nat]]
  BY <1>1
<1>3. PICK f : Recurses(f, n, Nat, key, g)
  <2> HIDE DEF g, n, rest
  <2> QED BY <1>1, <1>2, Recursion
<1>4. f[0] = key /\ \A p \in 1..n : f[p] = f[p-1] \div Radix
  <2>1. ASSUME NEW p \in 1..n PROVE f[p] = f[p-1] \div Radix
    <3>1. p - 1 \in 0..n
      BY <1>1
    <3>2. f[p-1] \in Nat /\ f[p] = g[p][f[p-1]]
      BY <1>3, <3>1 DEF Recurses
    <3> QED BY <3>2
  <2> QED BY <1>3, <2>1 DEF Recurses
<1>5. f = [k \in 0..n |-> IF k = 0 THEN key ELSE f[k-1] \div Radix]
  <2> SUFFICES ASSUME NEW k \in 0..n
               PROVE  f[k] = IF k = 0 THEN key ELSE f[k-1] \div Radix
    BY <1>3 DEF Recurses
  <2>1. k # 0 => k \in 1..n
    BY <1>1
  <2> QED BY <1>4, <2>1
<1>6. rest = [k \in 0..n |-> IF k = 0 THEN key ELSE rest[k-1] \div Radix]
  BY <1>5
<1>7. \A p : ByteOfKey(key, p) = rest[n - p] % Radix
  BY DEF ByteOfKey
<1> HIDE DEF rest
<1>8. rest[0] = key /\ \A p \in 1..n : rest[p] = rest[p-1] \div Radix
  <2>1. \A k \in 0..n : rest[k] = IF k = 0 THEN key ELSE rest[k-1] \div Radix
    BY <1>6
  <2>2. 0 \in 0..n /\ \A p \in 1..n : p \in 0..n /\ p # 0
    BY <1>1
  <2> QED BY <2>1, <2>2
<1>9. \A p \in 0..n : rest[p] \in Nat
  <2> DEFINE T == {p \in 0..n : rest[p] \in Nat}
  <2>1. 0 \in T
    BY <1>1, <1>8
  <2>2. ASSUME NEW p \in 1..n, p - 1 \in T PROVE p \in T
    <3>1. rest[p-1] \div Radix \in Nat
      BY <1>1, <2>2
    <3>2. rest[p] \in Nat
      BY <1>8, <3>1
    <3> QED BY <1>1, <3>2
  <2> HIDE DEF T
  <2>3. 0..n \subseteq T
    BY <1>1, <2>1, <2>2, InductionTo
  <2> QED BY <2>3 DEF T
<1>10. RestSteps(rest, key)
  <2>1. DOMAIN rest = 0..n
    BY <1>6
  <2>2. rest = [p \in 0..n |-> rest[p]]
    BY <1>6, <2>1
  <2> QED BY <1>8, <1>9, <2>2 DEF RestSteps
<1> QED BY <1>7, <1>10

\* The powers of Radix, to the number of keys.
CountSteps(count) ==
    /\ count \in [0..Len(ServerOrder) -> Nat]
    /\ count[0] = 1
    /\ \A p \in 1..Len(ServerOrder) : count[p] = count[p-1] * Radix

LEMMA KeysCounted == \E count : CountSteps(count) /\ KeyCount = count[Len(ServerOrder)]
<1> DEFINE n == Len(ServerOrder)
           g == [p \in 1..n |-> [k \in Nat |-> k * Radix]]
           count[p \in 0..Len(ServerOrder)] == IF p = 0 THEN 1 ELSE count[p-1] * Radix
<1>1. n \in Nat /\ Radix \in Nat
  BY UuidOrderAssumption, LenProperties
<1>2. g \in [1..n -> [Nat -> Nat]]
  BY <1>1
<1>3. PICK f : Recurses(f, n, Nat, 1, g)
  <2> HIDE DEF g, n, count
  <2>1. 1 \in Nat
    OBVIOUS
  <2> QED BY <1>1, <1>2, <2>1, Recursion
<1>4. f[0] = 1 /\ \A p \in 1..n : f[p] = f[p-1] * Radix
  <2>1. ASSUME NEW p \in 1..n PROVE f[p] = f[p-1] * Radix
    <3>1. p - 1 \in 0..n
      BY <1>1
    <3>2. f[p-1] \in Nat /\ f[p] = g[p][f[p-1]]
      BY <1>3, <3>1 DEF Recurses
    <3> QED BY <3>2
  <2> QED BY <1>3, <2>1 DEF Recurses
<1>5. f = [p \in 0..n |-> IF p = 0 THEN 1 ELSE f[p-1] * Radix]
  <2> SUFFICES ASSUME NEW p \in 0..n
               PROVE  f[p] = IF p = 0 THEN 1 ELSE f[p-1] * Radix
    BY <1>3 DEF Recurses
  <2>1. p # 0 => p \in 1..n
    BY <1>1
  <2> QED BY <1>4, <2>1
<1>6. count = [p \in 0..n |-> IF p = 0 THEN 1 ELSE count[p-1] * Radix]
  BY <1>5
<1>7. KeyCount = count[n]
  BY DEF KeyCount
<1> HIDE DEF count
<1>8. count[0] = 1 /\ \A p \in 1..n : count[p] = count[p-1] * Radix
  <2>1. \A p \in 0..n : count[p] = IF p = 0 THEN 1 ELSE count[p-1] * Radix
    BY <1>6
  <2>2. 0 \in 0..n /\ \A p \in 1..n : p \in 0..n /\ p # 0
    BY <1>1
  <2> QED BY <2>1, <2>2
<1>9. \A p \in 0..n : count[p] \in Nat
  <2> DEFINE T == {p \in 0..n : count[p] \in Nat}
  <2>1. 0 \in T
    BY <1>1, <1>8
  <2>2. ASSUME NEW p \in 1..n, p - 1 \in T PROVE p \in T
    <3>1. count[p-1] * Radix \in Nat
      BY <1>1, <2>2
    <3>2. count[p] \in Nat
      BY <1>8, <3>1
    <3> QED BY <1>1, <3>2
  <2> HIDE DEF T
  <2>3. 0..n \subseteq T
    BY <1>1, <2>1, <2>2, InductionTo
  <2> QED BY <2>3 DEF T
<1>10. CountSteps(count)
  <2>1. count = [p \in 0..n |-> count[p]]
    BY <1>6
  <2> QED BY <1>8, <1>9, <2>1 DEF CountSteps
<1> QED BY <1>7, <1>10

LEMMA Division ==
    ASSUME NEW a \in Nat, NEW r \in Nat \ {0}
    PROVE  /\ a \div r \in Nat /\ a % r \in 0..(r - 1) /\ a = (a \div r) * r + (a % r)
           /\ \A b \in Nat : a < b * r => a \div r < b
<1>1. a \div r \in Nat /\ a % r \in 0..(r - 1) /\ a = (a \div r) * r + (a % r)
  OBVIOUS
<1>2. ASSUME NEW b \in Nat, a < b * r PROVE a \div r < b
  <2> DEFINE q == a \div r
  <2>1. q \in Nat /\ q * r <= a
    BY <1>1
  <2> HIDE DEF q
  <2> SUFFICES ASSUME b <= q PROVE FALSE
    BY <2>1 DEF q
  <2>2. PICK c \in Nat : q = b + c
    <3>1. q - b \in Nat /\ q = b + (q - b)
      BY <2>1
    <3> QED BY <3>1
  <2>3. q * r = b * r + c * r /\ c * r \in Nat /\ b * r \in Nat
    BY <2>2
  <2> QED BY <1>2, <2>1, <2>3
<1> QED BY <1>1, <1>2

\* key_to_uuid is the inverse of uuid_to_key.
LEMMA KeyRoundTrip ==
    ASSUME NEW order \in Orders, NEW key \in 0..(KeyCount - 1)
    PROVE  /\ KeyToUuid(key, order) \in Uuids
           /\ UuidToKey(KeyToUuid(key, order), order) = key
<1> DEFINE n == Len(ServerOrder)
           u == KeyToUuid(key, order)
<1>1. n \in Nat /\ Positions = 1..n /\ Radix \in Nat \ {0}
  BY SignificanceFacts, UuidOrderAssumption DEF Positions
<1>2. PICK count : CountSteps(count) /\ KeyCount = count[n]
  BY KeysCounted
<1>3. key \in Nat /\ key < count[n] /\ count[n] \in Nat
  <2>1. count[n] \in Nat
    BY <1>1, <1>2 DEF CountSteps
  <2> QED BY <1>2, <2>1
<1>4. PICK rest : /\ RestSteps(rest, key)
                  /\ \A p \in Positions : ByteOfKey(key, p) = rest[n - p] % Radix
  BY <1>3, BytesOfKey
<1>5. \A p \in 0..n : rest[p] \in Nat /\ count[p] \in Nat
  BY <1>2, <1>4 DEF RestSteps, CountSteps
<1>6. u \in Uuids /\ \A p \in Positions : u[Significance(order)[p]] = rest[n - p] % Radix
  <2>1. \A p \in Positions : ByteOfKey(key, p) \in 0..(Radix - 1)
    <3> SUFFICES ASSUME NEW p \in Positions PROVE rest[n - p] % Radix \in 0..(Radix - 1)
      BY <1>4
    <3>1. n - p \in 0..n
      BY <1>1
    <3>2. rest[n - p] \in Nat
      BY <1>5, <3>1
    <3> QED BY <1>1, <3>2, Division
  <2>2. \A q \in Positions : (CHOOSE p \in Positions : Significance(order)[p] = q) \in Positions
    BY SignificanceFacts
  <2>3. u \in Uuids
    BY <2>1, <2>2 DEF KeyToUuid, Uuids
  <2>4. ASSUME NEW p \in Positions PROVE u[Significance(order)[p]] = ByteOfKey(key, p)
    <3> DEFINE q == Significance(order)[p]
    <3>1. q \in Positions
      BY SignificanceFacts
    <3>2. (CHOOSE r \in Positions : Significance(order)[r] = q) = p
      BY SignificanceFacts
    <3>3. u[q] = ByteOfKey(key, CHOOSE r \in Positions : Significance(order)[r] = q)
      <4> HIDE DEF q
      <4> QED BY <3>1 DEF KeyToUuid
    <3> QED BY <3>2, <3>3
  <2> QED BY <1>4, <2>3, <2>4
<1> HIDE DEF u
<1>7. PICK k : KeySteps(k, u, order) /\ UuidToKey(u, order) = k[n]
  BY <1>6, KeyBytes
<1> HIDE DEF n
<1>8. rest[n] = 0
  <2> DEFINE T == {p \in 0..n : rest[p] < count[n - p]}
  <2>1. 0 \in T
    BY <1>1, <1>3, <1>4 DEF RestSteps
  <2>2. ASSUME NEW p \in 1..n, p - 1 \in T PROVE p \in T
    <3>1. p \in 0..n /\ p - 1 \in 0..n /\ n - p \in 0..n /\ n - (p - 1) \in 1..n
          /\ n - (p - 1) - 1 = n - p
      BY <1>1
    <3>2. rest[p] = rest[p-1] \div Radix /\ count[n - (p - 1)] = count[n - p] * Radix
      BY <1>2, <1>4, <3>1 DEF RestSteps, CountSteps, n
    <3>3. rest[p-1] < count[n - p] * Radix
      BY <2>2, <3>2
    <3>4. rest[p-1] \in Nat /\ count[n - p] \in Nat
      BY <1>5, <3>1
    <3>5. rest[p-1] \div Radix < count[n - p]
      BY <1>1, <3>3, <3>4, Division
    <3> QED BY <3>1, <3>2, <3>5
  <2> HIDE DEF T
  <2>3. 0..n \subseteq T
    BY <1>1, <2>1, <2>2, InductionTo
  <2>4. n \in 0..n /\ n - n = 0 /\ 0 \in 0..n
    BY <1>1
  <2>5. rest[n] < count[0] /\ count[0] = 1 /\ rest[n] \in Nat
    BY <1>2, <1>5, <2>3, <2>4 DEF T, CountSteps
  <2> QED BY <2>5
<1>9. k[n] = key
  <2> DEFINE T == {p \in 0..n : k[p] = rest[n - p]}
  <2>1. 0 \in T
    BY <1>1, <1>7, <1>8 DEF KeySteps
  <2>2. ASSUME NEW p \in 1..n, p - 1 \in T PROVE p \in T
    <3>1. p \in 0..n /\ n - p \in 0..n /\ n - (p - 1) \in 1..n /\ n - (p - 1) - 1 = n - p
          /\ p \in Positions
      BY <1>1
    <3>2. rest[n - (p - 1)] = rest[n - p] \div Radix
      BY <1>4, <3>1 DEF RestSteps, n
    <3>3. k[p] = k[p-1] * Radix + (rest[n - p] % Radix)
      BY <1>6, <1>7, <3>1 DEF KeySteps
    <3>4. k[p-1] = rest[n - p] \div Radix
      BY <2>2, <3>2
    <3>5. rest[n - p] \in Nat
      BY <1>5, <3>1
    <3>6. rest[n - p] = (rest[n - p] \div Radix) * Radix + (rest[n - p] % Radix)
      BY <1>1, <3>5, Division
    <3> QED BY <3>1, <3>3, <3>4, <3>6
  <2> HIDE DEF T
  <2>3. 0..n \subseteq T
    BY <1>1, <2>1, <2>2, InductionTo
  <2>4. n \in 0..n /\ n - n = 0
    BY <1>1
  <2>5. k[n] = rest[0]
    BY <2>3, <2>4 DEF T
  <2> QED BY <1>4, <2>5 DEF RestSteps
<1> QED BY <1>6, <1>7, <1>9 DEF u

\* The predicate of a slice selects a UUID if the slice has its key.
LEMMA SelectsByKey ==
    ASSUME NEW order \in Orders, NEW u \in Uuids, NEW max \in 0..(KeyCount - 1),
           NEW lo \in 0..max, NEW hi \in 0..max
    PROVE  SelectsUuid(<<lo, hi>>, max, order, order, u) <=>
              lo <= UuidToKey(u, order) /\ UuidToKey(u, order) <= hi
<1> DEFINE k == UuidToKey(u, order)
<1>1. KeyCount \in Nat
  BY KeysCounted, UuidOrderAssumption, LenProperties DEF CountSteps
<1>2. k \in Nat
  BY KeysSortAsUuids
<1>3. ASSUME NEW key \in 0..(KeyCount - 1)
      PROVE  /\ SortsBefore(u, KeyToUuid(key, order), order) <=> k < key
             /\ SortsBefore(KeyToUuid(key, order), u, order) <=> key < k
  BY KeyRoundTrip, KeysSortAsUuids
<1>4. lo \in 0..(KeyCount - 1) /\ (hi # max => hi + 1 \in 0..(KeyCount - 1))
  BY <1>1
<1> HIDE DEF k
<1>5. CASE hi = max
  <2>1. SelectsUuid(<<lo, hi>>, max, order, order, u) <=> ~(k < lo) /\ ~(max < k)
    BY <1>3, <1>4, <1>5 DEF SelectsUuid
  <2> QED BY <1>1, <1>2, <1>5, <2>1 DEF k
<1>6. CASE hi # max
  <2>1. SelectsUuid(<<lo, hi>>, max, order, order, u) <=> ~(k < lo) /\ k < hi + 1
    BY <1>3, <1>4, <1>6 DEF SelectsUuid
  <2> QED BY <1>1, <1>2, <1>6, <2>1 DEF k
<1> QED BY <1>5, <1>6

AsksUuid == ask.helper = "uuid"

\* by_uuid_range_ordered: the predicates the backend evaluates, with the UUIDs
\* written for the boundaries and compared in its own order, select every UUID
\* of the interval once and no other, for every order of significance.
THEOREM HelpersSelectUuidOnce == Spec => []EachUuidOnce
<1>1. AsksUuid => Exact(ask)
  BY DEF AsksUuid, Exact
<1>2. LoopInv /\ EachKeyOnce /\ EvenlySized => EachUuidOnce
  <2> SUFFICES ASSUME LoopInv, EachKeyOnce, EvenlySized,
                      ask.helper = "uuid", done, Wanted(ask),
                      NEW order \in Orders, NEW u \in Uuids
               PROVE  LET between == UuidToKey(u, order) \in ask.min..ask.max
                          takers  == {j \in DOMAIN out :
                                         SelectsUuid(out[j], ask.max, order, order, u)}
                      IN  IF between THEN \E j \in takers : takers = {j} ELSE takers = {}
    BY DEF EachUuidOnce
  <2> DEFINE k == UuidToKey(u, order)
             takers == {j \in DOMAIN out : SelectsUuid(out[j], ask.max, order, order, u)}
  <2>1. /\ ask.min \in 0..(KeyCount - 1) /\ ask.max \in 0..(KeyCount - 1)
        /\ ask.min <= ask.max /\ k \in Nat
    BY UuidSlicingAssumption, KeysSortAsUuids DEF LoopInv, TypeOK, Wanted
  <2>2. ASSUME NEW j \in DOMAIN out
        PROVE  /\ out[j] = <<out[j][1], out[j][2]>>
               /\ out[j][1] \in Int /\ out[j][2] \in Int
               /\ ask.min <= out[j][1] /\ out[j][1] <= out[j][2] /\ out[j][2] <= ask.max
    <3>1. out[j] \in Int \X Int
      BY DEF LoopInv, TypeOK
    <3>2. out[j][2] - out[j][1] + 1 > 0
      BY DEF EvenlySized
    <3>3. ask.min <= out[j][1] /\ out[j][2] <= ask.max
      BY DEF EachKeyOnce, Abstract!EachKeyOnce
    <3> QED BY <3>1, <3>2, <3>3
  <2>3. ASSUME NEW j \in DOMAIN out
        PROVE  j \in takers <=> Abstract!Selects(out[j], k)
    <3>1. out[j][1] \in 0..ask.max /\ out[j][2] \in 0..ask.max
      BY <2>1, <2>2
    <3>2. SelectsUuid(<<out[j][1], out[j][2]>>, ask.max, order, order, u)
             <=> out[j][1] <= k /\ k <= out[j][2]
      BY <2>1, <3>1, SelectsByKey
    <3> QED BY <2>2, <3>2 DEF Abstract!Selects
  <2> HIDE DEF k
  <2>4. CASE k \in ask.min..ask.max
    <3>1. PICK j \in DOMAIN out :
             /\ Abstract!Selects(out[j], k)
             /\ \A l \in DOMAIN out : Abstract!Selects(out[l], k) => l = j
      BY <2>4 DEF EachKeyOnce, Abstract!EachKeyOnce
    <3>2. \A l \in takers : l \in DOMAIN out
      OBVIOUS
    <3> HIDE DEF takers
    <3>3. takers = {j} /\ j \in takers
      BY <2>3, <3>1, <3>2
    <3> QED BY <2>4, <3>3 DEF takers, k
  <2>5. CASE k \notin ask.min..ask.max
    <3>1. \A j \in DOMAIN out : ~Abstract!Selects(out[j], k)
      BY <2>1, <2>2, <2>5 DEF Abstract!Selects
    <3>2. takers = {}
      BY <2>3, <3>1
    <3> QED BY <2>5, <3>2 DEF k
  <2> QED BY <2>4, <2>5
<1>3. ~AsksUuid /\ [Next]_vars => ~AsksUuid'
  BY DEF AsksUuid, Next, Refuse, Push, Skip, Return, vars
<1>4. ~AsksUuid => EachUuidOnce
  BY DEF AsksUuid, EachUuidOnce
<1> QED
  BY <1>1, <1>2, <1>3, <1>4, LoopAlways, HelpersSelectOnce, HelpersEvenlySized, PTL DEF Spec

=============================================================================
