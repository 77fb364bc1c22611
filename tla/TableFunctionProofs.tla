------------------------- MODULE TableFunctionProofs -------------------------
(***************************************************************************)
(* Whatever the parameters, the contents and the interleaving, a call of a *)
(* table function yields the rows it should.  The argument has three parts:*)
(*                                                                         *)
(*   - build_partitions returns the plain query, or the slices of a request*)
(*     whose interval is that of a complete strategy, and SlicingProofs    *)
(*     says that those tile it (BuildsPlan, PartitionsTile);               *)
(*   - so every row within the bounds is selected by one partition, and no *)
(*     row by two (PlanSelects);                                           *)
(*   - the answers stay right while others write, and bind puts them       *)
(*     together (Inv).                                                     *)
(***************************************************************************)
EXTENDS TableFunction, SequenceFacts, FiniteSetTheorems

-----------------------------------------------------------------------------
(* SlicingProofs, of which the lemmas about requests and UUIDs are used:   *)
(* they do not depend on its loop.  Its definitions are those of Slices    *)
(* and UuidOrder.                                                          *)

Helper == INSTANCE SlicingProofs WITH
              Ends <- [h \in Helpers |-> {}], Counts <- {},
              ask <- <<>>, i <- 0, out <- <<>>, done <- FALSE

LEMMA Assumed ==
    /\ Helper!SlicesAssumption /\ Helper!SlicingAssumption
    /\ Helper!UuidOrderAssumption /\ Helper!UuidSlicingAssumption
BY SlicesAssumption, UuidOrderAssumption
   DEF Helper!SlicesAssumption, Helper!SlicingAssumption, Helper!UuidOrderAssumption,
       Helper!UuidSlicingAssumption, Helper!Helpers, Helpers, Helper!ToSet, ToSet

LEMMA SameBoundaries ==
    ASSUME NEW r, NEW j
    PROVE  Helper!FirstKey(r, j) = FirstKey(r, j)
<1>1. \A a, b, c : Helper!MulDiv(a, b, c) = MulDiv(a, b, c)
  BY DEF Helper!MulDiv, MulDiv
<1>2. Helper!Page(r) = Page(r) /\ Helper!Grain(r) = Grain(r)
  BY DEF Helper!Page, Page, Grain, Helper!Grain
<1>3. \A t : Helper!Printed(t) = Printed(t)
  BY DEF Helper!Printed, Printed
<1> QED
  BY <1>1, <1>2, <1>3
     DEF FirstKey, Helper!FirstKey, CutInt, Helper!CutInt, CutKey, Helper!CutKey,
         CutTime, Helper!CutTime, SplitDuration, Helper!SplitDuration, Offset, Helper!Offset

LEMMA SameTurns ==
    ASSUME NEW r, NEW j
    PROVE  /\ Helper!Wanted(r) = Wanted(r)
           /\ Helper!More(r, j) = More(r, j)
           /\ Helper!LastKey(r, j) = LastKey(r, j)
           /\ Helper!Skipped(r, j) = Skipped(r, j)
<1>1. \A l : Helper!FirstKey(r, l) = FirstKey(r, l)
  BY SameBoundaries
<1>2. Helper!Closed(r, j) = Closed(r, j)
  BY DEF Closed, Helper!Closed
<1>3. \A a, b : Helper!Smaller(a, b) = Smaller(a, b)
  BY DEF Smaller, Helper!Smaller
<1>4. Helper!Page(r) = Page(r)
  BY DEF Page, Helper!Page
<1>5. Helper!LastKey(r, j) = LastKey(r, j)
  BY <1>1, <1>2, <1>3, <1>4 DEF LastKey, Helper!LastKey
<1>6. Helper!More(r, j) = More(r, j)
  BY <1>1 DEF More, Helper!More
<1>7. Helper!Skipped(r, j) = Skipped(r, j)
  BY <1>1, <1>2, <1>5 DEF Skipped, Helper!Skipped
<1> QED BY <1>5, <1>6, <1>7 DEF Wanted, Helper!Wanted

LEMMA SameUuids ==
    /\ Helper!KeyCount = KeyCount /\ Helper!Uuids = Uuids
    /\ \A u, order : Helper!UuidToKey(u, order) = UuidToKey(u, order)
    /\ \A key, order : Helper!KeyToUuid(key, order) = KeyToUuid(key, order)
    /\ \A u, v, order : Helper!SortsBefore(u, v, order) <=> SortsBefore(u, v, order)
    /\ \A s, max, w, c, u :
          Helper!SelectsUuid(s, max, w, c, u) <=> SelectsUuid(s, max, w, c, u)
<1>1. Helper!KeyCount = KeyCount
  BY DEF KeyCount, Helper!KeyCount
<1>2. Helper!Positions = Positions
  BY DEF Positions, Helper!Positions
<1>3. \A order : Helper!Significance(order) = Significance(order)
  BY <1>2 DEF Significance, Helper!Significance
<1>4. \A u, order : Helper!UuidToKey(u, order) = UuidToKey(u, order)
  <2> TAKE u, order
  <2> QED
    BY DEF UuidToKey, Helper!UuidToKey, Significance, Helper!Significance,
           Positions, Helper!Positions
<1>5. \A key, order : Helper!KeyToUuid(key, order) = KeyToUuid(key, order)
  <2> TAKE key, order
  <2> QED
    BY DEF KeyToUuid, Helper!KeyToUuid, Significance, Helper!Significance,
           Positions, Helper!Positions, ByteOfKey, Helper!ByteOfKey
<1>6. \A u, v, order : Helper!SortsBefore(u, v, order) <=> SortsBefore(u, v, order)
  BY <1>2, <1>3 DEF SortsBefore, Helper!SortsBefore
<1>7. Helper!Uuids = Uuids
  BY <1>2 DEF Uuids, Helper!Uuids
<1> QED BY <1>1, <1>4, <1>5, <1>6, <1>7 DEF SelectsUuid, Helper!SelectsUuid

-----------------------------------------------------------------------------
(* The partitions of a request.                                            *)

\* The requests that build_partitions makes of the helpers.
IsCut(r) ==
    /\ r.helper \in {"uuid", "int", "offset"}
    /\ r.min \in Int /\ r.max \in Int /\ r.n \in Nat
    /\ r.helper = "uuid" => r.min \in 0..(KeyCount - 1) /\ r.max \in 0..(KeyCount - 1)
    /\ r.helper = "offset" => /\ r.min = 0 /\ r.max >= 0
                              /\ 2 * r.max + 1 < Word /\ r.max + r.n < Word

\* Is the key between the ends of the partition?
Spans(part, key) == part.keys[1] <= key /\ key <= part.keys[2]

Taken(r, j) == More(r, j) /\ ~Skipped(r, j)

Slice(r, j) == [request |-> r, keys |-> <<FirstKey(r, j), LastKey(r, j)>>]

\* What SlicingProofs says of the turns of a request.
LEMMA TurnsTile ==
    ASSUME NEW r, IsCut(r), Wanted(r)
    PROVE  /\ \A j \in 0..(r.n - 1) : Taken(r, j) =>
                 FirstKey(r, j) \in r.min..r.max /\ LastKey(r, j) \in r.min..r.max
           /\ \A key \in Int : \A j, l \in 0..(r.n - 1) :
                 /\ Taken(r, j) /\ Spans(Slice(r, j), key)
                 /\ Taken(r, l) /\ Spans(Slice(r, l), key)
                 => j = l
           /\ \A key \in r.min..r.max : \E j \in 0..(r.n - 1) :
                 Taken(r, j) /\ Spans(Slice(r, j), key)
<1>1. Helper!IsRequest(r) /\ Helper!Wanted(r) /\ Helper!Exact(r) /\ Helper!OffsetsFit(r)
  <2>1. Helper!Wanted(r)
    BY SameTurns
  <2>2. Helper!IsRequest(r)
    BY DEF IsCut, Helper!IsRequest, Helper!Helpers, Helper!Asked
  <2>3. Helper!Exact(r) /\ Helper!OffsetsFit(r)
    BY DEF IsCut, Helper!Exact, Helper!OffsetsFit
  <2> QED BY <2>1, <2>2, <2>3
<1>2. /\ \A j \in 0..(r.n - 1) : Helper!Taken(r, j) =>
            Helper!FirstKey(r, j) \in r.min..r.max /\ Helper!LastKey(r, j) \in r.min..r.max
      /\ \A key \in Int : \A j, l \in 0..(r.n - 1) :
            Helper!Takes(r, j, key) /\ Helper!Takes(r, l, key) => j = l
      /\ \A key \in r.min..r.max : \E j \in 0..(r.n - 1) : Helper!Takes(r, j, key)
  BY <1>1, Assumed, Helper!TurnsTile
<1>3. \A j : Helper!Taken(r, j) <=> Taken(r, j)
  BY SameTurns DEF Taken, Helper!Taken
<1>4. \A j : Helper!FirstKey(r, j) = FirstKey(r, j) /\ Helper!LastKey(r, j) = LastKey(r, j)
  BY SameBoundaries, SameTurns
<1>5. \A j, key : Helper!Takes(r, j, key) <=> Taken(r, j) /\ Spans(Slice(r, j), key)
  BY <1>3, <1>4 DEF Helper!Takes, Spans, Slice
<1> QED BY <1>2, <1>3, <1>4, <1>5

LEMMA PartitionsTile ==
    ASSUME NEW r, IsCut(r)
    PROVE  /\ Len(Partitions(r)) \in Nat /\ DOMAIN Partitions(r) = 1..Len(Partitions(r))
           /\ Partitions(r) # <<>> => Len(Partitions(r)) # 0
           /\ \A p \in DOMAIN Partitions(r) :
                 /\ Partitions(r)[p].request = r
                 /\ Partitions(r)[p].keys \in (r.min..r.max) \X (r.min..r.max)
           /\ \A key \in Int : \A p, q \in DOMAIN Partitions(r) :
                 Spans(Partitions(r)[p], key) /\ Spans(Partitions(r)[q], key) => p = q
           /\ Partitions(r) # <<>> => \A key \in r.min..r.max :
                 \E p \in DOMAIN Partitions(r) : Spans(Partitions(r)[p], key)
<1>1. CASE ~Wanted(r)
  <2>1. Partitions(r) = <<>>
    BY <1>1 DEF Partitions
  <2> QED BY <2>1
<1>2. CASE Wanted(r)
  <2> DEFINE n == r.n
             S == {Slice(r, j) : j \in 0..(n - 1)}
             seqs == [j \in 1..n |-> IF Taken(r, j - 1) THEN <<Slice(r, j - 1)>> ELSE <<>>]
             flat == FlattenSeq(seqs)
  <2>1. Partitions(r) = flat
    BY <1>2 DEF Partitions, Taken, Slice
  <2>2. n \in Nat /\ Len(seqs) = n /\ seqs \in Seq(Seq(S))
    <3>1. n \in Nat
      BY DEF IsCut
    <3>2. ASSUME NEW j \in 1..n PROVE seqs[j] \in Seq(S)
      <4>1. j - 1 \in 0..(n - 1)
        BY <3>1
      <4>2. Slice(r, j - 1) \in S
        BY <4>1
      <4> HIDE DEF S
      <4> QED BY <4>2
    <3> HIDE DEF S
    <3>3. seqs \in [1..n -> Seq(S)]
      BY <3>2
    <3> HIDE DEF seqs
    <3> QED BY <3>1, <3>3
  <2>3. ASSUME NEW j \in 1..n, NEW a \in 1..Len(seqs[j])
        PROVE  /\ j - 1 \in 0..(n - 1) /\ Taken(r, j - 1) /\ a = 1
               /\ seqs[j][a] = Slice(r, j - 1)
    BY <2>2, <2>3
  <2>4. ASSUME NEW j \in 0..(n - 1), Taken(r, j)
        PROVE  j + 1 \in 1..n /\ 1 \in 1..Len(seqs[j + 1]) /\ seqs[j + 1][1] = Slice(r, j)
    <3>1. j + 1 \in 1..n /\ (j + 1) - 1 = j
      BY <2>2
    <3>2. seqs[j + 1] = <<Slice(r, j)>>
      BY <2>4, <3>1
    <3> QED BY <3>1, <3>2
  <2> HIDE DEF S, seqs, flat
  <2>5. flat \in Seq(S)
    BY <2>2, FlattenPlaces DEF flat
  <2>6. PICK part, pos1 : Placed(part, pos1, flat, seqs, n)
    BY <2>2, FlattenPlaces DEF flat
  <2>7. DOMAIN flat = 1..Len(flat) /\ Len(flat) \in Nat /\ (flat # <<>> => Len(flat) # 0)
    BY <2>5
  <2>8. ASSUME NEW k \in 1..Len(flat)
        PROVE  /\ part[k] \in 1..n /\ part[k] - 1 \in 0..(n - 1) /\ pos1[k] = 1
               /\ Taken(r, part[k] - 1) /\ flat[k] = Slice(r, part[k] - 1)
    <3>1. /\ part[k] \in 1..n /\ pos1[k] \in 1..Len(seqs[part[k]])
          /\ flat[k] = seqs[part[k]][pos1[k]]
      BY <2>6 DEF Placed
    <3> QED BY <2>3, <3>1
  <2>9. ASSUME NEW k \in 1..Len(flat)
        PROVE  flat[k].request = r /\ flat[k].keys \in (r.min..r.max) \X (r.min..r.max)
    <3>1. FirstKey(r, part[k] - 1) \in r.min..r.max /\ LastKey(r, part[k] - 1) \in r.min..r.max
      BY <1>2, <2>8, TurnsTile
    <3>2. /\ Slice(r, part[k] - 1).request = r
          /\ Slice(r, part[k] - 1).keys = <<FirstKey(r, part[k] - 1), LastKey(r, part[k] - 1)>>
      BY DEF Slice
    <3>3. flat[k] = Slice(r, part[k] - 1)
      BY <2>8
    <3>4. <<FirstKey(r, part[k] - 1), LastKey(r, part[k] - 1)>>
             \in (r.min..r.max) \X (r.min..r.max)
      BY <3>1
    <3> QED BY <3>2, <3>3, <3>4, Zenon
  <2>10. ASSUME NEW key \in Int, NEW j \in 1..Len(flat), NEW k \in 1..Len(flat),
                Spans(flat[j], key), Spans(flat[k], key)
         PROVE  j = k
    <3>1. part[j] - 1 = part[k] - 1
      <4> DEFINE a == part[j] - 1
                 b == part[k] - 1
      <4>1. /\ a \in 0..(n - 1) /\ Taken(r, a) /\ flat[j] = Slice(r, a)
            /\ b \in 0..(n - 1) /\ Taken(r, b) /\ flat[k] = Slice(r, b)
        BY <2>8
      <4>2. \A l, m \in 0..(n - 1) :
               /\ Taken(r, l) /\ Spans(Slice(r, l), key)
               /\ Taken(r, m) /\ Spans(Slice(r, m), key)
               => l = m
        BY <1>2, TurnsTile
      <4> HIDE DEF a, b, n
      <4>3. Spans(Slice(r, a), key) /\ Spans(Slice(r, b), key)
        BY <2>10, <4>1
      <4>4. a = b
        BY <4>1, <4>2, <4>3
      <4> QED BY <4>4 DEF a, b
    <3>2. part[j] = part[k] /\ part[k] \in Int /\ pos1[j] = 1 /\ pos1[k] = 1
      BY <2>8, <3>1
    <3>3. ~(j < k) /\ ~(k < j)
      BY <2>6, <3>2 DEF Placed
    <3> QED BY <2>7, <3>3
  <2>11. ASSUME NEW key \in r.min..r.max
         PROVE  \E k \in 1..Len(flat) : Spans(flat[k], key)
    <3>1. PICK j \in 0..(n - 1) : Taken(r, j) /\ Spans(Slice(r, j), key)
      BY <1>2, TurnsTile
    <3>2. PICK k \in 1..Len(flat) : part[k] = j + 1 /\ pos1[k] = 1
      BY <2>4, <2>6, <3>1 DEF Placed
    <3>3. flat[k] = Slice(r, j)
      <4>1. flat[k] = seqs[part[k]][pos1[k]]
        BY <2>6 DEF Placed
      <4> QED BY <2>4, <3>1, <3>2, <4>1
    <3> QED BY <3>1, <3>3
  <2> QED BY <2>1, <2>7, <2>9, <2>10, <2>11
<1> QED BY <1>1, <1>2

\* What SetToSeq returns.
LEMMA SetToSeqFacts ==
    ASSUME NEW S, IsFiniteSet(S)
    PROVE  /\ SetToSeq(S) \in Seq(S) /\ ToSet(SetToSeq(S)) = S
           /\ \A j, l \in DOMAIN SetToSeq(S) :
                 SetToSeq(S)[j] = SetToSeq(S)[l] => j = l
<1> DEFINE n == Cardinality(S)
           s == SetToSeq(S)
<1>1. n \in Nat /\ ExistsBijection(1..n, S)
  BY FS_CardinalityType
<1>2. \E f \in [1..n -> S] : IsInjective(f)
  BY <1>1 DEF ExistsBijection, Bijection, Injection
<1>3. s \in [1..n -> S] /\ IsInjective(s)
  BY <1>2 DEF SetToSeq
<1> HIDE DEF s
<1>4. s \in Surjection(1..n, S)
  <2>1. Cardinality(1..n) = n /\ IsFiniteSet(1..n)
    BY <1>1, FS_Interval
  <2>2. s \in Injection(1..n, S)
    BY <1>3 DEF Injection
  <2> HIDE DEF n
  <2>3. Cardinality(1..n) = Cardinality(S)
    BY <2>1 DEF n
  <2> QED BY <2>2, <2>3, FS_Injection
<1>5. ToSet(s) = S
  BY <1>3, <1>4 DEF ToSet, Surjection
<1>6. s \in Seq(S)
  BY <1>1, <1>3
<1> QED BY <1>3, <1>5, <1>6 DEF s, IsInjective

-----------------------------------------------------------------------------
(* What build_partitions returns.                                          *)

\* r asks for the interval that the parameters give its helper.
IsAsked(r) ==
    /\ IsCut(r)
    /\ r.helper = "uuid" =>
          UuidComplete /\ r.min = params.uuidMin[1] /\ r.max = params.uuidMax[1]
    /\ r.helper = "int" =>
          IntComplete /\ r.min = params.min[1] /\ r.max = params.max[1]
    /\ r.helper = "offset" => OffsetComplete /\ r.max = params.total[1] - 1

IsPlan(ps) ==
    \/ ps = Plain
    \/ ps # <<>> /\ \E r : IsAsked(r) /\ ps = Partitions(r)

LEMMA SmallestNumber ==
    ASSUME NEW I \in SUBSET Nat, I # {}
    PROVE  Min(I) \in I /\ \A n \in I : Min(I) <= n
<1>1. \E m \in I : \A n \in I : m <= n
  BY LeastNumber
<1> QED BY <1>1 DEF Min

LEMMA StrategiesAsk ==
    ASSUME params \in Params
    PROVE  \A ps \in {UuidPartitions, IntPartitions, OffsetPartitions} :
              ps # <<>> => IsPlan(ps)
<1>1. ASSUME Given(params.count)
      PROVE  /\ AsU32(params.count[1]) \in Nat /\ AsU32(params.count[1]) < CountWord
             /\ CountWord \in Int
  <2>1. params.count[1] \in Int /\ CountWord \in Nat \ {0}
    BY <1>1, TableFunctionAssumption
  <2> QED BY <2>1 DEF AsU32
<1>2. ASSUME UuidPartitions # <<>> PROVE IsPlan(UuidPartitions)
  <2> DEFINE r == Request("uuid", params.uuidMin[1], params.uuidMax[1])
  <2>1. UuidComplete /\ UuidPartitions = Partitions(r)
    BY <1>2 DEF UuidPartitions
  <2>2. params.uuidMin[1] \in 0..(KeyCount - 1) /\ params.uuidMax[1] \in 0..(KeyCount - 1)
    BY <2>1, TableFunctionAssumption DEF UuidComplete
  <2>3. /\ r.helper = "uuid" /\ r.n = AsU32(params.count[1])
        /\ r.min = params.uuidMin[1] /\ r.max = params.uuidMax[1]
    BY DEF Request
  <2> HIDE DEF r
  <2>4. IsAsked(r)
    BY <1>1, <2>1, <2>2, <2>3 DEF IsAsked, IsCut, UuidComplete
  <2> QED BY <1>2, <2>1, <2>4 DEF IsPlan
<1>3. ASSUME IntPartitions # <<>> PROVE IsPlan(IntPartitions)
  <2> DEFINE r == Request("int", params.min[1], params.max[1])
  <2>1. IntComplete /\ IntPartitions = Partitions(r)
    BY <1>3 DEF IntPartitions
  <2>2. params.min[1] \in Int /\ params.max[1] \in Int
    BY <2>1, TableFunctionAssumption DEF IntComplete
  <2>3. /\ r.helper = "int" /\ r.n = AsU32(params.count[1])
        /\ r.min = params.min[1] /\ r.max = params.max[1]
    BY DEF Request
  <2> HIDE DEF r
  <2>4. IsAsked(r)
    BY <1>1, <2>1, <2>2, <2>3 DEF IsAsked, IsCut, IntComplete
  <2> QED BY <1>3, <2>1, <2>4 DEF IsPlan
<1>4. ASSUME OffsetPartitions # <<>> PROVE IsPlan(OffsetPartitions)
  <2> DEFINE t == params.total[1]
             r == Request("offset", 0, t - 1)
  <2>1. OffsetComplete /\ t > 0 /\ OffsetPartitions = Partitions(r)
    BY <1>4 DEF OffsetPartitions
  <2>2. t \in Int /\ 2 * t <= Word /\ t + CountWord <= Word /\ Word \in Int
    BY <2>1, TableFunctionAssumption, SlicesAssumption DEF OffsetComplete
  <2>3. /\ r.helper = "offset" /\ r.n = AsU32(params.count[1])
        /\ r.min = 0 /\ r.max = t - 1
    BY DEF Request
  <2>4. r.n \in Nat /\ r.n < CountWord /\ CountWord \in Int
    BY <1>1, <2>1, <2>3 DEF OffsetComplete
  <2> HIDE DEF r, t
  <2>5. 2 * r.max + 1 < Word /\ r.max + r.n < Word /\ r.max \in Int /\ r.max >= 0
    BY <2>1, <2>2, <2>3, <2>4
  <2>6. IsAsked(r)
    BY <2>1, <2>3, <2>4, <2>5 DEF IsAsked, IsCut, t
  <2> QED BY <1>4, <2>1, <2>6 DEF IsPlan
<1> QED BY <1>2, <1>3, <1>4

LEMMA BuildsPlan ==
    ASSUME params \in Params
    PROVE  BuildPartitions # <<>> /\ IsPlan(BuildPartitions)
<1> DEFINE tried == <<UuidPartitions, IntPartitions, OffsetPartitions, Plain>>
           I == {j \in 1..Len(tried) : tried[j] # <<>>}
<1>1. 4 \in I /\ I \in SUBSET Nat
  BY DEF Plain
<1>2. BuildPartitions = tried[Min(I)]
  BY <1>1 DEF BuildPartitions, SelectInSeq
<1>3. Min(I) \in I
  <2> HIDE DEF I
  <2> QED BY <1>1, SmallestNumber
<1>4. Min(I) \in 1..4 /\ tried[Min(I)] # <<>>
  BY <1>3
<1>5. tried[Min(I)] \in {UuidPartitions, IntPartitions, OffsetPartitions, Plain}
  BY <1>4
<1> QED BY <1>2, <1>4, <1>5, StrategiesAsk DEF IsPlan

-----------------------------------------------------------------------------
(* What the partitions select.                                             *)

\* The position of a row in the order of the pages.
Rank(key) == Cardinality({k \in remote : k < key})

LEMMA RankFacts ==
    ASSUME IsFiniteSet(remote), NEW key
    PROVE  Rank(key) \in Nat
<1>1. IsFiniteSet({k \in remote : k < key})
  BY FS_Subset
<1> QED BY <1>1, FS_CardinalityType DEF Rank

\* The predicate of a partition, as the backend evaluates it, is its interval.
LEMMA SelectsSpan ==
    ASSUME NEW r, IsCut(r), NEW part, part.request = r,
           part.keys \in (r.min..r.max) \X (r.min..r.max),
           ~(r.helper = "uuid" /\ backend = "mssql"),
           IsFiniteSet(remote), NEW key \in 0..(KeyCount - 1)
    PROVE  Selects(part, key) <=>
              Spans(part, IF r.helper = "offset" THEN Rank(key) ELSE key)
<1> DEFINE lo == part.keys[1]
           hi == part.keys[2]
<1>1. /\ lo \in r.min..r.max /\ hi \in r.min..r.max /\ part.keys = <<lo, hi>>
      /\ r.min \in Int /\ r.max \in Int
  BY DEF IsCut
<1>2. CASE r.helper = "uuid"
  <2>1. BackendOrder = "lexical"
    BY <1>2 DEF BackendOrder
  <2>2. /\ Helper!KeyToUuid(key, "lexical") \in Helper!Uuids
        /\ Helper!UuidToKey(Helper!KeyToUuid(key, "lexical"), "lexical") = key
    <3>1. "lexical" \in Helper!Orders /\ key \in 0..(Helper!KeyCount - 1)
      BY SameUuids DEF Helper!Orders
    <3> QED BY <3>1, Assumed, Helper!KeyRoundTrip
  <2>3. UuidOf(key) \in Helper!Uuids /\ Helper!UuidToKey(UuidOf(key), "lexical") = key
    BY <2>2, SameUuids DEF UuidOf
  <2>4. r.max \in 0..(Helper!KeyCount - 1) /\ lo \in 0..r.max /\ hi \in 0..r.max
    <3>1. r.max \in 0..(KeyCount - 1) /\ r.min \in 0..(KeyCount - 1)
      BY <1>2 DEF IsCut
    <3> HIDE DEF lo, hi
    <3> QED BY <1>1, <3>1, SameUuids
  <2> HIDE DEF lo, hi
  <2>5. Helper!SelectsUuid(<<lo, hi>>, r.max, "lexical", "lexical", UuidOf(key))
           <=> lo <= key /\ key <= hi
    <3>1. "lexical" \in Helper!Orders
      BY DEF Helper!Orders
    <3> DEFINE u == UuidOf(key)
               m == r.max
    <3>2. u \in Helper!Uuids /\ m \in 0..(Helper!KeyCount - 1) /\ lo \in 0..m /\ hi \in 0..m
      BY <2>3, <2>4
    <3> HIDE DEF u, m
    <3>3. Helper!SelectsUuid(<<lo, hi>>, m, "lexical", "lexical", u)
             <=> lo <= Helper!UuidToKey(u, "lexical") /\ Helper!UuidToKey(u, "lexical") <= hi
      BY <3>1, <3>2, Assumed, Helper!SelectsByKey
    <3> QED BY <2>3, <3>3, Zenon DEF u, m
  <2>6. SelectsUuid(part.keys, r.max, "lexical", "lexical", UuidOf(key))
           <=> lo <= key /\ key <= hi
    <3>1. SelectsUuid(<<lo, hi>>, r.max, "lexical", "lexical", UuidOf(key))
             <=> lo <= key /\ key <= hi
      BY <2>5, SameUuids, Zenon
    <3>2. part.keys = <<lo, hi>>
      BY <1>1
    <3> QED BY <3>1, <3>2, Zenon
  <2> QED BY <1>2, <2>1, <2>6 DEF Selects, Spans, lo, hi
<1>3. CASE r.helper = "int"
  BY <1>3 DEF Selects, Spans
<1>4. CASE r.helper = "offset"
  <2>1. Selects(part, key) <=> Rank(key) \in lo..hi
    BY <1>4 DEF Selects, Rank
  <2>2. Spans(part, Rank(key)) <=> lo <= Rank(key) /\ Rank(key) <= hi
    BY DEF Spans
  <2>3. Rank(key) \in Int
    BY RankFacts
  <2> HIDE DEF lo, hi
  <2>4. Rank(key) \in lo..hi <=> lo <= Rank(key) /\ Rank(key) <= hi
    BY <1>1, <2>3
  <2> QED BY <1>4, <2>1, <2>2, <2>4 DEF lo, hi
<1> QED BY <1>2, <1>3, <1>4 DEF IsCut

LEMMA PlanShape ==
    ASSUME IsPlan(parts)
    PROVE  /\ parts # <<>>
           /\ Len(parts) \in Nat \ {0} /\ DOMAIN parts = 1..Len(parts)
           /\ \A p \in DOMAIN parts : parts[p].request.helper = Strategy
<1>1. CASE parts = Plain
  <2>1. /\ parts # <<>> /\ Len(parts) = 1 /\ DOMAIN parts = 1..1
        /\ parts[1].request.helper = "none"
    BY <1>1 DEF Plain
  <2> QED BY <2>1 DEF Strategy
<1>2. ASSUME parts # <<>>, NEW r, IsAsked(r), parts = Partitions(r)
      PROVE  /\ Len(parts) \in Nat \ {0} /\ DOMAIN parts = 1..Len(parts)
             /\ \A p \in DOMAIN parts : parts[p].request.helper = Strategy
  <2>1. IsCut(r)
    BY <1>2 DEF IsAsked
  <2>2. Len(parts) \in Nat /\ DOMAIN parts = 1..Len(parts)
        /\ \A p \in DOMAIN parts : parts[p].request = r
    BY <1>2, <2>1, PartitionsTile
  <2>3. Len(parts) # 0
    BY <1>2, <2>1, PartitionsTile
  <2> QED BY <1>2, <2>2, <2>3 DEF Strategy
<1> QED BY <1>1, <1>2 DEF IsPlan

\* The order of by_uuid_range is not that of SQL Server.
OrderedAlike == ~(Strategy = "uuid" /\ backend = "mssql")

\* Every row within the bounds has a partition, and no row has two.
LEMMA PlanSelects ==
    ASSUME params \in Params, IsPlan(parts), OrderedAlike,
           IsFiniteSet(remote), remote \subseteq 0..(KeyCount - 1), kept \subseteq remote
    PROVE  /\ \A key \in 0..(KeyCount - 1) : \A p, q \in DOMAIN parts :
                 Selects(parts[p], key) /\ Selects(parts[q], key) => p = q
           /\ (Strategy = "offset" => kept = remote) => \A key \in kept :
                 InBounds(key) => \E p \in DOMAIN parts : Selects(parts[p], key)
<1>1. CASE parts = Plain
  <2>1. DOMAIN parts = {1} /\ \A key : Selects(parts[1], key)
    BY <1>1 DEF Plain, Selects
  <2> QED BY <2>1
<1>2. ASSUME parts # <<>>, NEW r, IsAsked(r), parts = Partitions(r)
      PROVE  /\ \A key \in 0..(KeyCount - 1) : \A p, q \in DOMAIN parts :
                   Selects(parts[p], key) /\ Selects(parts[q], key) => p = q
             /\ (Strategy = "offset" => kept = remote) => \A key \in kept :
                   InBounds(key) => \E p \in DOMAIN parts : Selects(parts[p], key)
  <2> DEFINE place(key) == IF r.helper = "offset" THEN Rank(key) ELSE key
  <2>1. IsCut(r)
    BY <1>2 DEF IsAsked
  <2>2. Strategy = r.helper
    <3>1. 1 \in DOMAIN parts /\ parts[1].request = r
      BY <1>2, <2>1, PartitionsTile
    <3> QED BY <1>2, <3>1 DEF Strategy
  <2>3. ASSUME NEW key \in 0..(KeyCount - 1), NEW p \in DOMAIN parts
        PROVE  Selects(parts[p], key) <=> Spans(parts[p], place(key))
    <3>1. /\ parts[p].request = r
          /\ parts[p].keys \in (r.min..r.max) \X (r.min..r.max)
      BY <1>2, <2>1, PartitionsTile
    <3> QED BY <2>1, <2>2, <3>1, SelectsSpan DEF OrderedAlike
  <2>4. \A key \in 0..(KeyCount - 1) : place(key) \in Int
    BY RankFacts
  <2> HIDE DEF place
  <2>5. ASSUME NEW key \in 0..(KeyCount - 1), NEW p \in DOMAIN parts, NEW q \in DOMAIN parts,
               Selects(parts[p], key), Selects(parts[q], key)
        PROVE  p = q
    <3>1. place(key) \in Int /\ Spans(parts[p], place(key)) /\ Spans(parts[q], place(key))
      BY <2>3, <2>4, <2>5
    <3> QED BY <1>2, <2>1, <3>1, PartitionsTile
  <2>6. ASSUME Strategy = "offset" => kept = remote, NEW key \in kept, InBounds(key)
        PROVE  \E p \in DOMAIN parts : Selects(parts[p], key)
    <3>1. place(key) \in r.min..r.max
      <4>1. CASE r.helper = "uuid"
        BY <1>2, <2>6, <4>1 DEF place, IsAsked, InBounds
      <4>2. CASE r.helper = "int"
        BY <1>2, <2>6, <4>2 DEF place, IsAsked, InBounds
      <4>3. CASE r.helper = "offset"
        <5> DEFINE n == Rank(key)
        <5>1. place(key) = n /\ n \in Nat
          BY <4>3, RankFacts DEF place
        <5>2. n < params.total[1] /\ r.max = params.total[1] - 1 /\ r.min = 0 /\ r.max \in Int
          <6>1. OffsetComplete /\ r.max = params.total[1] - 1 /\ r.min = 0 /\ r.max \in Int
            BY <1>2, <2>1, <4>3 DEF IsAsked, IsCut
          <6>2. kept = remote
            BY <2>2, <2>6, <4>3
          <6>3. Cardinality({k \in kept : k < key}) < params.total[1]
            BY <2>6, <6>1 DEF InBounds
          <6> QED BY <6>1, <6>2, <6>3 DEF Rank
        <5>3. params.total[1] \in Int
          BY <1>2, <4>3, TableFunctionAssumption DEF IsAsked, OffsetComplete
        <5> HIDE DEF n
        <5> QED BY <5>1, <5>2, <5>3
      <4> QED BY <2>1, <4>1, <4>2, <4>3 DEF IsCut
    <3>2. PICK p \in DOMAIN parts : Spans(parts[p], place(key))
      BY <1>2, <2>1, <3>1, PartitionsTile
    <3>3. key \in 0..(KeyCount - 1)
      OBVIOUS
    <3> QED BY <2>3, <3>2, <3>3
  <2> QED BY <2>5, <2>6
<1> QED BY <1>1, <1>2 DEF IsPlan

-----------------------------------------------------------------------------
(* The invariant.                                                          *)

Keys == 0..(KeyCount - 1)

RemoteInv ==
    /\ params \in Params
    /\ IsFiniteSet(remote) /\ remote \subseteq Keys /\ kept \subseteq remote
    /\ writes \in Nat /\ (writes = 0 => kept = remote)

\* Pages are those of one state of the remote table.
Steady == Strategy = "offset" => writes = 0

\* The answer of partition p.
Answered(p) ==
    LET a == results[p][1]
    IN  /\ a \in Seq(Keys)
        /\ \A j, l \in DOMAIN a : a[j] = a[l] => j = l
        /\ Steady => /\ \A key \in ToSet(a) : Selects(parts[p], key)
                     /\ \A key \in kept : Selects(parts[p], key) => key \in ToSet(a)

\* The partitions are a plan, and an answer stays right.
PartsInv ==
    /\ stage \in {"bind", "querying", "failed", "bound", "scan", "end"}
    /\ stage = "bind" => parts = <<>>
    /\ stage # "bind" => IsPlan(parts)
    /\ DOMAIN results = DOMAIN parts
    /\ \A p \in DOMAIN parts : results[p] # <<>> => Answered(p)

AllRows == FlattenSeq([p \in DOMAIN parts |-> results[p][1]])

\* Bind ends when all have answered, and has no rows before.
RowsInv ==
    /\ Fetched => (\A p \in DOMAIN parts : results[p] # <<>>) /\ rows = AllRows
    /\ ~Fetched => rows = <<>> /\ pos = 0
    /\ rows \in Seq(Keys)

\* A scan has delivered the rows up to its cursor.
ScanInv ==
    /\ pos \in 0..Len(rows)
    /\ delivered = SubSeq(rows, 1, pos)
    /\ stage = "end" => pos = Len(rows)
    /\ scans \in 0..MaxScans

\* The declared type is settled by bind: that of some value of the column, if it
\* has any.  Only SQL Server runs batches.
Declared(rs, type) ==
    \/ \A j \in DOMAIN rs : Cell(rs[j]) = "null"
    \/ \E j \in DOMAIN rs : Cell(rs[j]) = type /\ type # "null"

TypeInv ==
    /\ ltype \in {"none", "varchar", "smallint", "integer"}
    /\ Fetched => Declared(rows, ltype)
    /\ others # {} => backend = "mssql"

Inv == RemoteInv /\ PartsInv /\ RowsInv /\ ScanInv /\ TypeInv

LEMMA ContentsFacts ==
    /\ \A keys \in Contents : IsFiniteSet(keys) /\ keys \subseteq Keys
    /\ UNION Contents \subseteq Keys
BY TableFunctionAssumption DEF Keys

LEMMA InitInv == Init => Inv
<1> SUFFICES ASSUME Init PROVE Inv
  OBVIOUS
<1>1. RemoteInv
  BY ContentsFacts DEF Init, RemoteInv
<1>2. PartsInv /\ RowsInv
  BY DEF Init, PartsInv, RowsInv, Fetched
<1>3. ScanInv
  BY TableFunctionAssumption DEF Init, ScanInv
<1>4. TypeInv
  BY DEF Init, TypeInv, Fetched
<1> QED BY <1>1, <1>2, <1>3, <1>4 DEF Inv

LEMMA SelectsSame ==
    ASSUME parts' = parts, backend' = backend, NEW p, NEW key,
           remote' = remote \/ parts[p].request.helper # "offset"
    PROVE  Selects(parts[p], key)' <=> Selects(parts[p], key)
BY DEF Selects, BackendOrder

\* A step of others keeps the answers, and so does one that changes nothing.
LEMMA AnsweredStays ==
    ASSUME RemoteInv, PartsInv, stage # "bind", parts' = parts, backend' = backend,
           NEW p \in DOMAIN parts, results'[p] = results[p], Answered(p),
           kept' \subseteq kept,
           (remote' = remote /\ writes' = writes) \/ writes' # 0
    PROVE  Answered(p)'
<1>1. parts[p].request.helper = Strategy /\ Strategy' = Strategy
  BY PlanShape DEF PartsInv, Strategy
<1>2. ASSUME Steady' PROVE Steady /\ \A key : Selects(parts[p], key)' <=> Selects(parts[p], key)
  <2>1. Steady /\ (remote' = remote \/ Strategy # "offset")
    BY <1>1, <1>2 DEF Steady
  <2> QED BY <1>1, <2>1, SelectsSame
<1> QED BY <1>2 DEF Answered

\* What a partition is answered with.
LEMMA AnswerFits ==
    ASSUME RemoteInv, PartsInv, NEW p \in DOMAIN parts, results'[p] = <<Answer(parts[p])>>,
           parts' = parts, UNCHANGED remoteVars, backend' = backend
    PROVE  Answered(p)'
<1> DEFINE S == {k \in remote : Selects(parts[p], k)}
           a == SetToSeq(S)
<1>1. IsFiniteSet(S) /\ S \subseteq Keys
  BY FS_Subset DEF RemoteInv
<1>2. results'[p][1] = a
  BY DEF Answer
<1>3. /\ \A key : key \in S <=> key \in remote /\ Selects(parts[p], key)
      /\ kept' = kept /\ remote' = remote
  BY DEF remoteVars
<1> HIDE DEF S
<1>4. a \in Seq(S) /\ ToSet(a) = S /\ \A j, l \in DOMAIN a : a[j] = a[l] => j = l
  BY <1>1, SetToSeqFacts
<1> HIDE DEF a
<1>5. a \in Seq(Keys)
  BY <1>1, <1>4
<1>6. \A key \in kept : key \in remote
  BY DEF RemoteInv
<1>7. \A key : Selects(parts[p], key)' <=> Selects(parts[p], key)
  BY <1>3, SelectsSame
<1> QED BY <1>2, <1>3, <1>4, <1>5, <1>6, <1>7 DEF Answered

LEMMA RemoteStep == RemoteInv /\ Next => RemoteInv'
<1> SUFFICES ASSUME RemoteInv, Next PROVE RemoteInv'
  OBVIOUS
<1>1. CASE RemoteWrite
  <2>1. params' = params /\ writes' = writes + 1
    BY <1>1 DEF RemoteWrite
  <2>2. IsFiniteSet(remote') /\ remote' \subseteq Keys /\ kept' \subseteq remote'
    <3>1. CASE \E key \in remote : remote' = remote \ {key} /\ kept' = kept \intersect remote'
      BY <3>1, FS_RemoveElement DEF RemoteInv
    <3>2. CASE \E key \in (UNION Contents) \ remote :
                  remote' = remote \union {key} /\ kept' = kept
      BY <3>2, FS_AddElement, ContentsFacts DEF RemoteInv
    <3> QED BY <1>1, <3>1, <3>2 DEF RemoteWrite
  <2> QED BY <2>1, <2>2 DEF RemoteInv
<1>2. CASE ~RemoteWrite
  <2>1. params' = params /\ UNCHANGED remoteVars
    BY <1>2 DEF Next, Bind, RunPartition, BindFails, BindEnds, InitScan, Func, FuncEnds
  <2> QED BY <2>1 DEF RemoteInv, remoteVars
<1> QED BY <1>1, <1>2

LEMMA PlanStays ==
    ASSUME params' = params, parts' = parts, IsPlan(parts)
    PROVE  IsPlan(parts)'
BY DEF IsPlan, IsAsked, UuidComplete, IntComplete, OffsetComplete

LEMMA PartsStep == RemoteInv /\ PartsInv /\ Next => PartsInv'
<1> SUFFICES ASSUME RemoteInv, PartsInv, Next PROVE PartsInv'
  OBVIOUS
<1>1. CASE Bind
  <2>1. parts' = BuildPartitions /\ results' = [p \in DOMAIN parts' |-> <<>>]
        /\ stage' = "querying" /\ params' = params
    BY <1>1 DEF Bind
  <2>2. IsPlan(parts)'
    <3>1. IsPlan(BuildPartitions)
      BY BuildsPlan DEF RemoteInv
    <3> QED BY <2>1, <3>1 DEF IsPlan, IsAsked, UuidComplete, IntComplete, OffsetComplete
  <2> QED BY <2>1, <2>2 DEF PartsInv
<1>2. CASE RunPartition
  <2>1. /\ stage = "querying" /\ stage' = stage /\ params' = params /\ backend' = backend
        /\ parts' = parts /\ UNCHANGED remoteVars
    BY <1>2 DEF RunPartition
  <2>2. PICK p \in DOMAIN parts : results' = [results EXCEPT ![p] = <<Answer(parts[p])>>]
    BY <1>2 DEF RunPartition
  <2>3. DOMAIN results = DOMAIN parts /\ IsPlan(parts)
    BY <2>1 DEF PartsInv
  <2>4. ASSUME NEW q \in DOMAIN parts, results'[q] # <<>> PROVE Answered(q)'
    <3>1. CASE q = p
      BY <2>1, <2>2, <2>3, <3>1, AnswerFits
    <3>2. CASE q # p
      <4>1. results'[q] = results[q]
        BY <2>2, <2>3, <3>2
      <4>2. Answered(q)
        BY <2>4, <4>1 DEF PartsInv
      <4> QED BY <2>1, <4>1, <4>2, AnsweredStays DEF remoteVars
    <3> QED BY <3>1, <3>2
  <2>5. IsPlan(parts)'
    BY <2>1, <2>3, PlanStays
  <2> QED BY <2>1, <2>2, <2>3, <2>4, <2>5 DEF PartsInv
<1>3. CASE ~Bind /\ ~RunPartition
  <2>1. /\ stage # "bind" /\ stage' # "bind" /\ params' = params /\ backend' = backend
        /\ parts' = parts /\ results' = results
        /\ stage' \in {"querying", "failed", "bound", "scan", "end"}
    BY <1>3 DEF Next, BindFails, BindEnds, InitScan, Func, FuncEnds, RemoteWrite, bindVars
  <2>2. kept' \subseteq kept /\ ((remote' = remote /\ writes' = writes) \/ writes' # 0)
    BY <1>3 DEF Next, BindFails, BindEnds, InitScan, Func, FuncEnds, RemoteWrite, remoteVars,
                RemoteInv
  <2>3. ASSUME NEW p \in DOMAIN parts, results[p] # <<>> PROVE Answered(p)'
    <3>1. Answered(p)
      BY <2>3 DEF PartsInv
    <3> QED BY <2>1, <2>2, <3>1, AnsweredStays
  <2>4. IsPlan(parts)'
    BY <2>1, PlanStays DEF PartsInv
  <2> QED BY <2>1, <2>3, <2>4 DEF PartsInv
<1> QED BY <1>1, <1>2, <1>3

\* The answers, put together.
LEMMA AllRowsFacts ==
    ASSUME IsPlan(parts), \A p \in DOMAIN parts : Answered(p)
    PROVE  [p \in DOMAIN parts |-> results[p][1]] \in Seq(Seq(Keys)) /\ AllRows \in Seq(Keys)
<1> DEFINE seqs == [p \in DOMAIN parts |-> results[p][1]]
<1>1. DOMAIN parts = 1..Len(parts) /\ Len(parts) \in Nat
  BY PlanShape
<1>2. seqs \in [1..Len(parts) -> Seq(Keys)]
  BY <1>1 DEF Answered
<1> HIDE DEF seqs
<1>3. seqs \in Seq(Seq(Keys))
  BY <1>1, <1>2
<1>4. FlattenSeq(seqs) \in Seq(Keys)
  BY <1>3, FlattenPlaces
<1> QED BY <1>3, <1>4 DEF AllRows, seqs

LEMMA RowsStep == PartsInv /\ RowsInv /\ Next => RowsInv'
<1> SUFFICES ASSUME PartsInv, RowsInv, Next PROVE RowsInv'
  OBVIOUS
<1>1. CASE BindEnds
  <2>1. /\ stage' = "bound" /\ parts' = parts /\ results' = results
        /\ \A p \in DOMAIN parts : results[p] # <<>>
        /\ rows' = AllRows
    BY <1>1 DEF BindEnds, AllRows
  <2>2. IsPlan(parts) /\ \A p \in DOMAIN parts : Answered(p)
    BY <1>1, <2>1 DEF BindEnds, PartsInv
  <2>3. AllRows \in Seq(Keys)
    BY <2>2, AllRowsFacts
  <2>4. AllRows' = AllRows
    BY <2>1 DEF AllRows
  <2> QED BY <2>1, <2>3, <2>4 DEF RowsInv, Fetched
<1>2. CASE ~BindEnds /\ Fetched
  <2>1. parts' = parts /\ results' = results /\ rows' = rows /\ Fetched'
    BY <1>2 DEF Next, Bind, RunPartition, BindFails, InitScan, Func, FuncEnds, RemoteWrite,
                Fetched, bindVars
  <2>2. AllRows' = AllRows
    BY <2>1 DEF AllRows
  <2> QED BY <1>2, <2>1, <2>2 DEF RowsInv
<1>3. CASE ~BindEnds /\ ~Fetched
  <2>1. rows' = rows /\ pos' = pos /\ ~Fetched'
    BY <1>3 DEF Next, Bind, RunPartition, BindFails, InitScan, Func, FuncEnds, RemoteWrite,
                Fetched, bindVars, scanVars
  <2> QED BY <1>3, <2>1 DEF RowsInv
<1> QED BY <1>1, <1>2, <1>3

\* Two batches that follow one another are a batch.
LEMMA BatchesJoin ==
    ASSUME NEW S, NEW s \in Seq(S), NEW n \in 0..Len(s), NEW m \in n..Len(s)
    PROVE  SubSeq(s, 1, n) \o SubSeq(s, n + 1, m) = SubSeq(s, 1, m)
<1> DEFINE a == SubSeq(s, 1, n)
           b == SubSeq(s, n + 1, m)
           c == SubSeq(s, 1, m)
<1>1. Len(s) \in Nat /\ n \in Nat /\ m \in Nat /\ n <= m /\ m <= Len(s)
  OBVIOUS
<1>2. /\ a \in Seq(S) /\ Len(a) = n /\ \A k \in 1..n : a[k] = s[k]
      /\ c \in Seq(S) /\ Len(c) = m /\ \A k \in 1..m : c[k] = s[k]
  BY <1>1
<1>3. b \in Seq(S) /\ Len(b) = m - n /\ \A k \in 1..(m - n) : b[k] = s[n + k]
  <2>1. \A k \in (n + 1)..m : s[k] \in S
    BY <1>1
  <2>2. /\ b \in Seq(S) /\ Len(b) = IF n + 1 <= m THEN m - (n + 1) + 1 ELSE 0
        /\ \A k \in 1..(m - (n + 1) + 1) : b[k] = s[(n + 1) + k - 1]
    BY <1>1, <2>1, SubSeqProperties
  <2> HIDE DEF b
  <2>3. \A k \in 1..(m - n) : k \in 1..(m - (n + 1) + 1) /\ (n + 1) + k - 1 = n + k
    BY <1>1
  <2> QED BY <1>1, <2>2, <2>3
<1> HIDE DEF a, b, c
<1>4. /\ a \o b \in Seq(S) /\ Len(a \o b) = m
      /\ \A k \in 1..m : (a \o b)[k] = IF k <= n THEN a[k] ELSE b[k - n]
  <2>1. /\ a \o b \in Seq(S) /\ Len(a \o b) = Len(a) + Len(b)
        /\ \A k \in 1..(Len(a) + Len(b)) :
              (a \o b)[k] = IF k <= Len(a) THEN a[k] ELSE b[k - Len(a)]
    BY <1>2, <1>3, ConcatProperties
  <2>2. Len(a) = n /\ Len(a) + Len(b) = m
    BY <1>1, <1>2, <1>3
  <2> QED BY <2>1, <2>2
<1>5. ASSUME NEW k \in 1..m PROVE (a \o b)[k] = c[k]
  <2>1. CASE k <= n
    <3>1. k \in 1..n
      BY <1>1, <2>1
    <3> QED BY <1>2, <1>4, <2>1, <3>1
  <2>2. CASE ~(k <= n)
    <3>1. k - n \in 1..(m - n) /\ n + (k - n) = k
      BY <1>1, <2>2
    <3>2. b[k - n] = s[k]
      BY <1>3, <3>1
    <3> QED BY <1>2, <1>4, <2>2, <3>2
  <2> QED BY <2>1, <2>2
<1> QED BY <1>2, <1>4, <1>5, SeqEqual DEF a, b, c

LEMMA ScanStep == PartsInv /\ RowsInv /\ ScanInv /\ Next => ScanInv'
<1> SUFFICES ASSUME PartsInv, RowsInv, ScanInv, Next PROVE ScanInv'
  OBVIOUS
<1>1. CASE BindEnds
  <2>1. pos = 0 /\ rows = <<>>
    BY <1>1 DEF BindEnds, RowsInv, Fetched
  <2>2. pos' = 0 /\ delivered' = delivered /\ scans' = scans /\ stage' = "bound"
    BY <1>1, <2>1 DEF BindEnds, scanVars
  <2>3. delivered = <<>> /\ SubSeq(rows', 1, 0) = <<>> /\ Len(rows') \in Nat
    <3>1. rows' \in Seq(Keys)
      BY RowsStep DEF RowsInv
    <3>2. Len(rows') \in Nat
      BY <3>1
    <3> QED BY <2>1, <3>2 DEF ScanInv
  <2> QED BY <2>2, <2>3 DEF ScanInv
<1>2. CASE InitScan
  <2>1. rows' = rows /\ pos' = 0 /\ delivered' = <<>> /\ scans' = scans + 1 /\ stage' = "scan"
    BY <1>2 DEF InitScan, bindVars
  <2>2. Len(rows) \in Nat /\ SubSeq(rows, 1, 0) = <<>>
    BY DEF RowsInv
  <2>3. scans + 1 \in 0..MaxScans
    BY <1>2, TableFunctionAssumption DEF InitScan, ScanInv
  <2> QED BY <2>1, <2>2, <2>3 DEF ScanInv
<1>3. CASE Func
  <2> DEFINE batch == Smaller(Len(rows) - pos, BatchSize)
  <2>1. /\ delivered' = delivered \o SubSeq(rows, pos + 1, pos + batch)
        /\ pos' = pos + batch /\ rows' = rows /\ scans' = scans /\ stage' = "scan"
    BY <1>3 DEF Func, bindVars
  <2>2. pos \in 0..Len(rows) /\ rows \in Seq(Keys) /\ Len(rows) \in Nat
    BY DEF RowsInv, ScanInv
  <2>3. pos + batch \in pos..Len(rows)
    BY <1>3, <2>2, TableFunctionAssumption DEF Func, Smaller
  <2> HIDE DEF batch
  <2>4. delivered' = SubSeq(rows, 1, pos + batch)
    BY <2>1, <2>2, <2>3, BatchesJoin DEF ScanInv
  <2> QED BY <2>1, <2>2, <2>3, <2>4 DEF ScanInv
<1>4. CASE FuncEnds
  BY <1>4 DEF FuncEnds, ScanInv, RowsInv, bindVars, scanVars
<1>5. CASE ~BindEnds /\ ~InitScan /\ ~Func /\ ~FuncEnds
  BY <1>5 DEF Next, Bind, RunPartition, BindFails, RemoteWrite, ScanInv, bindVars, scanVars
<1> QED BY <1>1, <1>2, <1>3, <1>4, <1>5

\* The first value that is not null decides.
LEMMA InferFits ==
    ASSUME NEW rs \in Seq(Keys)
    PROVE  /\ InferColType(rs) \in {"varchar", "smallint", "integer"}
           /\ Declared(rs, InferColType(rs))
<1> DEFINE I == {j \in 1..Len(rs) : Cell(rs[j]) # "null"}
<1>1. CASE I = {}
  <2>1. InferColType(rs) = "varchar"
    BY <1>1 DEF InferColType, SelectInSeq
  <2> QED BY <1>1, <2>1 DEF Declared
<1>2. CASE I # {}
  <2>1. I \in SUBSET Nat
    OBVIOUS
  <2>2. Min(I) \in I
    <3> HIDE DEF I
    <3> QED BY <1>2, <2>1, SmallestNumber
  <2>3. InferColType(rs) = Cell(rs[Min(I)])
    BY <1>2, <2>2 DEF InferColType, SelectInSeq
  <2>4. Cell(rs[Min(I)]) \in {"smallint", "integer"} /\ Min(I) \in DOMAIN rs
    BY <2>2 DEF Cell
  <2>5. PICK j \in DOMAIN rs : Cell(rs[j]) = InferColType(rs) /\ Cell(rs[j]) \in {"smallint", "integer"}
    BY <2>3, <2>4
  <2>6. Declared(rs, InferColType(rs))
    BY <2>5 DEF Declared
  <2> QED BY <2>5, <2>6
<1> QED BY <1>1, <1>2

LEMMA TypeStep == PartsInv /\ RowsInv /\ TypeInv /\ Next => TypeInv'
<1> SUFFICES ASSUME PartsInv, RowsInv, TypeInv, Next PROVE TypeInv'
  OBVIOUS
<1>1. backend' = backend /\ nulls' = nulls /\ others' = others
  BY DEF Next, Bind, RunPartition, BindFails, BindEnds, InitScan, Func, FuncEnds, RemoteWrite,
         remoteVars
<1>2. CASE BindEnds
  <2>1. PICK rs : rs = rows'
    OBVIOUS
  <2>2. rs \in Seq(Keys)
    BY <2>1, RowsStep DEF RowsInv
  <2>3. ltype' = IF rs = <<>> THEN "none" ELSE InferColType(rs)
    BY <1>2, <2>1 DEF BindEnds
  <2>4. Declared(rs, ltype') /\ ltype' \in {"none", "varchar", "smallint", "integer"}
    <3>1. rs = <<>> => DOMAIN rs = {}
      OBVIOUS
    <3> QED BY <2>2, <2>3, <3>1, InferFits DEF Declared
  <2>5. Declared(rows, ltype)'
    BY <1>1, <2>1, <2>4 DEF Declared, Cell
  <2> QED BY <1>1, <2>4, <2>5 DEF TypeInv
<1>3. CASE ~BindEnds
  <2>1. ltype' = ltype /\ (Fetched' => Fetched /\ rows' = rows)
    BY <1>3 DEF Next, Bind, RunPartition, BindFails, InitScan, Func, FuncEnds, RemoteWrite,
                Fetched, bindVars
  <2>2. Fetched' => Declared(rows, ltype)'
    BY <1>1, <2>1 DEF TypeInv, Declared, Cell
  <2> QED BY <1>1, <2>1, <2>2 DEF TypeInv
<1> QED BY <1>2, <1>3

LEMMA InvStep == Inv /\ [Next]_vars => Inv'
<1> SUFFICES ASSUME Inv, [Next]_vars PROVE Inv'
  OBVIOUS
<1>1. CASE Next
  BY <1>1, RemoteStep, PartsStep, RowsStep, ScanStep, TypeStep DEF Inv
<1>2. CASE UNCHANGED vars
  <2>1. /\ UNCHANGED <<params, backend, stage, parts, results, rows, ltype, pos, delivered, scans>>
        /\ UNCHANGED <<remote, kept, nulls, others, writes>>
    BY <1>2 DEF vars, remoteVars, bindVars, scanVars
  <2>2. RemoteInv' /\ ScanInv'
    BY <2>1 DEF Inv, RemoteInv, ScanInv
  <2>3. RowsInv'
    BY <2>1 DEF Inv, RowsInv, Fetched, AllRows
  <2>4. TypeInv'
    BY <2>1 DEF Inv, TypeInv, Declared, Cell, Fetched
  <2>5. PartsInv'
    <3>1. ASSUME stage # "bind" PROVE IsPlan(parts)'
      BY <2>1, <3>1, PlanStays DEF Inv, PartsInv
    <3>2. ASSUME NEW p \in DOMAIN parts, results[p] # <<>> PROVE Answered(p)'
      <4>1. Answered(p) /\ stage # "bind"
        BY <3>2 DEF Inv, PartsInv
      <4> QED BY <2>1, <4>1, AnsweredStays DEF Inv
    <3> QED BY <2>1, <3>1, <3>2 DEF Inv, PartsInv
  <2> QED BY <2>2, <2>3, <2>4, <2>5 DEF Inv
<1> QED BY <1>1, <1>2

LEMMA InvAlways == Spec => []Inv
BY InitInv, InvStep, PTL DEF Spec

-----------------------------------------------------------------------------
(* The theorems.                                                           *)

\* The variables have their types, and bind ends with every partition answered.
THEOREM TypeCorrect == Spec => []TypeOK
<1>1. Inv => TypeOK
  <2> SUFFICES ASSUME Inv PROVE TypeOK
    OBVIOUS
  <2>1. stage = "bind" <=> parts = <<>>
    BY PlanShape DEF Inv, PartsInv
  <2> QED BY <2>1 DEF TypeOK, Inv, RemoteInv, PartsInv, RowsInv, ScanInv, TypeInv
<1> QED BY <1>1, InvAlways, PTL

\* func hands DuckDB the rows of the bind in order, and all of them before the
\* empty chunk, in every scan, whatever the batch size.
THEOREM ScansAreComplete == Spec => []ScanComplete
<1>1. Inv => ScanComplete
  <2> SUFFICES ASSUME Inv PROVE ScanComplete
    OBVIOUS
  <2>1. delivered = SubSeq(rows, 1, pos) /\ (stage = "end" => pos = Len(rows))
        /\ rows \in Seq(Keys)
    BY DEF Inv, ScanInv, RowsInv
  <2>2. SubSeq(rows, 1, Len(rows)) = rows
    BY <2>1
  <2> QED BY <2>1, <2>2 DEF ScanComplete
<1> QED BY <1>1, InvAlways, PTL

\* The declared type is that of some value of the column, so that every other
\* value that is not null fits it, unless values of two types are mixed.
THEOREM CellsFitColumn == Spec => []OneTypeFits
<1>1. Inv => OneTypeFits
  <2> SUFFICES ASSUME Inv, ~Mixed, Fetched, NEW j \in DOMAIN rows
               PROVE  Cell(rows[j]) \in {"null", ltype}
    BY DEF OneTypeFits, CellsFit
  <2>1. Declared(rows, ltype)
    BY DEF Inv, TypeInv
  <2>2. \A l \in DOMAIN rows : Cell(rows[l]) \in {"null", "smallint", "integer"}
    BY DEF Cell
  <2> QED BY <2>1, <2>2 DEF Declared, Mixed
<1> QED BY <1>1, InvAlways, PTL

\* Only a batch of SQL Server mixes types: from the others all cells fit.
THEOREM CellsFitWithoutBatches == Spec => [](backend # "mssql" => CellsFit)
<1>1. Inv => (backend # "mssql" => CellsFit)
  <2> SUFFICES ASSUME Inv, backend # "mssql", Fetched, NEW j \in DOMAIN rows
               PROVE  Cell(rows[j]) \in {"null", ltype}
    BY DEF CellsFit
  <2>1. Declared(rows, ltype) /\ others = {}
    BY DEF Inv, TypeInv
  <2>2. \A l \in DOMAIN rows : Cell(rows[l]) \in {"null", "integer"}
    BY <2>1 DEF Cell
  <2> QED BY <2>1, <2>2 DEF Declared
<1> QED BY <1>1, InvAlways, PTL

\* Whatever the parameters, the rows of the bind are those within their bounds
\* that were there all the time, none of them twice.
THEOREM RowsComeOnce == Spec => []EachRowOnce
<1>1. Inv => EachRowOnce
  <2> SUFFICES ASSUME Inv, Fetched, ~(Strategy = "offset" /\ writes > 0), OrderedAlike
               PROVE  ~RowTwice /\ ~RowMissed
    BY DEF EachRowOnce, OrderedAlike
  <2> DEFINE seqs == [p \in DOMAIN parts |-> results[p][1]]
  <2>1. /\ IsPlan(parts) /\ DOMAIN parts = 1..Len(parts) /\ Len(parts) \in Nat
        /\ \A p \in DOMAIN parts : Answered(p)
    <3>1. IsPlan(parts) /\ \A p \in DOMAIN parts : Answered(p)
      BY DEF Inv, PartsInv, RowsInv, Fetched
    <3> QED BY <3>1, PlanShape
  <2>2. /\ rows = FlattenSeq(seqs) /\ seqs \in Seq(Seq(Keys))
        /\ DOMAIN seqs = DOMAIN parts /\ Len(seqs) = Len(parts)
        /\ \A p \in DOMAIN parts : seqs[p] = results[p][1]
    <3>1. rows = FlattenSeq(seqs)
      BY DEF Inv, RowsInv, AllRows
    <3> QED BY <2>1, <3>1, AllRowsFacts
  <2>3. Steady /\ (Strategy = "offset" => kept = remote)
    BY DEF Inv, RemoteInv, Steady
  <2> HIDE DEF seqs
  <2>4. ASSUME NEW p \in DOMAIN parts
        PROVE  /\ seqs[p] \in Seq(Keys) /\ DOMAIN seqs[p] = 1..Len(seqs[p])
               /\ \A j, l \in DOMAIN seqs[p] : seqs[p][j] = seqs[p][l] => j = l
               /\ \A key \in ToSet(seqs[p]) : Selects(parts[p], key)
               /\ \A key \in kept : Selects(parts[p], key) => key \in ToSet(seqs[p])
    <3>1. /\ seqs[p] \in Seq(Keys)
          /\ \A j, l \in DOMAIN seqs[p] : seqs[p][j] = seqs[p][l] => j = l
          /\ \A key \in ToSet(seqs[p]) : Selects(parts[p], key)
          /\ \A key \in kept : Selects(parts[p], key) => key \in ToSet(seqs[p])
      BY <2>1, <2>2, <2>3 DEF Answered
    <3> QED BY <3>1
  <2>5. /\ \A key \in Keys : \A p, q \in DOMAIN parts :
              Selects(parts[p], key) /\ Selects(parts[q], key) => p = q
        /\ \A key \in kept :
              InBounds(key) => \E p \in DOMAIN parts : Selects(parts[p], key)
    BY <2>1, <2>3, PlanSelects DEF Inv, RemoteInv, Keys
  <2>6. rows \in Seq(Keys) /\ DOMAIN rows = 1..Len(rows) /\ Len(rows) \in Nat
    <3>1. rows \in Seq(Keys)
      BY DEF Inv, RowsInv
    <3> QED BY <3>1
  <2>7. PICK part, place : Placed(part, place, rows, seqs, Len(seqs))
    BY <2>2, FlattenPlaces
  <2>8. ASSUME NEW j \in 1..Len(rows)
        PROVE  /\ part[j] \in DOMAIN parts /\ place[j] \in DOMAIN seqs[part[j]]
               /\ rows[j] = seqs[part[j]][place[j]]
               /\ rows[j] \in Keys /\ Selects(parts[part[j]], rows[j])
    <3>1. /\ part[j] \in 1..Len(seqs) /\ place[j] \in 1..Len(seqs[part[j]])
          /\ rows[j] = seqs[part[j]][place[j]]
      BY <2>7 DEF Placed
    <3>2. part[j] \in DOMAIN parts /\ place[j] \in DOMAIN seqs[part[j]]
      BY <2>1, <2>2, <2>4, <3>1
    <3>3. rows[j] \in ToSet(seqs[part[j]])
      BY <3>1, <3>2 DEF ToSet
    <3> QED BY <2>4, <2>6, <3>1, <3>2, <3>3
  <2>9. ASSUME NEW j \in 1..Len(rows), NEW l \in 1..Len(rows), rows[j] = rows[l]
        PROVE  j = l
    <3>1. part[j] = part[l]
      BY <2>5, <2>8, <2>9
    <3>2. place[j] = place[l]
      BY <2>4, <2>8, <2>9, <3>1
    <3>3. ~(j < l) /\ ~(l < j)
      <4>1. part[j] \in Nat /\ part[l] \in Nat /\ place[j] \in Nat /\ place[l] \in Nat
        BY <2>7 DEF Placed
      <4>2. /\ j < l => part[j] < part[l] \/ (part[j] = part[l] /\ place[j] < place[l])
            /\ l < j => part[l] < part[j] \/ (part[l] = part[j] /\ place[l] < place[j])
        BY <2>7 DEF Placed
      <4> QED BY <3>1, <3>2, <4>1, <4>2
    <3> QED BY <3>3
  <2>10. ASSUME NEW row \in kept, InBounds(row) PROVE row \in ToSet(rows)
    <3>1. PICK p \in DOMAIN parts : row \in ToSet(seqs[p])
      BY <2>4, <2>5, <2>10
    <3>2. p \in 1..Len(seqs)
      BY <2>1, <2>2
    <3> QED BY <2>2, <3>1, <3>2, FlattenElements
  <2> QED BY <2>6, <2>9, <2>10 DEF RowTwice, RowMissed
<1> QED BY <1>1, InvAlways, PTL

=============================================================================
