---------------------------- MODULE StreamProofs ----------------------------
(***************************************************************************)
(* query_partitioned_stream keeps to the pool's protocol, yields its items *)
(* in order and completely, and leaves nothing behind.  For every number   *)
(* of partitions, rows, other callers and permits.                         *)
(***************************************************************************)
EXTENDS QueryStream, PoolProofs

-----------------------------------------------------------------------------
(* The pool under the stream.                                              *)

LEMMA StreamStepIsPoolStep == [StreamNext]_vars => [Next]_poolVars
<1> SUFFICES ASSUME [StreamNext]_vars PROVE [Next]_poolVars
  OBVIOUS
<1> USE DEF poolVars
<1>1. Me \in Callers /\ Partitions \subseteq Callers /\ Others \subseteq Callers
  BY StreamAssumption DEF Partitions, Others
<1>2. ASSUME NEW p \in Partitions, Start(p) \/ PartitionStep(p) PROVE Next
  BY <1>1, <1>2 DEF Start, PartitionStep, Next
<1>3. CASE YieldItem \/ TakeResult \/ EndOfStream \/ Pull \/ Interrupt \/ Answered
             \/ DropStream \/ Dropped
  BY <1>3 DEF YieldItem, TakeResult, EndOfStream, Pull, Interrupt, Answered, DropStream, Dropped
<1>4. CASE Ask \/ AskStep
  BY <1>1, <1>4 DEF Ask, AskStep, Next
<1>5. CASE DropNext
  BY <1>1, <1>5 DEF DropNext, Next
<1>6. ASSUME NEW c \in Others, OtherStep(c) PROVE Next
  BY <1>1, <1>6 DEF OtherStep, Next
<1>7. CASE LinkStep \/ UNCHANGED vars
  BY <1>7 DEF Next, vars
<1> QED
  BY <1>2, <1>3, <1>4, <1>5, <1>6, <1>7 DEF StreamNext, Poll

\* query_partitioned_stream: whatever the consumer does with the stream, its
\* partitions and its own query are callers that keep to the pool's protocol.
LEMMA StreamKeepsPool == StreamSpec => Spec
<1>1. StreamInit => Init
  BY DEF StreamInit
<1> QED
  BY <1>1, StreamStepIsPoolStep, PTL DEF StreamSpec, Spec

LEMMA PoolInvariant == StreamSpec => []Inv
BY StreamKeepsPool, InvAlways, PTL

-----------------------------------------------------------------------------
(* What a step of one caller leaves of the others.                         *)

LEMMA StepLeavesOthers ==
    ASSUME Inv, NEW c \in Callers, Get(c) \/ CallStep(c) \/ Drop(c),
           NEW d \in Callers, d # c
    PROVE  pc[d] \notin InFlight => pc'[d] = pc[d]
BY StepMovesOthers DEF InFlight, Holding

LEMMA StepIsInFlight ==
    ASSUME NEW c \in Callers, CallStep(c) \/ Drop(c)
    PROVE  pc[c] \in InFlight
BY StepIsUnderWay DEF InFlight

\* A partition that has come to its end stays as it is.
LEMMA SettledStays ==
    ASSUME Inv, [StreamNext]_vars, NEW p \in Partitions, pc[p] \in Settled
    PROVE  pc'[p] = pc[p]
<1>1. p \in Callers /\ p # Me /\ p \notin Others
  BY StreamAssumption DEF Partitions, Others
<1>2. pc[p] \notin InFlight /\ pc[p] # "fresh"
  BY DEF Settled, InFlight, Holding, Busy
<1>3. ASSUME NEW c \in Callers, CallStep(c) \/ Drop(c) \/ (Get(c) /\ c # p) PROVE pc'[p] = pc[p]
  <2>1. c # p
    BY <1>2, <1>3, StepIsInFlight
  <2> QED
    BY <1>1, <1>2, <1>3, <2>1, StepLeavesOthers
<1>4. Me \in Callers /\ Partitions \subseteq Callers /\ Others \subseteq Callers
  BY StreamAssumption DEF Partitions, Others
<1>5. ASSUME NEW q \in Partitions, Start(q) \/ PartitionStep(q) PROVE pc'[p] = pc[p]
  BY <1>2, <1>3, <1>4, <1>5 DEF Start, PartitionStep
<1>6. CASE YieldItem \/ TakeResult \/ EndOfStream \/ Pull \/ Interrupt \/ Answered
             \/ DropStream \/ Dropped
  BY <1>6 DEF YieldItem, TakeResult, EndOfStream, Pull, Interrupt, Answered, DropStream, Dropped
<1>7. CASE Ask \/ AskStep
  BY <1>1, <1>3, <1>4, <1>7 DEF Ask, AskStep
<1>8. CASE DropNext
  BY <1>3, <1>4, <1>8 DEF DropNext
<1>9. ASSUME NEW c \in Others, OtherStep(c) PROVE pc'[p] = pc[p]
  BY <1>1, <1>3, <1>4, <1>9 DEF OtherStep
<1>10. CASE LinkStep \/ UNCHANGED vars
  BY <1>10 DEF LinkStep, ConnectionDies, NoticeClosed, vars
<1> QED
  BY <1>5, <1>6, <1>7, <1>8, <1>9, <1>10 DEF StreamNext, Poll

\* Nobody but the consumer asks its query, and only a poll starts a partition.
LEMMA OnlyOwnersStart ==
    ASSUME Inv, [StreamNext]_vars
    PROVE  /\ pc[Me] \notin InFlight /\ ~Ask => pc'[Me] = pc[Me]
           /\ consumer # "polling" =>
                 \A p \in Partitions : pc[p] \notin InFlight => pc'[p] = pc[p]
<1>1. /\ Me \in Callers /\ Me \notin Partitions /\ Me \notin Others
      /\ Partitions \subseteq Callers /\ Others \subseteq Callers
      /\ \A p \in Partitions : p # Me /\ p \notin Others
  BY StreamAssumption DEF Partitions, Others
<1> DEFINE Alone(d) == pc[d] \notin InFlight => pc'[d] = pc[d]
<1>2. ASSUME NEW c \in Callers, CallStep(c) \/ Drop(c), NEW d \in Callers PROVE Alone(d)
  <2>1. CASE c = d
    BY <1>2, <2>1, StepIsInFlight
  <2>2. CASE c # d
    BY <1>2, <2>2, StepLeavesOthers
  <2> QED
    BY <2>1, <2>2
<1>3. ASSUME NEW c \in Callers, Get(c), NEW d \in Callers, d # c PROVE Alone(d)
  BY <1>3, StepLeavesOthers
<1> HIDE DEF Alone
<1>4. ASSUME NEW q \in Partitions, Start(q) \/ PartitionStep(q)
      PROVE  Alone(Me) /\ consumer = "polling"
  BY <1>1, <1>2, <1>3, <1>4 DEF Start, PartitionStep, PollsPartition, PollsFutures
<1>5. CASE YieldItem \/ TakeResult \/ EndOfStream \/ Pull \/ Interrupt \/ Answered
             \/ DropStream \/ Dropped \/ (LinkStep /\ UNCHANGED streamVars) \/ UNCHANGED vars
  <2>1. pc' = pc
    BY <1>5 DEF YieldItem, TakeResult, EndOfStream, Pull, Interrupt, Answered, DropStream,
                Dropped, LinkStep, ConnectionDies, NoticeClosed, vars
  <2> QED
    BY <2>1
<1>6. CASE Ask
  BY <1>1, <1>3, <1>6 DEF Ask, Alone
<1>7. ASSUME NEW c \in Callers, CallStep(c) \/ Drop(c)
      PROVE  Alone(Me) /\ \A p \in Partitions : Alone(p)
  BY <1>1, <1>2, <1>7
<1>8. CASE AskStep \/ DropNext
  BY <1>1, <1>7, <1>8 DEF AskStep, DropNext, Alone
<1>9. ASSUME NEW c \in Others, OtherStep(c)
      PROVE  Alone(Me) /\ \A p \in Partitions : Alone(p)
  BY <1>1, <1>3, <1>7, <1>9 DEF OtherStep
<1> QED
  BY <1>4, <1>5, <1>6, <1>8, <1>9 DEF StreamNext, Poll, Alone

-----------------------------------------------------------------------------
(* The consumer and the stream.                                            *)

StreamInv ==
    /\ consumer \in {"away", "polling", "asking", "ended", "dropping", "gone"}
    /\ upto \in 0..N
    /\ pc[Me] \in InFlight => consumer = "asking"
    /\ \A p \in 1..upto : pc[p] \in Settled
    /\ consumer = "ended" => upto = N /\ current = <<>>
    /\ consumer = "gone" => \A p \in Partitions : pc[p] \notin InFlight

LEMMA InitStreamInv == StreamInit => StreamInv
<1> SUFFICES ASSUME StreamInit PROVE StreamInv
  OBVIOUS
<1>1. pc[Me] = "fresh"
  BY StreamAssumption DEF StreamInit, Init
<1>2. upto = 0 /\ consumer = "away" /\ N \in Nat
  BY StreamAssumption DEF StreamInit
<1> QED
  BY <1>1, <1>2 DEF StreamInv, InFlight, Holding, Busy

LEMMA StepKeepsStreamInv ==
    ASSUME Inv, StreamInv, [StreamNext]_vars
    PROVE  StreamInv'
<1>1. /\ consumer' \in {"away", "polling", "asking", "ended", "dropping", "gone"}
      /\ consumer = "asking" /\ ~Answered => consumer' = "asking"
      /\ consumer' = "ended" => EndOfStream \/ (consumer = "ended" /\ UNCHANGED <<upto, current>>)
      /\ consumer' = "gone" => Dropped \/ consumer = "gone"
      /\ UNCHANGED upto \/ TakeResult
  BY DEF StreamInv, StreamNext, Poll, YieldItem, TakeResult, EndOfStream, Pull, Interrupt, Ask,
         AskStep, Answered, DropStream, DropNext, Dropped, Start, PartitionStep, OtherStep,
         PollsPartition, PollsFutures, streamVars, vars
<1>2. upto' \in 0..N
  BY <1>1, StreamAssumption DEF TakeResult, PollsFutures, Wanted, StreamInv
<1>3. pc'[Me] \in InFlight => consumer' = "asking"
  <2>1. CASE Ask
    BY <2>1 DEF Ask
  <2>2. CASE Answered
    BY <2>2 DEF Answered, Settled, InFlight, Holding, Busy
  <2>3. CASE ~Ask /\ ~Answered
    BY <1>1, <2>3, OnlyOwnersStart DEF StreamInv
  <2> QED
    BY <2>1, <2>2, <2>3
<1>4. \A p \in 1..upto' : pc'[p] \in Settled
  <2>1. \A p \in 1..upto : p \in Partitions /\ pc'[p] \in Settled
    BY SettledStays, StreamAssumption DEF StreamInv, Partitions
  <2>2. CASE TakeResult
    BY <2>1, <2>2 DEF TakeResult, Wanted, StreamInv
  <2> QED
    BY <1>1, <2>1, <2>2
<1>5. consumer' = "ended" => upto' = N /\ current' = <<>>
  BY <1>1 DEF EndOfStream, StreamInv
<1>6. consumer' = "gone" => \A p \in Partitions : pc'[p] \notin InFlight
  BY <1>1, OnlyOwnersStart DEF Dropped, StreamInv
<1> QED
  BY <1>1, <1>2, <1>3, <1>4, <1>5, <1>6 DEF StreamInv

LEMMA StreamInvariant == StreamSpec => [](Inv /\ StreamInv)
<1>1. Inv /\ StreamInv /\ [StreamNext]_vars => StreamInv'
  BY StepKeepsStreamInv
<1> QED
  BY <1>1, PoolInvariant, InitStreamInv, PTL DEF StreamSpec

\* The stream and the pool under it keep their types, and the consumer never
\* pulls while a query of its own is under way.
THEOREM StreamTypeCorrect == StreamSpec => []StreamTypeOK
<1>1. Inv /\ StreamInv => StreamTypeOK
  BY InvImpliesTypeOK DEF StreamInv, StreamTypeOK
<1> QED
  BY <1>1, StreamInvariant, PTL

\* A stream that has ended or been dropped leaves no partition queued and none
\* that holds a permit or a connection.
THEOREM StreamEndsClean == StreamSpec => []StreamLeavesNothing
<1>1. Inv /\ StreamInv => StreamLeavesNothing
  <2> SUFFICES ASSUME Inv, StreamInv, consumer \in {"gone", "ended"}, NEW p \in Partitions
               PROVE  pc[p] \notin InFlight /\ conn[p] = NoConn
    BY DEF StreamLeavesNothing
  <2>1. p \in Callers
    BY StreamAssumption DEF Partitions
  <2>2. pc[p] \notin InFlight
    BY DEF StreamInv, Partitions, Settled, InFlight, Holding, Busy
  <2> QED
    BY <2>1, <2>2 DEF Inv, LoanInv, OnLoan, InFlight, Holding, Busy
<1> QED
  BY <1>1, StreamInvariant, PTL

-----------------------------------------------------------------------------
(* The items: what has been yielded, and what the partition at hand has    *)
(* left to yield.                                                          *)

Item == Partitions \X Nat

Before(x, y) == x[1] < y[1] \/ (x[1] = y[1] /\ x[2] < y[2])
Ordered(s)   == \A i, j \in DOMAIN s : i < j => Before(s[i], s[j])

\* What the items of a set say of partition p.
About(S, p) == {x[2] : x \in {y \in S : y[1] = p}}

\* What partition p is to yield in all.
Due(p) == IF pc[p] = "ok" THEN 1..RowCount[p] ELSE {0}

LEMMA AppendItem ==
    ASSUME NEW s \in Seq(Item), Ordered(s), NEW x \in Item, \A y \in Elements(s) : Before(y, x)
    PROVE  /\ Append(s, x) \in Seq(Item)
           /\ Ordered(Append(s, x))
           /\ Elements(Append(s, x)) = Elements(s) \union {x}
<1>1. /\ Append(s, x) \in Seq(Item)
      /\ Len(Append(s, x)) = Len(s) + 1
      /\ \A i \in 1..Len(s) : Append(s, x)[i] = s[i]
      /\ Append(s, x)[Len(s) + 1] = x
  BY AppendProperties
<1>2. Len(s) \in Nat /\ DOMAIN s = 1..Len(s) /\ DOMAIN Append(s, x) = 1..(Len(s) + 1)
  BY <1>1, LenProperties
<1> DEFINE t == Append(s, x)
<1> HIDE DEF t
<1>3. Ordered(t)
  <2> SUFFICES ASSUME NEW i \in 1..(Len(s) + 1), NEW j \in 1..(Len(s) + 1), i < j
               PROVE  Before(t[i], t[j])
    BY <1>2 DEF Ordered, t
  <2>1. i \in 1..Len(s) /\ t[i] = s[i]
    BY <1>1, <1>2 DEF t
  <2>2. CASE j \in 1..Len(s)
    BY <1>1, <1>2, <2>1, <2>2 DEF Ordered, t
  <2>3. CASE j = Len(s) + 1
    <3>1. s[i] \in Elements(s)
      BY <1>2, <2>1 DEF Elements
    <3>2. t[j] = x
      BY <1>1, <2>3 DEF t
    <3> QED
      BY <2>1, <3>1, <3>2
  <2> QED
    BY <1>2, <2>2, <2>3
<1>4. Elements(t) = Elements(s) \union {x}
  <2>1. Elements(t) \subseteq Elements(s) \union {x}
    <3> SUFFICES ASSUME NEW i \in 1..(Len(s) + 1) PROVE t[i] \in Elements(s) \union {x}
      BY <1>2 DEF Elements, t
    <3>1. CASE i \in 1..Len(s)
      BY <1>1, <1>2, <3>1 DEF Elements, t
    <3>2. CASE i = Len(s) + 1
      BY <1>1, <3>2 DEF t
    <3> QED
      BY <1>2, <3>1, <3>2
  <2>2. Elements(s) \subseteq Elements(t)
    BY <1>1, <1>2 DEF Elements, t
  <2>3. x \in Elements(t)
    BY <1>1, <1>2 DEF Elements, t
  <2> QED
    BY <2>1, <2>2, <2>3
<1> QED
  BY <1>1, <1>3, <1>4 DEF t

LEMMA TakeItem ==
    ASSUME NEW s \in Seq(Item), Ordered(s), s # <<>>
    PROVE  /\ Head(s) \in Elements(s) /\ Head(s) \in Item
           /\ Tail(s) \in Seq(Item) /\ Ordered(Tail(s))
           /\ Elements(s) = Elements(Tail(s)) \union {Head(s)}
           /\ \A y \in Elements(Tail(s)) : Before(Head(s), y)
<1>1. /\ Len(s) \in Nat \ {0}
      /\ DOMAIN s = 1..Len(s)
  BY LenProperties, EmptySeq
<1>2. /\ Head(s) = s[1]
      /\ Tail(s) \in Seq(Item)
      /\ Len(Tail(s)) = Len(s) - 1
      /\ \A i \in 1..(Len(s) - 1) : Tail(s)[i] = s[i + 1]
  BY <1>1, HeadTailProperties
<1>3. DOMAIN Tail(s) = 1..(Len(s) - 1)
  BY <1>2, LenProperties
<1>4. Head(s) \in Elements(s) /\ Head(s) \in Item
  BY <1>1, <1>2 DEF Elements
<1> DEFINE t == Tail(s)
<1> HIDE DEF t
<1>5. \A i \in 1..(Len(s) - 1) : t[i] = s[i + 1] /\ i + 1 \in 1..Len(s)
  BY <1>1, <1>2 DEF t
<1>6. Ordered(t)
  BY <1>1, <1>3, <1>5 DEF Ordered, t
<1>7. \A i \in 1..(Len(s) - 1) : Before(s[1], t[i])
  BY <1>1, <1>5 DEF Ordered
<1>8. \A y \in Elements(t) : Before(Head(s), y)
  BY <1>2, <1>3, <1>7 DEF Elements, t
<1>9. Elements(s) = Elements(t) \union {Head(s)}
  <2>1. Elements(t) \subseteq Elements(s)
    BY <1>1, <1>3, <1>5 DEF Elements, t
  <2>2. ASSUME NEW j \in 1..Len(s) PROVE s[j] \in Elements(t) \union {s[1]}
    <3>1. CASE j = 1
      BY <3>1
    <3>2. CASE j # 1
      <4>1. j - 1 \in 1..(Len(s) - 1) /\ (j - 1) + 1 = j
        BY <1>1, <3>2
      <4>2. t[j - 1] = s[j]
        BY <1>5, <4>1
      <4>3. DOMAIN t = 1..(Len(s) - 1)
        BY <1>3 DEF t
      <4> QED
        BY <4>1, <4>2, <4>3 DEF Elements
    <3> QED
      BY <3>1, <3>2
  <2> QED
    BY <1>1, <1>2, <1>4, <2>1, <2>2 DEF Elements
<1> QED
  BY <1>2, <1>4, <1>6, <1>8, <1>9 DEF t

\* A settled partition's items: its rows in order, or one Err.
LEMMA ItemsOfPartition ==
    ASSUME NEW p \in Partitions
    PROVE  /\ Items(p) \in Seq(Item) /\ Ordered(Items(p))
           /\ \A y \in Elements(Items(p)) : y[1] = p
           /\ {y[2] : y \in Elements(Items(p))} = Due(p)
<1>1. RowCount[p] \in Nat /\ p \in Nat
  BY StreamAssumption DEF Partitions
<1>2. CASE pc[p] = "ok"
  <2> DEFINE s == [i \in 1..RowCount[p] |-> <<p, i>>]
  <2>1. Items(p) = s /\ DOMAIN s = 1..RowCount[p] /\ Due(p) = 1..RowCount[p]
    BY <1>2 DEF Items, Due
  <2>2. \A i \in 1..RowCount[p] : s[i] = <<p, i>> /\ <<p, i>> \in Item
    BY <1>1 DEF Item
  <2>3. s \in Seq(Item)
    <3>1. s \in [1..RowCount[p] -> Item]
      BY <2>2
    <3> HIDE DEF s
    <3> QED
      BY <1>1, <3>1, SeqDef
  <2>4. Ordered(s)
    BY <1>1, <2>1, <2>2 DEF Ordered, Before
  <2>5. \A y \in Elements(s) : y[1] = p
    BY <2>1, <2>2 DEF Elements
  <2>6. {y[2] : y \in Elements(s)} = 1..RowCount[p]
    <3>1. \A i \in 1..RowCount[p] : <<p, i>> \in Elements(s) /\ <<p, i>>[2] = i
      BY <2>1, <2>2 DEF Elements
    <3>2. \A y \in Elements(s) : y[2] \in 1..RowCount[p]
      BY <2>1, <2>2 DEF Elements
    <3> QED
      BY <3>1, <3>2
  <2> QED
    BY <2>1, <2>3, <2>4, <2>5, <2>6
<1>3. CASE pc[p] # "ok"
  <2> DEFINE s == << <<p, 0>> >>
  <2>1. Items(p) = s /\ Due(p) = {0}
    BY <1>3 DEF Items, Due
  <2>2. <<p, 0>> \in Item
    BY DEF Item
  <2>3. s \in Seq(Item) /\ DOMAIN s = {1} /\ s[1] = <<p, 0>>
    BY <2>2
  <2>4. Elements(s) = {<<p, 0>>} /\ Ordered(s)
    BY <2>3 DEF Elements, Ordered
  <2> QED
    BY <2>1, <2>3, <2>4
<1> QED
  BY <1>2, <1>3

TakenUp == Elements(seen) \union Elements(current)

OrderInv ==
    /\ seen \in Seq(Item) /\ Ordered(seen)
    /\ current \in Seq(Item) /\ Ordered(current)
    /\ \A x \in Elements(seen) : x[1] <= upto
    /\ \A y \in Elements(current) : y[1] = upto
    /\ \A x \in Elements(seen), y \in Elements(current) : Before(x, y)

ItemInv == OrderInv /\ \A p \in 1..upto : About(TakenUp, p) = Due(p)

LEMMA InitItemInv == StreamInit => ItemInv
<1> SUFFICES ASSUME StreamInit PROVE ItemInv
  OBVIOUS
<1>1. seen = <<>> /\ current = <<>> /\ upto = 0
  BY DEF StreamInit
<1>2. <<>> \in Seq(Item) /\ Ordered(<<>>) /\ Elements(<<>>) = {}
  BY EmptySeq DEF Ordered, Elements
<1> QED
  BY <1>1, <1>2 DEF ItemInv, OrderInv

LEMMA YieldKeepsItems ==
    ASSUME StreamInv, ItemInv, YieldItem
    PROVE  ItemInv'
<1> DEFINE x == Head(current)
<1>1. /\ seen' = Append(seen, x) /\ current' = Tail(current)
      /\ current # <<>> /\ UNCHANGED <<pc, upto>>
  BY DEF YieldItem
<1>2. /\ x \in Elements(current) /\ x \in Item
      /\ current' \in Seq(Item) /\ Ordered(current')
      /\ Elements(current) = Elements(current') \union {x}
      /\ \A y \in Elements(current') : Before(x, y)
  BY <1>1, TakeItem DEF ItemInv, OrderInv
<1> HIDE DEF x
<1>3. \A y \in Elements(seen) : Before(y, x)
  BY <1>2 DEF ItemInv, OrderInv
<1>4. /\ seen' \in Seq(Item) /\ Ordered(seen')
      /\ Elements(seen') = Elements(seen) \union {x}
  BY <1>1, <1>2, <1>3, AppendItem DEF ItemInv, OrderInv
<1>5. TakenUp' = TakenUp
  BY <1>2, <1>4 DEF TakenUp
<1>6. x[1] = upto /\ upto \in Int
  BY <1>2, StreamAssumption DEF ItemInv, OrderInv, StreamInv
<1>7. \A y \in Elements(seen') : y[1] <= upto
  BY <1>4, <1>6 DEF ItemInv, OrderInv
<1>8. \A y \in Elements(current') : y[1] = upto
  BY <1>2 DEF ItemInv, OrderInv
<1>9. \A y \in Elements(seen'), z \in Elements(current') : Before(y, z)
  BY <1>2, <1>4 DEF ItemInv, OrderInv
<1>10. OrderInv'
  BY <1>1, <1>2, <1>4, <1>7, <1>8, <1>9 DEF OrderInv
<1>11. \A p : Due(p)' = Due(p)
  BY <1>1 DEF Due
<1> QED
  BY <1>1, <1>5, <1>10, <1>11 DEF ItemInv

LEMMA TakeKeepsItems ==
    ASSUME StreamInv, ItemInv, TakeResult
    PROVE  ItemInv'
<1>1. /\ current = <<>> /\ current' = Items(Wanted)
      /\ UNCHANGED <<pc, seen>> /\ upto' = Wanted
      /\ Wanted \in Partitions /\ Wanted = upto + 1 /\ upto \in Nat
  BY StreamAssumption DEF TakeResult, PollsFutures, Wanted, StreamInv, Partitions
<1> DEFINE new == Items(Wanted)
<1>2. /\ new \in Seq(Item) /\ Ordered(new)
      /\ \A y \in Elements(new) : y[1] = Wanted
      /\ {y[2] : y \in Elements(new)} = Due(Wanted)
  BY <1>1, ItemsOfPartition
<1>3. current' = new
  BY <1>1
<1> HIDE DEF new
<1>4. Elements(seen) \subseteq Item /\ \A x \in Elements(seen) : x[1] <= upto /\ x[1] \in Nat
  BY LenProperties DEF ItemInv, OrderInv, Elements, Item, Partitions
<1>5. \A x \in Elements(seen), y \in Elements(new) : Before(x, y)
  BY <1>1, <1>2, <1>4 DEF Before
<1>6. \A x \in Elements(seen) : x[1] <= Wanted
  BY <1>1, <1>4
<1>7. OrderInv'
  BY <1>1, <1>2, <1>3, <1>5, <1>6 DEF ItemInv, OrderInv
<1>8. TakenUp = Elements(seen) /\ TakenUp' = Elements(seen) \union Elements(new)
  BY <1>1, <1>3 DEF TakenUp, Elements
<1>9. \A p : Due(p)' = Due(p)
  BY <1>1 DEF Due
<1>10. ASSUME NEW p \in 1..upto PROVE About(TakenUp', p) = Due(p)
  <2>1. {y \in TakenUp' : y[1] = p} = {y \in TakenUp : y[1] = p}
    BY <1>1, <1>2, <1>8
  <2> QED
    BY <2>1 DEF ItemInv, About
<1>11. About(TakenUp', Wanted) = Due(Wanted)
  <2>1. {y \in TakenUp' : y[1] = Wanted} = Elements(new)
    BY <1>1, <1>2, <1>4, <1>8
  <2> QED
    BY <1>2, <2>1 DEF About
<1>12. \A p \in 1..Wanted : About(TakenUp', p) = Due(p)
  BY <1>1, <1>10, <1>11
<1> QED
  BY <1>1, <1>7, <1>9, <1>12 DEF ItemInv

LEMMA StepKeepsItems ==
    ASSUME Inv, StreamInv, ItemInv, [StreamNext]_vars
    PROVE  ItemInv'
<1>1. CASE YieldItem
  BY <1>1, YieldKeepsItems
<1>2. CASE TakeResult
  BY <1>2, TakeKeepsItems
<1>3. CASE ~YieldItem /\ ~TakeResult
  <2>1. UNCHANGED <<upto, current, seen>>
    BY <1>3 DEF StreamNext, Poll, EndOfStream, Pull, Interrupt, Ask, AskStep, Answered, DropStream,
                DropNext, Dropped, Start, PartitionStep, OtherStep, streamVars, vars
  <2>2. \A p \in 1..upto : p \in Partitions /\ pc'[p] = pc[p]
    BY SettledStays, StreamAssumption DEF StreamInv, Partitions
  <2>3. \A p \in 1..upto : Due(p)' = Due(p)
    BY <2>2 DEF Due
  <2> QED
    BY <2>1, <2>3 DEF ItemInv, OrderInv, TakenUp
<1> QED
  BY <1>1, <1>2, <1>3

LEMMA ItemInvariant == StreamSpec => [](Inv /\ StreamInv /\ ItemInv)
<1>1. Inv /\ StreamInv /\ ItemInv /\ [StreamNext]_vars => ItemInv'
  BY StepKeepsItems
<1> QED
  BY <1>1, StreamInvariant, InitItemInv, PTL DEF StreamSpec

\* query_partitioned_stream: items come in partition order and, within one, in
\* row order, whichever partition finishes first.
THEOREM ItemsComeInOrder == StreamSpec => []ItemsInOrder
<1>1. ItemInv => ItemsInOrder
  BY DEF ItemInv, OrderInv, Ordered, Before, ItemsInOrder
<1> QED
  BY <1>1, ItemInvariant, PTL

\* A partition the stream has passed has yielded all of its rows, each of them,
\* or one Err in its place.
THEOREM NoItemSkipped == StreamSpec => []NothingSkipped
<1> DEFINE passed == IF consumer = "ended" THEN N
                     ELSE IF current = <<>> THEN upto ELSE upto - 1
           of(p)  == {i \in DOMAIN seen : seen[i][1] = p}
<1>1. ASSUME StreamInv, ItemInv, NEW p \in 1..passed
      PROVE  /\ {seen[i][2] : i \in of(p)} = Due(p)
             /\ pc[p] \in Settled
  <2>1. p \in 1..upto /\ (current = <<>> \/ p # upto)
    BY <1>1, StreamAssumption DEF StreamInv
  <2>2. \A y \in Elements(current) : y[1] # p
    BY <1>1, <2>1 DEF ItemInv, OrderInv, Elements
  <2>3. {y \in TakenUp : y[1] = p} = {y \in Elements(seen) : y[1] = p}
    BY <2>2 DEF TakenUp
  <2>4. {seen[i][2] : i \in of(p)} = About(Elements(seen), p)
    BY DEF About, Elements
  <2>5. About(TakenUp, p) = About(Elements(seen), p)
    BY <2>3 DEF About
  <2> QED
    BY <1>1, <2>1, <2>4, <2>5 DEF ItemInv, StreamInv
<1>2. StreamInv /\ ItemInv => NothingSkipped
  BY <1>1 DEF NothingSkipped, Due
<1> QED
  BY <1>2, ItemInvariant, PTL

=============================================================================
