----------------------------- MODULE PoolProofs -----------------------------
(***************************************************************************)
(* For every set of callers and every max_connections: the invariants of   *)
(* Pool.  The permit half (PermitInv) is inductive on its own; the         *)
(* connection half (LoanInv) rests on it.                                  *)
(***************************************************************************)
EXTENDS Pool, FiniteSetTheorems, SequenceTheorems, TLAPS

-----------------------------------------------------------------------------
(* Queues without repetition.                                              *)

Distinct(q)  == \A i, j \in DOMAIN q : q[i] = q[j] => i = j
Elements(q)  == {q[i] : i \in DOMAIN q}

LEMMA AppendQueue ==
    ASSUME NEW S, NEW q \in Seq(S), Distinct(q), NEW e \in S, e \notin Elements(q)
    PROVE  /\ Append(q, e) \in Seq(S)
           /\ Distinct(Append(q, e))
           /\ Elements(Append(q, e)) = Elements(q) \union {e}
<1>1. /\ Append(q, e) \in Seq(S)
      /\ Len(Append(q, e)) = Len(q) + 1
      /\ \A i \in 1..Len(q) : Append(q, e)[i] = q[i]
      /\ Append(q, e)[Len(q) + 1] = e
  BY AppendProperties
<1>2. /\ Len(q) \in Nat
      /\ DOMAIN q = 1..Len(q)
      /\ DOMAIN Append(q, e) = 1..(Len(q) + 1)
  BY <1>1, LenProperties
<1>3. \A i \in 1..(Len(q) + 1) : i \in 1..Len(q) \/ i = Len(q) + 1
  BY <1>2
<1>4. Distinct(Append(q, e))
  BY <1>1, <1>2, <1>3 DEF Distinct, Elements
<1>5. Elements(Append(q, e)) = Elements(q) \union {e}
  <2>1. Elements(Append(q, e)) \subseteq Elements(q) \union {e}
    BY <1>1, <1>2, <1>3 DEF Elements
  <2>2. Elements(q) \subseteq Elements(Append(q, e))
    BY <1>1, <1>2 DEF Elements
  <2>3. e \in Elements(Append(q, e))
    BY <1>1, <1>2 DEF Elements
  <2> QED BY <2>1, <2>2, <2>3
<1> QED BY <1>1, <1>4, <1>5

LEMMA TailQueue ==
    ASSUME NEW S, NEW q \in Seq(S), Distinct(q), q # <<>>
    PROVE  /\ Head(q) \in Elements(q)
           /\ Tail(q) \in Seq(S)
           /\ Distinct(Tail(q))
           /\ Elements(Tail(q)) = Elements(q) \ {Head(q)}
<1>1. /\ Len(q) \in Nat \ {0}
      /\ DOMAIN q = 1..Len(q)
  BY LenProperties, EmptySeq
<1>2. /\ Head(q) = q[1]
      /\ Tail(q) \in Seq(S)
      /\ Len(Tail(q)) = Len(q) - 1
      /\ \A i \in 1..(Len(q) - 1) : Tail(q)[i] = q[i + 1]
  BY <1>1, HeadTailProperties
<1>3. DOMAIN Tail(q) = 1..(Len(q) - 1)
  BY <1>2, LenProperties
<1>4. Head(q) \in Elements(q)
  BY <1>1, <1>2 DEF Elements
<1>5. Distinct(Tail(q))
  BY <1>1, <1>2, <1>3 DEF Distinct
<1>6. Elements(Tail(q)) = Elements(q) \ {Head(q)}
  <2>1. ASSUME NEW x \in Elements(Tail(q))
        PROVE  x \in Elements(q) \ {Head(q)}
    <3>1. PICK i \in 1..(Len(q) - 1) : x = q[i + 1]
      BY <1>2, <1>3 DEF Elements
    <3>2. i + 1 \in 1..Len(q) /\ i + 1 # 1 /\ 1 \in 1..Len(q)
      BY <1>1
    <3> QED BY <3>1, <3>2, <1>1, <1>2 DEF Elements, Distinct
  <2>2. ASSUME NEW x \in Elements(q) \ {Head(q)}
        PROVE  x \in Elements(Tail(q))
    <3>1. PICK i \in 1..Len(q) : x = q[i] /\ i # 1
      BY <1>1, <1>2 DEF Elements
    <3>2. i - 1 \in 1..(Len(q) - 1) /\ (i - 1) + 1 = i
      BY <1>1, <3>1
    <3> QED BY <3>1, <3>2, <1>2, <1>3 DEF Elements
  <2> QED BY <2>1, <2>2
<1> QED BY <1>2, <1>4, <1>5, <1>6

LEMMA RemoveAtQueue ==
    ASSUME NEW S, NEW q \in Seq(S), Distinct(q), NEW n \in 1..Len(q)
    PROVE  /\ RemoveAt(q, n) \in Seq(S)
           /\ Distinct(RemoveAt(q, n))
           /\ Elements(RemoveAt(q, n)) = Elements(q) \ {q[n]}
<1> DEFINE front == SubSeq(q, 1, n - 1)
           back  == SubSeq(q, n + 1, Len(q))
           r     == RemoveAt(q, n)
<1>1. /\ Len(q) \in Nat
      /\ DOMAIN q = 1..Len(q)
      /\ n \in Int
  BY LenProperties
<1>2. /\ front \in Seq(S)
      /\ Len(front) = n - 1
      /\ \A i \in 1..(n - 1) : front[i] = q[i]
  <2>1. \A i \in 1..(n - 1) : q[i] \in S
    BY <1>1, ElementOfSeq
  <2> QED BY <1>1, <2>1, SubSeqProperties
<1>3. /\ back \in Seq(S)
      /\ Len(back) = Len(q) - n
      /\ \A i \in 1..(Len(q) - n) : back[i] = q[n + i]
  <2>1. \A i \in (n + 1)..Len(q) : q[i] \in S
    BY <1>1, ElementOfSeq
  <2>2. /\ back \in Seq(S)
        /\ Len(back) = IF n + 1 <= Len(q) THEN Len(q) - (n + 1) + 1 ELSE 0
        /\ \A i \in 1..(Len(q) - (n + 1) + 1) : back[i] = q[(n + 1) + i - 1]
    BY <1>1, <2>1, SubSeqProperties
  <2> HIDE DEF back
  <2>3. Len(back) = Len(q) - n
    <3>1. CASE n + 1 <= Len(q)
      BY <3>1, <1>1, <2>2
    <3>2. CASE ~(n + 1 <= Len(q))
      <4>1. Len(back) = 0
        BY <3>2, <2>2
      <4>2. Len(q) \in Int /\ n \in Int /\ n <= Len(q) /\ ~(n + 1 <= Len(q))
        BY <3>2, <1>1
      <4>3. Len(q) - n = 0
        BY ONLY <4>2
      <4> QED BY <4>1, <4>3
    <3> QED BY <3>1, <3>2
  <2>4. ASSUME NEW i \in 1..(Len(q) - n)
        PROVE  back[i] = q[n + i]
    <3>1. i \in 1..(Len(q) - (n + 1) + 1) /\ (n + 1) + i - 1 = n + i
      BY <1>1
    <3> QED BY <3>1, <2>2
  <2> QED BY <2>2, <2>3, <2>4
<1>4. /\ r \in Seq(S)
      /\ Len(r) = Len(q) - 1
      /\ \A i \in 1..(Len(q) - 1) :
            r[i] = IF i <= n - 1 THEN q[i] ELSE q[i + 1]
  <2>1. r = front \o back
    BY DEF RemoveAt
  <2> HIDE DEF front, back, r
  <2>2. /\ r \in Seq(S)
        /\ Len(r) = Len(front) + Len(back)
        /\ \A i \in 1..(Len(front) + Len(back)) :
              r[i] = IF i <= Len(front) THEN front[i] ELSE back[i - Len(front)]
    BY <1>2, <1>3, <2>1, ConcatProperties
  <2>3. Len(front) + Len(back) = Len(q) - 1
    BY <1>1, <1>2, <1>3
  <2>4. ASSUME NEW i \in 1..(Len(q) - 1)
        PROVE  r[i] = IF i <= n - 1 THEN q[i] ELSE q[i + 1]
    <3>1. r[i] = IF i <= n - 1 THEN front[i] ELSE back[i - (n - 1)]
      BY <1>2, <2>2, <2>3
    <3>2. CASE i <= n - 1
      BY <3>1, <3>2, <1>1, <1>2
    <3>3. CASE ~(i <= n - 1)
      <4>1. i - (n - 1) \in 1..(Len(q) - n) /\ n + (i - (n - 1)) = i + 1
        BY <1>1, <3>3
      <4>2. back[i - (n - 1)] = q[n + (i - (n - 1))]
        BY <4>1, <1>3
      <4> QED BY <3>1, <3>3, <4>1, <4>2
    <3> QED BY <3>2, <3>3
  <2> QED BY <2>2, <2>3, <2>4
<1> HIDE DEF front, back, r
<1>5. DOMAIN r = 1..(Len(q) - 1)
  BY <1>1, <1>4, LenProperties
<1>6. Distinct(r)
  <2> SUFFICES ASSUME NEW i \in 1..(Len(q) - 1), NEW j \in 1..(Len(q) - 1),
                      r[i] = r[j]
               PROVE  i = j
    BY <1>5 DEF Distinct
  <2> DEFINE at(m) == IF m <= n - 1 THEN m ELSE m + 1
  <2>1. at(i) \in 1..Len(q) /\ at(j) \in 1..Len(q)
    BY <1>1
  <2>2. r[i] = q[at(i)] /\ r[j] = q[at(j)]
    BY <1>4
  <2>3. at(i) = at(j)
    <3> HIDE DEF at
    <3> QED BY <2>1, <2>2, <1>1 DEF Distinct
  <2> QED BY <2>3, <1>1
<1>7. Elements(r) = Elements(q) \ {q[n]}
  <2>1. ASSUME NEW x \in Elements(r)
        PROVE  x \in Elements(q) \ {q[n]}
    <3>1. PICK i \in 1..(Len(q) - 1) : x = r[i]
      BY <1>5 DEF Elements
    <3>2. ASSUME NEW k \in 1..Len(q), k # n
          PROVE  q[k] \in Elements(q) /\ q[k] # q[n]
      <4>1. k \in DOMAIN q /\ n \in DOMAIN q
        BY <1>1
      <4> QED BY <3>2, <4>1 DEF Elements, Distinct
    <3>3. CASE i <= n - 1
      <4>1. i \in 1..Len(q) /\ i # n
        BY <3>3, <1>1
      <4>2. x = q[i]
        BY <3>1, <3>3, <1>4
      <4> QED BY <3>2, <4>1, <4>2
    <3>4. CASE ~(i <= n - 1)
      <4>1. i + 1 \in 1..Len(q) /\ i + 1 # n
        BY <3>4, <1>1
      <4>2. x = q[i + 1]
        BY <3>1, <3>4, <1>4
      <4> QED BY <3>2, <4>1, <4>2
    <3> QED BY <3>3, <3>4
  <2>2. ASSUME NEW x \in Elements(q) \ {q[n]}
        PROVE  x \in Elements(r)
    <3>1. PICK i \in 1..Len(q) : x = q[i] /\ i # n
      BY <1>1 DEF Elements
    <3>2. CASE i <= n - 1
      <4>1. i \in 1..(Len(q) - 1)
        BY <3>2, <1>1
      <4> QED BY <3>1, <3>2, <4>1, <1>4, <1>5 DEF Elements
    <3>3. CASE ~(i <= n - 1)
      <4>1. i - 1 \in 1..(Len(q) - 1) /\ ~(i - 1 <= n - 1) /\ (i - 1) + 1 = i
        BY <3>1, <3>3, <1>1
      <4> QED BY <3>1, <4>1, <1>4, <1>5 DEF Elements
    <3> QED BY <3>2, <3>3
  <2> QED BY <2>1, <2>2
<1> QED BY <1>4, <1>6, <1>7 DEF r

-----------------------------------------------------------------------------
(* Permits and the queue.                                                  *)

PermitInv ==
    /\ pc \in [Callers -> States]
    /\ waiters \in Seq(Callers)
    /\ permits \in Nat
    /\ PermitAccounting
    /\ WorkConserving

\* What PermitInv says of the queue, in the terms of the lemmas above.
LEMMA QueueFacts ==
    ASSUME PermitInv
    PROVE  /\ Distinct(waiters)
           /\ Elements(waiters) = InState({"waiting"})
           /\ IsFiniteSet(PermitOwners)
           /\ Cardinality(PermitOwners) \in Nat
<1>1. Distinct(waiters) /\ Elements(waiters) = InState({"waiting"})
  BY DEF PermitInv, WorkConserving, Distinct, Elements
<1>2. PermitOwners \subseteq Callers
  BY DEF PermitOwners, InState
<1> QED BY <1>1, <1>2, PoolAssumption, FS_Subset, FS_CardinalityType

\* How the count of permit owners moves when one caller changes state.
LEMMA OwnerLeaves ==
    ASSUME PermitInv, NEW c \in PermitOwners
    PROVE  Cardinality(PermitOwners \ {c}) = Cardinality(PermitOwners) - 1
BY QueueFacts, FS_RemoveElement

LEMMA OwnerJoins ==
    ASSUME PermitInv, NEW c \in Callers, c \notin PermitOwners
    PROVE  Cardinality(PermitOwners \union {c}) = Cardinality(PermitOwners) + 1
BY QueueFacts, FS_AddElement

LEMMA OwnerReplaced ==
    ASSUME PermitInv, NEW c \in PermitOwners, NEW d \in Callers, d \notin PermitOwners
    PROVE  Cardinality((PermitOwners \ {c}) \union {d}) = Cardinality(PermitOwners)
<1>1. /\ IsFiniteSet(PermitOwners \ {c})
      /\ Cardinality(PermitOwners \ {c}) = Cardinality(PermitOwners) - 1
  BY QueueFacts, FS_RemoveElement
<1>2. d \notin PermitOwners \ {c}
  OBVIOUS
<1>3. Cardinality((PermitOwners \ {c}) \union {d}) = Cardinality(PermitOwners \ {c}) + 1
  BY <1>1, <1>2, FS_AddElement
<1> QED BY <1>1, <1>3, QueueFacts

\* Release keeps the permit half of the invariant, and takes the connection
\* from nobody but c.
LEMMA ReleaseKeepsPermits ==
    ASSUME PermitInv, NEW c \in Callers, pc[c] \in Holding,
           NEW outcome \in Settled, Release(c, outcome)
    PROVE  /\ PermitInv'
           /\ \A d \in Callers \ {c} : pc'[d] \in Busy <=> pc[d] \in Busy
           /\ \A d \in Callers \ {c} : pc[d] \in Busy => pc'[d] = pc[d]
           /\ pc'[c] = outcome
<1> USE DEF States, Holding, Busy, Settled
<1>0. c \in PermitOwners
  BY DEF PermitOwners, InState
<1>1. CASE waiters = <<>> /\ permits' = permits + 1
             /\ pc' = [pc EXCEPT ![c] = outcome] /\ UNCHANGED waiters
  <2>1. PermitOwners' = PermitOwners \ {c}
    BY <1>1 DEF PermitInv, PermitOwners, InState
  <2>2. PermitAccounting'
    BY <1>0, <1>1, <2>1, OwnerLeaves, QueueFacts, PoolAssumption
    DEF PermitInv, PermitAccounting
  <2>3. InState({"waiting"})' = InState({"waiting"})
    BY <1>1 DEF PermitInv, InState
  <2>4. WorkConserving'
    BY <1>1, <2>3 DEF PermitInv, WorkConserving
  <2> QED BY <1>1, <2>2, <2>4 DEF PermitInv
<1>2. CASE waiters # <<>> /\ pc' = [pc EXCEPT ![c] = outcome, ![Head(waiters)] = "granted"]
             /\ waiters' = Tail(waiters) /\ UNCHANGED permits
  <2> DEFINE h == Head(waiters)
  <2>1. /\ h \in Elements(waiters)
        /\ Tail(waiters) \in Seq(Callers)
        /\ Distinct(Tail(waiters))
        /\ Elements(Tail(waiters)) = Elements(waiters) \ {h}
    BY <1>2, QueueFacts, TailQueue DEF PermitInv
  <2>2. h \in Callers /\ pc[h] = "waiting" /\ h # c /\ h \notin PermitOwners
    BY <2>1, QueueFacts DEF InState, PermitOwners
  <2> HIDE DEF h
  <2>3. pc' = [pc EXCEPT ![c] = outcome, ![h] = "granted"]
    BY <1>2 DEF h
  <2>4. PermitOwners' = (PermitOwners \ {c}) \union {h}
    BY <2>2, <2>3 DEF PermitInv, PermitOwners, InState
  <2>5. PermitAccounting'
    BY <1>0, <1>2, <2>2, <2>4, OwnerReplaced, PoolAssumption
    DEF PermitInv, PermitAccounting
  <2>6. InState({"waiting"})' = InState({"waiting"}) \ {h}
    BY <2>2, <2>3 DEF PermitInv, InState
  <2>7. permits = 0
    BY <1>2 DEF PermitInv, WorkConserving
  <2>8. WorkConserving'
    <3>1. Elements(waiters') = InState({"waiting"})' /\ Distinct(waiters')
      BY <1>2, <2>1, <2>6, QueueFacts DEF h
    <3>2. permits' = 0
      BY <1>2, <2>7
    <3> QED BY <3>1, <3>2 DEF WorkConserving, Distinct, Elements
  <2>9. pc' \in [Callers -> States]
    BY <2>3 DEF PermitInv
  <2>10. PermitInv'
    BY <1>2, <2>1, <2>5, <2>8, <2>9 DEF PermitInv
  <2> QED BY <2>2, <2>3, <2>10 DEF PermitInv
<1> QED BY <1>1, <1>2 DEF Release

LEMMA LeaveQueueKeepsPermits ==
    ASSUME PermitInv, NEW c \in Callers, pc[c] = "waiting",
           NEW outcome \in Settled, LeaveQueue(c, outcome)
    PROVE  PermitInv'
<1> USE DEF States, Holding, Busy, Settled
<1>1. PICK i \in 1..Len(waiters) : waiters[i] = c /\ waiters' = RemoveAt(waiters, i)
  BY DEF LeaveQueue
<1>2. pc' = [pc EXCEPT ![c] = outcome] /\ permits' = permits
  BY DEF LeaveQueue
<1>3. /\ waiters' \in Seq(Callers)
      /\ Distinct(waiters')
      /\ Elements(waiters') = Elements(waiters) \ {c}
  BY <1>1, QueueFacts, RemoveAtQueue DEF PermitInv
<1>4. PermitOwners' = PermitOwners
  BY <1>2 DEF PermitInv, PermitOwners, InState
<1>5. InState({"waiting"})' = InState({"waiting"}) \ {c}
  BY <1>2 DEF PermitInv, InState
<1>6. permits = 0
  <2>1. c \in Elements(waiters)
    BY QueueFacts DEF InState
  <2>2. waiters # <<>>
    BY <2>1 DEF Elements
  <2> QED BY <2>2 DEF PermitInv, WorkConserving
<1>7. WorkConserving'
  <2>1. Elements(waiters') = InState({"waiting"})' /\ Distinct(waiters')
    BY <1>3, <1>5, QueueFacts
  <2>2. permits' = 0
    BY <1>2, <1>6
  <2> QED BY <2>1, <2>2 DEF WorkConserving, Distinct, Elements
<1> QED BY <1>2, <1>3, <1>4, <1>7 DEF PermitInv, PermitAccounting

LEMMA GetKeepsPermits ==
    ASSUME PermitInv, NEW c \in Callers, Get(c)
    PROVE  PermitInv'
<1> USE DEF States, Holding, Busy, Settled
<1>0. c \notin PermitOwners /\ c \notin InState({"waiting"})
  BY DEF Get, PermitOwners, InState
<1>1. CASE permits > 0 /\ permits' = permits - 1
             /\ pc' = [pc EXCEPT ![c] = "granted"] /\ UNCHANGED waiters
  <2>1. PermitOwners' = PermitOwners \union {c}
    BY <1>1 DEF PermitInv, PermitOwners, InState
  <2>2. PermitAccounting'
    BY <1>0, <1>1, <2>1, OwnerJoins, QueueFacts, PoolAssumption
    DEF PermitInv, PermitAccounting
  <2>3. InState({"waiting"})' = InState({"waiting"})
    BY <1>0, <1>1 DEF PermitInv, InState
  <2>4. WorkConserving'
    BY <1>1, <2>3 DEF PermitInv, WorkConserving
  <2> QED BY <1>1, <2>2, <2>4 DEF PermitInv
<1>2. CASE permits = 0 /\ pc' = [pc EXCEPT ![c] = "waiting"]
             /\ waiters' = Append(waiters, c) /\ UNCHANGED permits
  <2>1. /\ waiters' \in Seq(Callers)
        /\ Distinct(waiters')
        /\ Elements(waiters') = Elements(waiters) \union {c}
    BY <1>0, <1>2, QueueFacts, AppendQueue DEF PermitInv
  <2>2. PermitOwners' = PermitOwners
    BY <1>0, <1>2 DEF PermitInv, PermitOwners, InState
  <2>3. InState({"waiting"})' = InState({"waiting"}) \union {c}
    BY <1>2 DEF PermitInv, InState
  <2>4. WorkConserving'
    BY <1>2, <2>1, <2>3, QueueFacts DEF WorkConserving, Distinct, Elements
  <2> QED BY <1>2, <2>1, <2>2, <2>4 DEF PermitInv, PermitAccounting
<1> QED BY <1>1, <1>2 DEF Get

\* A caller that keeps its permit leaves the permit half alone.
LEMMA HoldingKeepsPermits ==
    ASSUME PermitInv, NEW c \in Callers, pc[c] \in Holding, NEW s \in Holding,
           pc' = [pc EXCEPT ![c] = s], UNCHANGED <<waiters, permits>>
    PROVE  PermitInv'
<1> USE DEF States, Holding, Busy, Settled
<1>1. PermitOwners' = PermitOwners
  BY DEF PermitInv, PermitOwners, InState
<1>2. InState({"waiting"})' = InState({"waiting"})
  BY DEF PermitInv, InState
<1> QED BY <1>1, <1>2 DEF PermitInv, PermitAccounting, WorkConserving

-----------------------------------------------------------------------------
(* Connections.                                                            *)

OnLoan == {"recycling", "running"}

LoanInv ==
    /\ conn \in [Callers -> Conns \union {NoConn}]
    /\ idle \subseteq Conns
    /\ IsFiniteSet(idle)
    /\ noticed \subseteq dead
    /\ dead \subseteq Open
    /\ \A c \in Callers : conn[c] # NoConn <=> pc[c] \in OnLoan
    /\ ExclusiveLoan
    /\ PoolBound

Inv == PermitInv /\ LoanInv

\* The connections on loan, without reference to pc.
LEMMA LentFacts ==
    ASSUME \A c \in Callers : conn[c] # NoConn <=> pc[c] \in OnLoan
    PROVE  Lent = {conn[c] : c \in Callers} \ {NoConn}
BY DEF Lent, InState, OnLoan

LEMMA BusyFacts ==
    /\ IsFiniteSet(InState(Busy))
    /\ Cardinality(InState(Busy)) \in Nat
<1>1. InState(Busy) \subseteq Callers
  BY DEF InState
<1> QED BY <1>1, PoolAssumption, FS_Subset, FS_CardinalityType

\* The three ways the busy callers and the idle list move together.
LEMMA BoundKept ==
    ASSUME LoanInv, idle' = idle, InState(Busy)' \subseteq InState(Busy)
    PROVE  PoolBound'
<1>1. Cardinality(InState(Busy)') <= Cardinality(InState(Busy))
  BY BusyFacts, FS_Subset
<1>2. Cardinality(idle) \in Nat /\ Cardinality(InState(Busy)') \in Nat
  BY BusyFacts, FS_CardinalityType, FS_Subset DEF LoanInv
<1>3. Cardinality(idle) + Cardinality(InState(Busy)) <= MaxConnections
  BY DEF LoanInv, PoolBound
<1>4. Cardinality(idle) + Cardinality(InState(Busy)') <= MaxConnections
  BY ONLY <1>1, <1>2, <1>3, BusyFacts, PoolAssumption
<1> QED BY <1>4 DEF PoolBound

LEMMA BoundOnTake ==
    ASSUME LoanInv, NEW k \in idle, idle' = idle \ {k},
           NEW c \in Callers, c \notin InState(Busy),
           InState(Busy)' = InState(Busy) \union {c}
    PROVE  PoolBound'
<1>1. /\ Cardinality(InState(Busy)') = Cardinality(InState(Busy)) + 1
      /\ Cardinality(idle') = Cardinality(idle) - 1
  BY BusyFacts, FS_AddElement, FS_RemoveElement DEF LoanInv
<1>2. Cardinality(idle) \in Nat
  BY FS_CardinalityType DEF LoanInv
<1>3. Cardinality(idle) + Cardinality(InState(Busy)) <= MaxConnections
  BY DEF LoanInv, PoolBound
<1>4. Cardinality(idle') + Cardinality(InState(Busy)') <= MaxConnections
  BY ONLY <1>1, <1>2, <1>3, BusyFacts, PoolAssumption
<1> QED BY <1>4 DEF PoolBound

LEMMA BoundOnGiveBack ==
    ASSUME LoanInv, NEW k, k \notin idle, idle' = idle \union {k},
           NEW c \in InState(Busy), InState(Busy)' = InState(Busy) \ {c}
    PROVE  PoolBound'
<1>1. /\ Cardinality(InState(Busy)') = Cardinality(InState(Busy)) - 1
      /\ Cardinality(idle') = Cardinality(idle) + 1
  BY BusyFacts, FS_AddElement, FS_RemoveElement DEF LoanInv
<1>2. Cardinality(idle) \in Nat
  BY FS_CardinalityType DEF LoanInv
<1>3. Cardinality(idle) + Cardinality(InState(Busy)) <= MaxConnections
  BY DEF LoanInv, PoolBound
<1>4. Cardinality(idle') + Cardinality(InState(Busy)') <= MaxConnections
  BY ONLY <1>1, <1>2, <1>3, BusyFacts, PoolAssumption
<1> QED BY <1>4 DEF PoolBound

\* A connection is opened only with an empty idle list and a permit in hand,
\* so the permits bound the connections that are open or being opened.
LEMMA BoundOnCreate ==
    ASSUME Inv, idle = {}, idle' = idle, PermitInv', InState(Busy)' \subseteq PermitOwners'
    PROVE  PoolBound'
<1>1. /\ IsFiniteSet(PermitOwners') /\ Cardinality(PermitOwners') \in Nat
      /\ Cardinality(InState(Busy)') <= Cardinality(PermitOwners')
      /\ Cardinality(InState(Busy)') \in Nat
  <2>1. PermitOwners' \subseteq Callers
    BY DEF PermitOwners, InState
  <2>2. IsFiniteSet(PermitOwners')
    BY <2>1, PoolAssumption, FS_Subset
  <2> QED BY <2>2, FS_Subset, FS_CardinalityType
<1>2. permits' \in Nat /\ permits' + Cardinality(PermitOwners') = MaxConnections
  BY DEF PermitInv, PermitAccounting
<1>3. Cardinality(idle') = 0
  BY FS_EmptySet
<1>4. Cardinality(idle') + Cardinality(InState(Busy)') <= MaxConnections
  BY ONLY <1>1, <1>2, <1>3, PoolAssumption
<1> QED BY <1>4 DEF PoolBound

-----------------------------------------------------------------------------
(* One lemma per kind of step.                                             *)

\* No connection changes hands.
LEMMA LoansUntouched ==
    ASSUME Inv, UNCHANGED <<conn, idle, dead, noticed>>,
           \A d \in Callers : pc'[d] \in OnLoan <=> pc[d] \in OnLoan
    PROVE  /\ Open' = Open
           /\ PoolBound' => LoanInv'
<1>1. \A c \in Callers : conn'[c] # NoConn <=> pc'[c] \in OnLoan
  BY DEF Inv, LoanInv
<1>2. Lent' = {conn'[c] : c \in Callers} \ {NoConn}
  BY <1>1 DEF Lent, InState, OnLoan
<1>3. Lent' = Lent
  BY <1>2, LentFacts DEF Inv, LoanInv
<1>4. Open' = Open
  BY <1>3 DEF Open
<1>5. ExclusiveLoan'
  BY DEF Inv, LoanInv, ExclusiveLoan
<1> QED BY <1>1, <1>4, <1>5 DEF Inv, LoanInv

\* Caller c, which is not on loan before, is lent connection k.
LEMMA LoanStarts ==
    ASSUME Inv, NEW c \in Callers, pc[c] \notin OnLoan,
           NEW k \in Conns, k \notin Lent, k \notin idle',
           idle' \subseteq idle, idle \subseteq idle' \union {k},
           conn' = [conn EXCEPT ![c] = k], UNCHANGED <<dead, noticed>>,
           pc'[c] \in OnLoan,
           \A d \in Callers \ {c} : pc'[d] \in OnLoan <=> pc[d] \in OnLoan
    PROVE  PoolBound' => LoanInv'
<1>1. conn[c] = NoConn /\ k # NoConn
  BY PoolAssumption DEF Inv, LoanInv
<1>2. \A d \in Callers : conn'[d] # NoConn <=> pc'[d] \in OnLoan
  BY <1>1 DEF Inv, LoanInv
<1>3. Lent = {conn[d] : d \in Callers} \ {NoConn}
  BY LentFacts DEF Inv, LoanInv
<1>4. Lent' = {conn'[d] : d \in Callers} \ {NoConn}
  BY <1>2 DEF Lent, InState, OnLoan
<1>5. conn' \in [Callers -> Conns \union {NoConn}]
  BY DEF Inv, LoanInv
<1>6. Lent' = Lent \union {k}
  BY <1>1, <1>3, <1>4, <1>5 DEF Inv, LoanInv
<1>7. dead' \subseteq Open'
  BY <1>6 DEF Open, Inv, LoanInv
<1>8. ExclusiveLoan'
  <2>1. \A d \in Callers \ {c} : conn'[d] = conn[d] /\ conn[d] # k
    BY <1>1, <1>3 DEF Inv, LoanInv
  <2>2. conn'[c] = k
    BY DEF Inv, LoanInv
  <2> QED BY <2>1, <2>2 DEF Inv, LoanInv, ExclusiveLoan
<1>9. IsFiniteSet(idle') /\ idle' \subseteq Conns
  BY FS_Subset DEF Inv, LoanInv
<1> QED BY <1>2, <1>5, <1>7, <1>8, <1>9 DEF Inv, LoanInv

\* Caller c's loan ends: its connection goes back to the idle list or is
\* closed.
LEMMA LoanEnds ==
    ASSUME Inv, NEW c \in Callers, pc[c] \in OnLoan,
           conn' = [conn EXCEPT ![c] = NoConn],
           pc'[c] \notin OnLoan,
           \A d \in Callers \ {c} : pc'[d] \in OnLoan <=> pc[d] \in OnLoan,
           \/ idle' = idle \union {conn[c]} /\ UNCHANGED <<dead, noticed>>
           \/ idle' = idle /\ Forget(conn[c])
    PROVE  PoolBound' => LoanInv'
<1>1. conn[c] # NoConn /\ conn[c] \in Conns
  BY PoolAssumption DEF Inv, LoanInv
<1>2. \A d \in Callers : conn'[d] # NoConn <=> pc'[d] \in OnLoan
  BY <1>1 DEF Inv, LoanInv
<1>3. Lent = {conn[d] : d \in Callers} \ {NoConn}
  BY LentFacts DEF Inv, LoanInv
<1>4. Lent' = {conn'[d] : d \in Callers} \ {NoConn}
  BY <1>2 DEF Lent, InState, OnLoan
<1>5. conn' \in [Callers -> Conns \union {NoConn}]
  BY DEF Inv, LoanInv
<1>6. /\ \A d \in Callers \ {c} : conn'[d] = conn[d] /\ conn[d] # conn[c]
      /\ conn'[c] = NoConn
  BY <1>1 DEF Inv, LoanInv, ExclusiveLoan
<1>7. Lent' = Lent \ {conn[c]}
  BY <1>1, <1>3, <1>4, <1>6
<1>8. dead' \subseteq Open' /\ noticed' \subseteq dead'
  BY <1>7 DEF Open, Inv, LoanInv, Forget
<1>9. ExclusiveLoan'
  BY <1>1, <1>6, PoolAssumption DEF Inv, LoanInv, ExclusiveLoan
<1>10. IsFiniteSet(idle') /\ idle' \subseteq Conns
  BY <1>1, FS_AddElement DEF Inv, LoanInv
<1> QED BY <1>2, <1>5, <1>8, <1>9, <1>10 DEF Inv, LoanInv

LEMMA GiveBackKeepsInv ==
    ASSUME Inv, NEW c \in Callers, pc[c] = "running",
           NEW outcome \in Settled, GiveBack(c, outcome)
    PROVE  Inv'
<1>1. /\ PermitInv'
      /\ \A d \in Callers \ {c} : pc'[d] \in Busy <=> pc[d] \in Busy
      /\ \A d \in Callers \ {c} : pc[d] \in Busy => pc'[d] = pc[d]
      /\ pc'[c] = outcome
  BY ReleaseKeepsPermits DEF Inv, GiveBack, Holding, Busy
<1>2. InState(Busy)' = InState(Busy) \ {c} /\ c \in InState(Busy)
  BY <1>1 DEF InState, Busy, Settled
<1>3. \A d \in Callers \ {c} : pc'[d] \in OnLoan <=> pc[d] \in OnLoan
  BY <1>1 DEF OnLoan, Busy
<1>4. PoolBound'
  BY <1>2, BoundOnGiveBack DEF Inv, LoanInv, ExclusiveLoan, GiveBack
<1>5. LoanInv'
  BY <1>1, <1>3, <1>4, LoanEnds DEF GiveBack, OnLoan, Settled
<1> QED BY <1>1, <1>5 DEF Inv

\* A caller that is not on loan releases its permit.
LEMMA ReleaseKeepsInv ==
    ASSUME Inv, NEW c \in Callers, pc[c] \in {"granted", "creating"},
           NEW outcome \in Settled, Release(c, outcome),
           UNCHANGED <<conn, idle, dead, noticed>>
    PROVE  Inv'
<1>1. /\ PermitInv'
      /\ \A d \in Callers \ {c} : pc'[d] \in Busy <=> pc[d] \in Busy
      /\ \A d \in Callers \ {c} : pc[d] \in Busy => pc'[d] = pc[d]
      /\ pc'[c] = outcome
  BY ReleaseKeepsPermits DEF Inv, Holding, Busy
<1>2. InState(Busy)' \subseteq InState(Busy)
  BY <1>1 DEF InState, Busy, Settled
<1>3. \A d \in Callers : pc'[d] \in OnLoan <=> pc[d] \in OnLoan
  BY <1>1 DEF OnLoan, Busy, Settled
<1>4. PoolBound'
  BY <1>2, BoundKept DEF Inv
<1> QED BY <1>1, <1>3, <1>4, LoansUntouched DEF Inv

\* A recycle that does not succeed closes the connection.
LEMMA ForgetKeepsLoans ==
    ASSUME Inv, NEW c \in Callers, pc[c] = "recycling", Forget(conn[c]),
           conn' = [conn EXCEPT ![c] = NoConn], idle' = idle,
           \A d \in Callers \ {c} : pc'[d] \in Busy <=> pc[d] \in Busy,
           \A d \in Callers \ {c} : pc[d] \in Busy => pc'[d] = pc[d],
           pc'[c] \notin Busy
    PROVE  LoanInv'
<1>1. InState(Busy)' \subseteq InState(Busy)
  BY DEF InState
<1>2. PoolBound'
  BY <1>1, BoundKept DEF Inv
<1>3. \A d \in Callers \ {c} : pc'[d] \in OnLoan <=> pc[d] \in OnLoan
  BY DEF OnLoan, Busy
<1> QED BY <1>2, <1>3, LoanEnds DEF OnLoan, Busy

LEMMA DropKeepsInv ==
    ASSUME Inv, NEW c \in Callers, Drop(c)
    PROVE  Inv'
<1>1. CASE pc[c] = "waiting" /\ LeaveQueue(c, "dropped") /\ UNCHANGED <<conn, idle, dead, noticed>>
  <2>1. PermitInv'
    BY <1>1, LeaveQueueKeepsPermits DEF Inv, Settled
  <2>2. pc' = [pc EXCEPT ![c] = "dropped"]
    BY <1>1 DEF LeaveQueue
  <2>3. InState(Busy)' \subseteq InState(Busy)
    BY <2>2 DEF InState, Busy, Inv, PermitInv
  <2>4. \A d \in Callers : pc'[d] \in OnLoan <=> pc[d] \in OnLoan
    BY <1>1, <2>2 DEF OnLoan, Inv, PermitInv
  <2>5. PoolBound'
    BY <1>1, <2>3, BoundKept DEF Inv
  <2> QED BY <1>1, <2>1, <2>4, <2>5, LoansUntouched DEF Inv
<1>2. CASE pc[c] \in {"granted", "creating"} /\ Release(c, "dropped")
             /\ UNCHANGED <<conn, idle, dead, noticed>>
  BY <1>2, ReleaseKeepsInv DEF Settled
<1>3. CASE pc[c] = "recycling" /\ Release(c, "dropped") /\ Forget(conn[c])
             /\ conn' = [conn EXCEPT ![c] = NoConn] /\ UNCHANGED idle
  <2>1. /\ PermitInv'
        /\ \A d \in Callers \ {c} : pc'[d] \in Busy <=> pc[d] \in Busy
        /\ \A d \in Callers \ {c} : pc[d] \in Busy => pc'[d] = pc[d]
        /\ pc'[c] = "dropped"
    BY <1>3, ReleaseKeepsPermits DEF Inv, Holding, Busy, Settled
  <2>2. LoanInv'
    BY <1>3, <2>1, ForgetKeepsLoans DEF Busy
  <2> QED BY <2>1, <2>2 DEF Inv
<1>4. CASE pc[c] = "running" /\ GiveBack(c, "dropped")
  BY <1>4, GiveBackKeepsInv DEF Settled
<1> QED BY <1>1, <1>2, <1>3, <1>4 DEF Drop

-----------------------------------------------------------------------------
(* Every step keeps the invariant.                                         *)

LEMMA InitInv == Init => Inv
<1> SUFFICES ASSUME Init PROVE Inv
  OBVIOUS
<1> USE DEF Init
<1>1. InState({"waiting"}) = {} /\ PermitOwners = {} /\ InState(Busy) = {}
      /\ InState({"recycling", "running"}) = {}
  BY DEF InState, PermitOwners, Holding, Busy
<1>2. PermitInv
  BY <1>1, FS_EmptySet, PoolAssumption
  DEF PermitInv, PermitAccounting, WorkConserving, States
<1>3. PoolBound
  BY <1>1, FS_EmptySet, PoolAssumption DEF PoolBound
<1>4. LoanInv
  BY <1>1, <1>3, FS_EmptySet DEF LoanInv, ExclusiveLoan, OnLoan
<1> QED BY <1>2, <1>4 DEF Inv

LEMMA GetOrWaitKeepsInv ==
    ASSUME Inv, NEW c \in Callers, Get(c) \/ WaitTimesOut(c)
    PROVE  Inv'
<1>1. PermitInv'
  BY GetKeepsPermits, LeaveQueueKeepsPermits DEF Inv, WaitTimesOut, Settled
<1>2. /\ pc[c] \notin Busy
      /\ \E s \in States \ Busy : pc' = [pc EXCEPT ![c] = s]
      /\ UNCHANGED <<conn, idle, dead, noticed>>
  BY DEF Get, WaitTimesOut, LeaveQueue, Settled, States, Busy, Holding
<1>3. InState(Busy)' \subseteq InState(Busy)
  BY <1>2 DEF InState, Inv, PermitInv
<1>4. \A d \in Callers : pc'[d] \in OnLoan <=> pc[d] \in OnLoan
  BY <1>2 DEF Busy, OnLoan, Inv, PermitInv
<1>5. PoolBound'
  BY <1>2, <1>3, BoundKept DEF Inv
<1> QED BY <1>1, <1>2, <1>4, <1>5, LoansUntouched DEF Inv

LEMMA PermitKeptKeepsInv ==
    ASSUME Inv, NEW c \in Callers,
           TakeIdle(c) \/ StartCreate(c) \/ Recycled(c) \/ Discard(c) \/ Created(c)
    PROVE  Inv'
<1>1. PermitInv'
  BY HoldingKeepsPermits
  DEF Inv, TakeIdle, StartCreate, Recycled, Discard, Created, Holding, Busy
<1>2. CASE TakeIdle(c)
  <2>1. PICK k \in idle : idle' = idle \ {k} /\ conn' = [conn EXCEPT ![c] = k]
    BY <1>2 DEF TakeIdle
  <2>2. pc[c] = "granted" /\ pc' = [pc EXCEPT ![c] = "recycling"]
    BY <1>2 DEF TakeIdle
  <2>3. c \notin InState(Busy) /\ InState(Busy)' = InState(Busy) \union {c}
    BY <2>2 DEF InState, Busy, Inv, PermitInv
  <2>4. PoolBound'
    BY <2>1, <2>3, BoundOnTake DEF Inv
  <2>5. k \in Conns /\ k \notin Lent
    BY LentFacts DEF Inv, LoanInv, ExclusiveLoan
  <2>6. pc[c] \notin OnLoan /\ pc'[c] \in OnLoan
        /\ \A d \in Callers \ {c} : pc'[d] \in OnLoan <=> pc[d] \in OnLoan
    BY <2>2 DEF OnLoan, Inv, PermitInv
  <2>7. LoanInv'
    BY <1>2, <2>1, <2>4, <2>5, <2>6, LoanStarts DEF TakeIdle
  <2> QED BY <1>1, <2>7 DEF Inv
<1>3. CASE StartCreate(c)
  <2>1. pc[c] = "granted" /\ pc' = [pc EXCEPT ![c] = "creating"] /\ idle = {}
    BY <1>3 DEF StartCreate
  <2>2. InState(Busy)' \subseteq PermitOwners'
    BY DEF InState, PermitOwners, Holding
  <2>3. PoolBound'
    BY <1>1, <1>3, <2>1, <2>2, BoundOnCreate DEF StartCreate
  <2>4. \A d \in Callers : pc'[d] \in OnLoan <=> pc[d] \in OnLoan
    BY <2>1 DEF OnLoan, Inv, PermitInv
  <2> QED BY <1>1, <1>3, <2>3, <2>4, LoansUntouched DEF Inv, StartCreate
<1>4. CASE Recycled(c)
  <2>1. pc[c] = "recycling" /\ pc' = [pc EXCEPT ![c] = "running"]
    BY <1>4 DEF Recycled
  <2>2. InState(Busy)' \subseteq InState(Busy)
    BY <2>1 DEF InState, Busy, Inv, PermitInv
  <2>3. PoolBound'
    BY <1>4, <2>2, BoundKept DEF Inv, Recycled
  <2>4. \A d \in Callers : pc'[d] \in OnLoan <=> pc[d] \in OnLoan
    BY <2>1 DEF OnLoan, Inv, PermitInv
  <2> QED BY <1>1, <1>4, <2>3, <2>4, LoansUntouched DEF Inv, Recycled
<1>5. CASE Discard(c)
  <2>1. pc[c] = "recycling" /\ pc' = [pc EXCEPT ![c] = "granted"]
    BY <1>5 DEF Discard
  <2>2. /\ pc'[c] \notin Busy
        /\ \A d \in Callers \ {c} : pc'[d] = pc[d]
    BY <2>1 DEF Busy, Inv, PermitInv
  <2>3. LoanInv'
    BY <1>5, <2>1, <2>2, ForgetKeepsLoans DEF Discard
  <2> QED BY <1>1, <2>3 DEF Inv
<1>6. CASE Created(c)
  <2>1. PICK k \in Conns \ Open : conn' = [conn EXCEPT ![c] = k]
    BY <1>6 DEF Created
  <2>2. pc[c] = "creating" /\ pc' = [pc EXCEPT ![c] = "running"]
    BY <1>6 DEF Created
  <2>3. InState(Busy)' \subseteq InState(Busy)
    BY <2>2 DEF InState, Busy, Inv, PermitInv
  <2>4. PoolBound'
    BY <1>6, <2>3, BoundKept DEF Inv, Created
  <2>5. pc[c] \notin OnLoan /\ pc'[c] \in OnLoan
        /\ \A d \in Callers \ {c} : pc'[d] \in OnLoan <=> pc[d] \in OnLoan
    BY <2>2 DEF OnLoan, Inv, PermitInv
  <2>6. k \notin Lent /\ k \notin idle
    BY DEF Open
  <2>7. LoanInv'
    BY <1>6, <2>1, <2>4, <2>5, <2>6, LoanStarts DEF Created
  <2> QED BY <1>1, <2>7 DEF Inv
<1> QED BY <1>2, <1>3, <1>4, <1>5, <1>6

LEMMA LinkStepKeepsInv ==
    ASSUME Inv, LinkStep
    PROVE  Inv'
<1>1. /\ UNCHANGED <<pc, conn, waiters, permits, idle>>
      /\ dead' \subseteq Open
      /\ noticed' \subseteq dead'
  BY DEF LinkStep, ConnectionDies, NoticeClosed, Inv, LoanInv
<1>2. PermitInv'
  BY <1>1 DEF Inv, PermitInv, PermitAccounting, WorkConserving, PermitOwners, InState
<1>3. Open' = Open
  BY <1>1 DEF Open, Lent, InState
<1>4. InState(Busy)' = InState(Busy)
  BY <1>1 DEF InState
<1>5. PoolBound'
  BY <1>1, <1>4, BoundKept DEF Inv
<1>6. LoanInv'
  BY <1>1, <1>3, <1>5 DEF Inv, LoanInv, ExclusiveLoan
<1> QED BY <1>2, <1>6 DEF Inv

LEMMA StutterKeepsInv ==
    ASSUME Inv, UNCHANGED poolVars
    PROVE  Inv'
BY DEF poolVars, Inv, PermitInv, LoanInv, PermitAccounting, WorkConserving,
       ExclusiveLoan, PoolBound, PermitOwners, InState, Open, Lent

LEMMA NextKeepsInv == Inv /\ [Next]_poolVars => Inv'
<1> SUFFICES ASSUME Inv, [Next]_poolVars PROVE Inv'
  OBVIOUS
<1>1. ASSUME NEW c \in Callers, Get(c) PROVE Inv'
  BY <1>1, GetOrWaitKeepsInv
<1>2. ASSUME NEW c \in Callers, LocalStep(c) PROVE Inv'
  BY <1>2, GetOrWaitKeepsInv, PermitKeptKeepsInv DEF LocalStep
<1>3. ASSUME NEW c \in Callers, BackendStep(c) PROVE Inv'
  <2>1. CASE Recycled(c) \/ Discard(c) \/ Created(c)
    BY <2>1, PermitKeptKeepsInv
  <2>2. CASE CreateFails(c)
    BY <2>2, ReleaseKeepsInv DEF CreateFails, Settled
  <2>3. CASE QueryOk(c)
    BY <2>3, GiveBackKeepsInv DEF QueryOk, Settled
  <2>4. CASE QueryFails(c)
    BY <2>4, GiveBackKeepsInv DEF QueryFails, Settled
  <2> QED BY <1>3, <2>1, <2>2, <2>3, <2>4 DEF BackendStep
<1>4. ASSUME NEW c \in Callers, Drop(c) PROVE Inv'
  BY <1>4, DropKeepsInv
<1>5. CASE LinkStep
  BY <1>5, LinkStepKeepsInv
<1>6. CASE UNCHANGED poolVars
  BY <1>6, StutterKeepsInv
<1> QED BY <1>1, <1>2, <1>3, <1>4, <1>5, <1>6 DEF Next, CallStep

LEMMA InvAlways == Spec => []Inv
BY InitInv, NextKeepsInv, PTL DEF Spec

-----------------------------------------------------------------------------
(* The theorems.                                                           *)

LEMMA InvImpliesTypeOK == Inv => TypeOK
<1> SUFFICES ASSUME Inv PROVE TypeOK
  OBVIOUS
<1>1. permits \in Nat /\ Cardinality(PermitOwners) \in Nat
      /\ permits + Cardinality(PermitOwners) = MaxConnections
  BY QueueFacts DEF Inv, PermitInv, PermitAccounting
<1>2. permits \in 0..MaxConnections
  BY ONLY <1>1, PoolAssumption
<1> QED BY <1>2 DEF Inv, PermitInv, LoanInv, TypeOK, OnLoan

\* Every variable of the pool keeps its type, and a caller holds a connection
\* exactly while it recycles or runs on one (query, execute, ping).
THEOREM TypeCorrect == Spec => []TypeOK
BY InvAlways, InvImpliesTypeOK, PTL

\* No ending of a call loses or makes up a permit (Pool::get, the drop of the
\* connection handle and of the future).
THEOREM PermitsAccounted == Spec => []PermitAccounting
<1>1. Inv => PermitAccounting
  BY DEF Inv, PermitInv
<1> QED BY <1>1, InvAlways, PTL

\* max_connections is a hard ceiling, for any number of callers and whatever
\* connections die, are recycled or are created at the same time.
THEOREM ConnectionsBounded == Spec => []PoolBound
<1>1. Inv => PoolBound
  BY DEF Inv, LoanInv
<1> QED BY <1>1, InvAlways, PTL

\* A connection is never lent to two callers, nor idle while lent.
THEOREM LoansExclusive == Spec => []ExclusiveLoan
<1>1. Inv => ExclusiveLoan
  BY DEF Inv, LoanInv
<1> QED BY <1>1, InvAlways, PTL

\* The queue is the callers that wait, each once, and no permit is free while
\* somebody waits.
THEOREM WorkConserved == Spec => []WorkConserving
<1>1. Inv => WorkConserving
  BY DEF Inv, PermitInv
<1> QED BY <1>1, InvAlways, PTL

-----------------------------------------------------------------------------
(* What a caller's step does to the others.                                *)

\* A released permit moves nobody but the first of the queue, who waits.
LEMMA ReleaseMovesWaiter ==
    ASSUME Inv, NEW c \in Callers, NEW outcome \in Settled, Release(c, outcome),
           NEW d \in Callers, d # c
    PROVE  pc'[d] = pc[d] \/ (pc[d] = "waiting" /\ pc'[d] = "granted")
<1> USE DEF States, Holding, Busy, Settled
<1>1. PermitInv /\ pc \in [Callers -> States] /\ waiters \in Seq(Callers)
  BY DEF Inv, PermitInv
<1>2. CASE pc' = [pc EXCEPT ![c] = outcome]
  BY <1>1, <1>2
<1>3. CASE waiters # <<>> /\ pc' = [pc EXCEPT ![c] = outcome, ![Head(waiters)] = "granted"]
  <2>1. Head(waiters) \in InState({"waiting"})
    BY <1>1, <1>3, QueueFacts, TailQueue
  <2>2. Head(waiters) \in Callers /\ pc[Head(waiters)] = "waiting"
    BY <2>1 DEF InState
  <2>3. CASE d = Head(waiters)
    BY <1>1, <1>3, <2>2, <2>3
  <2>4. CASE d # Head(waiters)
    BY <1>1, <1>3, <2>2, <2>4
  <2> QED
    BY <2>3, <2>4
<1> QED
  BY <1>2, <1>3 DEF Release

\* A step of caller c moves another one only from the queue to a permit.
LEMMA StepMovesOthers ==
    ASSUME Inv, NEW c \in Callers, Get(c) \/ CallStep(c) \/ Drop(c),
           NEW d \in Callers, d # c
    PROVE  pc'[d] = pc[d] \/ (pc[d] = "waiting" /\ pc'[d] = "granted")
<1> USE DEF States, Holding, Busy, Settled
<1>1. pc \in [Callers -> States]
  BY DEF Inv, PermitInv
<1>2. ASSUME NEW s \in States, pc' = [pc EXCEPT ![c] = s]
      PROVE  pc'[d] = pc[d]
  BY <1>1, <1>2
<1>3. CASE Get(c)
  BY <1>2, <1>3 DEF Get
<1>4. CASE LocalStep(c)
  BY <1>2, <1>4 DEF LocalStep, TakeIdle, StartCreate, WaitTimesOut, LeaveQueue
<1>5. CASE BackendStep(c)
  <2>1. CASE Recycled(c) \/ Discard(c) \/ Created(c)
    BY <1>2, <2>1 DEF Recycled, Discard, Created
  <2>2. CASE CreateFails(c) \/ QueryOk(c) \/ QueryFails(c)
    BY <2>2, ReleaseMovesWaiter DEF CreateFails, QueryOk, QueryFails, GiveBack
  <2> QED
    BY <1>5, <2>1, <2>2 DEF BackendStep
<1>6. CASE Drop(c)
  <2>1. CASE LeaveQueue(c, "dropped")
    BY <1>2, <2>1 DEF LeaveQueue
  <2>2. CASE Release(c, "dropped")
    BY <2>2, ReleaseMovesWaiter
  <2> QED
    BY <1>6, <2>1, <2>2 DEF Drop, GiveBack
<1> QED
  BY <1>3, <1>4, <1>5, <1>6 DEF CallStep

\* A call that is under way has not settled.
LEMMA StepIsUnderWay ==
    ASSUME NEW c \in Callers, CallStep(c) \/ Drop(c)
    PROVE  pc[c] \in {"waiting"} \union Holding
BY DEF CallStep, LocalStep, TakeIdle, StartCreate, WaitTimesOut, BackendStep, Recycled, Discard,
       Created, CreateFails, QueryOk, QueryFails, Drop, Holding, Busy

\* A dropped call is at its end.
LEMMA DropEnds ==
    ASSUME Inv, NEW c \in Callers, Drop(c)
    PROVE  pc'[c] = "dropped"
<1>1. PermitInv /\ pc \in [Callers -> States] /\ waiters \in Seq(Callers)
  BY DEF Inv, PermitInv
<1>2. CASE pc' = [pc EXCEPT ![c] = "dropped"]
  BY <1>1, <1>2
<1>3. CASE pc[c] # "waiting" /\ Release(c, "dropped") /\ waiters # <<>>
  <2>1. Head(waiters) \in InState({"waiting"})
    BY <1>1, <1>3, QueueFacts, TailQueue
  <2>2. Head(waiters) \in Callers /\ Head(waiters) # c
    BY <1>3, <2>1 DEF InState
  <2>3. pc' = [pc EXCEPT ![c] = "dropped", ![Head(waiters)] = "granted"]
    BY <1>3 DEF Release
  <2> QED
    BY <1>1, <2>2, <2>3
<1> QED
  BY <1>2, <1>3 DEF Drop, LeaveQueue, GiveBack, Release

=============================================================================
