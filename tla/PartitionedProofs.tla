-------------------------- MODULE PartitionedProofs --------------------------
(***************************************************************************)
(* query_partitioned keeps to the pool's protocol, so what PoolProofs says *)
(* of the pool holds with the call on it; it leaves nothing behind,        *)
(* reports failures, and implements Gather.  For every number of           *)
(* partitions, of other callers and of permits.                            *)
(***************************************************************************)
EXTENDS QueryPartitioned, PoolProofs, SequenceFacts

-----------------------------------------------------------------------------
(* The pool under the call.                                                *)

LEMMA InitIsPoolInit == PartitionedInit => Init
BY DEF PartitionedInit

LEMMA StepIsPoolStep == [PartitionedNext]_vars => [Next]_poolVars
<1> SUFFICES ASSUME [PartitionedNext]_vars PROVE [Next]_poolVars
  OBVIOUS
<1> USE DEF poolVars
<1>1. ASSUME NEW p \in Partitions, Start(p) \/ PartitionMoves(p) \/ PartitionAnswered(p)
      PROVE  Next
  <2>1. p \in Callers
    BY PartitionedAssumption DEF Partitions
  <2> QED
    BY <1>1, <2>1 DEF Start, PartitionMoves, PartitionAnswered, Next, CallStep
<1>2. CASE SeeErrorInOrder \/ ReturnRows \/ Cancel \/ ReturnDropped
  BY <1>2 DEF SeeErrorInOrder, ReturnRows, Cancel, ReturnDropped
<1>3. CASE DropNext
  <2>1. PICK p \in Partitions : Drop(p)
    BY <1>3 DEF DropNext
  <2>2. p \in Callers
    BY PartitionedAssumption DEF Partitions
  <2> QED
    BY <2>1, <2>2 DEF Next
<1>4. ASSUME NEW c \in Others, OtherStep(c)
      PROVE  Next
  <2>1. c \in Callers
    BY DEF Others
  <2> QED
    BY <1>4, <2>1 DEF OtherStep, Next
<1>5. CASE LinkStep
  BY <1>5 DEF Next
<1>6. CASE UNCHANGED vars
  BY <1>6 DEF vars
<1> QED
  BY <1>1, <1>2, <1>3, <1>4, <1>5, <1>6 DEF PartitionedNext

\* query_partitioned: its partitions and everybody else are callers of the pool
\* that keep to its protocol, whatever the join does.
LEMMA KeepsPool == PartitionedSpec => Spec
BY InitIsPoolInit, StepIsPoolStep, PTL DEF PartitionedSpec, Spec

\* The pool's own invariant, and with it every theorem of PoolProofs, holds with
\* the call on the pool.
LEMMA PoolInvariant == PartitionedSpec => []Inv
BY KeepsPool, InvAlways, PTL

\* PoolConfig: max_connections is a hard ceiling however many partitions there
\* are.
THEOREM CallKeepsBound == PartitionedSpec => []PoolBound
<1>1. Inv => PoolBound
  BY DEF Inv, LoanInv
<1> QED
  BY <1>1, PoolInvariant, PTL

-----------------------------------------------------------------------------
(* What a step of one caller leaves of the others.                         *)

\* Where a call has come to an end, or has not begun, no step of another caller
\* changes it.
LEMMA StepLeavesOthers ==
    ASSUME Inv, NEW c \in Callers, Get(c) \/ CallStep(c) \/ Drop(c),
           NEW d \in Callers, d # c
    PROVE  /\ pc[d] \notin InFlight => pc'[d] = pc[d]
           /\ pc[d] \in InFlight => pc'[d] \in InFlight
BY StepMovesOthers DEF InFlight, Holding

\* Everybody else's steps, and those that drop a partition, leave a partition
\* that is not under way alone.
LEMMA StepLeavesPartitions ==
    ASSUME Inv, DropNext \/ (\E c \in Others : OtherStep(c)), NEW p \in Partitions,
           pc[p] \notin InFlight
    PROVE  pc'[p] = pc[p]
<1>1. p \in Callers
  BY PartitionedAssumption DEF Partitions
<1>2. CASE DropNext
  <2>1. PICK q \in Partitions : pc[q] \in InFlight /\ Drop(q)
    BY <1>2 DEF DropNext
  <2>2. q \in Callers /\ q # p
    BY <2>1, PartitionedAssumption DEF Partitions
  <2> QED
    BY <1>1, <2>1, <2>2, StepLeavesOthers
<1>3. ASSUME NEW c \in Others, OtherStep(c)
      PROVE  pc'[p] = pc[p]
  <2>1. c \in Callers /\ c # p
    BY DEF Others
  <2>2. Get(c) \/ CallStep(c) \/ Drop(c)
    BY <1>3 DEF OtherStep
  <2> QED
    BY <1>1, <2>1, <2>2, StepLeavesOthers
<1> QED
  BY <1>2, <1>3

-----------------------------------------------------------------------------
(* The join.                                                               *)

\* What the reply says is so, from the moment it is decided.
ReplyTrue ==
    /\ reply.kind = "rows" => phase = "done" /\ \A p \in Partitions : pc[p] = "ok"
    /\ reply.kind = "error" =>
          /\ reply.of \in Partitions /\ Failed(reply.of)
          /\ ~few => \A q \in 1..(reply.of - 1) : pc[q] = "ok"

JoinInv ==
    /\ few \in BOOLEAN
    /\ phase \in {"call", "dropping", "done"}
    /\ phase = "call" => reply.kind = "none"
    /\ phase # "call" => reply.kind \in {"rows", "error", "cancelled"}
    /\ phase = "done" => \A p \in Partitions : pc[p] \notin InFlight
    /\ ReplyTrue

LEMMA InitJoinInv == PartitionedInit => JoinInv
BY DEF PartitionedInit, JoinInv, ReplyTrue, Promise!None

\* A reply that is true stays true while nothing of the join changes.
LEMMA ReplyStaysTrue ==
    ASSUME JoinInv, UNCHANGED <<few, phase, reply>>,
           \A p \in Partitions : pc[p] \notin InFlight => pc'[p] = pc[p]
    PROVE  JoinInv'
<1>1. \A p \in Partitions : Failed(p) \/ pc[p] = "ok" => pc'[p] = pc[p]
  BY DEF Failed, InFlight, Holding, Busy
<1>2. (\A p \in Partitions : pc[p] = "ok") => \A p \in Partitions : pc'[p] = "ok"
  BY <1>1
<1>3. \A p \in Partitions : Failed(p) => Failed(p)'
  BY <1>1 DEF Failed
<1>4. ASSUME reply.kind = "error", ~few
      PROVE  \A q \in 1..(reply.of - 1) : pc'[q] = "ok"
  <2>1. \A q \in 1..(reply.of - 1) : q \in Partitions
    BY <1>4, PartitionedAssumption DEF JoinInv, ReplyTrue, Partitions
  <2> QED
    BY <1>1, <1>4, <2>1 DEF JoinInv, ReplyTrue
<1>5. phase = "done" => \A p \in Partitions : pc'[p] \notin InFlight
  BY DEF JoinInv
<1> QED
  BY <1>2, <1>3, <1>4, <1>5 DEF JoinInv, ReplyTrue

\* A reply that becomes known while no partition moves.
LEMMA ReplyDecided ==
    ASSUME Inv, JoinInv, SeeErrorInOrder \/ ReturnRows \/ Cancel \/ ReturnDropped
    PROVE  JoinInv'
<1>1. CASE SeeErrorInOrder
  <2>1. PICK p \in Partitions : ErrorInOrder(p) /\ reply' = [kind |-> "error", of |-> p]
    BY <1>1 DEF SeeErrorInOrder, Promise!Error
  <2>2. reply'.kind = "error" /\ reply'.of = p
    BY <2>1
  <2>3. phase' = "dropping" /\ UNCHANGED <<pc, few>>
    BY <1>1 DEF SeeErrorInOrder
  <2> QED
    BY <2>1, <2>2, <2>3 DEF JoinInv, ReplyTrue, ErrorInOrder, Failed
<1>2. CASE ReturnRows
  <2>1. reply'.kind = "rows"
    BY <1>2 DEF ReturnRows, Promise!RowsReply
  <2>2. phase' = "done" /\ UNCHANGED <<pc, few>> /\ \A p \in Partitions : pc[p] = "ok"
    BY <1>2 DEF ReturnRows
  <2> QED
    BY <2>1, <2>2 DEF JoinInv, ReplyTrue, InFlight, Holding, Busy
<1>3. CASE Cancel
  <2>1. reply'.kind = "cancelled"
    BY <1>3 DEF Cancel, Promise!Cancelled
  <2> QED
    BY <1>3, <2>1 DEF Cancel, JoinInv, ReplyTrue
<1>4. CASE ReturnDropped
  BY <1>4 DEF ReturnDropped, JoinInv, ReplyTrue, Failed
<1> QED
  BY <1>1, <1>2, <1>3, <1>4

\* A partition settles: only with few of them does that decide the reply.
LEMMA NotesKeepsJoin ==
    ASSUME Inv, JoinInv, NEW p \in Partitions, phase = "call", Notes(p)
    PROVE  JoinInv'
<1>1. CASE UNCHANGED <<few, phase, reply>>
  BY <1>1 DEF JoinInv, ReplyTrue
<1>2. CASE pc'[p] \in {"poolErr", "queryErr"} /\ few /\ phase' = "dropping"
           /\ reply' = [kind |-> "error", of |-> p] /\ UNCHANGED few
  <2>1. reply'.kind = "error" /\ reply'.of = p
    BY <1>2
  <2> QED
    BY <1>2, <2>1 DEF JoinInv, ReplyTrue, Failed
<1> QED
  BY <1>1, <1>2 DEF Notes, joinVars, Promise!Error

LEMMA StepKeepsJoin == Inv /\ JoinInv /\ [PartitionedNext]_vars => JoinInv'
<1> SUFFICES ASSUME Inv, JoinInv, [PartitionedNext]_vars PROVE JoinInv'
  OBVIOUS
<1>1. ASSUME NEW p \in Partitions, Start(p) PROVE JoinInv'
  BY <1>1 DEF Start, Polls, joinVars, JoinInv, ReplyTrue
<1>2. ASSUME NEW p \in Partitions, PartitionMoves(p) \/ PartitionAnswered(p) PROVE JoinInv'
  BY <1>2, NotesKeepsJoin DEF PartitionMoves, PartitionAnswered, PollsOn, Polls
<1>3. CASE SeeErrorInOrder \/ ReturnRows \/ Cancel \/ ReturnDropped
  BY <1>3, ReplyDecided
<1>4. CASE DropNext \/ \E c \in Others : OtherStep(c)
  <2>1. UNCHANGED <<few, phase, reply>>
    BY <1>4 DEF DropNext, OtherStep, joinVars
  <2> QED
    BY <1>4, <2>1, StepLeavesPartitions, ReplyStaysTrue
<1>5. CASE (LinkStep /\ UNCHANGED joinVars) \/ UNCHANGED vars
  <2>1. UNCHANGED <<pc, few, phase, reply>>
    BY <1>5 DEF LinkStep, ConnectionDies, NoticeClosed, joinVars, vars
  <2> QED
    BY <2>1, ReplyStaysTrue
<1> QED
  BY <1>1, <1>2, <1>3, <1>4, <1>5 DEF PartitionedNext

LEMMA JoinInvariant == PartitionedSpec => [](Inv /\ JoinInv)
BY PoolInvariant, InitJoinInv, StepKeepsJoin, PTL DEF PartitionedSpec

\* query_partitioned: a call that has returned, in whatever way, has left no
\* partition queued or holding a permit or a connection.
THEOREM LeavesNothingBehind == PartitionedSpec => []NothingLeftBehind
<1>1. Inv /\ JoinInv => NothingLeftBehind
  <2> SUFFICES ASSUME Inv, JoinInv, phase = "done", NEW p \in Partitions
               PROVE  pc[p] \notin InFlight /\ conn[p] = NoConn
    BY DEF NothingLeftBehind
  <2>1. p \in Callers
    BY PartitionedAssumption DEF Partitions
  <2>2. pc[p] \notin InFlight
    BY DEF JoinInv
  <2> QED
    BY <2>1, <2>2 DEF Inv, LoanInv, OnLoan, InFlight, Holding, Busy
<1> QED
  BY <1>1, JoinInvariant, PTL

\* "If any partition fails the whole call fails with that error": a call that
\* returns after a failure does not return rows, and the error it returns is
\* of a partition that failed.
THEOREM FailuresAreReported == PartitionedSpec => []FailureIsReported
<1>1. JoinInv => FailureIsReported
  BY DEF JoinInv, ReplyTrue, FailureIsReported, Failed
<1> QED
  BY <1>1, JoinInvariant, PTL

\* Above 30 partitions the error returned is that of the first partition, in
\* order, that failed, however late the ones before it succeed.
THEOREM FirstErrorsAreReported == PartitionedSpec => []FirstErrorReported
<1>1. JoinInv => FirstErrorReported
  BY DEF JoinInv, ReplyTrue, FirstErrorReported
<1> QED
  BY <1>1, JoinInvariant, PTL

-----------------------------------------------------------------------------
(* The promise.                                                            *)

\* Gather's variables, as QueryPartitioned gives them values.
Outcome == [p \in 1..N |-> IF pc[p] = "ok" THEN "ok"
                           ELSE IF pc[p] \in {"poolErr", "queryErr"} THEN "failed"
                           ELSE "pending"]
Answer  == IF phase = "done" THEN reply ELSE [kind |-> "none"]

\* A step that moves no partition to an end, nor the call, is not seen.
LEMMA UnseenStep ==
    ASSUME \A p \in Partitions : \/ pc'[p] = pc[p]
                                 \/ {pc[p], pc'[p]} \cap {"ok", "poolErr", "queryErr"} = {}
    PROVE  Outcome' = Outcome
<1>1. \A p \in 1..N : Outcome'[p] = Outcome[p]
  BY DEF Outcome, Partitions
<1> QED
  BY <1>1 DEF Outcome

\* Partition p settles while the call runs: Gather's Come, or nothing.
LEMMA PartitionComes ==
    ASSUME Inv, JoinInv, NEW p \in Partitions, PartitionMoves(p) \/ PartitionAnswered(p)
    PROVE  Promise!Come(p) \/ UNCHANGED <<Outcome, Answer>>
<1>1. p \in Callers /\ p \in 1..N
  BY PartitionedAssumption DEF Partitions
<1>2. CallStep(p) /\ phase = "call" /\ Notes(p)
  BY DEF PartitionMoves, PartitionAnswered, PollsOn, Polls, CallStep
<1>3. pc[p] \in InFlight
  BY <1>1, <1>2, StepIsUnderWay DEF InFlight
<1>4. Answer = [kind |-> "none"] /\ Answer' = [kind |-> "none"]
  BY <1>2 DEF Notes, joinVars, Answer
<1>5. Outcome[p] = "pending"
  BY <1>1, <1>3 DEF Outcome, InFlight, Holding, Busy
<1>6. \A q \in 1..N : q # p => Outcome'[q] = Outcome[q]
  <2> SUFFICES ASSUME NEW q \in 1..N, q # p PROVE Outcome'[q] = Outcome[q]
    OBVIOUS
  <2>1. q \in Callers
    BY PartitionedAssumption
  <2>2. \/ pc'[q] = pc[q]
        \/ pc[q] \in InFlight /\ pc'[q] \in InFlight
    BY <1>1, <1>2, <2>1, StepLeavesOthers
  <2> QED
    BY <2>2 DEF Outcome, InFlight, Holding, Busy
<1>7. Outcome'[p] \in {"ok", "failed", "pending"}
  BY <1>1 DEF Outcome
<1>8. Outcome' = [Outcome EXCEPT ![p] = Outcome'[p]]
  BY <1>1, <1>6 DEF Outcome
<1>9. CASE Outcome'[p] = "pending"
  <2>1. \A q \in 1..N : Outcome'[q] = Outcome[q]
    BY <1>5, <1>6, <1>9
  <2>2. Outcome' = Outcome
    BY <2>1 DEF Outcome
  <2> QED
    BY <1>4, <2>2
<1>10. CASE Outcome'[p] \in {"ok", "failed"}
  BY <1>4, <1>5, <1>8, <1>10 DEF Promise!Come, Promise!None, Outcome, Answer
<1> QED
  BY <1>7, <1>9, <1>10

LEMMA InitPromise == PartitionedInit => Promise!Init
<1> SUFFICES ASSUME PartitionedInit PROVE Promise!Init
  OBVIOUS
<1>1. \A p \in 1..N : pc[p] = "fresh"
  BY PartitionedAssumption DEF PartitionedInit, Init
<1>2. Outcome = [p \in 1..N |-> "pending"]
  BY <1>1 DEF Outcome
<1>3. Answer = [kind |-> "none"]
  BY DEF PartitionedInit, Answer
<1> QED
  BY <1>2, <1>3 DEF Promise!Init, Promise!Partitions, Promise!None, Outcome, Answer

\* The two modules flatten by the same definition.
LEMMA SameFlattening ==
    ASSUME NEW seqs
    PROVE  FlattenSeq(seqs) = Promise!FlattenSeq(seqs)
BY DEF FlattenSeq, Promise!FlattenSeq

LEMMA RowsArePromised ==
    ASSUME Inv, JoinInv, ReturnRows
    PROVE  Promise!AnswerRows
<1>1. phase = "call" /\ phase' = "done" /\ UNCHANGED pc
  BY DEF ReturnRows
<1>2. \A p \in 1..N : Outcome[p] = "ok"
  BY DEF ReturnRows, Outcome, Partitions
<1>3. Answer = [kind |-> "none"] /\ Answer' = reply' /\ Outcome' = Outcome
  BY <1>1 DEF Answer, Outcome
<1>4. reply' = Promise!RowsReply(Promise!FlattenSeq([p \in 1..N |-> Promise!Rows(p)]))
  BY SameFlattening DEF ReturnRows, Collect, Partitions
<1> QED
  BY <1>2, <1>3, <1>4 DEF Promise!AnswerRows, Promise!None, Promise!Partitions, Outcome, Answer

\* While the futures are dropped the reply waits, as it will be given.
ReplyWaits ==
    phase = "dropping" =>
        \/ reply = [kind |-> "cancelled"]
        \/ \E p \in Partitions : Failed(p) /\ reply = [kind |-> "error", of |-> p]

LEMMA StepKeepsReply ==
    ASSUME Inv, JoinInv, ReplyWaits, [PartitionedNext]_vars
    PROVE  ReplyWaits'
<1>1. CASE phase' # "dropping"
  BY <1>1 DEF ReplyWaits
<1>2. CASE SeeErrorInOrder \/ Cancel
  BY <1>2 DEF SeeErrorInOrder, Cancel, ErrorInOrder, Failed, ReplyWaits, Promise!Error, Promise!Cancelled
<1>3. ASSUME NEW p \in Partitions, PartitionMoves(p) \/ PartitionAnswered(p), phase' = "dropping"
      PROVE  ReplyWaits'
  <2>1. phase = "call" /\ Notes(p)
    BY <1>3 DEF PartitionMoves, PartitionAnswered, PollsOn, Polls
  <2>2. pc'[p] \in {"poolErr", "queryErr"} /\ reply' = [kind |-> "error", of |-> p]
    BY <1>3, <2>1 DEF Notes, joinVars, Promise!Error
  <2> QED
    BY <2>2 DEF ReplyWaits, Failed
<1>4. ASSUME UNCHANGED <<phase, reply>>,
             \A p \in Partitions : pc[p] \notin InFlight => pc'[p] = pc[p]
      PROVE  ReplyWaits'
  <2>1. \A p \in Partitions : Failed(p) => Failed(p)'
    BY <1>4 DEF Failed, InFlight, Holding, Busy
  <2> QED
    BY <1>4, <2>1 DEF ReplyWaits
<1>5. CASE DropNext \/ \E c \in Others : OtherStep(c)
  <2>1. UNCHANGED <<phase, reply>>
    BY <1>5 DEF DropNext, OtherStep, joinVars
  <2> QED
    BY <1>4, <1>5, <2>1, StepLeavesPartitions
<1>6. CASE (LinkStep /\ UNCHANGED joinVars) \/ UNCHANGED vars
  <2>1. UNCHANGED <<pc, phase, reply>>
    BY <1>6 DEF LinkStep, ConnectionDies, NoticeClosed, joinVars, vars
  <2> QED
    BY <1>4, <2>1
<1>7. ASSUME NEW p \in Partitions, Start(p) PROVE phase' = "call"
  BY <1>7 DEF Start, Polls, joinVars
<1>8. CASE ReturnRows \/ ReturnDropped
  BY <1>8 DEF ReturnRows, ReturnDropped, ReplyWaits
<1> QED
  BY <1>1, <1>2, <1>3, <1>5, <1>6, <1>7, <1>8 DEF PartitionedNext

LEMMA RepliesArePromised ==
    ASSUME JoinInv, ReplyWaits, ReturnDropped
    PROVE  Promise!AnswerError \/ Promise!GiveUp
<1>1. phase = "dropping" /\ phase' = "done" /\ UNCHANGED <<pc, reply>>
  BY DEF ReturnDropped
<1>2. Answer = [kind |-> "none"] /\ Answer' = reply /\ Outcome' = Outcome
  BY <1>1 DEF Answer, Outcome
<1>3. CASE reply = [kind |-> "cancelled"]
  BY <1>2, <1>3 DEF Promise!GiveUp, Promise!None, Promise!Cancelled, Outcome, Answer
<1>4. ASSUME NEW p \in Partitions, Failed(p), reply = [kind |-> "error", of |-> p]
      PROVE  Promise!AnswerError
  <2>1. p \in 1..N /\ Outcome[p] = "failed"
    BY <1>4 DEF Failed, Outcome, Partitions
  <2> QED
    BY <1>2, <1>4, <2>1
    DEF Promise!AnswerError, Promise!None, Promise!Error, Promise!Partitions, Outcome, Answer
<1> QED
  BY <1>1, <1>3, <1>4 DEF ReplyWaits

LEMMA StepPromise ==
    ASSUME Inv, JoinInv, ReplyWaits, [PartitionedNext]_vars
    PROVE  Promise!Next \/ UNCHANGED <<Outcome, Answer>>
<1>1. ASSUME NEW p \in Partitions, Start(p) PROVE UNCHANGED <<Outcome, Answer>>
  <2>1. p \in Callers /\ Get(p) /\ pc[p] = "fresh"
    BY <1>1, PartitionedAssumption DEF Start, Partitions
  <2>2. pc'[p] \in {"granted", "waiting"}
    BY <2>1 DEF Get, Inv, PermitInv
  <2>3. \A q \in Partitions \ {p} : pc'[q] = pc[q] \/ (pc[q] \in InFlight /\ pc'[q] \in InFlight)
    BY <2>1, StepLeavesOthers, PartitionedAssumption DEF Partitions
  <2>4. Outcome' = Outcome
    BY <2>1, <2>2, <2>3, UnseenStep DEF InFlight, Holding, Busy
  <2> QED
    BY <1>1, <2>4 DEF Start, joinVars, Answer
<1>2. ASSUME NEW p \in Partitions, PartitionMoves(p) \/ PartitionAnswered(p)
      PROVE  Promise!Next \/ UNCHANGED <<Outcome, Answer>>
  <2>1. p \in 1..N
    BY DEF Partitions
  <2> QED
    BY <1>2, <2>1, PartitionComes DEF Promise!Next, Promise!Partitions
<1>3. CASE SeeErrorInOrder \/ Cancel
  BY <1>3 DEF SeeErrorInOrder, Cancel, Outcome, Answer
<1>4. CASE ReturnRows
  BY <1>4, RowsArePromised DEF Promise!Next
<1>5. CASE ReturnDropped
  BY <1>5, RepliesArePromised DEF Promise!Next
<1>6. CASE DropNext
  <2>1. UNCHANGED <<phase, reply>>
    BY <1>6 DEF DropNext, joinVars
  <2>2. PICK p \in Partitions : pc[p] \in InFlight /\ Drop(p)
    BY <1>6 DEF DropNext
  <2>3. p \in Callers
    BY PartitionedAssumption DEF Partitions
  <2>4. pc'[p] = "dropped"
    BY <2>2, <2>3, DropEnds
  <2>5. \A q \in Partitions \ {p} : pc'[q] = pc[q] \/ (pc[q] \in InFlight /\ pc'[q] \in InFlight)
    BY <2>2, <2>3, StepLeavesOthers, PartitionedAssumption DEF Partitions
  <2>6. Outcome' = Outcome
    BY <2>2, <2>4, <2>5, UnseenStep DEF InFlight, Holding, Busy
  <2> QED
    BY <2>1, <2>6 DEF Answer
<1>7. ASSUME NEW c \in Others, OtherStep(c) PROVE UNCHANGED <<Outcome, Answer>>
  <2>1. UNCHANGED <<phase, reply>>
    BY <1>7 DEF OtherStep, joinVars
  <2>2. c \in Callers /\ c \notin Partitions /\ (Get(c) \/ CallStep(c) \/ Drop(c))
    BY <1>7 DEF OtherStep, Others
  <2>3. \A q \in Partitions : pc'[q] = pc[q] \/ (pc[q] \in InFlight /\ pc'[q] \in InFlight)
    BY <2>2, StepLeavesOthers, PartitionedAssumption DEF Partitions
  <2>4. Outcome' = Outcome
    BY <2>3, UnseenStep DEF InFlight, Holding, Busy
  <2> QED
    BY <2>1, <2>4 DEF Answer
<1>8. CASE (LinkStep /\ UNCHANGED joinVars) \/ UNCHANGED vars
  BY <1>8 DEF LinkStep, ConnectionDies, NoticeClosed, joinVars, vars, Outcome, Answer
<1> QED
  BY <1>1, <1>2, <1>3, <1>4, <1>5, <1>6, <1>7, <1>8 DEF PartitionedNext

\* query_partitioned does what Gather promises: one reply, decided by what the
\* partitions came to, with all the rows in partition order when it has rows.
THEOREM KeepsItsPromise == PartitionedSpec => KeepsPromise
<1>1. PartitionedInit => ReplyWaits
  BY DEF PartitionedInit, ReplyWaits
<1>2. Inv /\ JoinInv /\ ReplyWaits /\ [PartitionedNext]_vars => ReplyWaits'
  BY StepKeepsReply
<1>3. Inv /\ JoinInv /\ ReplyWaits /\ [PartitionedNext]_vars => [Promise!Next]_Promise!gatherVars
  BY StepPromise DEF Promise!gatherVars, Outcome, Answer
<1> QED
  BY <1>1, <1>2, <1>3, InitPromise, JoinInvariant, PTL DEF PartitionedSpec, KeepsPromise, Promise!Spec

-----------------------------------------------------------------------------
(* The types, and the partitions that have arrived.                        *)

ArrivedInv ==
    /\ arrived \in Seq(Partitions)
    /\ Distinct(arrived)
    /\ \A p \in Partitions : pc[p] = "ok" <=> p \in Elements(arrived)

LEMMA InitArrived == PartitionedInit => ArrivedInv
<1> SUFFICES ASSUME PartitionedInit PROVE ArrivedInv
  OBVIOUS
<1>1. \A p \in Partitions : pc[p] # "ok"
  BY PartitionedAssumption DEF PartitionedInit, Init, Partitions
<1>2. arrived = <<>>
  BY DEF PartitionedInit
<1> QED
  BY <1>1, <1>2 DEF ArrivedInv, Distinct, Elements

\* Only partition p moves to or from an end.
LEMMA ArrivedOrNot ==
    ASSUME Inv, ArrivedInv, NEW p \in Partitions, CallStep(p), Notes(p)
    PROVE  ArrivedInv'
<1>1. p \in Callers /\ pc[p] \in InFlight
  BY StepIsUnderWay, PartitionedAssumption DEF Partitions, InFlight
<1>2. \A q \in Partitions \ {p} : pc'[q] = pc[q] \/ (pc[q] \in InFlight /\ pc'[q] \in InFlight)
  BY <1>1, StepLeavesOthers, PartitionedAssumption DEF Partitions
<1>3. \A q \in Partitions \ {p} : pc'[q] = "ok" <=> pc[q] = "ok"
  BY <1>2 DEF InFlight, Holding, Busy
<1>4. pc[p] # "ok"
  BY <1>1 DEF InFlight, Holding, Busy
<1>5. p \notin Elements(arrived)
  BY <1>4 DEF ArrivedInv
<1>6. CASE pc'[p] # "ok" /\ arrived' = arrived
  BY <1>3, <1>4, <1>6 DEF ArrivedInv
<1>7. CASE pc'[p] = "ok" /\ arrived' = Append(arrived, p)
  <2>1. /\ arrived' \in Seq(Partitions)
        /\ Distinct(arrived')
        /\ Elements(arrived') = Elements(arrived) \union {p}
    BY <1>5, <1>7, AppendQueue DEF ArrivedInv
  <2> QED
    BY <1>3, <1>7, <2>1 DEF ArrivedInv
<1> QED
  BY <1>6, <1>7 DEF Notes, joinVars, Settled

LEMMA StepKeepsArrived ==
    ASSUME Inv, ArrivedInv, [PartitionedNext]_vars
    PROVE  ArrivedInv'
<1>1. ASSUME UNCHANGED arrived, \A p \in Partitions : pc'[p] = "ok" <=> pc[p] = "ok"
      PROVE  ArrivedInv'
  BY <1>1 DEF ArrivedInv
<1>2. ASSUME NEW p \in Partitions, Start(p) PROVE ArrivedInv'
  <2>1. p \in Callers /\ Get(p) /\ pc[p] = "fresh"
    BY <1>2, PartitionedAssumption DEF Start, Partitions
  <2>2. pc'[p] \in {"granted", "waiting"}
    BY <2>1 DEF Get, Inv, PermitInv
  <2>3. \A q \in Partitions \ {p} : pc'[q] = pc[q] \/ (pc[q] \in InFlight /\ pc'[q] \in InFlight)
    BY <2>1, StepLeavesOthers, PartitionedAssumption DEF Partitions
  <2>4. UNCHANGED arrived
    BY <1>2 DEF Start, joinVars
  <2> QED
    BY <1>1, <2>1, <2>2, <2>3, <2>4 DEF InFlight, Holding, Busy
<1>3. ASSUME NEW p \in Partitions, PartitionMoves(p) \/ PartitionAnswered(p) PROVE ArrivedInv'
  BY <1>3, ArrivedOrNot DEF PartitionMoves, PartitionAnswered, CallStep
<1>4. CASE SeeErrorInOrder \/ ReturnRows \/ Cancel \/ ReturnDropped
  BY <1>1, <1>4 DEF SeeErrorInOrder, ReturnRows, Cancel, ReturnDropped
<1>5. CASE DropNext
  <2>1. PICK p \in Partitions : pc[p] \in InFlight /\ Drop(p)
    BY <1>5 DEF DropNext
  <2>2. p \in Callers
    BY PartitionedAssumption DEF Partitions
  <2>3. pc'[p] = "dropped"
    BY <2>1, <2>2, DropEnds
  <2>4. \A q \in Partitions \ {p} : pc'[q] = pc[q] \/ (pc[q] \in InFlight /\ pc'[q] \in InFlight)
    BY <2>1, <2>2, StepLeavesOthers, PartitionedAssumption DEF Partitions
  <2>5. UNCHANGED arrived
    BY <1>5 DEF DropNext, joinVars
  <2> QED
    BY <1>1, <2>1, <2>3, <2>4, <2>5 DEF InFlight, Holding, Busy
<1>6. ASSUME NEW c \in Others, OtherStep(c) PROVE ArrivedInv'
  <2>1. c \in Callers /\ c \notin Partitions /\ (Get(c) \/ CallStep(c) \/ Drop(c))
    BY <1>6 DEF OtherStep, Others
  <2>2. \A q \in Partitions : pc'[q] = pc[q] \/ (pc[q] \in InFlight /\ pc'[q] \in InFlight)
    BY <2>1, StepLeavesOthers, PartitionedAssumption DEF Partitions
  <2>3. UNCHANGED arrived
    BY <1>6 DEF OtherStep, joinVars
  <2> QED
    BY <1>1, <2>2, <2>3 DEF InFlight, Holding, Busy
<1>7. CASE (LinkStep /\ UNCHANGED joinVars) \/ UNCHANGED vars
  BY <1>1, <1>7 DEF LinkStep, ConnectionDies, NoticeClosed, joinVars, vars
<1> QED
  BY <1>2, <1>3, <1>4, <1>5, <1>6, <1>7 DEF PartitionedNext

\* The call and the pool under it keep their types, and a partition has arrived
\* exactly when its query succeeded.
THEOREM CallTypeCorrect == PartitionedSpec => []PartitionedTypeOK
<1>1. Inv /\ ArrivedInv /\ [PartitionedNext]_vars => ArrivedInv'
  BY StepKeepsArrived
<1>2. Inv /\ JoinInv /\ ArrivedInv => PartitionedTypeOK
  BY InvImpliesTypeOK DEF JoinInv, ArrivedInv, PartitionedTypeOK, ToSet, Elements
<1> QED
  BY <1>1, <1>2, InitArrived, JoinInvariant, PTL DEF PartitionedSpec

-----------------------------------------------------------------------------
(* The rows.                                                               *)

\* What Collect concatenates: partition p yields <<p, 1>>, <<p, 2>> and so on.
LEMMA RowsOfPartitions ==
    LET seqs == [p \in Partitions |-> Promise!Rows(p)]
    IN  /\ seqs \in Seq(Seq(Nat \X Nat))
        /\ Len(seqs) = N
        /\ \A p \in Partitions : /\ Len(seqs[p]) = RowCount[p]
                                 /\ \A a \in 1..RowCount[p] : seqs[p][a] = <<p, a>>
<1> DEFINE seqs == [p \in Partitions |-> Promise!Rows(p)]
<1>1. \A p \in Partitions : RowCount[p] \in Nat /\ p \in Nat
  BY PartitionedAssumption DEF Partitions
<1>2. ASSUME NEW p \in Partitions
      PROVE  /\ Promise!Rows(p) \in Seq(Nat \X Nat)
             /\ Len(Promise!Rows(p)) = RowCount[p]
             /\ \A a \in 1..RowCount[p] : Promise!Rows(p)[a] = <<p, a>>
  <2>1. Promise!Rows(p) \in [1..RowCount[p] -> Nat \X Nat]
    BY <1>1 DEF Promise!Rows
  <2> QED BY <1>1, <2>1 DEF Promise!Rows
<1>3. seqs \in [1..N -> Seq(Nat \X Nat)] /\ N \in Nat
  BY <1>2, PartitionedAssumption DEF Partitions
<1> QED BY <1>2, <1>3

\* Collect has every row of every partition, in order.
LEMMA CollectInOrder ==
    /\ ToSet(Collect) = UNION {{<<p, i>> : i \in 1..RowCount[p]} : p \in Partitions}
    /\ \A i, j \in DOMAIN Collect :
          LET a == Collect[i]
              b == Collect[j]
          IN  i < j => a[1] < b[1] \/ (a[1] = b[1] /\ a[2] < b[2])
<1> DEFINE seqs == [p \in Partitions |-> Promise!Rows(p)]
<1>1. /\ seqs \in Seq(Seq(Nat \X Nat)) /\ Len(seqs) = N
      /\ \A p \in Partitions : /\ Len(seqs[p]) = RowCount[p]
                               /\ \A a \in 1..RowCount[p] : seqs[p][a] = <<p, a>>
  BY RowsOfPartitions
<1>2. Collect = FlattenSeq(seqs)
  BY DEF Collect
<1> HIDE DEF seqs
<1>3. Collect \in Seq(Nat \X Nat) /\ DOMAIN Collect = 1..Len(Collect)
  BY <1>1, <1>2, FlattenPlaces, LenProperties
<1>4. PICK part, pos : Placed(part, pos, Collect, seqs, N)
  BY <1>1, <1>2, FlattenPlaces
<1>5. ASSUME NEW k \in 1..Len(Collect)
      PROVE  /\ part[k] \in Partitions /\ pos[k] \in 1..RowCount[part[k]]
             /\ Collect[k] = <<part[k], pos[k]>>
  <2>1. part[k] \in 1..N /\ pos[k] \in 1..Len(seqs[part[k]])
        /\ Collect[k] = seqs[part[k]][pos[k]]
    BY <1>4 DEF Placed
  <2> QED BY <1>1, <2>1 DEF Partitions
<1>6. ToSet(Collect) = UNION {{<<p, i>> : i \in 1..RowCount[p]} : p \in Partitions}
  <2>1. ASSUME NEW x \in ToSet(Collect)
        PROVE  \E p \in Partitions : \E i \in 1..RowCount[p] : x = <<p, i>>
    BY <1>3, <1>5 DEF ToSet
  <2>2. ASSUME NEW p \in Partitions, NEW i \in 1..RowCount[p]
        PROVE  <<p, i>> \in ToSet(Collect)
    <3>1. PICK k \in 1..Len(Collect) : part[k] = p /\ pos[k] = i
      BY <1>1, <1>4 DEF Placed, Partitions
    <3> QED BY <1>3, <1>5, <3>1 DEF ToSet
  <2> QED BY <2>1, <2>2
<1>7. ASSUME NEW i \in DOMAIN Collect, NEW j \in DOMAIN Collect, i < j
      PROVE  \/ Collect[i][1] < Collect[j][1]
             \/ Collect[i][1] = Collect[j][1] /\ Collect[i][2] < Collect[j][2]
  <2>1. part[i] < part[j] \/ (part[i] = part[j] /\ pos[i] < pos[j])
    BY <1>3, <1>4, <1>7 DEF Placed
  <2> QED BY <1>3, <1>5, <2>1
<1> QED BY <1>6, <1>7

RowsReplied == reply.kind = "rows" => reply.rows = Collect

LEMMA StepKeepsRows ==
    ASSUME JoinInv, RowsReplied, [PartitionedNext]_vars
    PROVE  RowsReplied'
<1>1. CASE UNCHANGED reply
  BY <1>1 DEF RowsReplied, Collect
<1>2. ASSUME NEW p \in Partitions, reply' = Promise!Error(p) PROVE RowsReplied'
  BY <1>2 DEF RowsReplied, Promise!Error
<1>3. ASSUME NEW p \in Partitions, Start(p) \/ PartitionMoves(p) \/ PartitionAnswered(p)
      PROVE  RowsReplied'
  BY <1>1, <1>2, <1>3 DEF Start, PartitionMoves, PartitionAnswered, Notes, joinVars
<1>4. CASE SeeErrorInOrder
  BY <1>2, <1>4 DEF SeeErrorInOrder
<1>5. CASE ReturnRows
  BY <1>5 DEF ReturnRows, RowsReplied, Promise!RowsReply, Collect
<1>6. CASE Cancel
  BY <1>6 DEF Cancel, RowsReplied, Promise!Cancelled
<1>7. CASE DropNext \/ ReturnDropped \/ (\E c \in Others : OtherStep(c))
           \/ (LinkStep /\ UNCHANGED joinVars) \/ UNCHANGED vars
  BY <1>1, <1>7 DEF DropNext, ReturnDropped, OtherStep, joinVars, vars
<1> QED
  BY <1>3, <1>4, <1>5, <1>6, <1>7 DEF PartitionedNext

\* driver.rs: the rows of a call that succeeds are those of every partition, each
\* once, in partition order and, within a partition, in its own, whichever
\* partition finishes first.
THEOREM RowsComeInOrder == PartitionedSpec => []RowsInOrder
<1>1. PartitionedInit => RowsReplied
  BY DEF PartitionedInit, RowsReplied, Promise!None
<1>2. JoinInv /\ RowsReplied /\ [PartitionedNext]_vars => RowsReplied'
  BY StepKeepsRows
<1>3. RowsReplied => RowsInOrder
  BY CollectInOrder DEF RowsReplied, RowsInOrder
<1> QED
  BY <1>1, <1>2, <1>3, JoinInvariant, PTL DEF PartitionedSpec

=============================================================================
