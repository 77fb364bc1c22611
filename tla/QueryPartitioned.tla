-------------------------- MODULE QueryPartitioned --------------------------
(***************************************************************************)
(* One call of DbDriver::query_partitioned on a pooled driver:             *)
(*                                                                         *)
(*     let tasks = partitions.iter().map(|p| self.query(..));              *)
(*     let results = try_join_all(tasks).await?;                           *)
(*     Ok(results.into_iter().flatten().collect())                         *)
(*                                                                         *)
(* The callers 1..N of the pool are the partitions, in order; the others   *)
(* are calls of driver.query that share the pool, one call each.  The      *)
(* partitions are futures of one task, which polls one of them at a time;  *)
(* the other calls, the backend and the links move between any two of its  *)
(* steps.                                                                  *)
(*                                                                         *)
(* try_join_all (futures crate) returns on the first error it sees.  Up to *)
(* 30 futures it polls all of them and sees an error as it occurs; above,  *)
(* it collects them in order and sees an error only when every earlier     *)
(* partition has succeeded.  N stands for few partitions or for many.      *)
(***************************************************************************)
EXTENDS Pool

CONSTANTS
    N,          \* partitions.len()
    RowCount    \* RowCount[p]: how many rows partition p yields

ASSUME PartitionedAssumption ==
    /\ N \in Nat
    /\ RowCount \in [1..N -> Nat]
    /\ 1..N \subseteq Callers

VARIABLES
    few,        \* are there few enough partitions to poll them all?
    phase,      \* "call", then "dropping" if it fails, then "done"
    arrived,    \* the partitions that succeeded, in the order they did
    reply       \* what the call returns; decided before "done" if it fails

joinVars == <<few, phase, arrived, reply>>
vars     == <<pc, conn, waiters, permits, idle, dead, noticed, backend, few, phase, arrived, reply>>

Promise == INSTANCE Gather WITH
              outcome <- [p \in 1..N |->
                             IF pc[p] = "ok" THEN "ok"
                             ELSE IF pc[p] \in {"poolErr", "queryErr"} THEN "failed"
                             ELSE "pending"],
              answer  <- IF phase = "done" THEN reply ELSE [kind |-> "none"]

Partitions == 1..N
Others     == Callers \ Partitions
InFlight   == {"waiting"} \union Holding
Failed(p)  == pc[p] \in {"poolErr", "queryErr"}

PartitionedInit ==
    /\ Init
    /\ few \in BOOLEAN
    /\ phase = "call"
    /\ arrived = <<>>
    /\ reply = Promise!None

-----------------------------------------------------------------------------
(* Polling.                                                                *)

\* Looking at is_closed does not suspend, so the poll that takes an idle
\* PostgreSQL connection also decides on it.
MidPoll(p) == pc[p] = "recycling" /\ ~Probes

Polls(p) ==
    /\ phase = "call"
    /\ \A q \in Partitions \ {p} : ~MidPoll(q)

\* The ordered collection yields the error of p: its predecessors succeeded.
ErrorInOrder(p) == Failed(p) /\ \A q \in 1..(p - 1) : pc[q] = "ok"

\* The first poll reaches the partitions in order.
Start(p) ==
    /\ Polls(p)
    /\ pc[p] = "fresh"
    /\ \A q \in 1..(p - 1) : pc[q] # "fresh"
    /\ Get(p)
    /\ UNCHANGED joinVars

\* @mutant the join does not look at a partition's error
NotesIgnoresError(p) ==
    /\ arrived' = IF pc'[p] = "ok" THEN Append(arrived, p) ELSE arrived
    /\ UNCHANGED <<few, phase, reply>>

\* @mutant a failure ends the call with the rows that have arrived
NotesReturnsArrived(p) ==
    IF pc'[p] \in {"poolErr", "queryErr"}
    THEN /\ phase' = "dropping"
         /\ reply' = Promise!RowsReply(
                         FlattenSeq([i \in DOMAIN arrived |-> Promise!Rows(arrived[i])]))
         /\ UNCHANGED <<few, arrived>>
    ELSE /\ arrived' = IF pc'[p] = "ok" THEN Append(arrived, p) ELSE arrived
         /\ UNCHANGED <<few, phase, reply>>

\* Partition p has just settled, or has not: what the join makes of it.
Notes(p) ==
    \/ /\ pc'[p] \notin Settled
       /\ UNCHANGED joinVars
    \/ /\ pc'[p] = "ok"
       /\ arrived' = Append(arrived, p)
       /\ UNCHANGED <<few, phase, reply>>
    \/ /\ pc'[p] \in {"poolErr", "queryErr"}
       /\ IF few
          THEN phase' = "dropping" /\ reply' = Promise!Error(p)
          ELSE UNCHANGED <<phase, reply>>
       /\ UNCHANGED <<few, arrived>>

\* The ordered collection polls on until an error is in order.
PollsOn(p) == Polls(p) /\ (~few => \A q \in Partitions : ~ErrorInOrder(q))

PartitionMoves(p)    == PollsOn(p) /\ LocalStep(p) /\ Notes(p)
PartitionAnswered(p) == PollsOn(p) /\ BackendStep(p) /\ Notes(p)

\* @mutant the ordered collection stops at any error it holds
SeeAnyError ==
    /\ phase = "call"
    /\ ~few
    /\ \E p \in Partitions : Failed(p) /\ reply' = Promise!Error(p)
    /\ phase' = "dropping"
    /\ UNCHANGED <<pc, conn, waiters, permits, idle, dead, noticed, backend, few, arrived>>

\* @mutant only the error of the first partition is looked at
SeeErrorOfFirst ==
    /\ phase = "call"
    /\ ~few
    /\ \E p \in Partitions : p = 1 /\ Failed(p) /\ reply' = Promise!Error(p)
    /\ phase' = "dropping"
    /\ UNCHANGED <<pc, conn, waiters, permits, idle, dead, noticed, backend, few, arrived>>

SeeErrorInOrder ==
    /\ phase = "call"
    /\ ~few
    /\ \E p \in Partitions : ErrorInOrder(p) /\ reply' = Promise!Error(p)
    /\ phase' = "dropping"
    /\ UNCHANGED <<pc, conn, waiters, permits, idle, dead, noticed, backend, few, arrived>>

-----------------------------------------------------------------------------
(* Returning.                                                              *)

\* @mutant the rows are concatenated as the partitions complete
CollectAsArrived == FlattenSeq([i \in DOMAIN arrived |-> Promise!Rows(arrived[i])])

\* results.into_iter().flatten(): slot p holds the rows of partition p.
Collect == FlattenSeq([p \in Partitions |-> Promise!Rows(p)])

\* @mutant the partitions that failed are skipped
ReturnWhatSucceeded ==
    /\ phase = "call"
    /\ \A p \in Partitions : pc[p] \in Settled
    /\ phase' = "done"
    /\ reply' = Promise!RowsReply(CollectAsArrived)
    /\ UNCHANGED <<pc, conn, waiters, permits, idle, dead, noticed, backend, few, arrived>>

ReturnRows ==
    /\ phase = "call"
    /\ \A p \in Partitions : pc[p] = "ok"
    /\ phase' = "done"
    /\ reply' = Promise!RowsReply(Collect)
    /\ UNCHANGED <<pc, conn, waiters, permits, idle, dead, noticed, backend, few, arrived>>

\* The future of the whole call is dropped by the one who awaits it.
Cancel ==
    /\ phase = "call"
    /\ \A p \in Partitions : ~MidPoll(p)
    /\ phase' = "dropping"
    /\ reply' = Promise!Cancelled
    /\ UNCHANGED <<pc, conn, waiters, permits, idle, dead, noticed, backend, few, arrived>>

\* @mutant the partitions that still run are forgotten instead of dropped
DropForgets ==
    /\ phase = "dropping"
    /\ \E p \in Partitions : pc[p] \in InFlight
    /\ pc' = [c \in Callers |->
                 IF c \in Partitions /\ pc[c] \in InFlight THEN "dropped" ELSE pc[c]]
    /\ UNCHANGED <<conn, waiters, permits, idle, dead, noticed, backend, few, phase, arrived, reply>>

\* The futures that are still there are dropped one after the other: up to
\* the limit a vector's, in order, above it those of a linked collection.
DropNext ==
    /\ phase = "dropping"
    /\ \E p \in Partitions :
          /\ pc[p] \in InFlight
          /\ few => \A q \in 1..(p - 1) : pc[q] \notin InFlight
          /\ Drop(p)
    /\ UNCHANGED joinVars

\* @mutant the error is returned while partitions still hold connections
ReturnBeforeDrop ==
    /\ phase = "dropping"
    /\ phase' = "done"
    /\ UNCHANGED <<pc, conn, waiters, permits, idle, dead, noticed, backend, few, arrived, reply>>

ReturnDropped ==
    /\ phase = "dropping"
    /\ \A p \in Partitions : pc[p] \notin InFlight
    /\ phase' = "done"
    /\ UNCHANGED <<pc, conn, waiters, permits, idle, dead, noticed, backend, few, arrived, reply>>

-----------------------------------------------------------------------------
(* Everybody else.                                                         *)

OtherStep(c) ==
    /\ \/ pc[c] = "fresh" /\ Get(c)
       \/ CallStep(c)
       \/ Drop(c)
    /\ UNCHANGED joinVars

PartitionedNext ==
    \/ \E p \in Partitions : Start(p) \/ PartitionMoves(p) \/ PartitionAnswered(p)
    \/ SeeErrorInOrder
    \/ ReturnRows
    \/ Cancel
    \/ DropNext
    \/ ReturnDropped
    \/ \E c \in Others : OtherStep(c)
    \/ LinkStep /\ UNCHANGED joinVars

PartitionedSpec == PartitionedInit /\ [][PartitionedNext]_vars

\* The task is polled when it is woken, timers fire and the backend answers;
\* nobody is obliged to start a call, to drop one or to keep a link up.
PartitionedFairSpec ==
    /\ PartitionedSpec
    /\ \A p \in Partitions :
          /\ WF_vars(Start(p))
          /\ WF_vars(PartitionMoves(p))
          /\ WF_vars(PartitionAnswered(p))
    /\ WF_vars(SeeErrorInOrder)
    /\ WF_vars(ReturnRows)
    /\ WF_vars(DropNext)
    /\ WF_vars(ReturnDropped)
    /\ \A c \in Others :
          /\ WF_vars(LocalStep(c) /\ UNCHANGED joinVars)
          /\ WF_vars(BackendStep(c) /\ UNCHANGED joinVars)

-----------------------------------------------------------------------------
(* Correctness.                                                            *)

\* The join's own variables have their types; a partition is among the
\* arrived ones exactly when its query succeeded.
PartitionedTypeOK ==
    /\ TypeOK
    /\ phase \in {"call", "dropping", "done"}
    /\ reply.kind \in {"none", "rows", "error", "cancelled"}
    /\ \A p \in Partitions : pc[p] = "ok" <=> p \in ToSet(arrived)

\* driver.rs: the rows come back complete, without repetition and in
\* partition order, whichever partition finishes first.
RowsInOrder ==
    phase = "done" /\ reply.kind = "rows" =>
        /\ ToSet(reply.rows) =
              UNION {{<<p, i>> : i \in 1..RowCount[p]} : p \in Partitions}
        /\ \A i, j \in DOMAIN reply.rows :
              LET a == reply.rows[i]
                  b == reply.rows[j]
              IN  i < j => a[1] < b[1] \/ (a[1] = b[1] /\ a[2] < b[2])

\* driver.rs: "If any partition fails the whole call fails with that error".
FailureIsReported ==
    phase = "done" =>
        /\ (\E p \in Partitions : Failed(p)) => reply.kind \in {"error", "cancelled"}
        /\ reply.kind = "error" => Failed(reply.of)

\* Above 30 partitions the error is the one of the first partition, in
\* partition order, that failed; the ones before it all succeeded.
FirstErrorReported ==
    ~few /\ phase = "done" /\ reply.kind = "error" =>
        \A q \in 1..(reply.of - 1) : pc[q] = "ok"

\* A call that has returned, in whatever way, leaves no partition behind: none
\* queued, none holding a permit or a connection (drop of the futures).
NothingLeftBehind ==
    phase = "done" =>
        \A p \in Partitions : pc[p] \notin InFlight /\ conn[p] = NoConn

\* The call does what Gather promises.
KeepsPromise == Promise!Spec

\* A call of query_partitioned returns.
CallReturns == <>(phase = "done")

=============================================================================
