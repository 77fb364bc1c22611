------------------------------- MODULE Gather -------------------------------
(***************************************************************************)
(* What DbDriver::query_partitioned promises, without a pool, tasks or     *)
(* polling: every partition comes to one outcome, and the call replies     *)
(* once, either with all the rows in partition order, when every partition *)
(* succeeded, or with the error of a partition that failed.  A caller may  *)
(* give the call up.                                                       *)
(***************************************************************************)
EXTENDS Integers, SequencesExt

CONSTANTS
    N,          \* number of partitions
    RowCount    \* RowCount[p]: how many rows partition p has

VARIABLES
    outcome,    \* outcome[p] of partition p: "pending", "ok" or "failed"
    answer      \* the reply of the call

gatherVars == <<outcome, answer>>

Partitions == 1..N

\* The rows of partition p, told apart by their partition and position.
Rows(p) == [i \in 1..RowCount[p] |-> <<p, i>>]

None         == [kind |-> "none"]
RowsReply(r) == [kind |-> "rows", rows |-> r]
Error(p)     == [kind |-> "error", of |-> p]
Cancelled    == [kind |-> "cancelled"]

Init ==
    /\ outcome = [p \in Partitions |-> "pending"]
    /\ answer = None

Come(p) ==
    /\ answer = None
    /\ outcome[p] = "pending"
    /\ \E o \in {"ok", "failed"} : outcome' = [outcome EXCEPT ![p] = o]
    /\ UNCHANGED answer

AnswerRows ==
    /\ answer = None
    /\ \A p \in Partitions : outcome[p] = "ok"
    /\ answer' = RowsReply(FlattenSeq([p \in Partitions |-> Rows(p)]))
    /\ UNCHANGED outcome

AnswerError ==
    /\ answer = None
    /\ \E p \in Partitions : outcome[p] = "failed" /\ answer' = Error(p)
    /\ UNCHANGED outcome

GiveUp ==
    /\ answer = None
    /\ answer' = Cancelled
    /\ UNCHANGED outcome

Next == (\E p \in Partitions : Come(p)) \/ AnswerRows \/ AnswerError \/ GiveUp

Spec == Init /\ [][Next]_gatherVars

=============================================================================
