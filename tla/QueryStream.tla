----------------------------- MODULE QueryStream -----------------------------
(***************************************************************************)
(* The stream of DbDriver::query_partitioned_stream and its consumer:      *)
(*                                                                         *)
(*     for p in partitions { futures.push_back(self.query(..)); }          *)
(*     futures.flat_map(|res| stream::iter(rows of res, or one Err))       *)
(*                                                                         *)
(* The futures of the partitions (callers 1..N of the pool) make progress  *)
(* only inside a poll of the stream, and flat_map polls them only when the *)
(* rows of the partition it is on have all been yielded.  Between two      *)
(* polls the consumer processes the last row, or runs a query of its own   *)
(* on the same driver (caller Me); the backend, the links and the pool's   *)
(* other callers move at any time, and a released permit goes to a queued  *)
(* partition whether or not it is polled.                                  *)
(***************************************************************************)
EXTENDS Pool

CONSTANTS
    N,          \* partitions.len()
    RowCount,   \* RowCount[p]: how many rows partition p yields
    Me          \* the consumer as a caller of the driver

ASSUME StreamAssumption ==
    /\ N \in Nat
    /\ RowCount \in [1..N -> Nat]
    /\ 1..N \subseteq Callers
    /\ Me \in Callers \ 1..N

VARIABLES
    consumer,   \* where the consumer is
    upto,       \* how many partitions the stream has taken up
    current,    \* items of partition upto that are still to be yielded
    seen        \* items yielded so far

streamVars == <<consumer, upto, current, seen>>
vars == <<pc, conn, waiters, permits, idle, dead, noticed, backend, consumer, upto, current, seen>>

Partitions == 1..N
Others     == Callers \ (Partitions \union {Me})
InFlight   == {"waiting"} \union Holding

\* @mutant a failed partition yields nothing
ItemsDropError(p) ==
    IF pc[p] = "ok" THEN [i \in 1..RowCount[p] |-> <<p, i>>] ELSE <<>>

\* What partition p contributes: its rows, or one Err, written <<p, 0>>.
Items(p) ==
    IF pc[p] = "ok" THEN [i \in 1..RowCount[p] |-> <<p, i>>] ELSE << <<p, 0>> >>

StreamInit ==
    /\ Init
    /\ consumer = "away"
    /\ upto = 0
    /\ current = <<>>
    /\ seen = <<>>

-----------------------------------------------------------------------------
(* A poll of the stream.                                                   *)

Pull ==
    /\ consumer = "away"
    /\ consumer' = "polling"
    /\ UNCHANGED <<pc, conn, waiters, permits, idle, dead, noticed, backend, upto, current, seen>>

\* The items of the partition at hand come first; each ends the poll.
YieldItem ==
    /\ consumer = "polling"
    /\ current # <<>>
    /\ seen' = Append(seen, Head(current))
    /\ current' = Tail(current)
    /\ consumer' = "away"
    /\ UNCHANGED <<pc, conn, waiters, permits, idle, dead, noticed, backend, upto>>

Wanted == upto + 1

\* flat_map is out of items, so it polls the ordered collection.
PollsFutures == consumer = "polling" /\ current = <<>> /\ upto < N

\* @mutant whichever partition has settled is taken up, not the next in order
TakeAnyResult ==
    /\ PollsFutures
    /\ \E p \in Partitions :
          /\ pc[p] \in Settled
          /\ \A i \in DOMAIN seen : seen[i][1] # p
          /\ current' = Items(p)
    /\ upto' = Wanted
    /\ UNCHANGED <<pc, conn, waiters, permits, idle, dead, noticed, backend, consumer, seen>>

\* @mutant a partition that failed is never taken up
TakeOnlyRows ==
    /\ PollsFutures
    /\ pc[Wanted] = "ok"
    /\ current' = Items(Wanted)
    /\ upto' = Wanted
    /\ UNCHANGED <<pc, conn, waiters, permits, idle, dead, noticed, backend, consumer, seen>>

\* The result of the next partition in order is there.
TakeResult ==
    /\ PollsFutures
    /\ pc[Wanted] \in Settled
    /\ current' = Items(Wanted)
    /\ upto' = Wanted
    /\ UNCHANGED <<pc, conn, waiters, permits, idle, dead, noticed, backend, consumer, seen>>

\* Looking at is_closed does not suspend, so the poll that takes an idle
\* PostgreSQL connection also decides on it.
MidPoll(p) == pc[p] = "recycling" /\ ~Probes

\* It is not there: the futures that can move do.
PollsPartition(p) ==
    /\ PollsFutures
    /\ pc[Wanted] \notin Settled
    /\ \A q \in Partitions \ {p} : ~MidPoll(q)

Start(p) ==
    /\ PollsPartition(p)
    /\ pc[p] = "fresh"
    /\ \A q \in 1..(p - 1) : pc[q] # "fresh"
    /\ Get(p)
    /\ UNCHANGED streamVars

PartitionStep(p) ==
    /\ PollsPartition(p)
    /\ CallStep(p)
    /\ UNCHANGED streamVars

\* next() returns None.
EndOfStream ==
    /\ consumer = "polling"
    /\ current = <<>>
    /\ upto = N
    /\ consumer' = "ended"
    /\ UNCHANGED <<pc, conn, waiters, permits, idle, dead, noticed, backend, upto, current, seen>>

\* The consumer stops waiting for the item (a timeout or a select around
\* next()), and keeps the stream.
Interrupt ==
    /\ consumer = "polling"
    /\ \A p \in Partitions : ~MidPoll(p)
    /\ consumer' = "away"
    /\ UNCHANGED <<pc, conn, waiters, permits, idle, dead, noticed, backend, upto, current, seen>>

-----------------------------------------------------------------------------
(* Between polls.                                                          *)

\* Between two items the consumer asks the same driver something.
Ask ==
    /\ consumer = "away"
    /\ pc[Me] = "fresh"
    /\ Get(Me)
    /\ consumer' = "asking"
    /\ UNCHANGED <<upto, current, seen>>

AskStep ==
    /\ CallStep(Me)
    /\ UNCHANGED streamVars

\* @mutant the consumer pulls again while its own query still runs
AnsweredEarly ==
    /\ consumer = "asking"
    /\ consumer' = "away"
    /\ UNCHANGED <<pc, conn, waiters, permits, idle, dead, noticed, backend, upto, current, seen>>

Answered ==
    /\ consumer = "asking"
    /\ pc[Me] \in Settled
    /\ consumer' = "away"
    /\ UNCHANGED <<pc, conn, waiters, permits, idle, dead, noticed, backend, upto, current, seen>>

\* The consumer drops the stream, and with it the futures one by one.
DropStream ==
    /\ consumer \in {"away", "polling"}
    /\ \A p \in Partitions : ~MidPoll(p)
    /\ consumer' = "dropping"
    /\ UNCHANGED <<pc, conn, waiters, permits, idle, dead, noticed, backend, upto, current, seen>>

\* The futures that remain are dropped in the collection's order, not the
\* partitions'.
DropNext ==
    /\ consumer = "dropping"
    /\ \E p \in Partitions : pc[p] \in InFlight /\ Drop(p)
    /\ UNCHANGED streamVars

\* @mutant the futures are detached instead of dropped
DroppedDetached ==
    /\ consumer = "dropping"
    /\ consumer' = "gone"
    /\ UNCHANGED <<pc, conn, waiters, permits, idle, dead, noticed, backend, upto, current, seen>>

Dropped ==
    /\ consumer = "dropping"
    /\ \A p \in Partitions : pc[p] \notin InFlight
    /\ consumer' = "gone"
    /\ UNCHANGED <<pc, conn, waiters, permits, idle, dead, noticed, backend, upto, current, seen>>

OtherStep(c) ==
    /\ \/ pc[c] = "fresh" /\ Get(c)
       \/ CallStep(c)
       \/ Drop(c)
    /\ UNCHANGED streamVars

-----------------------------------------------------------------------------
Poll ==
    \/ YieldItem
    \/ TakeResult
    \/ EndOfStream
    \/ \E p \in Partitions : Start(p) \/ PartitionStep(p)

StreamNext ==
    \/ Poll
    \/ Pull \/ Interrupt
    \/ Ask \/ AskStep \/ Answered
    \/ DropStream \/ DropNext \/ Dropped
    \/ \E c \in Others : OtherStep(c)
    \/ LinkStep /\ UNCHANGED streamVars

StreamSpec == StreamInit /\ [][StreamNext]_vars

\* The runtime polls what is woken and the backend answers.  A partition's
\* future is polled in every poll of the stream that waits for items, so what
\* is enabled there again and again is done (strong fairness).
RuntimeFairness ==
    /\ WF_vars(YieldItem) /\ WF_vars(EndOfStream) /\ SF_vars(TakeResult)
    /\ \A p \in Partitions : SF_vars(Start(p)) /\ SF_vars(PartitionStep(p))
    /\ WF_vars(AskStep) /\ WF_vars(Answered)
    /\ WF_vars(DropNext) /\ WF_vars(Dropped)
    /\ \A c \in Others : WF_vars(CallStep(c) /\ UNCHANGED streamVars)

StreamFairSpec == StreamSpec /\ RuntimeFairness

\* A consumer that comes back for the next item.
KeenConsumerSpec == StreamFairSpec /\ WF_vars(Pull) /\ SF_vars(YieldItem) /\ SF_vars(EndOfStream)

-----------------------------------------------------------------------------
(* Correctness.                                                            *)

\* The stream's own variables have their types, and the consumer does one
\* thing at a time.
StreamTypeOK ==
    /\ TypeOK
    /\ consumer \in {"away", "polling", "asking", "ended", "dropping", "gone"}
    /\ upto \in 0..N
    /\ pc[Me] \in InFlight => consumer = "asking"

\* driver.rs: items come in partition order and, within one, in row order,
\* whichever partition finishes first.
ItemsInOrder ==
    \A i, j \in DOMAIN seen :
        i < j => \/ seen[i][1] < seen[j][1]
                 \/ seen[i][1] = seen[j][1] /\ seen[i][2] < seen[j][2]

\* driver.rs: a partition the stream has passed has yielded all of its rows,
\* or, if it failed, exactly one Err in its place, and the stream went on.
NothingSkipped ==
    LET passed == IF consumer = "ended" THEN N
                  ELSE IF current = <<>> THEN upto ELSE upto - 1
        of(p)  == {i \in DOMAIN seen : seen[i][1] = p}
    IN  \A p \in 1..passed :
            IF pc[p] = "ok"
            THEN {seen[i][2] : i \in of(p)} = 1..RowCount[p]
            ELSE pc[p] \in Settled /\ {seen[i][2] : i \in of(p)} = {0}

\* Once the stream is gone no partition is queued or holds anything.
StreamLeavesNothing ==
    consumer \in {"gone", "ended"} =>
        \A p \in Partitions : pc[p] \notin InFlight /\ conn[p] = NoConn

\* A consumer that keeps pulling comes to the end of the stream (or drops it),
\* unless, without timeouts, it waits for ever for a query of its own.
StreamEnds ==
    \/ <>(consumer \in {"ended", "gone"})
    \/ ~HasTimeouts /\ <>[](consumer = "asking")

\* With the wait timeout, a query the consumer runs between two items comes
\* back although the partitions it holds up may own every permit.
OwnQueryTimesOut ==
    HasTimeouts /\ consumer = "asking" ~> consumer # "asking"

\* README: a query waits for a connection "up to the configured timeout", so
\* one that the consumer runs between two items comes back.
OwnQueryReturns == consumer = "asking" ~> consumer # "asking"

=============================================================================
