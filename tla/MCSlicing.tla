------------------------------ MODULE MCSlicing ------------------------------
(* The helpers of partition.rs on every interval of a small window.        *)
EXTENDS UuidSlicing

MCCounts == 0..5

\* Two ticks make a microsecond and six a second.  Of a span above sixteen
\* ticks (-4 to 14) the microseconds do not fit.  All ends are Exact.
MCTimes == {-4, -2, 0, 2, 4, 8, 10, 14}

MCEnds == [h \in Helpers |-> CASE h = "int"      -> -3..5
                               [] h = "uuid"     -> 0..7
                               [] h = "date"     -> -3..3
                               [] h = "datetime" -> MCTimes
                               [] h = "offset"   -> -1..7]

\* Ends with a fraction of a microsecond.
FineEnds == [h \in Helpers |-> IF h = "datetime" THEN 0..9 ELSE {}]

\* Not its own inverse, as SQLSERVER_ORDER is not.
MCServerOrder == <<2, 3, 1>>
=============================================================================
