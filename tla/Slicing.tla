------------------------------- MODULE Slicing -------------------------------
(***************************************************************************)
(* The loop of the helpers of partition.rs: one step is one turn, which    *)
(* pushes a slice or leaves it out.                                        *)
(***************************************************************************)
EXTENDS Slices

CONSTANTS
    Ends,       \* Ends[h]: the values min and max of helper h come from
    Counts      \* the values the number of partitions comes from (u32)

ASSUME SlicingAssumption ==
    /\ Ends \in [Helpers -> SUBSET Int]
    /\ Counts \subseteq Nat

VARIABLES
    ask,        \* the request
    i,          \* the loop counter
    out,        \* the slices so far, as <<first key, last key>>
    done        \* has the helper returned?

vars == <<ask, i, out, done>>

\* by_offset is asked for total_rows = max + 1 rows, which may be none.
Asked(r) == r.helper = "offset" => r.min = 0 /\ r.max >= -1

Init ==
    /\ \E h \in Helpers, n \in Counts : \E a, b \in Ends[h] :
          /\ ask = [helper |-> h, min |-> a, max |-> b, n |-> n]
          /\ Asked(ask)
    /\ i = 0
    /\ out = <<>>
    /\ done = FALSE

Refuse ==
    /\ ~done
    /\ ~Wanted(ask)
    /\ done' = TRUE
    /\ UNCHANGED <<ask, i, out>>

Push ==
    /\ ~done /\ Wanted(ask) /\ More(ask, i)
    /\ ~Skipped(ask, i)
    /\ out' = Append(out, <<FirstKey(ask, i), LastKey(ask, i)>>)
    /\ i' = i + 1
    /\ UNCHANGED <<ask, done>>

\* @mutant an empty slice is tried again
SkipStays ==
    /\ ~done /\ Wanted(ask) /\ More(ask, i)
    /\ Skipped(ask, i)
    /\ UNCHANGED vars

Skip ==
    /\ ~done /\ Wanted(ask) /\ More(ask, i)
    /\ Skipped(ask, i)
    /\ i' = i + 1
    /\ UNCHANGED <<ask, out, done>>

Return ==
    /\ ~done /\ Wanted(ask) /\ ~More(ask, i)
    /\ done' = TRUE
    /\ UNCHANGED <<ask, i, out>>

Next == Refuse \/ Push \/ Skip \/ Return

Spec == Init /\ [][Next]_vars

FairSpec == Spec /\ WF_vars(Next)

-----------------------------------------------------------------------------
\* The ends can be printed and the span is a number of grains; the offsets do
\* not wrap, as they do not for the i64 number of rows build_partitions has.
Exact(r) ==
    /\ r.helper = "datetime" => r.min % Unit = 0 /\ (r.max - r.min) % Grain(r) = 0
    /\ r.helper = "offset"   => 2 * r.max + 1 < Word

\* The first key no slice has yet.
At == IF out = <<>> THEN ask.min ELSE out[Len(out)][2] + 1

Abstract == INSTANCE Tiling WITH
               min <- ask.min, max <- ask.max, wanted <- Wanted(ask),
               at <- At, ranges <- out

TypeOK ==
    /\ ask \in [helper : Helpers, min : Int, max : Int, n : Counts]
    /\ ask.min \in Ends[ask.helper] /\ ask.max \in Ends[ask.helper]
    /\ i \in 0..ask.n
    /\ out \in Seq(Int \X Int)
    /\ done \in BOOLEAN

\* The docs of the helpers: at most n partitions, none empty, and sized as
\* evenly as the helper's grain allows; of the pages only the last is smaller.
EvenlySized ==
    LET size(j) == out[j][2] - out[j][1] + 1
        slack   == CASE ask.helper = "int"              -> 1
                     [] ask.helper \in {"uuid", "date"} -> 2
                     [] ask.helper = "datetime"         -> Grain(ask) + 1
                     [] ask.helper = "offset"           -> 0
    IN  /\ Len(out) <= ask.n
        /\ \A j \in DOMAIN out : size(j) > 0
        /\ \A j, l \in DOMAIN out :
              IF ask.helper = "offset" /\ l = Len(out)
              THEN size(l) <= size(j)
              ELSE size(j) - size(l) <= slack

\* "The ranges tile [min, max] with no gaps or overlaps" (by_int_range, and so
\* the others): every key of the interval is selected by one partition, and by
\* one only, and no other key is.
EachKeyOnce == Abstract!EachKeyOnce

\* The helpers tile [min, max].
Tiles == Abstract!Spec

\* The helpers return.
Returns == <>done
=============================================================================
