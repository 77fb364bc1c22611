------------------------------- MODULE Tiling -------------------------------
(***************************************************************************)
(* What every helper of partition.rs promises: "the ranges tile [min, max] *)
(* with no gaps or overlaps", and an input it does not want (no partition, *)
(* or an empty interval) gives no range at all.  Keys are integers; a      *)
(* range is the pair of its first and its last key.                        *)
(***************************************************************************)
EXTENDS Integers, Sequences

VARIABLES
    min, max,   \* the interval asked for
    wanted,     \* does the request ask for anything?
    at,         \* the first key that no range has yet
    ranges,     \* the ranges so far
    done

tilingVars == <<min, max, wanted, at, ranges, done>>

Selects(range, key) == range[1] <= key /\ key <= range[2]

Init ==
    /\ min \in Int
    /\ max \in Int
    /\ wanted \in BOOLEAN
    /\ wanted => min <= max
    /\ at = min
    /\ ranges = <<>>
    /\ done = FALSE

\* The next range starts where the last one ended, and is not empty.
Cut ==
    /\ ~done
    /\ wanted
    /\ \E last \in at..max :
          /\ ranges' = Append(ranges, <<at, last>>)
          /\ at' = last + 1
    /\ UNCHANGED <<min, max, wanted, done>>

Finish ==
    /\ ~done
    /\ wanted => at = max + 1
    /\ done' = TRUE
    /\ UNCHANGED <<min, max, wanted, at, ranges>>

Next == Cut \/ Finish

Spec == Init /\ [][Next]_tilingVars

\* What a user of the helpers relies on: the partitions together select every
\* key of [min, max] once, and no other key.
EachKeyOnce ==
    done /\ wanted =>
        /\ \A key \in min..max :
              \E j \in DOMAIN ranges :
                  /\ Selects(ranges[j], key)
                  /\ \A l \in DOMAIN ranges : Selects(ranges[l], key) => l = j
        /\ \A j \in DOMAIN ranges :
              min <= ranges[j][1] /\ ranges[j][2] <= max
=============================================================================
