------------------------------- MODULE Slices -------------------------------
(***************************************************************************)
(* How the helpers of partition.rs cut a request into slices: the key of   *)
(* the i-th boundary, the last key slice i selects, and which slices are   *)
(* left out.  A request is a record r: the helper asked, the inclusive     *)
(* interval [r.min, r.max] of keys, and the number r.n of partitions.      *)
(*                                                                         *)
(*   "int"       by_int_range: i64 keys                                    *)
(*   "uuid"      by_uuid_range_ordered: u128 sort keys (see UuidOrder)     *)
(*   "date"      by_date_range: days                                       *)
(*   "datetime"  by_datetime_range, by_timestamp_range: ticks, Unit of     *)
(*               which are a microsecond (1000 in chrono)                  *)
(*   "offset"    by_offset: the positions 0 .. total_rows - 1 of the rows  *)
(*               in the order asked for                                    *)
(*                                                                         *)
(* The code computes the ranges in i128 or u128, which these arguments do  *)
(* not overflow, and so over unbounded integers here; the pages in u64.    *)
(***************************************************************************)
EXTENDS Integers, Sequences

CONSTANTS
    Unit,       \* ticks in a microsecond
    Second,     \* ticks in a second
    MaxMicros,  \* the most microseconds an i64 holds
    Word        \* 2^64

ASSUME SlicesAssumption ==
    /\ Unit \in Nat \ {0}
    /\ Second \in Nat \ {0}
    /\ Second % Unit = 0
    /\ MaxMicros \in Nat
    /\ Word \in Nat \ {0}

Helpers == {"int", "uuid", "date", "datetime", "offset"}

\* No partition, or no key, is asked for: the early return of every helper.
Wanted(r) == r.n # 0 /\ r.min <= r.max

\* floor(a * num / den)
MulDiv(a, num, den) == (a \div den) * num + ((a % den) * num) \div den

-----------------------------------------------------------------------------
(* Integers: slice i is [CutInt(i), CutInt(i + 1)).                        *)

\* @mutant every slice has the same width and the last one takes the rest
CutEqual(r, i) ==
    IF i = r.n THEN r.max + 1 ELSE r.min + ((r.max - r.min + 1) \div r.n) * i

CutInt(r, i) == r.min + ((r.max - r.min + 1) * i) \div r.n

-----------------------------------------------------------------------------
(* UUIDs and dates: the boundaries run from min to max, both included.     *)

CutKey(r, i) == r.min + MulDiv(r.max - r.min, i, r.n)

-----------------------------------------------------------------------------
(* Times: the span is cut in whole microseconds, or in whole seconds when  *)
(* an i64 cannot hold its microseconds, and a boundary is printed with six *)
(* digits.                                                                 *)

Grain(r) == IF (r.max - r.min) \div Unit <= MaxMicros THEN Unit ELSE Second

SplitDuration(r, i) == Grain(r) * MulDiv((r.max - r.min) \div Grain(r), i, r.n)

Printed(t) == (t \div Unit) * Unit

CutTime(r, i) == Printed(r.min + SplitDuration(r, i))

-----------------------------------------------------------------------------
(* Pages: page rows each, rounded up; offset += page wraps.                *)

Page(r) == (r.max + r.n) \div r.n

Offset(r, i) == (Page(r) * i) % Word

-----------------------------------------------------------------------------
(* Slice i of a request.                                                   *)

FirstKey(r, i) ==
    CASE r.helper = "int"              -> CutInt(r, i)
      [] r.helper \in {"uuid", "date"} -> CutKey(r, i)
      [] r.helper = "datetime"         -> CutTime(r, i)
      [] r.helper = "offset"           -> Offset(r, i)

\* @mutant no slice is closed: key < 'hi' in the last one as well
NeverClosed(r, i) == FALSE

\* The last slice of a UUID or time interval is key >= 'lo' AND key <= 'hi'.
Closed(r, i) == r.helper \in {"uuid", "date", "datetime"} /\ i + 1 = r.n

Smaller(a, b) == IF a <= b THEN a ELSE b

\* @mutant the upper bound, which BETWEEN includes, is not moved down by one
LastHalfOpen(r, i) == FirstKey(r, i + 1)

\* The last key that the predicate of slice i selects.
LastKey(r, i) ==
    IF r.helper = "offset"
    THEN FirstKey(r, i) + Smaller(Page(r), r.max + 1 - FirstKey(r, i)) - 1
    ELSE IF Closed(r, i) THEN IF r.helper = "uuid" THEN r.max ELSE FirstKey(r, r.n)
    ELSE FirstKey(r, i + 1) - 1

\* Is slice i left out?  There are more partitions than keys.
Skipped(r, i) ==
    \/ r.helper = "int" /\ FirstKey(r, i) > LastKey(r, i)
    \/ r.helper = "uuid" /\ Closed(r, i) /\ FirstKey(r, i) > r.max
    \/ r.helper = "uuid" /\ ~Closed(r, i) /\ FirstKey(r, i) >= FirstKey(r, i + 1)
    \/ /\ r.helper \in {"date", "datetime"}
       /\ ~Closed(r, i) /\ FirstKey(r, i) = FirstKey(r, i + 1)

\* @mutant the loop runs to the number of partitions, inclusive
MoreInclusive(r, i) == IF r.helper = "offset" THEN FirstKey(r, i) <= r.max ELSE i <= r.n

\* Does the loop take turn i?
More(r, i) == IF r.helper = "offset" THEN FirstKey(r, i) < r.max + 1 ELSE i < r.n

=============================================================================
