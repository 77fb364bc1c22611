----------------------------- MODULE UuidSlicing -----------------------------
(***************************************************************************)
(* The slices of by_uuid_range_ordered as the backend sees them: the       *)
(* boundaries are sort keys in the loop and UUID literals in the SQL.      *)
(***************************************************************************)
EXTENDS Slicing, UuidOrder

\* uuid_to_key and key_to_uuid work in u128, which has a key for every UUID.
ASSUME UuidSlicingAssumption == Ends["uuid"] \subseteq 0..(KeyCount - 1)

\* by_uuid_range_ordered: "the half-open ranges tile [min, max] with no gaps or
\* overlaps under that backend's comparison", whichever the order.
EachUuidOnce ==
    ask.helper = "uuid" /\ done /\ Wanted(ask) =>
        \A order \in Orders : \A u \in Uuids :
            LET between == UuidToKey(u, order) \in ask.min..ask.max
                takers  == {j \in DOMAIN out : SelectsUuid(out[j], ask.max, order, order, u)}
            IN  IF between THEN \E j \in takers : takers = {j} ELSE takers = {}
=============================================================================
