------------------------------ MODULE UuidOrder ------------------------------
(***************************************************************************)
(* UUIDs, and the sort keys that by_uuid_range_ordered cuts instead of     *)
(* them.  A UUID is a sequence of bytes; a backend compares two of them    *)
(* byte by byte, in an order of significance of its own: "lexical" from    *)
(* the first byte to the last, "sqlserver" as SQLSERVER_ORDER lists them.  *)
(***************************************************************************)
EXTENDS Integers, SequencesExt

CONSTANTS
    Radix,          \* 256
    ServerOrder     \* SQLSERVER_ORDER: byte positions, most significant first

ASSUME UuidOrderAssumption ==
    /\ Radix \in Nat \ {0, 1}
    /\ ServerOrder \in Seq(Nat)
    /\ ToSet(ServerOrder) = 1..Len(ServerOrder)

Orders    == {"lexical", "sqlserver"}
Positions == 1..Len(ServerOrder)
Uuids     == [Positions -> 0..(Radix - 1)]

\* How many UUIDs, and so how many keys, there are.
KeyCount ==
    LET count[p \in 0..Len(ServerOrder)] == IF p = 0 THEN 1 ELSE count[p-1] * Radix
    IN  count[Len(ServerOrder)]

Significance(order) ==
    IF order = "sqlserver" THEN ServerOrder ELSE [p \in Positions |-> p]

\* uuid_to_key: the bytes, the most significant first, shifted into a number.
UuidToKey(u, order) ==
    LET key[p \in 0..Len(ServerOrder)] ==
            IF p = 0 THEN 0 ELSE key[p-1] * Radix + u[Significance(order)[p]]
    IN  key[Len(ServerOrder)]

\* Byte p of a key, written with as many bytes as a UUID has (to_be_bytes).
ByteOfKey(key, p) ==
    LET rest[k \in 0..Len(ServerOrder)] ==
            IF k = 0 THEN key ELSE rest[k-1] \div Radix
    IN  rest[Len(ServerOrder) - p] % Radix

\* @mutant the positions of the key's bytes and of the UUID's are swapped
KeyToUuidSwapped(key, order) ==
    [p \in Positions |-> ByteOfKey(key, Significance(order)[p])]

\* key_to_uuid: byte p of the key goes where the order takes byte p from.
KeyToUuid(key, order) ==
    LET sig == Significance(order)
    IN  [q \in Positions |-> ByteOfKey(key, CHOOSE p \in Positions : sig[p] = q)]

\* How a backend compares: the most significant byte that differs decides.
SortsBefore(u, v, order) ==
    LET sig == Significance(order)
    IN  \E p \in Positions :
           /\ u[sig[p]] < v[sig[p]]
           /\ \A q \in 1..(p - 1) : u[sig[q]] = v[sig[q]]

\* The predicate of a slice of sort keys: key >= '<lo>' AND key < '<hi>', or, in
\* the slice that reaches max, key <= '<max>'.  The literals are written in one
\* order, and compared by the backend in its own.
SelectsUuid(slice, max, written, compared, u) ==
    /\ ~SortsBefore(u, KeyToUuid(slice[1], written), compared)
    /\ IF slice[2] = max
       THEN ~SortsBefore(KeyToUuid(max, written), u, compared)
       ELSE SortsBefore(u, KeyToUuid(slice[2] + 1, written), compared)
=============================================================================
