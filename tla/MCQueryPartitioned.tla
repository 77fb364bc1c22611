------------------------- MODULE MCQueryPartitioned -------------------------
(* Small instances of QueryPartitioned for TLC.                            *)
EXTENDS QueryPartitioned

CONSTANTS o1, k1, k2

\* Three partitions, of two rows, none and one, and another call.
MCCallers  == 1..3 \union {o1}
MCRowCount == <<2, 0, 1>>
MCConns    == {k1, k2}
=============================================================================
