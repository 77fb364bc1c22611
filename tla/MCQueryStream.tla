---------------------------- MODULE MCQueryStream ----------------------------
(* Small instances of QueryStream for TLC.                                 *)
EXTENDS QueryStream, TLC

CONSTANTS o1, me, k1, k2, k3

\* Three partitions, of two rows, none and one, the consumer, another call.
MCCallers   == 1..3 \union {me, o1}
MCRowCount  == <<2, 0, 1>>

\* Two partitions of one row, and the consumer.
TwoCallers  == 1..2 \union {me}
TwoRowCount == <<1, 1>>

MCConns     == {k1, k2, k3}
TwoConns    == {k1, k2}

Symmetry == Permutations(Conns)
=============================================================================
