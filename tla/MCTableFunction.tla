-------------------------- MODULE MCTableFunction --------------------------
(* Small instances of TableFunction for TLC.                               *)
EXTENDS TableFunction

\* No partitioning parameter at all.
NoParams ==
    [count |-> <<>>, key |-> FALSE, uuidMin |-> <<>>, uuidMax |-> <<>>,
     min |-> <<>>, max |-> <<>>, orderBy |-> FALSE, total |-> <<>>]

\* Counts below, at and above what a u32 holds (CountWord is 4), with each
\* strategy complete, incomplete, empty or not given.
MCParams ==
    {NoParams} \union
    [count   : {<<c>> : c \in {-1, 0, 2, 3, 4, 6}},
     key     : BOOLEAN,
     uuidMin : {<<>>, <<0>>, <<1>>},
     uuidMax : {<<3>>},
     min     : {<<>>, <<1>>},
     max     : {<<0>>, <<2>>},
     orderBy : {TRUE},
     total   : {<<>>, <<0>>, <<3>>}]

PlainParams   == {NoParams}
MCContents    == {{}, {0, 2, 3}, 0..3}
MCOtherRows   == {{}, {2, 3}}
MCServerOrder == <<2, 1>>
=============================================================================
