------------------------------ MODULE MCStatement ------------------------------
(* Small instances of Statement for TLC.                                   *)
EXTENDS Statement

\* Integers of 2, 3, 4 and 5 bits; an f64 is exact up to 4 and an f32 up to 2.
MCHalf == (8 :> 2) @@ (16 :> 4) @@ (32 :> 8) @@ (64 :> 16)

\* Of every integer type the ends, their neighbours and the numbers about zero;
\* a UInt64 that is bound as a number (-11) that no f64 equals; one value of any
\* other type.
Edges(w, numbers) ==
    numbers \intersect {-Half[w], -1, 0, 1, Half[w] - 1, Half[w], 2 * Half[w] - 2, 2 * Half[w] - 1}

MCParams ==
    {Null, [kind |-> "UInt64", x |-> 21]} \union [kind : Opaque, x : {0}] \union
    UNION {[kind : {k}, x : Edges(w, Integral[k])] :
              <<k, w>> \in {<<"Int8", 8>>, <<"Int16", 16>>, <<"Int32", 32>>, <<"Int64", 64>>,
                            <<"UInt8", 8>>, <<"UInt16", 16>>, <<"UInt32", 32>>, <<"UInt64", 64>>}}

MCExtremes == {-16, -2, 1, 5, 9, 15, 31}

\* Another statement of a batch: no rows, or rows of two columns or of one.
MCOtherSets ==
    { [columns |-> <<"I32">>, table |-> <<>>],
      [columns |-> <<"String", "I64">>, table |-> << <<Cell(0), Cell(7)>>, <<NullCell, Cell(-16)>> >>],
      [columns |-> <<"Numeric">>, table |-> << <<Cell(9)>> >>] }

MCPlaces == {[host |-> "db", port |-> 9, database |-> "sales"]}

Account(kind, text, user, password) ==
    [auth |-> kind, text |-> text, user |-> user, password |-> password]

MCAuths ==
    {Account("SqlPassword", "none", "app", "secret"),
     Account("ConnectionString", "other", "", ""), Account("ConnectionString", "malformed", "", "")}
    \union {[NoAuth EXCEPT !.auth = a] : a \in {"None", "MotherDuck"} \union AzureKinds}

MCBuilderCalls ==
    {[tls |-> TRUE], [tls |-> FALSE], [trust |-> TRUE], [app |-> "reports"],
     [connStr |-> "ssl-mode=REQUIRED"], [connStr |-> "malformed"], [connectTimeout |-> 5],
     [min |-> 2, max |-> 20, timeout |-> 10, idle |-> 300, life |-> 1800]}

\* Each key in two forms, a port that is no number, an unknown key, no "=".
MCSegments ==
    {[host |-> "a"], [host |-> "b", port |-> 7], [host |-> "a", port |-> NoNumber],
     [database |-> "sales"], [database |-> "hr"],
     [user |-> "app"], [user |-> "root"], [password |-> "secret"],
     [encrypt |-> "false"], [encrypt |-> "strict"],
     [trustCert |-> "true"], [trustCert |-> "yes"],
     <<>>, [malformed |-> TRUE]}

\* One configuration of each backend, as the tests make it.
MCTalkers ==
    {New(b, p.host, p.port, p.database, Account("SqlPassword", "none", "app", "secret")) :
        b \in Backends, p \in MCPlaces}
===============================================================================
