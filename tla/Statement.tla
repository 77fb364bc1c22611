------------------------------- MODULE Statement -------------------------------
(***************************************************************************)
(* A parameter on its way into a column, back out of it in the rows of a   *)
(* query, and into a column of DuckDB, on any backend, over a connection   *)
(* that Connect has logged in.                                             *)
(*                                                                         *)
(* One INSERT with one parameter, then one SELECT.  SQL Server runs it as  *)
(* a batch, which may hold other statements with rows of their own; its    *)
(* answer is a stream of items.                                            *)
(***************************************************************************)
EXTENDS Values, Connect

CONSTANTS
    Params,     \* the values that callers bind
    Extremes,   \* the numbers that others have put into columns, and the server holds
    OtherSets,  \* the result sets of the other statements of a batch
    Talkers     \* bound: the configurations whose callers go on to run statements

\* May a column of SQL Server hold this cell?
Holds(col, c) ==
    \/ c = NullCell
    \/ c.is = "value" /\ (col \in DOMAIN IntColumns => c.x \in IntColumns[col])

ASSUME StatementAssumption ==
    /\ Params \subseteq Values
    /\ Extremes \subseteq Int
    /\ \A set \in OtherSets :
          /\ set.columns \in Seq(Columns("mssql"))
          /\ Len(set.table) \in Nat /\ DOMAIN set.table = 1..Len(set.table)
          /\ \A j \in DOMAIN set.table :
                /\ DOMAIN set.table[j] = DOMAIN set.columns
                /\ \A k \in DOMAIN set.columns : Holds(set.columns[k], set.table[j][k])

VARIABLES
    stage,      \* "idle", "bound", "stored", "streaming", "answered", "declared" or "failed"
    param,      \* the parameter, as the caller gave it
    column,     \* the column it goes to
    cell,       \* what the server holds there
    sent,       \* the result sets of the SELECT, as the server holds them
    incoming,   \* the items of them that run_query has not read
    colMeta,    \* run_query's col_meta
    rows,       \* the rows converted, each with its columns
    ltypes      \* the types of DuckDB's columns

resultVars    == <<sent, incoming, colMeta, rows, ltypes>>
statementVars == <<stage, param, column, cell, resultVars>>
vars          == <<connectVars, statementVars>>

backend == config.backend

Init ==
    /\ ConnectInit
    /\ stage = "idle"
    /\ param = Null /\ column = "none" /\ cell = NullCell
    /\ sent = <<>> /\ incoming = <<>> /\ colMeta = <<>> /\ rows = <<>> /\ ltypes = <<>>

-----------------------------------------------------------------------------
(* execute                                                                 *)

\* @mutant a statement is sent before its connection is there
BindUnconnected ==
    /\ phase \in {"driver", "in"} /\ stage = "idle"
    /\ config \in Talkers
    /\ param' \in Params
    /\ column' \in Columns(backend)
    /\ stage' = "bound"
    /\ UNCHANGED <<connectVars, cell, resultVars>>

\* A caller sends an INSERT.
Bind ==
    /\ phase = "in" /\ stage = "idle"
    /\ config \in Talkers
    /\ param' \in Params
    /\ column' \in Columns(backend)
    /\ stage' = "bound"
    /\ UNCHANGED <<connectVars, cell, resultVars>>

\* What others may have put into a column.
Held(col) ==
    IF col \in DOMAIN IntColumns
    THEN {Cell(n) : n \in Extremes \intersect IntColumns[col]}
    ELSE {Cell(n) : n \in IF col = "Numeric" THEN Extremes ELSE {0}} \union
         (IF col \in {"DATE", "TIMESTAMP", "TIMESTAMPTZ", "DATETIME"} THEN {OddCell} ELSE {})

\* The parameter is stored.
Store ==
    /\ stage = "bound"
    /\ LET bound == Bound(backend, param)
       IN  /\ Storable(backend, column, bound)
           /\ IF bound.null THEN cell' = NullCell
              ELSE \E n \in Stores(column, bound.x) : cell' = Cell(n)
    /\ stage' = "stored"
    /\ UNCHANGED <<connectVars, param, column, resultVars>>

\* The library or the server refuses it, for its type, its range or otherwise.
Refuse ==
    /\ stage = "bound"
    /\ stage' = "failed"
    /\ UNCHANGED <<connectVars, param, column, cell, resultVars>>

\* The caller stores nothing and asks for a column that others have filled.
StoredByOthers ==
    /\ phase = "in" /\ stage = "idle"
    /\ config \in Talkers
    /\ column' \in Columns(backend)
    /\ cell' \in Held(column')
    /\ stage' = "stored"
    /\ UNCHANGED <<connectVars, param, resultVars>>

-----------------------------------------------------------------------------
(* query                                                                   *)

Tables == {<< <<cell>> >>} \union {<< <<c>>, <<cell>> >> : c \in Held(column) \union {NullCell}}

\* A result set of the column alone.
Alone(table) == [columns |-> <<column>>, table |-> table]

Batches ==
    {<<Alone(t)>> : t \in Tables} \union
    (IF backend = "mssql"
     THEN {<<Alone(t), other>> : t \in Tables, other \in OtherSets} \union
          {<<other, Alone(t)>> : t \in Tables, other \in OtherSets}
     ELSE {})

\* The items of a result set: its metadata, then its rows.  The data of a row
\* know their types.
Items(set) ==
    << [is |-> "metadata", columns |-> set.columns] >> \o
    [j \in DOMAIN set.table |-> [is |-> "row", types |-> set.columns, cells |-> set.table[j]]]

Query ==
    /\ stage = "stored"
    /\ sent' \in Batches
    /\ incoming' = FlattenSeq([j \in DOMAIN sent' |-> Items(sent'[j])])
    /\ stage' = "streaming"
    /\ UNCHANGED <<connectVars, param, column, cell, colMeta, rows, ltypes>>

\* Row::new: columns, and the values of cells of these types
Row(columns, types, cells) ==
    [columns |-> columns,
     values  |-> [j \in DOMAIN cells |-> ReadCell(backend, types[j], cells[j])]]

\* Is there a cell that ends the query with an error?
Unreadable == \E j \in DOMAIN sent[1].table : ReadFails(backend, column, sent[1].table[j][1])

\* PostgreSQL and MySQL: all rows come, then each is converted.
FetchAll ==
    /\ stage = "streaming" /\ backend # "mssql"
    /\ ~Unreadable
    /\ LET set == sent[1]
       IN  rows' = [j \in DOMAIN set.table |-> Row(set.columns, set.columns, set.table[j])]
    /\ incoming' = <<>>
    /\ stage' = "answered"
    /\ UNCHANGED <<connectVars, param, column, cell, sent, colMeta, ltypes>>

FetchFails ==
    /\ stage = "streaming" /\ backend # "mssql"
    /\ Unreadable
    /\ stage' = "failed"
    /\ UNCHANGED <<connectVars, param, column, cell, resultVars>>

\* @mutant the metadata of the first result set are kept for all rows
ReadMetadataOnce ==
    /\ stage = "streaming" /\ backend = "mssql"
    /\ incoming # <<>> /\ Head(incoming).is = "metadata"
    /\ colMeta' = IF colMeta = <<>> THEN Head(incoming).columns ELSE colMeta
    /\ incoming' = Tail(incoming)
    /\ UNCHANGED <<connectVars, stage, param, column, cell, sent, rows, ltypes>>

\* SQL Server: run_query takes the items one by one.
ReadMetadata ==
    /\ stage = "streaming" /\ backend = "mssql"
    /\ incoming # <<>> /\ Head(incoming).is = "metadata"
    /\ colMeta' = Head(incoming).columns
    /\ incoming' = Tail(incoming)
    /\ UNCHANGED <<connectVars, stage, param, column, cell, sent, rows, ltypes>>

ReadRow ==
    /\ stage = "streaming" /\ backend = "mssql"
    /\ incoming # <<>> /\ Head(incoming).is = "row"
    /\ rows' = Append(rows, Row(colMeta, Head(incoming).types, Head(incoming).cells))
    /\ incoming' = Tail(incoming)
    /\ UNCHANGED <<connectVars, stage, param, column, cell, sent, colMeta, ltypes>>

EndOfItems ==
    /\ stage = "streaming" /\ backend = "mssql"
    /\ incoming = <<>>
    /\ stage' = "answered"
    /\ UNCHANGED <<connectVars, param, column, cell, resultVars>>

\* @mutant what came before the error is returned
StreamFailsQuietly ==
    /\ stage = "streaming"
    /\ stage' = "answered"
    /\ UNCHANGED <<connectVars, param, column, cell, resultVars>>

\* The connection is lost: the rows read so far are dropped with the error.
StreamFails ==
    /\ stage = "streaming"
    /\ stage' = "failed"
    /\ rows' = <<>>
    /\ UNCHANGED <<connectVars, param, column, cell, sent, incoming, colMeta, ltypes>>

-----------------------------------------------------------------------------
(* DuckDB                                                                  *)

\* infer_col_type: the first row that has a value there decides.
InferColType(j) ==
    LET valued(row) == j \in DOMAIN row.values /\ row.values[j] # Null
        first       == SelectInSeq(rows, valued)
    IN  IF first = 0 THEN "Varchar" ELSE LogicalType(rows[first].values[j].kind)

\* RemoteVTab::bind adds a column for each of the first row.
AddColumns ==
    /\ stage = "answered" /\ rows # <<>>
    /\ ltypes' = [j \in DOMAIN rows[1].columns |-> InferColType(j)]
    /\ stage' = "declared"
    /\ UNCHANGED <<connectVars, param, column, cell, sent, incoming, colMeta, rows>>

-----------------------------------------------------------------------------
Next ==
    \/ ConnectNext /\ UNCHANGED statementVars
    \/ Bind \/ Store \/ Refuse \/ StoredByOthers
    \/ Query \/ FetchAll \/ FetchFails
    \/ ReadMetadata \/ ReadRow \/ EndOfItems \/ StreamFails
    \/ AddColumns

Spec == Init /\ [][Next]_vars

-----------------------------------------------------------------------------
(* Correctness.                                                            *)

Answered == stage \in {"answered", "declared"}

\* What the server sent, row by row, with the columns of its result set.
SentRows ==
    FlattenSeq([j \in DOMAIN sent |->
        [k \in DOMAIN sent[j].table |-> [columns |-> sent[j].columns, cells |-> sent[j].table[k]]]])

\* The variables have their types; a statement runs on a driver that is logged
\* in, and an integer that comes back fits its variant, as Rust's types demand.
TypeOK ==
    /\ phase \in {"start", "building", "parsing", "ready", "refused", "driver", "in"}
    /\ stage \in {"idle", "bound", "stored", "streaming", "answered", "declared", "failed"}
    /\ stage # "idle" => phase = "in" /\ column \in Columns(backend)
    /\ param \in Values
    /\ \A j \in DOMAIN rows : \A k \in DOMAIN rows[j].values :
          LET value == rows[j].values[k]
          IN  value.kind \in DOMAIN Integral => value.x \in Integral[value.kind]
    /\ Len(ltypes) = (IF stage = "declared" THEN Len(rows[1].columns) ELSE 0)

\* README: every Row is "a list of Columns plus a list of Values".  An answer has
\* a row for every row of every result set, in order, with the columns of its own
\* result set and a value for each.  After an error there is no row.
RowsMatchColumns ==
    /\ Answered =>
          /\ Len(rows) = Len(SentRows)
          /\ \A j \in DOMAIN rows :
                /\ rows[j].columns = SentRows[j].columns
                /\ Len(rows[j].values) = Len(rows[j].columns)
    /\ stage = "failed" => rows = <<>>

\* The columns of which no value can be read, on each backend: of PostgreSQL's,
\* every one that pg_col_to_value does not list and the library does not give as
\* a String.
Lost ==
    [postgres |-> {"TIME", "TIMETZ", "INTERVAL", "NUMERIC", "MONEY", "OID", "INET", "XML",
                   "ENUM", "ARRAY", "REST"},
     mysql    |-> {"TINYINT", "DECIMAL", "YEAR", "GEOMETRY"},
     mssql    |-> {"Xml"}]

\* The driver "converts the backend's rows into the unified Row type" (README).
\* No value is taken for a NULL but those the code cannot convert: a Null in the
\* answer is a NULL of the server, or stands for a value of one of the columns
\* above, or, on MySQL alone, for one that chrono cannot hold, which ends a query
\* of PostgreSQL with an error.
OnlyKnownLosses ==
    Answered =>
        \A j \in DOMAIN rows : \A k \in DOMAIN rows[j].values :
            LET held == SentRows[j].cells[k]
            IN  rows[j].values[k] = Null <=>
                    \/ held = NullCell
                    \/ SentRows[j].columns[k] \in Lost[backend]
                    \/ held = OddCell /\ backend = "mysql"

\* What DuckDB gets for the value: a vector of the type that it is written for.
WellWritten(value, j) == value = Null \/ WritesTo[value.kind] = ltypes[j]

\* The number that a column gets of an integer parameter.  A UInt64 above
\* i64::MAX has only its low 64 bits left.
Kept == IF param.x > Half[64] - 1 THEN param.x - 2 * Half[64] ELSE param.x

\* An integer that was bound, stored in any column and read again is the number
\* that was bound, and is written to a DuckDB column of its width, with these
\* exceptions: a UInt64 that an i64 cannot hold; a column that is read as a Bool
\* (TINYINT(1), BIT), of which only whether it is zero is left; one that is read
\* as a float, of which what the f32 or f64 has no bits for is lost, and no more;
\* and a column of another result set in a batch, of which DuckDB takes the first
\* one's type.
NumbersSurvive ==
    Answered /\ param.kind \in DOMAIN Integral =>
        \A j \in DOMAIN rows :
            SentRows[j].columns = <<column>> /\ SentRows[j].cells = <<cell>> =>
                LET value == rows[j].values[1]
                    error == Magnitude(value.x - Kept)
                IN  value # Null =>
                    /\ CASE value.kind = "Bool"    -> value.x = Truth(Kept)
                         [] value.kind = "Float32" -> error * SingleMantissa <= Magnitude(Kept)
                         [] value.kind = "Float64" -> error * Mantissa <= Magnitude(Kept)
                         [] OTHER                  -> value.x = Kept
                    /\ stage = "declared" /\ Len(sent) = 1 => WellWritten(value, 1)

===============================================================================
