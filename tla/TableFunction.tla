---------------------------- MODULE TableFunction ----------------------------
(***************************************************************************)
(* One call of postgres_query, mysql_query or mssql_query in DuckDB, from  *)
(* its named parameters to the chunks of its scans (vtab/mod.rs):          *)
(*                                                                         *)
(*     bind  build_partitions, connect, query_partitioned, column type     *)
(*     init  a cursor at row 0; a prepared statement is scanned again and  *)
(*           again on the rows of one bind                                 *)
(*     func  the next BatchSize rows; DuckDB calls it until a chunk is     *)
(*           empty                                                         *)
(*                                                                         *)
(* A row of the remote query is known by its key: a number, which is also  *)
(* its UUID read as one and its rank in ORDER BY.  Each partition is a     *)
(* statement of its own, so that others write between two of them.         *)
(***************************************************************************)
EXTENDS Slices, UuidOrder, FiniteSets

CONSTANTS
    Params,     \* the named parameters: records of optional values
    Contents,   \* what the remote query may yield, sets of keys
    OtherRows,  \* which of them may belong to a further result set of a batch
    Backends,   \* a subset of {"postgres", "mysql", "mssql"}
    CountWord,  \* 2^32
    BatchSize,  \* 2048
    MaxScans,   \* bound on the scans of one bind
    MaxWrites   \* bound on the writes to the remote table

\* An optional value is a sequence of no element or one.
Given(opt) == opt # <<>>

\* A UUID has as many bytes as every other; the number of rows is an i64, and
\* that of partitions becomes a u32.
ASSUME TableFunctionAssumption ==
    /\ \A keys \in Contents : IsFiniteSet(keys) /\ keys \subseteq 0..(KeyCount - 1)
    /\ \A p \in Params :
          /\ Given(p.count) => p.count[1] \in Int
          /\ Given(p.min) => p.min[1] \in Int
          /\ Given(p.max) => p.max[1] \in Int
          /\ Given(p.uuidMin) => p.uuidMin[1] \in 0..(KeyCount - 1)
          /\ Given(p.uuidMax) => p.uuidMax[1] \in 0..(KeyCount - 1)
          /\ Given(p.total) => /\ p.total[1] \in Int
                              /\ 2 * p.total[1] <= Word
                              /\ p.total[1] + CountWord <= Word
    /\ CountWord \in Nat \ {0} /\ BatchSize \in Nat \ {0}
    /\ MaxScans \in Nat /\ MaxWrites \in Nat

VARIABLES
    params,     \* the named parameters of this call
    backend,    \* which of the table functions it is
    remote,     \* the rows the query yields if it is run now
    kept,       \* those that have been there since the call began
    nulls,      \* the rows whose column is NULL
    others,     \* the rows of a second result set, whose column has another type
    writes,     \* writes to the remote table so far
    stage,      \* "bind", "querying", "failed", "bound", "scan" or "end"
    parts,      \* the partitions, in order
    results,    \* results[p]: the rows of partition p, or none yet
    rows,       \* RemoteQueryBindData::rows
    ltype,      \* the type declared for the column
    pos,        \* RemoteQueryCursor::pos
    delivered,  \* the rows this scan has handed to DuckDB
    scans       \* scans begun

remoteVars == <<remote, kept, nulls, others, writes>>
bindVars   == <<parts, results, rows, ltype>>
scanVars   == <<pos, delivered, scans>>
vars       == <<params, backend, remoteVars, stage, bindVars, scanVars>>

-----------------------------------------------------------------------------
(* build_partitions                                                        *)

\* n as u32
AsU32(n) == n % CountWord

\* The partitions that a helper returns for request r.
Partitions(r) ==
    LET slice(j) == [request |-> r, keys |-> <<FirstKey(r, j), LastKey(r, j)>>]
    IN  IF ~Wanted(r) THEN <<>>
        ELSE FlattenSeq([j \in 1..r.n |->
                 IF More(r, j - 1) /\ ~Skipped(r, j - 1) THEN <<slice(j - 1)>> ELSE <<>>])

Request(h, lo, hi) ==
    [helper |-> h, min |-> lo, max |-> hi, n |-> AsU32(params.count[1])]

UuidComplete ==
    params.key /\ Given(params.count) /\ Given(params.uuidMin) /\ Given(params.uuidMax)

IntComplete ==
    params.key /\ Given(params.count) /\ Given(params.min) /\ Given(params.max)

OffsetComplete == params.orderBy /\ Given(params.count) /\ Given(params.total)

UuidPartitions ==
    IF UuidComplete /\ params.count[1] > 0
    THEN Partitions(Request("uuid", params.uuidMin[1], params.uuidMax[1])) ELSE <<>>

IntPartitions ==
    IF IntComplete /\ params.count[1] > 0
    THEN Partitions(Request("int", params.min[1], params.max[1])) ELSE <<>>

OffsetPartitions ==
    IF OffsetComplete /\ params.count[1] > 0 /\ params.total[1] > 0
    THEN Partitions(Request("offset", 0, params.total[1] - 1)) ELSE <<>>

Plain == << [request |-> [helper |-> "none"]] >>

\* @mutant the first strategy that has its parameters is taken, empty or not
BuildFirstComplete ==
    IF UuidComplete THEN UuidPartitions
    ELSE IF IntComplete THEN IntPartitions
    ELSE IF OffsetComplete THEN OffsetPartitions ELSE Plain

\* The first strategy that gives any partition; else the query as it is.
BuildPartitions ==
    LET tried   == <<UuidPartitions, IntPartitions, OffsetPartitions, Plain>>
        some(p) == p # <<>>
    IN  tried[SelectInSeq(tried, some)]

-----------------------------------------------------------------------------
(* What the backend answers.                                               *)

BackendOrder == IF backend = "mssql" THEN "sqlserver" ELSE "lexical"

UuidOf(key) == KeyToUuid(key, "lexical")

\* by_uuid_range writes its literals in byte order, whatever the backend.
Selects(part, key) ==
    LET h == part.request.helper
    IN  \/ h = "none"
        \/ h = "int" /\ part.keys[1] <= key /\ key <= part.keys[2]
        \/ h = "uuid" /\ SelectsUuid(part.keys, part.request.max, "lexical",
                                     BackendOrder, UuidOf(key))
        \/ /\ h = "offset"
           /\ Cardinality({k \in remote : k < key}) \in part.keys[1]..part.keys[2]

\* The order of the rows is the backend's; no property is about it.
Answer(part) == SetToSeq({k \in remote : Selects(part, k)})

-----------------------------------------------------------------------------
(* bind                                                                    *)

Init ==
    /\ params \in Params
    /\ backend \in Backends
    /\ remote \in Contents
    /\ kept = remote
    /\ nulls \in SUBSET remote
    /\ others \in OtherRows
    /\ others # {} => backend = "mssql"
    /\ writes = 0
    /\ stage = "bind"
    /\ parts = <<>> /\ results = <<>> /\ rows = <<>> /\ ltype = "none"
    /\ pos = 0 /\ delivered = <<>> /\ scans = 0

Bind ==
    /\ stage = "bind"
    /\ parts' = BuildPartitions
    /\ results' = [p \in DOMAIN parts' |-> <<>>]
    /\ stage' = "querying"
    /\ UNCHANGED <<params, backend, remoteVars, rows, ltype, scanVars>>

\* The partitions run concurrently; each is answered from the rows of then.  A
\* batch is no subquery: the server refuses it when a helper has wrapped it.
RunPartition ==
    /\ stage = "querying"
    /\ others # {} => parts = Plain
    /\ \E p \in DOMAIN parts :
          /\ results[p] = <<>>
          /\ results' = [results EXCEPT ![p] = <<Answer(parts[p])>>]
    /\ UNCHANGED <<params, backend, remoteVars, stage, parts, rows, ltype, scanVars>>

\* The backend cannot be reached or a partition fails: bind returns the error.
BindFails ==
    /\ stage = "querying"
    /\ stage' = "failed"
    /\ UNCHANGED <<params, backend, remoteVars, bindVars, scanVars>>

\* The variant of the row's value: run_query joins the rows of all result sets.
Cell(row) == IF row \in nulls THEN "null"
             ELSE IF row \in others THEN "smallint" ELSE "integer"

\* @mutant the type of the column is taken from its first value
InferFromFirst(rs) ==
    IF rs = <<>> \/ Cell(rs[1]) = "null" THEN "varchar" ELSE Cell(rs[1])

\* infer_col_type: the first value that is not null decides.
InferColType(rs) ==
    LET valued(row) == Cell(row) # "null"
        first       == SelectInSeq(rs, valued)
    IN  IF first = 0 THEN "varchar" ELSE Cell(rs[first])

\* @mutant bind goes on as soon as one partition has answered
BindEndsEarly ==
    /\ stage = "querying"
    /\ LET answered(p) == results[p] # <<>>
           first       == SelectSeq([p \in DOMAIN parts |-> p], answered)
       IN  first # <<>> /\ rows' = results[first[1]][1]
    /\ ltype' = IF rows' = <<>> THEN "none" ELSE InferColType(rows')
    /\ stage' = "bound"
    /\ UNCHANGED <<params, backend, remoteVars, parts, results, scanVars>>

\* query_partitioned returns; an empty answer declares no column.
BindEnds ==
    /\ stage = "querying"
    /\ \A p \in DOMAIN parts : results[p] # <<>>
    /\ rows' = FlattenSeq([p \in DOMAIN parts |-> results[p][1]])
    /\ ltype' = IF rows' = <<>> THEN "none" ELSE InferColType(rows')
    /\ stage' = "bound"
    /\ UNCHANGED <<params, backend, remoteVars, parts, results, scanVars>>

-----------------------------------------------------------------------------
(* init and func                                                           *)

InitScan ==
    /\ stage \in {"bound", "end"}
    /\ scans < MaxScans
    /\ pos' = 0
    /\ delivered' = <<>>
    /\ scans' = scans + 1
    /\ stage' = "scan"
    /\ UNCHANGED <<params, backend, remoteVars, bindVars>>

\* @mutant the last row of every batch is left behind
FuncShort ==
    /\ stage = "scan"
    /\ pos < Len(rows)
    /\ LET batch == Smaller(Len(rows) - pos, BatchSize)
       IN  /\ delivered' = delivered \o SubSeq(rows, pos + 1, pos + batch - 1)
           /\ pos' = pos + batch
    /\ UNCHANGED <<params, backend, remoteVars, stage, bindVars, scans>>

Func ==
    /\ stage = "scan"
    /\ pos < Len(rows)
    /\ LET batch == Smaller(Len(rows) - pos, BatchSize)
       IN  /\ delivered' = delivered \o SubSeq(rows, pos + 1, pos + batch)
           /\ pos' = pos + batch
    /\ UNCHANGED <<params, backend, remoteVars, stage, bindVars, scans>>

\* An empty chunk, which ends the scan.
FuncEnds ==
    /\ stage = "scan"
    /\ pos >= Len(rows)
    /\ stage' = "end"
    /\ UNCHANGED <<params, backend, remoteVars, bindVars, scanVars>>

-----------------------------------------------------------------------------
\* Somebody deletes a row of the remote table, or adds one.
RemoteWrite ==
    /\ stage = "querying"
    /\ writes < MaxWrites
    /\ writes' = writes + 1
    /\ \/ /\ \E key \in remote : remote' = remote \ {key}
          /\ kept' = kept \intersect remote'
       \/ /\ \E key \in (UNION Contents) \ remote : remote' = remote \union {key}
          /\ UNCHANGED kept
    /\ UNCHANGED <<params, backend, nulls, others, stage, bindVars, scanVars>>

Next ==
    \/ Bind \/ RunPartition \/ BindFails \/ BindEnds
    \/ InitScan \/ Func \/ FuncEnds
    \/ RemoteWrite

Spec == Init /\ [][Next]_vars

-----------------------------------------------------------------------------
(* Correctness.                                                            *)

Fetched == stage \in {"bound", "scan", "end"}

Strategy == IF parts = <<>> THEN "none" ELSE parts[1].request.helper

\* Is the row within the bounds of every strategy whose parameters are
\* complete, in the backend's order and in that of the bytes?
InBounds(row) ==
    /\ UuidComplete =>
          /\ row \in params.uuidMin[1]..params.uuidMax[1]
          /\ ~SortsBefore(UuidOf(row), UuidOf(params.uuidMin[1]), BackendOrder)
          /\ ~SortsBefore(UuidOf(params.uuidMax[1]), UuidOf(row), BackendOrder)
    /\ IntComplete => row \in params.min[1]..params.max[1]
    /\ OffsetComplete => Cardinality({k \in kept : k < row}) < params.total[1]

RowTwice  == \E j, l \in DOMAIN rows : j # l /\ rows[j] = rows[l]
RowMissed == \E row \in kept : InBounds(row) /\ row \notin ToSet(rows)

\* The variables have their types; a partition has an answer before bind ends.
TypeOK ==
    /\ kept \subseteq remote
    /\ stage \in {"bind", "querying", "failed", "bound", "scan", "end"}
    /\ stage = "bind" <=> parts = <<>>
    /\ Fetched => \A p \in DOMAIN parts : results[p] # <<>>
    /\ ltype \in {"none", "varchar", "smallint", "integer"}
    /\ pos \in 0..Len(rows)
    /\ scans \in 0..MaxScans

\* README: the partitions are an optimisation, and missing or incomplete
\* parameters fall back to the query as it is.  Whatever the parameters, no row
\* comes twice, and no row within the bounds is missed that was there all the
\* time.  Pages shift when others write meanwhile, and SQL Server compares the
\* UUIDs of by_uuid_range in another order; these two are left out.
EachRowOnce ==
    Fetched /\ ~(Strategy = "offset" /\ writes > 0)
            /\ ~(Strategy = "uuid" /\ backend = "mssql") =>
        ~RowTwice /\ ~RowMissed

\* The chunks of a scan are the rows of the bind, each once and in order, when
\* DuckDB sees the empty chunk, and in every later scan again.
ScanComplete ==
    /\ delivered = SubSeq(rows, 1, pos)
    /\ stage = "end" => delivered = rows

\* README: values "are inferred into DuckDB logical types and written directly
\* into DuckDB's output vectors".  write_value writes each with its own width
\* into a vector of the declared type, so the two must agree wherever the value
\* is not null.
CellsFit == Fetched => \A j \in DOMAIN rows : Cell(rows[j]) \in {"null", ltype}

Mixed == \E j, l \in DOMAIN rows : Cell(rows[j]) = "smallint" /\ Cell(rows[l]) = "integer"

\* Whichever of the values are null, and wherever they stand, the others fit the
\* declared type (infer_col_type, write_value), unless they are themselves of
\* two types, as the result sets of one batch may be.
OneTypeFits == ~Mixed => CellsFit

=============================================================================
