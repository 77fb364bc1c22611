# Specifications of rust-db-driver

TLA+ modules, TLC configurations and TLAPS proofs for `rust-db-driver`, a Rust
library (and DuckDB extension) that runs SQL on PostgreSQL, MySQL and SQL
Server through connection pools, and splits one query into partitions that run
in parallel. Paths below are relative to the repository root; line numbers are
those of the modelled commit. `PROJECT.json` maps every definition to its lines.

## 1. Inventory

| Part | Code | State | Operations |
|---|---|---|---|
| PostgreSQL driver | `src/backends/postgres.rs`, `src/pool.rs` | a deadpool pool with wait, create and recycle timeouts | `connect`, `query`, `execute`, `ping` |
| SQL Server driver | `src/backends/mssql.rs` | a deadpool pool without timeouts, its `MssqlManager` | the same, `create`, `recycle` |
| MySQL driver | `src/backends/mysql.rs` | an sqlx pool | the same |
| Partitioned query | `src/driver.rs:60` | one future per partition, owned by `try_join_all` | `query_partitioned` |
| Partitioned stream | `src/driver.rs:97` | `FuturesOrdered` of the partitions, the rows at hand | `query_partitioned_stream`, the consumer's `next` and drop |
| Azure tokens | `src/auth/azure.rs` | `RwLock<Option<CachedToken>>`, the credential chain | `get_token`, `refresh_token` |
| Partition helpers | `src/partition.rs` | none | `by_int_range`, `by_offset`, `by_uuid_range(_ordered)`, `by_date_range`, `by_datetime_range`, `by_timestamp_range` |
| Table functions | `src/vtab/mod.rs` | the rows of one call, an atomic cursor, a global runtime | `bind`, `init`, `func`, `build_partitions`, the connectors |
| Conversions | `src/row.rs`, `*_to_value`, `to_pg_params`, `bind_params`, `build_mysql_args` | none | value by value |
| Configuration, auth, errors | `src/config.rs`, `src/auth/`, `src/error.rs` | plain data | builders |
| Entry points | `src/extension.rs`, `src/lib.rs`, `src/backends/mod.rs` | none | registration, exports |

How they interact. A driver is shared by reference; every `query`, `execute`
and `ping` takes a permit and a connection from its pool and gives both back
when its future ends or is dropped. `query_partitioned` runs one `query` per
partition inside one task; the stream does the same, but only while it is
polled. Opening a SQL Server connection with Azure AD calls `get_token` on a
provider the whole pool shares. A table function builds its partitions with
the helpers, opens a pool of its own, and blocks on `query_partitioned`.

What is hard, and what correctness means, part by part:

* **Pools.** Any number of futures, polled by several threads, end in any of
  five ways at any await. Permits are neither lost nor made up, at most
  `max_connections` connections exist, a connection serves one caller, no
  waiter is forgotten, and nobody waits for ever.
* **Partitioned query.** Partitions finish in any order; the first failure
  drops the others wherever they are. The rows are complete and in partition
  order, an error is the error of a partition that failed, nothing stays
  behind, and the call returns.
* **Stream.** Futures that do not move unless polled hold permits. Items are in
  order, none is skipped, an error stands in its partition's place, and a
  consumer that keeps pulling reaches the end.
* **Tokens.** A check under one lock, an update under another, an await between
  them. A token from the cache is good for the refresh buffer; nobody deadlocks
  on the lock; one failing source hides no other.
* **Helpers.** Off-by-one at every cut, fewer keys than partitions, rounded and
  printed bounds, two orders of UUIDs. The predicates select each key once.
* **Configuration.** Defaults, builder methods and the keys of a connection
  string set the same fields in any order, and each driver hands its client
  library a different part of them. Of the settings a driver hands on, the last
  one given is what the login uses, or the driver refuses the configuration.
* **Conversions.** Three backends bind twenty kinds of value in types of their
  own and read columns back in others. A number comes back as the number it
  was, every row with the columns of its result set, and Null stands for NULL;
  the last holds with exceptions only.
* **Table functions.** Choice of a strategy, narrowing casts, partitions that
  are separate statements, one column type for all rows, batches and cursors.
  Every row of the remote table reaches DuckDB once per scan.

`PROJECT.json` lists these under `hazards`, each at its line.

## 2. Modules

| Module | Models |
|---|---|
| `Pool` | the pool, with the drivers' calls as its callers and the backend as its environment |
| `PoolProofs` | theorems about `Pool`, and what a step of one caller leaves of the others |
| `Gather` | what `query_partitioned` promises, without a pool |
| `QueryPartitioned` | one call of it on a pool that others share; implements `Gather` |
| `PartitionedProofs` | theorems about it, among them the refinement of `Gather` |
| `MCQueryPartitioned` | its instances for TLC |
| `QueryStream` | the stream and its consumer on a pool that others share |
| `StreamProofs` | theorems about it |
| `MCQueryStream` | its instances for TLC |
| `TokenCache` | `AzureTokenProvider` and its clients |
| `TokenCacheProofs` | theorems about `TokenCache` |
| `Tiling` | what a partition helper promises |
| `Slices` | how the helpers cut a request: boundaries, predicates, empty slices |
| `Slicing` | their loop; implements `Tiling` |
| `SlicingProofs` | theorems about `Tiling`, that refinement, and the tiling of UUIDs |
| `UuidOrder` | UUIDs, their two orders and the keys that are cut instead |
| `UuidSlicing` | the slices of UUIDs as the backend sees them |
| `MCSlicing` | instances of the helpers for TLC |
| `TableFunction` | `build_partitions`, `bind`, `init` and `func` on a table others write to |
| `TableFunctionProofs` | theorems about it, on those of `SlicingProofs` |
| `MCTableFunction` | its instances for TLC |
| `Values` | `Value`, and the tables by which the backends bind, store and read it |
| `Connect` | from a `DatabaseConfig` or a connection string to a login |
| `Statement` | one INSERT and one SELECT on a connection that `Connect` has logged in, and the columns DuckDB declares for the answer |
| `StatementProofs` | theorems about the login, the answer and its numbers |
| `MCStatement` | its instances for TLC |
| `SequenceFacts` | lemmas: induction stated of sets, what `FlattenSeq` returns |

### Pool

`pc[c]` is the await (or the lock) caller `c` is at:

| `pc` | in the code |
|---|---|
| `fresh`, or a settled value | not in a call |
| `waiting` | `pool.get().await`, queued for a permit |
| `granted` | has a permit, about to look at the idle list |
| `recycling` | an idle connection is being recycled: `MssqlManager::recycle`, or `is_closed` |
| `creating` | `MssqlManager::create`, or the PostgreSQL connect |
| `running` | `prepare`, `query`, `execute`, `simple_query`, and reading the rows |
| `ok`, `poolErr`, `queryErr`, `dropped` | the four ways a call ends: a result, an error of `get`, an error of the statement, its future dropped |

`backend` is the driver in use, chosen at the start; it selects what the two
configure differently: `HasTimeouts` (`postgres.rs:43-51`; the SQL Server pool
is built at `mssql.rs:173` with `max_size` only) and `Probes`
(`MssqlManager::recycle` sends a statement; deadpool-postgres looks at a flag
its connection task sets some time after the link went down: `dead` and
`noticed`).

deadpool is a library, modelled as the drivers use it: a fair semaphore (a
released permit goes to the first waiter at once, polled or not), an idle list,
an object that is closed when its recycling fails or is dropped half-way. A
connection goes back to the idle list without a look at its state, also when
its call failed or was dropped. Which idle connection is taken is left open.

### QueryPartitioned and Gather

The callers `1..N` of `Pool` are the partitions. The pool's actions are used as
they are, with what the join adds: `Start` is the first poll in order,
`PartitionMoves` and `PartitionAnswered` a later poll, in which `Notes` is
`try_join_all`'s reaction to a partition that settles. Above 30 futures (`few`
is false) `try_join_all` sees an error only when every earlier partition has
succeeded: `SeeErrorInOrder`. `ReturnRows` concatenates; `DropNext` and
`ReturnDropped` are the drop of the futures that remain, before the error is
returned: in order below the limit, where they stand in a slice, in any order
above, where they stand in a `FuturesOrdered`. `Cancel` is the caller dropping
the call. `Gather` knows outcomes and one answer; the mapping is `Promise` in
`QueryPartitioned`. Since every action is one of `Pool`'s or leaves its
variables alone, the module is also a behaviour of `Pool`; this says nothing
about the code, and is a lemma (`KeepsPool`) by which the pool's theorems
apply.

### QueryStream

`Pull` begins a poll; it ends with an item (`YieldItem`), the end
(`EndOfStream`) or the consumer giving the item up (`Interrupt`). The
partitions move only in a poll that is out of rows (`PollsPartition`), because
`flat_map` does not poll `FuturesOrdered` while it has items: that is the
module's point. In between the consumer may `Ask` the same driver. The pool's
other actors move at any time.

`src/driver.rs:72` says "All partitions are dispatched up front and run
concurrently"; they are dispatched, but run only while the consumer waits for an
item.

### TokenCache

The steps are the code between two awaits: ask for the read lock (`Ask`), get
it (`Read`), decide, fetch from one source after the other, get the write lock
and store, log in. `queue` is that of tokio's `RwLock`, which readers and
writers share: a reader waits for the writers before it, a writer for everybody
before it. `Close` also drops a creation at any of its awaits, and so takes a
waiter out of the queue. `now` is the clock in units; `Buffer` stands for
`TOKEN_REFRESH_BUFFER_SECS`, `Fallback` for the hour assumed for a token that
names no end. The credential may answer with a token that is nearly over.

### Tiling, Slices, Slicing and the UUID modules

`Tiling` cuts `[min, max]` from the left, each range starting where the last
one ended. `Slices` has one operator per formula of `partition.rs`, over the
key of the helper: integers, days, ticks of chrono (nanoseconds; `Unit` of them
are a microsecond), positions in an order, and sort keys of UUIDs. `FirstKey` is
the lower bound of a slice and `LastKey` the last key its predicate selects,
whether the predicate is `BETWEEN`, half-open, closed or a page. `Slicing` is
the `for` or `while` loop, one step per turn. Integers are unbounded where the
code computes in `i128` or `u128` (which its arguments do not overflow), and
wrap at `Word` where it computes in `u64`.

`UuidOrder` has `uuid_to_key` and `key_to_uuid` on sequences of bytes, and the
comparison a backend makes. `UuidSlicing` states the promise of
`by_uuid_range_ordered` on UUIDs rather than on keys.

`Exact` is the hypothesis under which the helpers tile: the ends of a date-time
interval are printed without loss and the span is a number of grains
(microseconds, or seconds when the microseconds do not fit an `i64`), and the
offsets do not wrap. Without the first the run `slicing_fine` shows what is
lost; the condition on offsets holds for every number of rows the table
functions can pass.

### TableFunction

A call has optional named parameters (`<<>>` or `<<v>>`). `Bind` picks the
first strategy that yields a partition; `RunPartition` is one statement, which
sees the table of that moment; `BindEnds` concatenates and declares the column.
`InitScan`, `Func` and `FuncEnds` are DuckDB scanning the rows, more than once
when a statement was prepared. `RemoteWrite` is somebody else's insert or
delete between two partitions. A row is its key, which also is its UUID (read
as a number) and its place in `ORDER BY`, and has one column, NULL or an
integer. In what order a partition's answer comes is left to the backend
(`SetToSeq`). `others` are the rows of a second result set, which a batch of
SQL Server may have and whose column is an integer of another width (`Cell`);
`run_query` joins the rows of all sets, and a batch stays unpartitioned, since
no helper can wrap it in a subquery. `TableFunctionAssumption` has what the
types of the code give: a UUID is one of `KeyCount`, `total_rows` is an `i64`
whose pages are counted in `u64`, and a number of partitions fits a `u32`. The
order of the partitions' statements and the pool under them are the subject of
`QueryPartitioned`, and are not repeated.

### Values, Connect and Statement

`Values` has no state. A value is its variant and a payload: for integers, and
for what is read from a column where a number was put, the number; otherwise a
token. `Bound` is `to_pg_params`, `build_mysql_args` or `bind_params` (the
casts wrap at the width of `Half`), `Reads` are the tables of
`pg_col_to_value`, `mysql_col_to_value` (its conditions in order, matched
against the words in the name of a type) and `column_data_to_value`, and
`LogicalTypes` and `WritesTo` the two matches of the table functions. What the
client libraries accept is theirs, and taken as follows: tokio-postgres
converts a column to exactly one of the Rust types and refuses the others, with
an error that `try_get` returns; sqlx converts any integer column of the right
sign, to a bool too, floats to each other, and no `DECIMAL` to an `f64`;
tiberius tags each cell with its own type. PostgreSQL's types are unbounded in
number: of those that `pg_col_to_value` does not list, the table has the common
ones, `ARRAY` and `ENUM` for every type of that kind, and `REST` for the rest.

`Storable` and `Stores` are the servers'. PostgreSQL's client library takes a
parameter for its own column only; MySQL and SQL Server also put numbers into
integer, float, bit, decimal and text columns, refuse those out of an integer
column's range, round to a nearby float (any that is as near as the mantissa
allows), and parse strings. Left out are the other conversions of servers
(numbers into dates, times, years, JSON or binary columns, floats with
fractions, texts that are numbers), `BIT(n)` wider than one bit, and MySQL
without its strict mode, which clips numbers.

`Connect` has the constructors and builder methods, or one of the table
functions' connectors with `parse_mssql_conn_str`, one segment a step. `given`
remembers every setting in the words it was given in; `options` is what the
driver handed on (`HandedOn`), with MySQL's `ssl_mode` as it is computed, also
over the one in a connection string. `connect_timeout` is a field that no
driver reads. MySQL logs in within `connect()`; the other two do when the first
statement needs a connection, and so does a refusal of the server.

`Statement` composes them: only a connection that is logged in takes a
statement. A parameter goes into a column or is refused; the answer to the
SELECT comes row by row, for SQL Server as a stream of metadata and rows of
several result sets, which `run_query` (`colMeta`) pairs; the connection may be
lost at any item. `AddColumns` is `RemoteVTab::bind` with `infer_col_type`.

## 3. Runs

| Run | Instance | Shows |
|---|---|---|
| `pool` | 4 callers, 2 permits, 2 connections, both drivers | the five invariants and `WaitEnds` |
| `partitioned` | 3 partitions of 2, 0 and 1 rows, another call, 2 connections, both drivers, both ways of joining | order and completeness of the rows, which failure is reported, nothing left behind, the refinement of `Gather`, and that the call returns |
| `stream` | the same partitions behind a stream, a consumer with its own query, another call | order, no gaps, nothing left behind |
| `stream_live` | 2 partitions and the consumer's query on 1 connection | the stream ends, and on PostgreSQL the consumer's query comes back, thanks to the wait timeout |
| `token` | 2 clients, 2 sources, lifetimes below and above the buffer | types and guards, `HitLastsBuffer`, `AllSourcesTried`, `GetTokenReturns` |
| `slicing` | every helper on every interval of a window of 7 to 19 keys, 0 to 5 partitions | sizes, the tiling of keys and of UUIDs, the refinement of `Tiling`, termination |
| `table_function` | every combination of parameters, one write, two scans, and batches of two result sets | `EachRowOnce`, `ScanComplete`, `OneTypeFits` |
| `statement` | every configuration of up to 2 builder calls or 3 segments; one configuration per backend goes on with every parameter in every column, and batches of 2 result sets | `LoginAsConfigured`, `RowsMatchColumns`, `OnlyKnownLosses`, `NumbersSurvive` |

Runs that find a statement of the documentation violated by the code:

| Run | The statement | What happens |
|---|---|---|
| `ask_mssql` | `README.md:57` "waiting up to the configured timeout" | a consumer that queries the SQL Server driver between two items waits for ever for permits owned by partitions only it could poll |
| `token_one_fetch` | `README.md:180` "reuse one cached token instead of each fetching their own" | connections created together each fetch |
| `slicing_fine` | `src/partition.rs:410` "the last closes inclusively on `max`" | bounds with a fraction of a microsecond are rounded down, and rows just below `max` are in no partition |
| `table_batch` | `README.md:85` values "are inferred into DuckDB logical types and written directly into DuckDB's output vectors" | `mssql_query` with a batch of two result sets: the column has the type of the first one's values, and those of the second are written with their own width |

Met while modelling, and stated here rather than by a run:

* A query that waits for a connection longer than the wait timeout fails, and
  partitions that queue behind their siblings do; `src/driver.rs:53` says only
  that "the extra partitions wait for a connection to free up".
* `by_uuid_range` cuts in byte order for SQL Server too, which compares UUIDs
  in another; `README.md:315` restricts the strategy to backends that compare
  byte by byte, and `EachRowOnce` leaves the case out.
* A value of a type that a driver does not read becomes `Null` without an
  error: the library's refusal is dropped at `postgres.rs:281` and
  `mysql.rs:152`, `163` and `190`, and `mssql.rs:343` answers `Null` itself.
  `README.md:60` says that the driver "converts the backend's rows into the
  unified `Row` type", and `DbError` has a "type conversion error"
  (`src/error.rs:20`) that nothing returns. `OnlyKnownLosses` says which types
  these are (`Lost`).
* An integer put into MySQL's `TINYINT(1)` or `BIT` comes back as a `Bool`
  (`mysql.rs:166`), and into a column of floats as a float near it;
  `NumbersSurvive` says so of these and of nothing else.
* Settings that no driver reads, or one only: `DatabaseConfig.connect_timeout`
  (`src/config.rs:25`) is read by none; MySQL drops the application name, which
  `README.md:31` offers for every backend, and overwrites the ssl-mode of a
  connection string (`mysql.rs:60-65`); `connection_string` counts for MySQL
  alone; `PoolConfig`'s timeouts and its minimum are ignored by SQL Server, its
  minimum and lifetime by PostgreSQL. `Reaching` in `Connect` says what each
  passes on, and `LoginAsConfigured` that it is this and no more.
* PostgreSQL connects without credentials when it is given Azure or MotherDuck
  authentication; SQL Server refuses an authentication it has no use for only
  at the first statement.

Bounds. Two permits are the least with which a caller holds one while another
is released, created or recycled; two more callers than permits make a queue in
which order matters. As many connections as permits are enough, because a
discarded connection's name may be used again. Partitions: three, so that a
failing one has a neighbour on each side, with an empty one; `few` stands for
the limit of 30, which three partitions cannot reach. Time in `TokenCache` runs
to 3 (`MaxTime`) with a buffer of 1: long enough for a token to be stored, to
enter its last unit, and to end, with another client refreshing meanwhile. In
`slicing` two ticks make a microsecond and six a second, and spans above 16
ticks are cut in seconds: every grain, remainder and empty slice occurs, with
more partitions than keys. UUIDs have three digits in an order that, like SQL
Server's, is not its own inverse. In `table_function` the counts lie below, at
and above what a `u32` holds (`CountWord` is 4), a batch is two rows, and the
table has none, three or four; `MaxScans` and `MaxWrites` bound what DuckDB and
others do; a second result set (`OtherRows`) has none of the rows, or two that
come after others. In `statement` the widths 8, 16, 32 and 64 stand for
integers of 2, 3, 4 and 5 bits, so that each is wider than the last, and floats
are exact up to 4 (`Mantissa`) and 2 (`SingleMantissa`): an `i64` may be too
big for either, as in the code. Parameters and stored numbers (`Extremes`) are
the ends of every range, their neighbours and those of zero; a `u64` lies well
above `i64::MAX` too, and a segment gives a port that is no number
(`NoNumber`). Two builder calls (`MaxBuilderCalls`) may set a field twice or
two fields in either order, three segments (`MaxSegments`) also with an
unrelated one between, before or after. `Talkers` are the configurations that
go on to run statements: what they are is seen at the login only. Deadlock is
checked for `Pool` and `TokenCache`; the other modules are one call, one stream
or one helper call, which end.

Fairness. `LocalStep`: a future that was woken is polled and a timer fires (the
tokio runtime). `BackendStep`: in `Pool` SQL Server answers whatever it is
asked or the link breaks, since nothing in that driver would end a wait;
PostgreSQL need not, and waits end there by the timeout alone. That a whole
call of `query_partitioned`, or a stream, comes to an end assumes that either
backend answers: no statement has a timeout of its own. Nobody is obliged to
start a call, drop one, cancel, or keep a link up. In the stream a partition's
step is enabled only in some polls, so `PartitionStep` is strongly fair: every
poll that waits polls all futures that were woken. `KeenConsumerSpec` adds that
the consumer pulls again. `WF` on `GetToken`'s steps, `Read` and `Store` among
them: tokio's lock serves its queue in order, and a source that is asked
answers. Nobody is obliged to ask for a token, log in or close.

Symmetry is used in `stream` only, for the connections, which the module
treats alike, and with safety properties only.

Every property of a passing run has a mutant in `PROJECT.json`: an operator of
a module the run uses (marked `@mutant`), which changes one definition the way a
plausible bug would and makes TLC find the property violated.

## 4. Proofs

For all values of the constants, subject to the named assumptions
(`PoolAssumption`, `PartitionedAssumption`, `StreamAssumption`,
`TokenAssumption`, `SlicesAssumption`, `SlicingAssumption`,
`UuidOrderAssumption`, `UuidSlicingAssumption`, `TableFunctionAssumption`,
`ValuesAssumption`, `ConnectAssumption`, `StatementAssumption`):

* `PoolProofs`: `TypeCorrect`, `PermitsAccounted`, `ConnectionsBounded`,
  `LoansExclusive`, `WorkConserved`, for both backends. The queue and the types
  are inductive together (a grant goes to the head of the queue, so the head
  must be a caller that waits and occurs once). Permits are then counted along
  every action, the two forms of `Release` being lemmas of their own; loans are
  disjoint; and the bound on connections follows from the count of permits once
  it is known that every idle connection has a permit to spare.
* `PartitionedProofs`. By the lemma `KeepsPool`, every step of a partitioned
  call is a step of the pool or none, so that the theorems of `PoolProofs` hold
  with the call on it (`CallKeepsBound` states the ceiling). With that, the
  join: a caller whose call has ended, or has not begun, is moved by no other
  caller's step (`StepLeavesOthers`: a released permit moves the head of the
  queue alone), so whatever a reply says of the partitions stays true while the
  others are dropped (`ReplyTrue`, `JoinInv`). `CallTypeCorrect`,
  `LeavesNothingBehind`, `FailuresAreReported` and `FirstErrorsAreReported`
  follow, and `KeepsItsPromise`, the refinement of `Gather`: a step maps to a
  partition's outcome, the answer, or nothing. `RowsComeInOrder`: the reply is
  the concatenation of the partitions' rows, and the place of a row in a
  concatenation grows with its partition and with its place there
  (`FlattenPlaces`).
* `StreamProofs`. The lemma `StreamKeepsPool` is the same for the stream.
  `StreamTypeCorrect` and `StreamEndsClean` rest on `StreamInv` (partitions
  taken up stay settled; only a poll starts one). `ItemsComeInOrder` and
  `NoItemSkipped` rest on `ItemInv`: what has been yielded and what is at hand
  are ordered, the one before the other, and together they are exactly what the
  partitions taken up are due.
* `TokenCacheProofs`: `TypeCorrect`, `HitsLastBuffer`, `RefusedOnlyByAll`. The
  strengthening for the second says that a cached token whose end is known is
  trusted exactly until its end, and that a hit token was valid when it was
  hit.
* `StatementProofs`, of `Statement` with `Connect` and `Values`. Its invariant
  `Inv` has a part for each stage of a statement. The login: `given` remembers
  the settings, and every field of the configuration is the one given last,
  through defaults, builder methods and segments (`ConnectInv`), of which the
  drivers hand on those of `Reaching`: `LoginIsAsConfigured`. The answer: the
  items of SQL Server's stream that have been read are those of the first `p -
  1` result sets and `a` rows of the next (`Underway`), so that the metadata at
  hand are those of the next row's set; `RowsAreThoseSent` follows. The tables:
  in every column of a backend the driver reads what the server holds, but in
  those of `Lost` (`AllReadWell`; for MySQL the first condition that matches a
  type's name is `Deciding`), which is `LossesAreKnown`. The numbers:
  `CastIsExact` and `BoundKeepsNumber` for the way in, the read tables for the
  way out, `StoredIsNear` for what a column of floats holds, `FloatIsNear` for
  the column of SQL Server that is read as a float, and the first value of a
  column for the width DuckDB is told: `NumbersAreKept`. `TypeCorrect` comes
  last, since it is about the rows.
* `SlicingProofs`. `TilesSelectOnce` is about `Tiling`: the ranges so far
  select the keys below `at`, each once (`Covered`). Then `TypeCorrect`,
  `HelpersTile` and, with `TilesSelectOnce`, the corollary `HelpersSelectOnce`,
  under `Exact(ask)`. For each helper the boundaries start at `min`, end at
  `max` (or one past it) and do not decrease, so that slice `i` ends where
  slice `i + 1` begins and an empty one moves nothing (`TurnFacts`); the
  inductive invariant says that the slices so far end at the lower bound of the
  current turn. `HelpersEvenlySized` adds the sizes: two neighbouring
  boundaries are the quotient apart or one grain more (`DivisionSteps`), a
  closed slice has one key more than its step, and only the page that ends at
  the last row may be short (`SizeInv`). `HelpersSelectUuidOnce` carries this
  over to UUIDs: `uuid_to_key` and `key_to_uuid` are inverse to each other, and
  keys are ordered as the backend orders UUIDs, for any number of digits and
  any order of significance (`KeyRoundTrip`, `KeysSortAsUuids`). `TurnsTile`
  says the same of a request without the loop, turn by turn, for use elsewhere.
* `TableFunctionProofs`: `TypeCorrect`, `RowsComeOnce`, `ScansAreComplete`,
  `CellsFitColumn` and `CellsFitWithoutBatches`. `build_partitions` returns the
  plain query or the slices of a request whose interval a complete strategy
  gives (`BuildsPlan`), and by `TurnsTile` every row within the bounds is
  selected by one partition and none by two (`PlanSelects`); this needs that
  the backend's predicate is the interval of the slice, which for UUIDs is
  `SelectsByKey` (`SelectsSpan`). An answer has the rows of one moment, and of
  those that have been there all the time it keeps all, whoever writes
  afterwards (`Answered`, `AnsweredStays`), but for pages, where the rank of a
  row changes: there the invariant speaks of calls during which nobody has
  written. A scan has delivered the rows up to its cursor (`ScanInv`,
  `BatchesJoin`).
* `SequenceFacts` holds what these proofs share. The provers cannot instantiate
  an operator, which the library's induction theorems take, so induction is
  stated of sets (`Induction`, from the well-foundedness of the natural
  numbers); `FlattenPlaces` and `FlattenOffsets` say where an element of a list
  of lists stands in its concatenation.

Only model-checked: all liveness (`WaitEnds`, `CallReturns`, `StreamEnds`,
`OwnQueryTimesOut`, `GetTokenReturns`, `Returns`), which the provers cannot do
under fairness; and, since they do not hold, the four of the runs above that
find a violation. Every safety property of the passing runs is stated by a
theorem.

## 5. Not modelled

* sqlx's pool under the MySQL driver. The driver sets four of its options
  (`LoginAsConfigured` checks that they arrive) and nothing else; how callers
  share the pool, when it probes, and what its timeout spans is sqlx's code
  alone, and a model of it would say nothing about this repository.
* deadpool, tokio, futures and the client libraries, beyond what the drivers
  rely on, as section 2 states it. PostgreSQL's recycle timeout is left out
  since its recycle does not suspend; so is what a backend does with a
  statement after its future was dropped.
* The set-up of TLS in `postgres.rs:154`: the connector and its certificate
  check are built from the two settings that `Connect` follows to it.
* Text: SQL around the bounds, `Display` of values and errors, the wording of
  errors. The accessors of `Row` read a column by name or number and keep no
  state. `rows_affected` is a number of the backend passed on.
* Registration in DuckDB, feature flags (but `azure-auth`, the constant
  `AzureAuth`), exports.
* Five hazards have no property, each for the reason `PROJECT.json` gives.
