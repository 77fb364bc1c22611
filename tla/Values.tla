-------------------------------- MODULE Values --------------------------------
(***************************************************************************)
(* Value (row.rs) and the tables between it and the rest: the Rust type    *)
(* that each backend binds a parameter as, the type that each asks its     *)
(* client library for when it reads a column, and the DuckDB type of the   *)
(* column a value ends in.                                                 *)
(*                                                                         *)
(* A value is its variant and a payload.  The payload of an integer is the *)
(* number, in as many bits as Half says; so it is of a float, a text or a  *)
(* Bool (0 or 1) that is read from a column where a number was stored.  Of *)
(* any other value it is a token, which text forms (to_string) carry along.*)
(***************************************************************************)
EXTENDS Integers, SequencesExt

CONSTANTS
    Half,           \* Half[w]: 2^(w-1), for the widths 8, 16, 32 and 64
    Mantissa,       \* 2^53, the largest number below which an f64 is exact
    SingleMantissa  \* 2^24, the same of an f32

ASSUME ValuesAssumption ==
    /\ Half \in [{8, 16, 32, 64} -> Nat \ {0}]
    /\ 2 * Half[8] <= Half[16] /\ 2 * Half[16] <= Half[32] /\ 2 * Half[32] <= Half[64]
    /\ Mantissa \in Nat \ {0} /\ Half[64] <= 1024 * Mantissa
    /\ SingleMantissa \in Nat \ {0}

Backends == {"postgres", "mysql", "mssql"}

Signed(w)   == -Half[w] .. Half[w] - 1
Unsigned(w) == 0 .. 2 * Half[w] - 1

\* n as an integer of w bits
AsSigned(n, w) == ((n + Half[w]) % (2 * Half[w])) - Half[w]

Magnitude(n) == IF n < 0 THEN -n ELSE n

\* n as a bool, which is also a number
Truth(n) == IF n = 0 THEN 0 ELSE 1

\* The numbers next to n that are left of it with so many bits: those within
\* its size over the mantissa.
NearFloats(n, mantissa) ==
    {x \in n - Magnitude(n) .. n + Magnitude(n) : Magnitude(x - n) * mantissa <= Magnitude(n)}

\* The number that n becomes as an f64: a multiple of the spacing at n, of two
\* equally near ones the even multiple.
AsF64(n) ==
    LET size    == Magnitude(n)
        spacing == CHOOSE s \in {1, 2, 4, 8, 16, 32, 64, 128, 256, 512, 1024, 2048} :
                       /\ size <= s * Mantissa
                       /\ s = 1 \/ size > (s \div 2) * Mantissa
        below   == n - (n % spacing)
        even    == (below \div spacing) % 2 = 0
    IN  IF 2 * (n % spacing) < spacing \/ (2 * (n % spacing) = spacing /\ even)
        THEN below ELSE below + spacing

-----------------------------------------------------------------------------
(* Value                                                                   *)

Integral ==
    [Int8  |-> Signed(8),   Int16  |-> Signed(16),   Int32  |-> Signed(32),   Int64  |-> Signed(64),
     UInt8 |-> Unsigned(8), UInt16 |-> Unsigned(16), UInt32 |-> Unsigned(32), UInt64 |-> Unsigned(64)]

Opaque == {"Bool", "Float32", "Float64", "Text", "Bytes", "Date", "Time",
           "DateTime", "DateTimeUtc", "Uuid", "Json"}

Null == [kind |-> "Null", x |-> 0]

Values ==
    {Null} \union [kind : Opaque, x : {0}] \union
    (UNION {[kind : {k}, x : Integral[k]] : k \in DOMAIN Integral})

-----------------------------------------------------------------------------
(* The parameters.                                                         *)

\* What every backend binds, up to the exceptions below.  A Null is bound as
\* an absent string.
Widened ==
    [Null |-> "String", Bool |-> "bool", Text |-> "String", Bytes |-> "bytes",
     Int8 |-> "i16", Int16 |-> "i16", Int32 |-> "i32", Int64 |-> "i64",
     UInt8 |-> "i16", UInt16 |-> "i32", UInt32 |-> "i64", UInt64 |-> "i64",
     Float32 |-> "f32", Float64 |-> "f64", Date |-> "NaiveDate", Time |-> "NaiveTime",
     DateTime |-> "NaiveDateTime", DateTimeUtc |-> "DateTimeUtc", Uuid |-> "Uuid", Json |-> "Json"]

\* @mutant a UInt32 is bound as narrow as an Int32
ToPgParamsNarrow == [Widened EXCEPT !.Time = "String", !.UInt32 = "i32"]

ToPgParams == [Widened EXCEPT !.Time = "String"]

BuildMySqlArgs ==
    [Widened EXCEPT !.Int8 = "i8", !.UInt8 = "u8", !.Uuid = "String", !.Json = "String"]

BindParams ==
    [Widened EXCEPT !.Date = "String", !.Time = "String", !.DateTime = "String",
                    !.DateTimeUtc = "String", !.Json = "String"]

BindsAs == [postgres |-> ToPgParams, mysql |-> BuildMySqlArgs, mssql |-> BindParams]

SignedBits == [i8 |-> 8, i16 |-> 16, i32 |-> 32, i64 |-> 64]

\* The parameter as the client library gets it.
Bound(backend, v) ==
    LET type == BindsAs[backend][v.kind]
    IN  [type |-> type, null |-> v.kind = "Null",
         x |-> IF type \in DOMAIN SignedBits THEN AsSigned(v.x, SignedBits[type]) ELSE v.x]

-----------------------------------------------------------------------------
(* The columns of the backends, and what each client library makes of one. *)

\* The numbers that fit an integer column, of any backend.  BOOLEAN is what
\* MySQL calls TINYINT(1), and BIT is BIT(1).
IntColumns ==
    [INT2 |-> Signed(16), INT4 |-> Signed(32), INT8 |-> Signed(64),
     TINYINT |-> Signed(8), TINYINT_UNSIGNED |-> Unsigned(8),
     SMALLINT |-> Signed(16), SMALLINT_UNSIGNED |-> Unsigned(16),
     INT |-> Signed(32), INT_UNSIGNED |-> Unsigned(32),
     BIGINT |-> Signed(64), BIGINT_UNSIGNED |-> Unsigned(64),
     BOOLEAN |-> Signed(8), BIT |-> {0, 1},
     U8 |-> Unsigned(8), I16 |-> Signed(16), I32 |-> Signed(32), I64 |-> Signed(64)]

Ints  == {"i8", "i16", "i32", "i64"}
Uints == {"u8", "u16", "u32", "u64"}

\* The Rust types that a client library converts to and from a column:
\* tokio_postgres and tiberius want the very type, sqlx any integer of the
\* right sign or a bool.  ARRAY and ENUM are PostgreSQL's types of that kind,
\* REST is the rest of them.
PgTypes ==
    [BOOL |-> {"bool"}, INT2 |-> {"i16"}, INT4 |-> {"i32"}, INT8 |-> {"i64"},
     FLOAT4 |-> {"f32"}, FLOAT8 |-> {"f64"}, TEXT |-> {"String"}, BYTEA |-> {"bytes"},
     DATE |-> {"NaiveDate"}, TIMESTAMP |-> {"NaiveDateTime"}, TIMESTAMPTZ |-> {"DateTimeUtc"},
     UUID |-> {"Uuid"}, JSON |-> {"Json"}, CITEXT |-> {"String"},
     TIME |-> {"NaiveTime"}, TIMETZ |-> {}, INTERVAL |-> {}, NUMERIC |-> {}, MONEY |-> {},
     OID |-> {"u32"}, INET |-> {"IpAddr"}, XML |-> {}, ENUM |-> {}, ARRAY |-> {"Vec"}, REST |-> {}]

MySqlTypes ==
    LET signed   == Ints \union {"bool"}
        unsigned == Uints \union {"bool"}
    IN
    [TINYINT |-> signed, SMALLINT |-> signed, INT |-> signed, BIGINT |-> signed,
     TINYINT_UNSIGNED |-> unsigned, SMALLINT_UNSIGNED |-> unsigned,
     INT_UNSIGNED |-> unsigned, BIGINT_UNSIGNED |-> unsigned,
     BOOLEAN |-> signed, BIT |-> unsigned, YEAR |-> Uints, GEOMETRY |-> {},
     FLOAT |-> {"f32", "f64"}, DOUBLE |-> {"f32", "f64"}, DECIMAL |-> {},
     DATE |-> {"NaiveDate"}, TIME |-> {"NaiveTime"}, DATETIME |-> {"NaiveDateTime"},
     TIMESTAMP |-> {"NaiveDateTime", "DateTimeUtc"},
     VARCHAR |-> {"String"}, BLOB |-> {"bytes"}, JSON |-> {"Json"}]

MsSqlTypes ==
    [U8 |-> {"u8"}, I16 |-> {"i16"}, I32 |-> {"i32"}, I64 |-> {"i64"}, F32 |-> {"f32"},
     F64 |-> {"f64"}, Bit |-> {"bool"}, String |-> {"String"}, Binary |-> {"bytes"},
     Guid |-> {"Uuid"}, Numeric |-> {"Numeric"}, Date |-> {"NaiveDate"}, Time |-> {"NaiveTime"},
     DateTime2 |-> {"NaiveDateTime"}, DateTimeOffset |-> {"DateTimeUtc"}, Xml |-> {"Xml"}]

LibraryTypes == [postgres |-> PgTypes, mysql |-> MySqlTypes, mssql |-> MsSqlTypes]
Columns(backend) == DOMAIN LibraryTypes[backend]

\* The columns into which these backends put what they parse from a string.
Parsed == {"VARCHAR", "JSON", "String", "Date", "Time", "DateTime2", "DateTimeOffset", "Xml"}

Singles == {"FLOAT4", "FLOAT", "F32"}
Doubles == {"FLOAT8", "DOUBLE", "F64"}

\* The columns into which they put numbers of any type.
Numerical ==
    DOMAIN IntColumns \union Singles \union Doubles \union
    {"Bit", "DECIMAL", "Numeric", "VARCHAR", "String"}

Number(type) == type \in Ints \union Uints \union {"bool", "f32", "f64"}

\* May the backend put the parameter into the column?  PostgreSQL's client
\* wants the column's own type, for a Null too; the other backends also convert
\* numbers and parse strings.
Storable(backend, column, bound) ==
    \/ bound.type \in LibraryTypes[backend][column]
    \/ /\ backend # "postgres"
       /\ \/ bound.null
          \/ Number(bound.type) /\ column \in Numerical
          \/ bound.type = "String" /\ column \in Parsed

\* The numbers that the column may hold when the number n is put into it.
Stores(column, n) ==
    IF column \in DOMAIN IntColumns THEN {n} \intersect IntColumns[column]
    ELSE IF column \in Singles THEN NearFloats(n, SingleMantissa)
    ELSE IF column \in Doubles THEN NearFloats(n, Mantissa)
    ELSE IF column = "Bit" THEN {Truth(n)} ELSE {n}

-----------------------------------------------------------------------------
(* The columns read.                                                       *)

Read(type, kind) == [as |-> type, kind |-> kind, strict |-> FALSE]

\* pg_col_to_value.  A column of a type it does not list is read as a string,
\* and what the library says against that is dropped.
PgReads ==
    LET listed == [BOOL |-> Read("bool", "Bool"), INT2 |-> Read("i16", "Int16"),
                   INT4 |-> Read("i32", "Int32"), INT8 |-> Read("i64", "Int64"),
                   FLOAT4 |-> Read("f32", "Float32"), FLOAT8 |-> Read("f64", "Float64"),
                   TEXT |-> Read("String", "Text"), BYTEA |-> Read("bytes", "Bytes"),
                   DATE |-> Read("NaiveDate", "Date"), TIMESTAMP |-> Read("NaiveDateTime", "DateTime"),
                   TIMESTAMPTZ |-> Read("DateTimeUtc", "DateTimeUtc"),
                   UUID |-> Read("Uuid", "Uuid"), JSON |-> Read("Json", "Json")]
    IN  [c \in DOMAIN PgTypes |->
            IF c \in DOMAIN listed THEN [listed[c] EXCEPT !.strict = TRUE]
            ELSE Read("String", "Text")]

\* The words that mysql_col_to_value looks for in the name of a type.
Words ==
    [TINYINT |-> {"INT", "TINY"}, TINYINT_UNSIGNED |-> {"INT", "TINY", "UNSIGNED"},
     SMALLINT |-> {"INT"}, SMALLINT_UNSIGNED |-> {"INT", "UNSIGNED"},
     INT |-> {"INT"}, INT_UNSIGNED |-> {"INT", "UNSIGNED"},
     BIGINT |-> {"INT"}, BIGINT_UNSIGNED |-> {"INT", "UNSIGNED"},
     BOOLEAN |-> {"BOOL"}, BIT |-> {"BIT"}, YEAR |-> {}, GEOMETRY |-> {},
     FLOAT |-> {"FLOAT"}, DOUBLE |-> {"DOUBLE"}, DECIMAL |-> {"DECIMAL"},
     DATE |-> {"DATE"}, TIME |-> {"TIME"}, DATETIME |-> {"DATETIME", "DATE", "TIME"},
     TIMESTAMP |-> {"TIMESTAMP", "TIME"}, VARCHAR |-> {}, BLOB |-> {"BLOB"}, JSON |-> {"JSON"}]

\* Its conditions, in order; what matches none is read as a string.
Conditions ==
    << [words |-> {"INT", "UNSIGNED"}, read |-> Read("u64", "UInt64")],
       [words |-> {"INT", "TINY"},     read |-> Read("u64", "UInt64")],
       [words |-> {"INT"},             read |-> Read("i64", "Int64")],
       [words |-> {"FLOAT"},           read |-> Read("f32", "Float32")],
       [words |-> {"DOUBLE"},          read |-> Read("f64", "Float64")],
       [words |-> {"DECIMAL"},         read |-> Read("f64", "Float64")],
       [words |-> {"BOOL"},            read |-> Read("bool", "Bool")],
       [words |-> {"BIT"},             read |-> Read("bool", "Bool")],
       [words |-> {"DATETIME"},        read |-> Read("NaiveDateTime", "DateTime")],
       [words |-> {"TIMESTAMP"},       read |-> Read("NaiveDateTime", "DateTime")],
       [words |-> {"DATE"},            read |-> Read("NaiveDate", "Date")],
       [words |-> {"TIME"},            read |-> Read("NaiveTime", "Time")],
       [words |-> {"BLOB"},            read |-> Read("bytes", "Bytes")],
       [words |-> {"JSON"},            read |-> Read("Json", "Json")],
       [words |-> {},                  read |-> Read("String", "Text")] >>

\* @mutant a time is looked for before a date and time
MySqlReadsTimeFirst ==
    [c \in DOMAIN MySqlTypes |->
        LET holds(cond) == cond.words \subseteq Words[c]
            conds       == <<Conditions[12]>> \o Conditions
        IN  conds[SelectInSeq(conds, holds)].read]

MySqlReads ==
    [c \in DOMAIN MySqlTypes |->
        LET holds(cond) == cond.words \subseteq Words[c]
        IN  Conditions[SelectInSeq(Conditions, holds)].read]

\* column_data_to_value: the variant says what it holds; an Xml is not read.
ColumnDataToValue ==
    [U8 |-> Read("u8", "UInt8"), I16 |-> Read("i16", "Int16"), I32 |-> Read("i32", "Int32"),
     I64 |-> Read("i64", "Int64"), F32 |-> Read("f32", "Float32"), F64 |-> Read("f64", "Float64"),
     Bit |-> Read("bool", "Bool"), String |-> Read("String", "Text"), Binary |-> Read("bytes", "Bytes"),
     Guid |-> Read("Uuid", "Uuid"), Numeric |-> Read("Numeric", "Float64"),
     Date |-> Read("NaiveDate", "Date"), Time |-> Read("NaiveTime", "Time"),
     DateTime2 |-> Read("NaiveDateTime", "DateTime"),
     DateTimeOffset |-> Read("DateTimeUtc", "DateTimeUtc"), Xml |-> Read("nothing", "Null")]

\* The read tables of the three backends.
Reads == [postgres |-> PgReads, mysql |-> MySqlReads, mssql |-> ColumnDataToValue]

\* A cell as the server holds it: NULL, a value, or a value that the Rust type
\* for its column cannot hold, such as an infinite or an all-zero date.
Cell(x)  == [is |-> "value", x |-> x]
NullCell == [is |-> "null", x |-> 0]
OddCell  == [is |-> "odd", x |-> 0]

Converts(backend, column, cell) ==
    cell.is = "value" /\ Reads[backend][column].as \in LibraryTypes[backend][column]

\* Does reading the cell end the query with an error?
ReadFails(backend, column, cell) ==
    Reads[backend][column].strict /\ cell.is = "odd"

\* The number read of one in a cell.
ReadNumber(kind, column, n) ==
    CASE kind = "Bool"      -> Truth(n)
      [] column = "Numeric" -> AsF64(n)
      [] OTHER              -> n

\* The value read from a cell; where it cannot be had, Null.
ReadCell(backend, column, cell) ==
    IF ~Converts(backend, column, cell) THEN Null
    ELSE LET kind == Reads[backend][column].kind
         IN  [kind |-> kind, x |-> ReadNumber(kind, column, cell.x)]

-----------------------------------------------------------------------------
(* DuckDB's columns.                                                       *)

\* infer_col_type, for the variants that are not turned into text
LogicalTypes ==
    [Bool |-> "Boolean", Int8 |-> "Tinyint", Int16 |-> "Smallint", Int32 |-> "Integer",
     Int64 |-> "Bigint", UInt8 |-> "UTinyint", UInt16 |-> "USmallint", UInt32 |-> "UInteger",
     UInt64 |-> "UBigint", Float32 |-> "Float", Float64 |-> "Double", Bytes |-> "Blob"]

LogicalType(kind) == IF kind \in DOMAIN LogicalTypes THEN LogicalTypes[kind] ELSE "Varchar"

\* write_value, the vectors that each variant is written for
WritesTo ==
    [Bool |-> "Boolean", Int8 |-> "Tinyint", Int16 |-> "Smallint", Int32 |-> "Integer",
     Int64 |-> "Bigint", UInt8 |-> "UTinyint", UInt16 |-> "USmallint", UInt32 |-> "UInteger",
     UInt64 |-> "UBigint", Float32 |-> "Float", Float64 |-> "Double", Bytes |-> "Blob",
     Text |-> "Varchar", Date |-> "Varchar", Time |-> "Varchar", DateTime |-> "Varchar",
     DateTimeUtc |-> "Varchar", Uuid |-> "Varchar", Json |-> "Varchar"]

=============================================================================
