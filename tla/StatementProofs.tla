---------------------------- MODULE StatementProofs ----------------------------
(***************************************************************************)
(* A parameter is bound as the number it is; a login is made as it was     *)
(* configured; the rows of an answer are those that the server sent, each  *)
(* value is what its column held, and the exceptions are the known ones.   *)
(***************************************************************************)
EXTENDS Statement, SequenceFacts

-----------------------------------------------------------------------------
(* Numbers as parameters.                                                  *)


LEMMA RemainderOfSmall ==
    ASSUME NEW d \in Nat \ {0}, NEW n \in 0 .. d - 1
    PROVE  n % d = n
BY SMT

LEMMA RemainderOfNext ==
    ASSUME NEW d \in Nat \ {0}, NEW n \in d .. 2 * d - 1
    PROVE  n % d = n - d
BY SMT

LEMMA HalfIsPositive ==
    ASSUME NEW w \in {8, 16, 32, 64}
    PROVE  Half[w] \in Nat \ {0}
BY ValuesAssumption

\* n as iN (postgres.rs, mysql.rs and mssql.rs, the casts of bound parameters):
\* a number that fits in w bits, signed or not, is itself when it is in the
\* signed range and 2^w less when it is above.
THEOREM CastIsExact ==
    ASSUME NEW w \in {8, 16, 32, 64}, NEW n \in -Half[w] .. 2 * Half[w] - 1
    PROVE  AsSigned(n, w) = IF n < Half[w] THEN n ELSE n - 2 * Half[w]
<1> DEFINE h == Half[w]
<1>1. h \in Nat \ {0}
  BY HalfIsPositive
<1>2. n \in Int /\ n + h \in 0 .. 3 * h - 1 /\ 2 * h \in Nat \ {0}
  BY <1>1
<1>3. CASE n < h
  <2>1. n + h \in 0 .. 2 * h - 1
    BY <1>1, <1>2, <1>3
  <2>2. (n + h) % (2 * h) = n + h
    BY <2>1, <1>2, RemainderOfSmall
  <2> QED
    BY <2>2, <1>1, <1>2, <1>3 DEF AsSigned
<1>4. CASE ~(n < h)
  <2>1. n + h \in 2 * h .. 2 * (2 * h) - 1
    BY <1>1, <1>2, <1>4
  <2>2. (n + h) % (2 * h) = (n + h) - 2 * h
    BY <2>1, <1>2, RemainderOfNext
  <2> QED
    BY <2>2, <1>1, <1>2, <1>4 DEF AsSigned
<1> QED
  BY <1>3, <1>4

\* The type in which each backend binds each integer.
LEMMA BoundTypes ==
    ASSUME NEW b \in Backends
    PROVE  /\ BindsAs[b]["Int8"] \in {"i8", "i16"}
           /\ BindsAs[b]["UInt8"] \in {"u8", "i16"}
           /\ BindsAs[b]["Int16"] = "i16" /\ BindsAs[b]["Int32"] = "i32"
           /\ BindsAs[b]["Int64"] = "i64" /\ BindsAs[b]["UInt16"] = "i32"
           /\ BindsAs[b]["UInt32"] = "i64" /\ BindsAs[b]["UInt64"] = "i64"
<1>1. CASE b = "postgres"
  <2>1. BindsAs[b] = ToPgParams
    BY <1>1 DEF BindsAs
  <2>2. /\ ToPgParams["Int8"] = "i16" /\ ToPgParams["UInt8"] = "i16"
        /\ ToPgParams["Int16"] = "i16" /\ ToPgParams["Int32"] = "i32"
        /\ ToPgParams["Int64"] = "i64" /\ ToPgParams["UInt16"] = "i32"
        /\ ToPgParams["UInt32"] = "i64" /\ ToPgParams["UInt64"] = "i64"
    BY DEF ToPgParams, Widened
  <2> QED
    BY <2>1, <2>2
<1>2. CASE b = "mysql"
  <2>1. BindsAs[b] = BuildMySqlArgs
    BY <1>2 DEF BindsAs
  <2>2. /\ BuildMySqlArgs["Int8"] = "i8" /\ BuildMySqlArgs["UInt8"] = "u8"
        /\ BuildMySqlArgs["Int16"] = "i16" /\ BuildMySqlArgs["Int32"] = "i32"
        /\ BuildMySqlArgs["Int64"] = "i64" /\ BuildMySqlArgs["UInt16"] = "i32"
        /\ BuildMySqlArgs["UInt32"] = "i64" /\ BuildMySqlArgs["UInt64"] = "i64"
    BY DEF BuildMySqlArgs, Widened
  <2> QED
    BY <2>1, <2>2
<1>3. CASE b = "mssql"
  <2>1. BindsAs[b] = BindParams
    BY <1>3 DEF BindsAs
  <2>2. /\ BindParams["Int8"] = "i16" /\ BindParams["UInt8"] = "i16"
        /\ BindParams["Int16"] = "i16" /\ BindParams["Int32"] = "i32"
        /\ BindParams["Int64"] = "i64" /\ BindParams["UInt16"] = "i32"
        /\ BindParams["UInt32"] = "i64" /\ BindParams["UInt64"] = "i64"
    BY DEF BindParams, Widened
  <2> QED
    BY <2>1, <2>2
<1> QED
  BY <1>1, <1>2, <1>3 DEF Backends

\* What a cast does with the types that a number is bound as.
LEMMA CastInto ==
    ASSUME NEW b \in Backends, NEW k \in DOMAIN Integral, NEW x \in Int
    PROVE  LET type == BindsAs[b][k]
               got  == Bound(b, [kind |-> k, x |-> x]).x
           IN  /\ type = "i8"  => got = AsSigned(x, 8)
               /\ type = "i16" => got = AsSigned(x, 16)
               /\ type = "i32" => got = AsSigned(x, 32)
               /\ type = "i64" => got = AsSigned(x, 64)
               /\ type = "u8"  => got = x
<1> DEFINE type == BindsAs[b][k]
<1>1. Bound(b, [kind |-> k, x |-> x]).x =
          IF type \in DOMAIN SignedBits THEN AsSigned(x, SignedBits[type]) ELSE x
  BY DEF Bound
<1>2. /\ DOMAIN SignedBits = {"i8", "i16", "i32", "i64"}
      /\ SignedBits["i8"] = 8 /\ SignedBits["i16"] = 16
      /\ SignedBits["i32"] = 32 /\ SignedBits["i64"] = 64
  BY DEF SignedBits
<1> HIDE DEF type
<1> QED
  BY <1>1, <1>2 DEF type

LEMMA Ranges ==
    /\ DOMAIN Integral = {"Int8", "Int16", "Int32", "Int64", "UInt8", "UInt16", "UInt32", "UInt64"}
    /\ Integral["Int8"] = Signed(8) /\ Integral["Int16"] = Signed(16)
    /\ Integral["Int32"] = Signed(32) /\ Integral["Int64"] = Signed(64)
    /\ Integral["UInt8"] = Unsigned(8) /\ Integral["UInt16"] = Unsigned(16)
    /\ Integral["UInt32"] = Unsigned(32) /\ Integral["UInt64"] = Unsigned(64)
BY DEF Integral

LEMMA Widths ==
    /\ Half[8] \in Nat \ {0} /\ Half[16] \in Nat \ {0} /\ Half[32] \in Nat \ {0} /\ Half[64] \in Nat \ {0}
    /\ 2 * Half[8] <= Half[16] /\ 2 * Half[16] <= Half[32] /\ 2 * Half[32] <= Half[64]
BY ValuesAssumption

\* A signed range holds the unsigned one of half its width.
LEMMA Nesting ==
    /\ \A w \in {8, 16, 32, 64} : Signed(w) \subseteq Int /\ Unsigned(w) \subseteq Int
    /\ Signed(8) \subseteq Signed(16) /\ Unsigned(8) \subseteq Signed(16)
    /\ Unsigned(16) \subseteq Signed(32) /\ Unsigned(32) \subseteq Signed(64)
<1>1. \A w \in {8, 16, 32, 64} : Signed(w) \subseteq Int /\ Unsigned(w) \subseteq Int
  BY HalfIsPositive DEF Signed, Unsigned
<1>2. \A a, b \in Nat \ {0} : 2 * a <= b => /\ -a .. a - 1 \subseteq -b .. b - 1
                                         /\ 0 .. 2 * a - 1 \subseteq -b .. b - 1
  OBVIOUS
<1>3. Signed(8) \subseteq Signed(16) /\ Unsigned(8) \subseteq Signed(16)
  BY <1>2, Widths DEF Signed, Unsigned
<1>4. Unsigned(16) \subseteq Signed(32)
  BY <1>2, Widths DEF Signed, Unsigned
<1>5. Unsigned(32) \subseteq Signed(64)
  BY <1>2, Widths DEF Signed, Unsigned
<1> QED
  BY <1>1, <1>3, <1>4, <1>5

\* to_pg_params, build_mysql_args and bind_params: every integer parameter is
\* bound as the number it is, but a u64 that an i64 cannot hold, which is bound
\* 2^64 lower.
THEOREM BoundKeepsNumber ==
    ASSUME NEW b \in Backends, NEW k \in DOMAIN Integral, NEW x \in Integral[k]
    PROVE  Bound(b, [kind |-> k, x |-> x]).x =
               IF k = "UInt64" /\ x >= Half[64] THEN x - 2 * Half[64] ELSE x
<1> DEFINE got == Bound(b, [kind |-> k, x |-> x]).x
<1> HIDE DEF got
<1>1. \A w \in {8, 16, 32, 64} : \A n \in Signed(w) : AsSigned(n, w) = n
  <2> TAKE w \in {8, 16, 32, 64}
  <2> TAKE n \in Signed(w)
  <2>1. Half[w] \in Nat \ {0}
    BY HalfIsPositive
  <2>2. n \in -Half[w] .. 2 * Half[w] - 1 /\ n < Half[w]
    BY <2>1 DEF Signed
  <2> QED
    BY <2>2, CastIsExact
<1>2. x \in Int
  BY Ranges, Nesting
<1>3. CASE k \in {"Int8", "UInt8"}
  <2>1. x \in Signed(16) /\ (k = "Int8" => x \in Signed(8))
    BY <1>3, Ranges, Nesting
  <2> QED
    BY <1>1, <1>2, <1>3, <2>1, CastInto, BoundTypes DEF got
<1>4. CASE k = "Int16"
  <2>1. x \in Signed(16)
    BY <1>4, Ranges
  <2> QED
    BY <1>1, <1>2, <1>4, <2>1, CastInto, BoundTypes DEF got
<1>5. CASE k \in {"Int32", "UInt16"}
  <2>1. x \in Signed(32)
    BY <1>5, Ranges, Nesting
  <2> QED
    BY <1>1, <1>2, <1>5, <2>1, CastInto, BoundTypes DEF got
<1>6. CASE k \in {"Int64", "UInt32"}
  <2>1. x \in Signed(64)
    BY <1>6, Ranges, Nesting
  <2> QED
    BY <1>1, <1>2, <1>6, <2>1, CastInto, BoundTypes DEF got
<1>7. CASE k = "UInt64"
  <2>1. x \in -Half[64] .. 2 * Half[64] - 1
    <3>1. x \in Unsigned(64)
      BY <1>7, Ranges
    <3> QED
      BY <3>1, Widths DEF Unsigned
  <2>2. AsSigned(x, 64) = IF x < Half[64] THEN x ELSE x - 2 * Half[64]
    BY <2>1, CastIsExact
  <2>3. got = AsSigned(x, 64)
    BY <1>2, <1>7, CastInto, BoundTypes DEF got
  <2> QED
    BY <1>2, <1>7, <2>2, <2>3, Widths DEF got
<1> QED
  BY <1>3, <1>4, <1>5, <1>6, <1>7, Ranges

-----------------------------------------------------------------------------
(* Settings, and the last of each.                                         *)

IsList(g) == \E S : g \in Seq(S)

EverIn(g, f) == \E j \in DOMAIN g : f \in DOMAIN g[j]
LastOf(g, f) ==
    LET sets(settings) == f \in DOMAIN settings
    IN  g[SelectLastInSeq(g, sets)][f]

\* The last element that has f is the one chosen.
LEMMA LastOfIs ==
    ASSUME NEW g, IsList(g), NEW f, NEW i \in DOMAIN g, f \in DOMAIN g[i],
           \A k \in DOMAIN g : f \in DOMAIN g[k] => k <= i
    PROVE  LastOf(g, f) = g[i][f]
<1> DEFINE I == {k \in 1..Len(g) : f \in DOMAIN g[k]}
<1>1. DOMAIN g = 1..Len(g) /\ Len(g) \in Nat
  BY LenProperties DEF IsList
<1>2. i \in I /\ \A k \in I : i >= k
  BY <1>1
<1>3. Max(I) = i
  <2>1. Max(I) \in I /\ \A k \in I : Max(I) >= k
    BY <1>2 DEF Max
  <2>2. Max(I) \in Nat /\ i \in Nat /\ Max(I) >= i /\ i >= Max(I)
    BY <1>1, <1>2, <2>1
  <2> HIDE DEF I
  <2> QED BY <2>2
<1>4. LastOf(g, f) = g[IF I # {} THEN Max(I) ELSE 0][f]
  BY DEF LastOf, SelectLastInSeq
<1> HIDE DEF I
<1> QED BY <1>2, <1>3, <1>4

\* Some element that has f is the last one.
LEMMA LastExists ==
    ASSUME NEW g, IsList(g), NEW f, EverIn(g, f)
    PROVE  \E i \in DOMAIN g : /\ f \in DOMAIN g[i]
                               /\ \A k \in DOMAIN g : f \in DOMAIN g[k] => k <= i
<1> DEFINE n == Len(g)
           T == {m \in 0..n : n - m \in DOMAIN g /\ f \in DOMAIN g[n - m]}
<1>1. DOMAIN g = 1..n /\ n \in Nat
  BY LenProperties DEF IsList
<1> HIDE DEF n
<1>2. PICK j \in DOMAIN g : f \in DOMAIN g[j]
  BY DEF EverIn
<1>3. n - j \in T
  <2>1. n - j \in 0..n /\ n - (n - j) = j
    BY <1>1
  <2> QED BY <1>2, <2>1
<1>4. PICK m \in T : \A l \in T : m <= l
  <2>1. T \in SUBSET Nat /\ T # {}
    BY <1>3
  <2> HIDE DEF T
  <2> QED BY <2>1, LeastNumber
<1>5. ASSUME NEW k \in DOMAIN g, f \in DOMAIN g[k] PROVE k <= n - m
  <2>1. n - k \in 0..n /\ n - (n - k) = k
    BY <1>1
  <2>2. n - k \in T
    BY <1>5, <2>1
  <2>3. m <= n - k
    BY <1>4, <2>2
  <2> QED BY <1>1, <2>3
<1> QED BY <1>5

\* A record of settings is given after the others.
LEMMA GivenAgain ==
    ASSUME NEW g, IsList(g), g # <<>>, NEW s
    PROVE  /\ IsList(Append(g, s)) /\ Append(g, s) # <<>> /\ Append(g, s)[1] = g[1]
           /\ \A f : EverIn(Append(g, s), f) <=> EverIn(g, f) \/ f \in DOMAIN s
           /\ \A f \in DOMAIN s : LastOf(Append(g, s), f) = s[f]
           /\ \A f : f \notin DOMAIN s /\ EverIn(g, f) => LastOf(Append(g, s), f) = LastOf(g, f)
<1> DEFINE h == Append(g, s)
           n == Len(g)
<1>1. PICK S : g \in Seq(S)
  BY DEF IsList
<1>2. g \in Seq(S \union {s}) /\ s \in S \union {s}
  BY <1>1
<1>3. /\ h \in Seq(S \union {s}) /\ h # <<>> /\ Len(h) = n + 1
      /\ \A i \in 1..n : h[i] = g[i]
      /\ h[n + 1] = s
  BY <1>2, AppendProperties
<1>4. n \in Nat /\ DOMAIN g = 1..n /\ DOMAIN h = 1..(n + 1) /\ n # 0
  <2>1. n \in Nat /\ DOMAIN g = 1..n /\ DOMAIN h = 1..(n + 1)
    BY <1>1, <1>3, LenProperties
  <2>2. n # 0
    BY <1>1, EmptySeq
  <2> QED BY <2>1, <2>2
<1>5. IsList(h)
  BY <1>3 DEF IsList
<1> HIDE DEF h, n
<1>6. h[1] = g[1]
  BY <1>3, <1>4
<1>7. \A f : EverIn(h, f) <=> EverIn(g, f) \/ f \in DOMAIN s
  <2>1. \A k : k \in DOMAIN h <=> k \in DOMAIN g \/ k = n + 1
    BY <1>4
  <2>2. \A k \in DOMAIN g : h[k] = g[k]
    BY <1>3, <1>4
  <2> QED BY <1>3, <2>1, <2>2 DEF EverIn
<1>8. ASSUME NEW f \in DOMAIN s PROVE LastOf(h, f) = s[f]
  <2>1. n + 1 \in DOMAIN h /\ \A k \in DOMAIN h : k <= n + 1
    BY <1>4
  <2> QED BY <1>3, <1>5, <2>1, LastOfIs
<1>9. ASSUME NEW f, f \notin DOMAIN s, EverIn(g, f) PROVE LastOf(h, f) = LastOf(g, f)
  <2>1. PICK i \in DOMAIN g : /\ f \in DOMAIN g[i]
                              /\ \A k \in DOMAIN g : f \in DOMAIN g[k] => k <= i
    BY <1>9, LastExists
  <2>2. i \in DOMAIN h /\ h[i] = g[i]
    BY <1>3, <1>4
  <2>3. ASSUME NEW k \in DOMAIN h, f \in DOMAIN h[k] PROVE k <= i
    <3>1. k # n + 1
      BY <1>3, <1>9, <2>3
    <3>2. k \in DOMAIN g /\ h[k] = g[k]
      BY <1>3, <1>4, <3>1
    <3> QED BY <2>1, <2>3, <3>2
  <2>4. LastOf(h, f) = g[i][f]
    BY <1>5, <2>1, <2>2, <2>3, LastOfIs
  <2>5. LastOf(g, f) = g[i][f]
    BY <2>1, LastOfIs
  <2> QED BY <2>4, <2>5
<1> QED BY <1>3, <1>5, <1>6, <1>7, <1>8, <1>9 DEF h

LEMMA GivenOnce ==
    ASSUME NEW c
    PROVE  /\ IsList(<<c>>) /\ <<c>> # <<>> /\ <<c>>[1] = c
           /\ \A f : EverIn(<<c>>, f) <=> f \in DOMAIN c
           /\ \A f \in DOMAIN c : LastOf(<<c>>, f) = c[f]
<1>1. <<c>> \in Seq({c}) /\ Len(<<c>>) = 1 /\ DOMAIN <<c>> = {1} /\ <<c>>[1] = c
  OBVIOUS
<1>2. IsList(<<c>>) /\ \A f : EverIn(<<c>>, f) <=> f \in DOMAIN c
  BY <1>1 DEF IsList, EverIn
<1>3. ASSUME NEW f \in DOMAIN c PROVE LastOf(<<c>>, f) = c[f]
  BY <1>1, <1>2, LastOfIs
<1> QED BY <1>1, <1>2, <1>3

-----------------------------------------------------------------------------
(* The configuration and what was given for it.                            *)

Fields ==
    {"backend", "host", "port", "database", "auth", "text", "user", "password",
     "min", "max", "timeout", "idle", "life", "tls", "trust", "connStr", "app", "connectTimeout"}

\* Every field is the last value given for it, in the words of the code.
Follows(c, g) ==
    /\ \A f \in Fields \ {"port", "tls", "trust"} : c[f] = LastOf(g, f)
    /\ c["port"] = IF LastOf(g, "port") = NoNumber THEN 1433 ELSE LastOf(g, "port")
    /\ c["tls"] = IF EverIn(g, "encrypt") THEN LastOf(g, "encrypt") # "false" ELSE LastOf(g, "tls")
    /\ c["trust"] = IF EverIn(g, "trustCert") THEN LastOf(g, "trustCert") = "true"
                                              ELSE LastOf(g, "trust")

Kinds == {"postgres", "mysql", "mssql"}

ConfigFollows(c, g) ==
    /\ DOMAIN c = Fields /\ c["backend"] \in Kinds
    /\ IsList(g) /\ g # <<>> /\ \A f \in Fields : EverIn(g, f)
    /\ Follows(c, g)

ConnectInv ==
    /\ phase \in {"start", "building", "parsing", "ready", "refused", "driver", "in"}
    /\ phase # "start" => ConfigFollows(config, given)
    /\ phase = "building" => ~EverIn(given, "encrypt") /\ ~EverIn(given, "trustCert")
    /\ phase = "parsing" => input \in Seq(Segments)
    /\ phase \in {"driver", "in"} => options = HandedOn /\ ~Unsupported

\* What a constructor and the connectors begin with.
LEMMA Begins ==
    ASSUME NEW c, DOMAIN c = Fields, c["backend"] \in Kinds, c["port"] # NoNumber
    PROVE  ConfigFollows(c, <<c>>) /\ ~EverIn(<<c>>, "encrypt") /\ ~EverIn(<<c>>, "trustCert")
<1>1. "encrypt" \notin Fields /\ "trustCert" \notin Fields
      /\ "port" \in Fields /\ "tls" \in Fields /\ "trust" \in Fields
  BY DEF Fields
<1>2. ~EverIn(<<c>>, "encrypt") /\ ~EverIn(<<c>>, "trustCert")
  BY <1>1, GivenOnce
<1>3. Follows(c, <<c>>)
  BY <1>1, <1>2, GivenOnce DEF Follows
<1>4. IsList(<<c>>) /\ <<c>> # <<>> /\ \A f \in Fields : EverIn(<<c>>, f)
  BY GivenOnce
<1> QED BY <1>2, <1>3, <1>4 DEF ConfigFollows

LEMMA UpdatedField ==
    ASSUME NEW c, NEW s
    PROVE  /\ DOMAIN Updated(c, s) = DOMAIN c \union DOMAIN s
           /\ \A f \in DOMAIN s : Updated(c, s)[f] = s[f]
           /\ \A f \in DOMAIN c : f \notin DOMAIN s => Updated(c, s)[f] = c[f]
BY DEF Updated

\* A builder method sets fields to what it is given.
LEMMA BuilderFollows ==
    ASSUME NEW c, NEW g, ConfigFollows(c, g), ~EverIn(g, "encrypt"), ~EverIn(g, "trustCert"),
           NEW s \in BuilderCalls
    PROVE  /\ ConfigFollows(Updated(c, s), Append(g, s))
           /\ ~EverIn(Append(g, s), "encrypt") /\ ~EverIn(Append(g, s), "trustCert")
<1> DEFINE d == Updated(c, s)
           h == Append(g, s)
<1>1. /\ DOMAIN s \subseteq Fields
      /\ "encrypt" \notin DOMAIN s /\ "trustCert" \notin DOMAIN s
      /\ "port" \notin DOMAIN s /\ "backend" \notin DOMAIN s
  <2>1. DOMAIN s \subseteq {"tls", "trust", "app", "connStr", "min", "max", "timeout", "idle", "life",
                         "connectTimeout"}
    BY ConnectAssumption
  <2> QED BY <2>1 DEF Fields
<1>2. /\ IsList(h) /\ h # <<>>
      /\ \A f : EverIn(h, f) <=> EverIn(g, f) \/ f \in DOMAIN s
      /\ \A f \in DOMAIN s : LastOf(h, f) = s[f]
      /\ \A f : f \notin DOMAIN s /\ EverIn(g, f) => LastOf(h, f) = LastOf(g, f)
  BY GivenAgain DEF ConfigFollows
<1>3. DOMAIN d = Fields
  BY <1>1, UpdatedField DEF ConfigFollows
<1>4. \A f \in Fields : d[f] = IF f \in DOMAIN s THEN s[f] ELSE c[f]
  <2>1. DOMAIN c = Fields
    BY DEF ConfigFollows
  <2>2. /\ \A f \in DOMAIN s : d[f] = s[f]
        /\ \A f \in DOMAIN c : f \notin DOMAIN s => d[f] = c[f]
    BY UpdatedField
  <2> HIDE DEF d
  <2> QED BY <2>1, <2>2
<1> HIDE DEF d, h
<1>5. \A f \in Fields : LastOf(h, f) = IF f \in DOMAIN s THEN s[f] ELSE LastOf(g, f)
  BY <1>2 DEF ConfigFollows
<1>6. {"port", "tls", "trust", "backend"} \subseteq Fields
  BY DEF Fields
<1>7. ~EverIn(h, "encrypt") /\ ~EverIn(h, "trustCert")
  BY <1>1, <1>2
<1>8. Follows(c, g)
  BY DEF ConfigFollows
<1>9. \A f \in Fields \ {"port", "tls", "trust"} : d[f] = LastOf(h, f)
  BY <1>4, <1>5, <1>8 DEF Follows
<1>10. d["port"] = c["port"] /\ LastOf(h, "port") = LastOf(g, "port")
  BY <1>1, <1>4, <1>5, <1>6
<1>11. d["tls"] = LastOf(h, "tls") /\ d["trust"] = LastOf(h, "trust")
  <2>1. c["tls"] = LastOf(g, "tls") /\ c["trust"] = LastOf(g, "trust")
    BY <1>8 DEF Follows
  <2> QED BY <1>4, <1>5, <1>6, <2>1
<1>12. Follows(d, h)
  <2>1. d["port"] = IF LastOf(h, "port") = NoNumber THEN 1433 ELSE LastOf(h, "port")
    BY <1>8, <1>10 DEF Follows
  <2> QED BY <1>7, <1>9, <1>11, <2>1 DEF Follows
<1>13. d["backend"] \in Kinds /\ \A f \in Fields : EverIn(h, f)
  BY <1>1, <1>2, <1>4, <1>6 DEF ConfigFollows
<1> QED BY <1>2, <1>3, <1>7, <1>12, <1>13 DEF ConfigFollows, d, h

\* A segment of a connection string changes fields as the code reads it.
LEMMA SegmentFollows ==
    ASSUME NEW c, NEW g, ConfigFollows(c, g),
           NEW s \in Segments, "malformed" \notin DOMAIN s
    PROVE  ConfigFollows(Updated(c, Reading(s)), Append(g, s))
<1> DEFINE r == Reading(s)
           d == Updated(c, r)
           h == Append(g, s)
<1>1. /\ IsList(h) /\ h # <<>>
      /\ \A f : EverIn(h, f) <=> EverIn(g, f) \/ f \in DOMAIN s
      /\ \A f \in DOMAIN s : LastOf(h, f) = s[f]
      /\ \A f : f \notin DOMAIN s /\ EverIn(g, f) => LastOf(h, f) = LastOf(g, f)
  BY GivenAgain DEF ConfigFollows
<1>2. /\ DOMAIN d = DOMAIN c \union DOMAIN r
      /\ \A f \in DOMAIN r : d[f] = r[f]
      /\ \A f \in DOMAIN c : f \notin DOMAIN r => d[f] = c[f]
  BY UpdatedField
<1>3. /\ DOMAIN c = Fields /\ c["backend"] \in Kinds
      /\ \A f \in Fields : EverIn(g, f)
      /\ Follows(c, g)
  BY DEF ConfigFollows
<1>4. {"port", "tls", "trust", "backend"} \subseteq Fields
      /\ "encrypt" \notin Fields /\ "trustCert" \notin Fields
  BY DEF Fields
<1>5. \A f \in Fields : EverIn(h, f)
  BY <1>1, <1>3
<1>6. CASE DOMAIN s = {"encrypt"}
  <2>1. DOMAIN r = {"tls"} /\ r["tls"] = (s["encrypt"] # "false")
    BY <1>6 DEF Reading
  <2> HIDE DEF r, d, h
  <2>2. DOMAIN d = Fields /\ d["tls"] = (s["encrypt"] # "false")
        /\ \A f \in Fields \ {"tls"} : d[f] = c[f]
    BY <1>2, <1>3, <1>4, <2>1
  <2>3. EverIn(h, "encrypt") /\ LastOf(h, "encrypt") = s["encrypt"]
    BY <1>1, <1>6
  <2>4. \A f : f # "encrypt" =>
            /\ EverIn(h, f) <=> EverIn(g, f)
            /\ EverIn(g, f) => LastOf(h, f) = LastOf(g, f)
    BY <1>1, <1>6
  <2>5. Follows(d, h)
    BY <1>3, <1>4, <2>2, <2>3, <2>4 DEF Follows
  <2>6. d["backend"] \in Kinds
    BY <1>3, <1>4, <2>2
  <2>7. DOMAIN d = Fields
    BY <2>2
  <2> QED BY <1>1, <1>5, <2>5, <2>6, <2>7 DEF ConfigFollows, d, h, r
<1>7. CASE DOMAIN s = {"trustCert"}
  <2>1. DOMAIN r = {"trust"} /\ r["trust"] = (s["trustCert"] = "true")
    BY <1>7 DEF Reading
  <2> HIDE DEF r, d, h
  <2>2. DOMAIN d = Fields /\ d["trust"] = (s["trustCert"] = "true")
        /\ \A f \in Fields \ {"trust"} : d[f] = c[f]
    BY <1>2, <1>3, <1>4, <2>1
  <2>3. EverIn(h, "trustCert") /\ LastOf(h, "trustCert") = s["trustCert"]
    BY <1>1, <1>7
  <2>4. \A f : f # "trustCert" =>
            /\ EverIn(h, f) <=> EverIn(g, f)
            /\ EverIn(g, f) => LastOf(h, f) = LastOf(g, f)
    BY <1>1, <1>7
  <2>5. Follows(d, h)
    BY <1>3, <1>4, <2>2, <2>3, <2>4 DEF Follows
  <2>6. d["backend"] \in Kinds
    BY <1>3, <1>4, <2>2
  <2>7. DOMAIN d = Fields
    BY <2>2
  <2> QED BY <1>1, <1>5, <2>5, <2>6, <2>7 DEF ConfigFollows, d, h, r
<1>8. CASE DOMAIN s \subseteq {"host", "port", "database", "user", "password"}
  <2>1. /\ DOMAIN r = DOMAIN s
        /\ \A f \in DOMAIN s : r[f] = IF f = "port" /\ s["port"] = NoNumber THEN 1433 ELSE s[f]
    BY <1>8 DEF Reading
  <2> HIDE DEF r, d, h
  <2>2. DOMAIN s \subseteq Fields \ {"tls", "trust", "backend"}
    BY <1>8 DEF Fields
  <2>3. DOMAIN d = Fields
        /\ \A f \in Fields : d[f] = IF f \in DOMAIN s THEN r[f] ELSE c[f]
    BY <1>2, <1>3, <2>1, <2>2
  <2>4. /\ \A f \in Fields : LastOf(h, f) = IF f \in DOMAIN s THEN s[f] ELSE LastOf(g, f)
        /\ EverIn(h, "encrypt") <=> EverIn(g, "encrypt")
        /\ EverIn(h, "trustCert") <=> EverIn(g, "trustCert")
        /\ EverIn(g, "encrypt") => LastOf(h, "encrypt") = LastOf(g, "encrypt")
        /\ EverIn(g, "trustCert") => LastOf(h, "trustCert") = LastOf(g, "trustCert")
    BY <1>1, <1>3, <1>4, <2>2
  <2>5. \A f \in Fields \ {"port", "tls", "trust"} : d[f] = LastOf(h, f)
    BY <1>3, <2>1, <2>3, <2>4 DEF Follows
  <2>6. d["port"] = IF LastOf(h, "port") = NoNumber THEN 1433 ELSE LastOf(h, "port")
    BY <1>3, <1>4, <2>1, <2>3, <2>4 DEF Follows
  <2>7. d["tls"] = c["tls"] /\ d["trust"] = c["trust"] /\ d["backend"] = c["backend"]
        /\ LastOf(h, "tls") = LastOf(g, "tls") /\ LastOf(h, "trust") = LastOf(g, "trust")
    BY <1>4, <2>2, <2>3, <2>4
  <2>8. Follows(d, h)
    BY <1>3, <2>4, <2>5, <2>6, <2>7 DEF Follows
  <2> QED BY <1>1, <1>3, <1>5, <2>3, <2>7, <2>8 DEF ConfigFollows, d, h, r
<1>9. \/ DOMAIN s \in {{"encrypt"}, {"trustCert"}}
      \/ DOMAIN s \subseteq {"host", "port", "database", "user", "password"}
  BY ConnectAssumption
<1> QED BY <1>6, <1>7, <1>8, <1>9

-----------------------------------------------------------------------------
(* The invariant of Connect.                                               *)

LEMMA ConnectInitial ==
    ASSUME ConnectInit PROVE ConnectInv
BY DEF ConnectInit, ConnectInv

\* The configurations of the constructors and connectors.
LEMMA NewFields ==
    ASSUME NEW b, NEW host, NEW port, NEW database, NEW auth
    PROVE  /\ DOMAIN New(b, host, port, database, auth) = Fields
           /\ New(b, host, port, database, auth)["backend"] = b
           /\ New(b, host, port, database, auth)["port"] = port
<1>1. DOMAIN New(b, host, port, database, auth) = Fields
  BY DEF New, Fields
<1> QED BY <1>1 DEF New

LEMMA ConnectorFields ==
    ASSUME NEW text, NEW size
    PROVE  /\ DOMAIN PostgresConfig(text, size) = Fields
           /\ PostgresConfig(text, size)["backend"] = "postgres"
           /\ PostgresConfig(text, size)["port"] = 5432
           /\ DOMAIN MySqlConfig(text, size) = Fields
           /\ MySqlConfig(text, size)["backend"] = "mysql"
           /\ MySqlConfig(text, size)["port"] = 3306
           /\ DOMAIN MssqlConfig(size) = Fields
           /\ MssqlConfig(size)["backend"] = "mssql"
           /\ MssqlConfig(size)["port"] = 1433
<1>1. /\ DOMAIN PostgresConfig(text, size) = Fields
      /\ PostgresConfig(text, size)["backend"] = "postgres"
      /\ PostgresConfig(text, size)["port"] = 5432
  <2> DEFINE n == New("postgres", "", 5432, "", [NoAuth EXCEPT !.auth = "ConnectionString", !.text = text])
  <2>1. DOMAIN n = Fields
    BY DEF New, Fields
  <2>2. n["backend"] = "postgres" /\ n["port"] = 5432
    BY DEF New
  <2>3. PostgresConfig(text, size) =
            [n EXCEPT !.tls = (text # "sslmode=disable"), !.trust = TRUE, !.min = 0, !.max = size]
    BY DEF PostgresConfig
  <2> HIDE DEF n
  <2> QED BY <2>1, <2>2, <2>3 DEF Fields
<1>2. /\ DOMAIN MySqlConfig(text, size) = Fields
      /\ MySqlConfig(text, size)["backend"] = "mysql"
      /\ MySqlConfig(text, size)["port"] = 3306
  <2> DEFINE n == New("mysql", "", 3306, "", NoAuth)
  <2>1. DOMAIN n = Fields
    BY DEF New, Fields
  <2>2. n["backend"] = "mysql" /\ n["port"] = 3306
    BY DEF New
  <2>3. MySqlConfig(text, size) = [n EXCEPT !.connStr = text, !.min = 0, !.max = size]
    BY DEF MySqlConfig
  <2> HIDE DEF n
  <2> QED BY <2>1, <2>2, <2>3 DEF Fields
<1>3. /\ DOMAIN MssqlConfig(size) = Fields
      /\ MssqlConfig(size)["backend"] = "mssql"
      /\ MssqlConfig(size)["port"] = 1433
  <2> DEFINE n == New("mssql", "localhost", 1433, "", [NoAuth EXCEPT !.auth = "SqlPassword"])
  <2>1. DOMAIN n = Fields
    BY DEF New, Fields
  <2>2. n["backend"] = "mssql" /\ n["port"] = 1433
    BY DEF New
  <2>3. MssqlConfig(size) = [n EXCEPT !.min = 0, !.max = size]
    BY DEF MssqlConfig
  <2> HIDE DEF n
  <2> QED BY <2>1, <2>2, <2>3 DEF Fields
<1> QED BY <1>1, <1>2, <1>3

LEMMA ConnectStep ==
    ASSUME ConnectInv, ConnectNext
    PROVE  ConnectInv'
<1> USE DEF ConnectInv
<1>1. CASE Construct
  <2>1. PICK b \in Kinds, place \in Places, auth \in Auths :
           Configured(New(b, place.host, place.port, place.database, auth))
    BY <1>1, Zenon DEF Construct, Kinds
  <2>2. place.port # NoNumber
    BY ConnectAssumption
  <2>3. \E c : /\ config' = c /\ given' = <<c>> /\ DOMAIN c = Fields
              /\ c["backend"] = b /\ c["port"] = place.port
    BY <2>1, NewFields DEF Configured
  <2>4. ConfigFollows(config', given') /\ ~EverIn(given', "encrypt") /\ ~EverIn(given', "trustCert")
    BY <2>2, <2>3, Begins
  <2> QED BY <1>1, <2>4 DEF Construct
<1>2. CASE With
  <2>1. PICK s \in BuilderCalls : config' = Updated(config, s) /\ given' = Append(given, s)
    BY <1>2 DEF With
  <2>2. ConfigFollows(config', given') /\ ~EverIn(given', "encrypt") /\ ~EverIn(given', "trustCert")
    BY <1>2, <2>1, BuilderFollows DEF With
  <2> QED BY <1>2, <2>2 DEF With
<1>3. CASE PostgresConnector
  <2>1. PICK text, size : Configured(PostgresConfig(text, size))
    BY <1>3, Zenon DEF PostgresConnector
  <2>2. ConfigFollows(config', given')
    BY <2>1, ConnectorFields, Begins DEF Kinds, NoNumber, Configured
  <2> QED BY <1>3, <2>2 DEF PostgresConnector
<1>4. CASE MySqlConnector
  <2>1. PICK text, size : Configured(MySqlConfig(text, size))
    BY <1>4, Zenon DEF MySqlConnector
  <2>2. ConfigFollows(config', given')
    BY <2>1, ConnectorFields, Begins DEF Kinds, NoNumber, Configured
  <2> QED BY <1>4, <2>2 DEF MySqlConnector
<1>5. CASE MssqlConnector
  <2>1. PICK size : Configured(MssqlConfig(size))
    BY <1>5, Zenon DEF MssqlConnector
  <2>2. ConfigFollows(config', given')
    BY <2>1, ConnectorFields, Begins DEF Kinds, NoNumber, Configured
  <2>3. input' \in Seq(Segments)
    BY <1>5, ConnectAssumption DEF MssqlConnector, BoundedSeq, SeqOf
  <2> QED BY <1>5, <2>2, <2>3 DEF MssqlConnector
<1>6. CASE ParseSegment
  <2>1. input \in Seq(Segments) /\ input # <<>>
    BY <1>6 DEF ParseSegment
  <2>2. Head(input) \in Segments /\ Tail(input) \in Seq(Segments)
    BY <2>1, HeadTailProperties
  <2>3. ConfigFollows(config', given')
    BY <1>6, <2>2, SegmentFollows DEF ParseSegment
  <2> QED BY <1>6, <2>2, <2>3 DEF ParseSegment
<1>7. CASE ParseFails
  BY <1>7 DEF ParseFails
<1>8. CASE ParseEnds
  BY <1>8 DEF ParseEnds
<1>9. CASE ConnectRefuses
  BY <1>9 DEF ConnectRefuses
<1>10. CASE ConnectFails
  BY <1>10 DEF ConnectFails
<1>11. CASE Connected
  <2>1. phase' \in {"driver", "in"} /\ phase # "start" /\ UNCHANGED <<config, given>>
    BY <1>11 DEF Connected
  <2>2. options' = HandedOn /\ ~Unsupported
    BY <1>11 DEF Connected
  <2>3. HandedOn' = HandedOn /\ Unsupported' = Unsupported
    BY <2>1 DEF HandedOn, Passed, PgPassed, MySqlPassed, MssqlPassed, Unsupported
  <2> QED BY <2>1, <2>2, <2>3
<1>12. CASE Login
  <2>1. phase' = "in" /\ phase = "driver" /\ UNCHANGED <<config, given, options>>
    BY <1>12 DEF Login
  <2>2. HandedOn' = HandedOn /\ Unsupported' = Unsupported
    BY <2>1 DEF HandedOn, Passed, PgPassed, MySqlPassed, MssqlPassed, Unsupported
  <2> QED BY <2>1, <2>2
<1>13. CASE LoginFails
  <2>1. phase' = "driver" /\ phase = "driver" /\ UNCHANGED <<config, given, options>>
    BY <1>13 DEF LoginFails
  <2>2. HandedOn' = HandedOn /\ Unsupported' = Unsupported
    BY <2>1 DEF HandedOn, Passed, PgPassed, MySqlPassed, MssqlPassed, Unsupported
  <2> QED BY <2>1, <2>2
<1> QED
  BY <1>1, <1>2, <1>3, <1>4, <1>5, <1>6, <1>7, <1>8, <1>9, <1>10, <1>11, <1>12, <1>13
  DEF ConnectNext

\* Nothing moves the connection of a driver that is logged in.
LEMMA LoggedInStays ==
    ASSUME phase = "in", ConnectNext
    PROVE  FALSE
BY DEF ConnectNext, Construct, With, PostgresConnector, MySqlConnector, MssqlConnector,
       ParseSegment, ParseFails, ParseEnds, ConnectRefuses, ConnectFails, Connected,
       Login, LoginFails

LEMMA ConnectStutters ==
    ASSUME ConnectInv, UNCHANGED connectVars
    PROVE  ConnectInv'
<1>1. UNCHANGED <<phase, config, given, input, options>>
  BY DEF connectVars
<1>2. HandedOn' = HandedOn /\ Unsupported' = Unsupported
  BY <1>1 DEF HandedOn, Passed, PgPassed, MySqlPassed, MssqlPassed, Unsupported
<1> QED BY <1>1, <1>2 DEF ConnectInv

\* What the client library has, by backend.
LEMMA HandedOnFields ==
    ASSUME ConnectInv, phase \in {"driver", "in"}, UsableAuth
    PROVE  /\ DOMAIN options = Reaching
           /\ \A f \in Reaching \ {"sslMode"} : f \in Fields /\ options[f] = config[f]
           /\ "sslMode" \in Reaching => options["sslMode"] = SslMode(config["tls"], config["trust"])
<1>1. /\ options = HandedOn /\ ~Unsupported /\ config["backend"] \in Kinds
  BY DEF ConnectInv, ConfigFollows
<1>2. CASE config.backend = "postgres"
  <2>1. options = [f \in Passed |-> config[f]]
    BY <1>1, <1>2 DEF HandedOn
  <2>2. Passed = Reaching /\ "sslMode" \notin Reaching /\ Reaching \subseteq Fields
    BY <1>2 DEF Reaching, Passed, PgPassed, Fields
  <2> QED BY <2>1, <2>2
<1>3. CASE config.backend = "mssql"
  <2>1. options = [f \in Passed |-> config[f]]
    BY <1>1, <1>3 DEF HandedOn
  <2>2. Passed = Reaching /\ "sslMode" \notin Reaching /\ Reaching \subseteq Fields
    BY <1>1, <1>3 DEF Reaching, Passed, MssqlPassed, UsableAuth, AzureKinds, Fields
  <2> QED BY <2>1, <2>2
<1>4. CASE config.backend = "mysql"
  <2> DEFINE passed == [f \in Passed |-> config[f]]
             ssl    == [sslMode |-> SslMode(config.tls, config.trust)]
  <2>1. options = Updated(passed, ssl)
    BY <1>1, <1>4 DEF HandedOn
  <2>2. Passed \union {"sslMode"} = Reaching /\ "sslMode" \notin Passed /\ Passed \subseteq Fields
    BY <1>1, <1>4 DEF Reaching, Passed, MySqlPassed, DefaultPool, Unsupported, Fields
  <2>3. /\ DOMAIN passed = Passed /\ \A f \in Passed : passed[f] = config[f]
        /\ DOMAIN ssl = {"sslMode"} /\ ssl["sslMode"] = SslMode(config["tls"], config["trust"])
    OBVIOUS
  <2> HIDE DEF passed, ssl
  <2>4. /\ DOMAIN options = DOMAIN passed \union DOMAIN ssl
        /\ \A f \in DOMAIN ssl : options[f] = ssl[f]
        /\ \A f \in DOMAIN passed : f \notin DOMAIN ssl => options[f] = passed[f]
    BY <2>1, UpdatedField
  <2> QED BY <2>2, <2>3, <2>4
<1> QED BY <1>1, <1>2, <1>3, <1>4 DEF Kinds

\* LoginAsConfigured follows.
LEMMA LoginFollows ==
    ASSUME ConnectInv
    PROVE  LoginAsConfigured
<1> SUFFICES ASSUME phase \in {"driver", "in"}, UsableAuth
             PROVE  /\ DOMAIN options = Reaching
                    /\ \A f \in Reaching :
                          options[f] = CASE f = "port"    -> LastPort
                                         [] f = "tls"     -> LastTls
                                         [] f = "trust"   -> LastTrust
                                         [] f = "sslMode" -> SslMode(LastTls, LastTrust)
                                         [] OTHER         -> LastGiven(f)
  BY DEF LoginAsConfigured
<1>1. /\ DOMAIN options = Reaching
      /\ \A f \in Reaching \ {"sslMode"} : f \in Fields /\ options[f] = config[f]
      /\ "sslMode" \in Reaching => options["sslMode"] = SslMode(config["tls"], config["trust"])
  BY HandedOnFields
<1>2. /\ \A f : LastGiven(f) = LastOf(given, f)
      /\ \A f : EverGiven(f) = EverIn(given, f)
  BY DEF LastGiven, LastOf, EverGiven, EverIn
<1>3. Follows(config, given)
  BY DEF ConnectInv, ConfigFollows
<1>4. /\ \A f \in Fields \ {"port", "tls", "trust"} : config[f] = LastGiven(f)
      /\ config["port"] = LastPort /\ config["tls"] = LastTls /\ config["trust"] = LastTrust
  BY <1>2, <1>3 DEF Follows, LastPort, LastTls, LastTrust
<1>5. SslMode(config["tls"], config["trust"]) = SslMode(LastTls, LastTrust)
  BY <1>4
<1>6. ASSUME NEW f \in Reaching
      PROVE  options[f] = CASE f = "port"    -> LastPort
                            [] f = "tls"     -> LastTls
                            [] f = "trust"   -> LastTrust
                            [] f = "sslMode" -> SslMode(LastTls, LastTrust)
                            [] OTHER         -> LastGiven(f)
  <2>1. CASE f \in {"port", "tls", "trust"}
    BY <1>1, <1>4, <2>1
  <2>2. CASE f = "sslMode"
    BY <1>1, <1>5, <2>2
  <2>3. CASE f \notin {"port", "tls", "trust", "sslMode"}
    BY <1>1, <1>4, <2>3
  <2> QED BY <2>1, <2>2, <2>3
<1> QED BY <1>1, <1>6

-----------------------------------------------------------------------------
(* The tables by which columns are read.                                   *)

\* What the read tables of the backends agree on about column c: whether it can
\* be read, as what, and that a number fits its variant.
ReadsWell(b, c) ==
    /\ Reads[b][c].as \in LibraryTypes[b][c] <=> c \notin Lost[b]
    /\ c \notin Lost[b] => Reads[b][c].kind \in DOMAIN WritesTo
    /\ c \notin Lost[b] /\ Reads[b][c].kind \in DOMAIN Integral =>
          /\ c \in DOMAIN IntColumns /\ c # "Numeric"
          /\ IntColumns[c] \subseteq Integral[Reads[b][c].kind]
    /\ c \notin Lost[b] /\ Reads[b][c].kind = "Float32" => c \in Singles
    /\ c \notin Lost[b] /\ Reads[b][c].kind = "Float64" => c \in Doubles \union {"Numeric"}
    /\ c \in Singles \union Doubles => Reads[b][c].kind \in {"Float32", "Float64"}
    /\ c \in {"Bit"} => Reads[b][c].kind = "Bool"
    /\ c = "Numeric" => Reads[b][c].kind = "Float64"
    /\ b = "postgres" /\ c \in {"DATE", "TIMESTAMP", "TIMESTAMPTZ"} => Reads[b][c].strict

LEMMA PgReadsWell ==
    ASSUME NEW c \in DOMAIN PgTypes
    PROVE  /\ PgReads[c].as \in PgTypes[c] <=> c \notin Lost["postgres"]
           /\ PgReads[c].kind \in DOMAIN WritesTo
           /\ c \in {"DATE", "TIMESTAMP", "TIMESTAMPTZ"} => PgReads[c].strict
BY DEF Lost, PgReads, PgTypes, WritesTo, Read

LEMMA PgReadsNumbers ==
    ASSUME NEW c \in DOMAIN PgTypes
    PROVE  /\ PgReads[c].kind \in DOMAIN Integral => c \in {"INT2", "INT4", "INT8"}
           /\ PgReads["INT2"].kind = "Int16" /\ PgReads["INT4"].kind = "Int32"
           /\ PgReads["INT8"].kind = "Int64"
BY DEF PgReads, PgTypes, Integral, Read

LEMMA PgReadsFloats ==
    ASSUME NEW c \in DOMAIN PgTypes
    PROVE  /\ PgReads[c].kind = "Float32" => c \in Singles
           /\ PgReads[c].kind = "Float64" => c \in Doubles
           /\ c \in Singles \union Doubles => PgReads[c].kind \in {"Float32", "Float64"}
BY DEF PgReads, PgTypes, Read, Singles, Doubles

LEMMA MsReadsWell ==
    ASSUME NEW c \in DOMAIN MsSqlTypes
    PROVE  /\ ColumnDataToValue[c].as \in MsSqlTypes[c] <=> c # "Xml"
           /\ c # "Xml" => ColumnDataToValue[c].kind \in DOMAIN WritesTo
BY DEF ColumnDataToValue, MsSqlTypes, WritesTo, Read

LEMMA MsReadsNumbers ==
    ASSUME NEW c \in DOMAIN MsSqlTypes
    PROVE  /\ ColumnDataToValue[c].kind \in DOMAIN Integral => c \in {"U8", "I16", "I32", "I64"}
           /\ ColumnDataToValue["U8"].kind = "UInt8" /\ ColumnDataToValue["I16"].kind = "Int16"
           /\ ColumnDataToValue["I32"].kind = "Int32" /\ ColumnDataToValue["I64"].kind = "Int64"
BY DEF ColumnDataToValue, MsSqlTypes, Integral, Read

LEMMA MsReadsFloats ==
    ASSUME NEW c \in DOMAIN MsSqlTypes
    PROVE  /\ ColumnDataToValue[c].kind = "Float32" => c \in Singles
           /\ ColumnDataToValue[c].kind = "Float64" => c \in Doubles \union {"Numeric"}
           /\ c \in Singles \union Doubles => ColumnDataToValue[c].kind \in {"Float32", "Float64"}
           /\ ColumnDataToValue["Bit"].kind = "Bool" /\ ColumnDataToValue["Numeric"].kind = "Float64"
BY DEF ColumnDataToValue, MsSqlTypes, Read, Singles, Doubles

\* The first condition that holds is the one that decides.
LEMMA FirstCondition ==
    ASSUME NEW c \in DOMAIN MySqlTypes, NEW i \in 1..15,
           Conditions[i].words \subseteq Words[c],
           \A k \in 1..(i-1) : ~(Conditions[k].words \subseteq Words[c])
    PROVE  MySqlReads[c] = Conditions[i].read
<1> DEFINE I == {k \in 1..Len(Conditions) : Conditions[k].words \subseteq Words[c]}
<1>1. Len(Conditions) = 15
  BY DEF Conditions
<1>2. i \in I /\ \A k \in I : i <= k
  BY <1>1
<1>3. Min(I) = i
  <2>1. Min(I) \in I /\ \A k \in I : Min(I) <= k
    BY <1>2 DEF Min
  <2>2. Min(I) \in Nat /\ i \in Nat /\ Min(I) <= i /\ i <= Min(I)
    BY <1>1, <1>2, <2>1
  <2> HIDE DEF I
  <2> QED BY <2>2
<1>4. MySqlReads[c] = Conditions[IF I # {} THEN Min(I) ELSE 0].read
  BY DEF MySqlReads, SelectInSeq
<1> HIDE DEF I
<1> QED BY <1>2, <1>3, <1>4

LEMMA FifteenConditions ==
    /\ Conditions[1].words = {"INT", "UNSIGNED"} /\ Conditions[2].words = {"INT", "TINY"}
    /\ Conditions[3].words = {"INT"} /\ Conditions[4].words = {"FLOAT"}
    /\ Conditions[5].words = {"DOUBLE"} /\ Conditions[6].words = {"DECIMAL"}
    /\ Conditions[7].words = {"BOOL"} /\ Conditions[8].words = {"BIT"}
    /\ Conditions[9].words = {"DATETIME"} /\ Conditions[10].words = {"TIMESTAMP"}
    /\ Conditions[11].words = {"DATE"} /\ Conditions[12].words = {"TIME"}
    /\ Conditions[13].words = {"BLOB"} /\ Conditions[14].words = {"JSON"}
    /\ Conditions[15].words = {}
BY DEF Conditions

\* The condition that decides for each type.
Deciding ==
    [TINYINT |-> 2, TINYINT_UNSIGNED |-> 1, SMALLINT |-> 3, SMALLINT_UNSIGNED |-> 1,
     INT |-> 3, INT_UNSIGNED |-> 1, BIGINT |-> 3, BIGINT_UNSIGNED |-> 1, BOOLEAN |-> 7, BIT |-> 8,
     FLOAT |-> 4, DOUBLE |-> 5, DECIMAL |-> 6, DATE |-> 11, TIME |-> 12, DATETIME |-> 9,
     TIMESTAMP |-> 10, VARCHAR |-> 15, YEAR |-> 15, GEOMETRY |-> 15, BLOB |-> 13, JSON |-> 14]

LEMMA DecidingDecides ==
    ASSUME NEW c \in DOMAIN MySqlTypes
    PROVE  MySqlReads[c] = Conditions[Deciding[c]].read
<1> DEFINE i == Deciding[c]
<1>1. i \in 1..15
  BY DEF Deciding, MySqlTypes
<1>2. Conditions[i].words \subseteq Words[c]
  BY FifteenConditions DEF Deciding, MySqlTypes, Words
<1>3. \A k \in 1..(i-1) : ~(Conditions[k].words \subseteq Words[c])
  BY FifteenConditions DEF Deciding, MySqlTypes, Words
<1> QED BY <1>1, <1>2, <1>3, FirstCondition

LEMMA MySqlReadsWell ==
    ASSUME NEW c \in DOMAIN MySqlTypes
    PROVE  /\ MySqlReads[c].as \in MySqlTypes[c] <=> c \notin Lost["mysql"]
           /\ MySqlReads[c].kind \in DOMAIN WritesTo
<1>1. /\ Conditions[Deciding[c]].read.as \in MySqlTypes[c] <=> c \notin Lost["mysql"]
      /\ Conditions[Deciding[c]].read.kind \in DOMAIN WritesTo
  BY DEF Lost, Conditions, Deciding, MySqlTypes, WritesTo, Read, Ints, Uints
<1> QED BY <1>1, DecidingDecides

LEMMA MySqlReadsNumbers ==
    ASSUME NEW c \in DOMAIN MySqlTypes
    PROVE  /\ MySqlReads[c].kind \in DOMAIN Integral =>
                  \/ c = "TINYINT"
                  \/ c \in {"SMALLINT", "INT", "BIGINT"} /\ MySqlReads[c].kind = "Int64"
                  \/ /\ c \in {"TINYINT_UNSIGNED", "SMALLINT_UNSIGNED", "INT_UNSIGNED", "BIGINT_UNSIGNED"}
                     /\ MySqlReads[c].kind = "UInt64"
<1>1. Conditions[Deciding[c]].read.kind \in DOMAIN Integral =>
          \/ c = "TINYINT"
          \/ c \in {"SMALLINT", "INT", "BIGINT"} /\ Conditions[Deciding[c]].read.kind = "Int64"
          \/ /\ c \in {"TINYINT_UNSIGNED", "SMALLINT_UNSIGNED", "INT_UNSIGNED", "BIGINT_UNSIGNED"}
             /\ Conditions[Deciding[c]].read.kind = "UInt64"
  BY DEF Conditions, Deciding, MySqlTypes, Integral, Read
<1> QED BY <1>1, DecidingDecides

LEMMA MySqlReadsFloats ==
    ASSUME NEW c \in DOMAIN MySqlTypes
    PROVE  /\ MySqlReads[c].kind = "Float32" => c \in Singles
           /\ MySqlReads[c].kind = "Float64" => c \in Doubles \/ c \in Lost["mysql"]
           /\ c \in Singles \union Doubles => MySqlReads[c].kind \in {"Float32", "Float64"}
<1>1. /\ Conditions[Deciding[c]].read.kind = "Float32" => c \in Singles
      /\ Conditions[Deciding[c]].read.kind = "Float64" => c \in Doubles \/ c \in Lost["mysql"]
      /\ c \in Singles \union Doubles => Conditions[Deciding[c]].read.kind \in {"Float32", "Float64"}
  BY DEF Conditions, Deciding, MySqlTypes, Lost, Read, Singles, Doubles
<1> QED BY <1>1, DecidingDecides

LEMMA RangesWiden ==
    /\ Signed(16) \subseteq Signed(32) /\ Signed(32) \subseteq Signed(64)
    /\ Signed(16) \subseteq Signed(64)
    /\ Unsigned(8) \subseteq Unsigned(64) /\ Unsigned(16) \subseteq Unsigned(64)
    /\ Unsigned(32) \subseteq Unsigned(64)
<1>1. /\ Half[8] \in Nat /\ Half[16] \in Nat /\ Half[32] \in Nat /\ Half[64] \in Nat
      /\ Half[8] <= Half[16] /\ Half[16] <= Half[32] /\ Half[32] <= Half[64]
  BY ValuesAssumption
<1>2. \A a, b \in Nat : a <= b => -a .. a - 1 \subseteq -b .. b - 1 /\ 0 .. 2 * a - 1 \subseteq 0 .. 2 * b - 1
  OBVIOUS
<1>3. Half[16] <= Half[64] /\ Half[8] <= Half[64]
  BY <1>1
<1> QED BY <1>1, <1>2, <1>3 DEF Signed, Unsigned

LEMMA AllReadWell ==
    ASSUME NEW b \in Backends, NEW c \in Columns(b)
    PROVE  ReadsWell(b, c)
<1>1. CASE b = "postgres"
  <2>1. /\ Reads[b] = PgReads /\ LibraryTypes[b] = PgTypes /\ c \in DOMAIN PgTypes
        /\ Lost[b] = Lost["postgres"] /\ "Bit" \notin DOMAIN PgTypes /\ "Numeric" \notin DOMAIN PgTypes
    BY <1>1 DEF Reads, LibraryTypes, Columns, PgTypes
  <2>2. c \in {"INT2", "INT4", "INT8"} =>
           /\ c \in DOMAIN IntColumns /\ c # "Numeric"
           /\ IntColumns[c] \subseteq Integral[PgReads[c].kind]
    BY <2>1, PgReadsNumbers DEF IntColumns, Integral
  <2> QED BY <2>1, <2>2, PgReadsWell, PgReadsNumbers, PgReadsFloats DEF ReadsWell
<1>2. CASE b = "mysql"
  <2>1. /\ Reads[b] = MySqlReads /\ LibraryTypes[b] = MySqlTypes /\ c \in DOMAIN MySqlTypes
        /\ Lost[b] = Lost["mysql"] /\ "TINYINT" \in Lost["mysql"]
        /\ "Bit" \notin DOMAIN MySqlTypes /\ "Numeric" \notin DOMAIN MySqlTypes
    BY <1>2 DEF Reads, LibraryTypes, Columns, MySqlTypes, Lost
  <2>2. /\ c \in {"SMALLINT", "INT", "BIGINT"} =>
              /\ c \in DOMAIN IntColumns /\ c # "Numeric"
              /\ IntColumns[c] \subseteq Integral["Int64"]
        /\ c \in {"TINYINT_UNSIGNED", "SMALLINT_UNSIGNED", "INT_UNSIGNED", "BIGINT_UNSIGNED"} =>
              /\ c \in DOMAIN IntColumns /\ c # "Numeric"
              /\ IntColumns[c] \subseteq Integral["UInt64"]
    BY RangesWiden DEF IntColumns, Integral
  <2> QED BY <1>2, <2>1, <2>2, MySqlReadsWell, MySqlReadsNumbers, MySqlReadsFloats DEF ReadsWell
<1>3. CASE b = "mssql"
  <2>1. /\ Reads[b] = ColumnDataToValue /\ LibraryTypes[b] = MsSqlTypes /\ c \in DOMAIN MsSqlTypes
        /\ Lost[b] = {"Xml"}
    BY <1>3 DEF Reads, LibraryTypes, Columns, Lost
  <2>2. c \in {"U8", "I16", "I32", "I64"} =>
           /\ c \in DOMAIN IntColumns /\ c # "Numeric"
           /\ IntColumns[c] \subseteq Integral[ColumnDataToValue[c].kind]
    BY <2>1, MsReadsNumbers DEF IntColumns, Integral
  <2> QED BY <1>3, <2>1, <2>2, MsReadsWell, MsReadsNumbers, MsReadsFloats DEF ReadsWell
<1> QED BY <1>1, <1>2, <1>3 DEF Backends

-----------------------------------------------------------------------------
(* Numbers as floats.                                                      *)

Spacings == {1, 2, 4, 8, 16, 32, 64, 128, 256, 512, 1024, 2048}

LEMMA SpacingExists ==
    ASSUME NEW size \in Nat, size <= 2048 * Mantissa
    PROVE  \E s \in Spacings : /\ size <= s * Mantissa
                               /\ s = 1 \/ size > (s \div 2) * Mantissa
<1>1. Mantissa \in Nat
  BY ValuesAssumption
<1>2. /\ 2 \div 2 = 1 /\ 4 \div 2 = 2 /\ 8 \div 2 = 4 /\ 16 \div 2 = 8 /\ 32 \div 2 = 16
      /\ 64 \div 2 = 32 /\ 128 \div 2 = 64 /\ 256 \div 2 = 128 /\ 512 \div 2 = 256
      /\ 1024 \div 2 = 512 /\ 2048 \div 2 = 1024
  OBVIOUS
<1>3. \/ size <= 1 * Mantissa
      \/ size <= 2 * Mantissa /\ size > 1 * Mantissa
      \/ size <= 4 * Mantissa /\ size > 2 * Mantissa
      \/ size <= 8 * Mantissa /\ size > 4 * Mantissa
      \/ size <= 16 * Mantissa /\ size > 8 * Mantissa
      \/ size <= 32 * Mantissa /\ size > 16 * Mantissa
      \/ size <= 64 * Mantissa /\ size > 32 * Mantissa
      \/ size <= 128 * Mantissa /\ size > 64 * Mantissa
      \/ size <= 256 * Mantissa /\ size > 128 * Mantissa
      \/ size <= 512 * Mantissa /\ size > 256 * Mantissa
      \/ size <= 1024 * Mantissa /\ size > 512 * Mantissa
      \/ size <= 2048 * Mantissa /\ size > 1024 * Mantissa
  BY <1>1
<1> QED BY <1>2, <1>3 DEF Spacings

LEMMA RemainderHalves ==
    ASSUME NEW n \in Int, NEW s \in Spacings, s # 1
    PROVE  /\ n % s \in 0..(s-1) /\ s \div 2 \in Nat
           /\ 2 * (n % s) <= s => n % s <= s \div 2
           /\ 2 * (n % s) >= s => s - (n % s) <= s \div 2
BY DEF Spacings

LEMMA Products ==
    ASSUME NEW a \in Nat, NEW b \in Nat, NEW c \in Nat, a <= b
    PROVE  a * c <= b * c
<1>1. b * c = a * c + (b - a) * c
  OBVIOUS
<1>2. (b - a) * c \in Nat /\ a * c \in Nat
  OBVIOUS
<1> QED BY <1>1, <1>2

\* The float next to a number differs from it by its size over 2^53 at most.
LEMMA FloatIsNear ==
    ASSUME NEW n \in Int, Magnitude(n) <= 2048 * Mantissa
    PROVE  /\ AsF64(n) \in Int
           /\ AsF64(n) = n \/ Magnitude(AsF64(n) - n) * Mantissa <= Magnitude(n)
<1>1. Magnitude(n) \in Nat /\ Mantissa \in Nat
  BY ValuesAssumption DEF Magnitude
<1>2. PICK s \in Spacings, even \in BOOLEAN :
         /\ s = 1 \/ Magnitude(n) > (s \div 2) * Mantissa
         /\ AsF64(n) = IF 2 * (n % s) < s \/ (2 * (n % s) = s /\ even)
                       THEN n - (n % s) ELSE (n - (n % s)) + s
  <2> DEFINE Fits(t) == /\ Magnitude(n) <= t * Mantissa
                        /\ t = 1 \/ Magnitude(n) > (t \div 2) * Mantissa
             s == CHOOSE t \in Spacings : Fits(t)
             even == ((n - (n % s)) \div s) % 2 = 0
  <2>1. \E t \in Spacings : Fits(t)
    BY <1>1, SpacingExists
  <2>2. s \in Spacings /\ Fits(s)
    <3> HIDE DEF Fits
    <3> QED BY <2>1
  <2>3. AsF64(n) = IF 2 * (n % s) < s \/ (2 * (n % s) = s /\ even)
                   THEN n - (n % s) ELSE (n - (n % s)) + s
    BY DEF AsF64, Magnitude, Spacings
  <2>4. even \in BOOLEAN
    OBVIOUS
  <2> HIDE DEF s, even
  <2> QED BY <2>2, <2>3, <2>4
<1>3. s \in Nat
  BY DEF Spacings
<1>4. CASE s = 1
  <2>1. n % s = 0
    BY <1>4
  <2> QED BY <1>2, <1>4, <2>1
<1>5. CASE s # 1
  <2>1. /\ n % s \in 0..(s-1) /\ s \div 2 \in Nat
        /\ 2 * (n % s) <= s => n % s <= s \div 2
        /\ 2 * (n % s) >= s => s - (n % s) <= s \div 2
    BY <1>5, RemainderHalves
  <2>2. AsF64(n) \in Int /\ Magnitude(AsF64(n) - n) \in 0..(s \div 2)
    <3>1. CASE AsF64(n) = n - (n % s) /\ 2 * (n % s) <= s
      BY <1>3, <2>1, <3>1 DEF Magnitude
    <3>2. CASE AsF64(n) = (n - (n % s)) + s /\ 2 * (n % s) >= s
      BY <1>3, <2>1, <3>2 DEF Magnitude
    <3> QED BY <1>2, <1>3, <2>1, <3>1, <3>2
  <2>3. Magnitude(AsF64(n) - n) * Mantissa <= (s \div 2) * Mantissa
    BY <1>1, <2>1, <2>2, Products
  <2>4. Magnitude(AsF64(n) - n) * Mantissa \in Nat /\ (s \div 2) * Mantissa \in Nat
    BY <1>1, <2>1, <2>2
  <2> QED BY <1>1, <1>2, <1>5, <2>2, <2>3, <2>4
<1> QED BY <1>4, <1>5

-----------------------------------------------------------------------------
(* The result sets of an answer.                                           *)

CellFits(b, c, x) ==
    \/ x = NullCell
    \/ x.is = "value" /\ (c \in DOMAIN IntColumns => x.x \in IntColumns[c])
    \/ /\ x = OddCell /\ b # "mssql"
       /\ b = "postgres" => c \in {"DATE", "TIMESTAMP", "TIMESTAMPTZ"}

SetFits(b, set) ==
    /\ set.columns \in Seq(Columns(b))
    /\ Len(set.table) \in Nat /\ DOMAIN set.table = 1..Len(set.table)
    /\ \A j \in DOMAIN set.table :
          /\ DOMAIN set.table[j] = DOMAIN set.columns
          /\ \A k \in DOMAIN set.columns : CellFits(b, set.columns[k], set.table[j][k])

SetsFit(b, sets) == IsList(sets) /\ \A p \in 1..Len(sets) : SetFits(b, sets[p])

RowOf(set, a) == [columns |-> set.columns, cells |-> set.table[a]]
RowSeqs(sets) == [j \in DOMAIN sets |-> [k \in DOMAIN sets[j].table |-> RowOf(sets[j], k)]]
AllRows(sets) == FlattenSeq(RowSeqs(sets))

MetadataOf(set) == [is |-> "metadata", columns |-> set.columns]
RowItem(set, a) == [is |-> "row", types |-> set.columns, cells |-> set.table[a]]
ItemSeqs(sets) == [j \in DOMAIN sets |-> Items(sets[j])]
AllItems(sets) == FlattenSeq(ItemSeqs(sets))

\* Some sequences, one of each number of a range, are a sequence of sequences.
LEMMA ListOfLists ==
    ASSUME NEW seqs, NEW n \in Nat, DOMAIN seqs = 1..n, seqs = [p \in 1..n |-> seqs[p]],
           NEW S, \A p \in 1..n : seqs[p] \in Seq(S)
    PROVE  seqs \in Seq(Seq(S)) /\ Len(seqs) = n
OBVIOUS

LEMMA ListOver ==
    ASSUME NEW n \in Nat, NEW S, NEW f \in [1..n -> S]
    PROVE  f \in Seq(S) /\ Len(f) = n
OBVIOUS

\* The rows are those of the first set, then those of the next, and so on.
LEMMA RowsStand ==
    ASSUME NEW b, NEW sets, SetsFit(b, sets)
    PROVE  /\ \E S : RowSeqs(sets) \in Seq(Seq(S))
           /\ Len(RowSeqs(sets)) = Len(sets) /\ Len(sets) \in Nat /\ DOMAIN sets = 1..Len(sets)
           /\ \A p \in 1..Len(sets) : /\ Len(RowSeqs(sets)[p]) = Len(sets[p].table)
                                      /\ Len(sets[p].table) \in Nat
           /\ IsList(AllRows(sets)) /\ Len(AllRows(sets)) \in Nat
           /\ \A j \in 1..Len(AllRows(sets)) : \E p \in 1..Len(sets) :
                 \E a \in DOMAIN sets[p].table : AllRows(sets)[j] = RowOf(sets[p], a)
<1> DEFINE n == Len(sets)
           seqs == RowSeqs(sets)
           S == UNION {{RowOf(sets[p], a) : a \in DOMAIN sets[p].table} : p \in 1..n}
<1>1. n \in Nat /\ DOMAIN sets = 1..n
  BY LenProperties DEF SetsFit, IsList
<1>2. \A p \in 1..n : Len(sets[p].table) \in Nat /\ DOMAIN sets[p].table = 1..Len(sets[p].table)
  BY DEF SetsFit, SetFits
<1>3. \A p \in 1..n : seqs[p] = [a \in 1..Len(sets[p].table) |-> RowOf(sets[p], a)]
  BY <1>1, <1>2 DEF RowSeqs
<1>4. DOMAIN seqs = 1..n /\ seqs = [p \in 1..n |-> seqs[p]]
  BY <1>1 DEF RowSeqs
<1> HIDE DEF n, seqs
<1>5. ASSUME NEW p \in 1..n PROVE seqs[p] \in Seq(S) /\ Len(seqs[p]) = Len(sets[p].table)
  <2>1. ASSUME NEW a \in 1..Len(sets[p].table) PROVE RowOf(sets[p], a) \in S
    <3>1. RowOf(sets[p], a) \in {RowOf(sets[p], x) : x \in DOMAIN sets[p].table}
      BY <1>2
    <3> QED BY <3>1
  <2> HIDE DEF S
  <2>2. seqs[p] \in [1..Len(sets[p].table) -> S] /\ Len(sets[p].table) \in Nat
    BY <1>2, <1>3, <2>1
  <2> QED BY <2>2, ListOver
<1> HIDE DEF S
<1>6. seqs \in Seq(Seq(S)) /\ Len(seqs) = n
  BY <1>1, <1>4, <1>5, ListOfLists
<1>7. /\ FlattenSeq(seqs) \in Seq(S)
      /\ \E part, pos : Placed(part, pos, FlattenSeq(seqs), seqs, Len(seqs))
  BY <1>6, FlattenPlaces
<1>8. PICK part, pos : Placed(part, pos, FlattenSeq(seqs), seqs, n)
  BY <1>6, <1>7
<1>9. ASSUME NEW j \in 1..Len(FlattenSeq(seqs))
      PROVE  \E p \in 1..n : \E a \in DOMAIN sets[p].table : FlattenSeq(seqs)[j] = RowOf(sets[p], a)
  <2>1. /\ part[j] \in 1..n /\ pos[j] \in 1..Len(seqs[part[j]])
        /\ FlattenSeq(seqs)[j] = seqs[part[j]][pos[j]]
    BY <1>8 DEF Placed
  <2>2. pos[j] \in 1..Len(sets[part[j]].table)
    BY <1>5, <2>1
  <2>3. pos[j] \in DOMAIN sets[part[j]].table /\ FlattenSeq(seqs)[j] = RowOf(sets[part[j]], pos[j])
    BY <1>2, <1>3, <2>1, <2>2
  <2> QED BY <2>1, <2>3
<1>10. Len(FlattenSeq(seqs)) \in Nat /\ IsList(FlattenSeq(seqs))
  BY <1>7, LenProperties DEF IsList
<1> QED BY <1>1, <1>2, <1>5, <1>6, <1>9, <1>10 DEF AllRows, n, seqs

\* Offsets grow.
LEMMA OffsetsGrow ==
    ASSUME NEW n \in Nat, NEW off, \A q \in 0..n : off[q] \in Nat,
           \A q \in 1..n : off[q-1] <= off[q]
    PROVE  \A q \in 0..n : off[q] <= off[n]
<1> DEFINE T == {k \in 0..n : off[n-k] <= off[n]}
<1>1. 0 \in T
  OBVIOUS
<1>2. ASSUME NEW k \in 1..n, k - 1 \in T PROVE k \in T
  <2>1. /\ n - (k - 1) \in 1..n /\ n - k \in 0..n /\ n \in 0..n
        /\ n - (k - 1) \in 0..n /\ (n - (k - 1)) - 1 = n - k
    OBVIOUS
  <2>2. off[n - k] <= off[n - (k - 1)]
    BY <2>1
  <2>3. off[n - (k - 1)] <= off[n]
    BY <1>2
  <2>4. off[n - k] \in Nat /\ off[n - (k - 1)] \in Nat /\ off[n] \in Nat
    BY <2>1
  <2> QED BY <2>2, <2>3, <2>4
<1> HIDE DEF T
<1>3. 0..n \subseteq T
  BY <1>1, <1>2, InductionTo
<1>4. ASSUME NEW q \in 0..n PROVE off[q] <= off[n]
  <2>1. n - q \in T /\ n - (n - q) = q
    BY <1>3
  <2> QED BY <2>1 DEF T
<1> QED BY <1>4

\* Where the rows of each set stand.
LEMMA RowOffsets ==
    ASSUME NEW b, NEW sets, SetsFit(b, sets), NEW off, IsOffsets(off, RowSeqs(sets))
    PROVE  /\ \A p \in 0..Len(sets) : off[p] \in Nat
           /\ off[0] = 0
           /\ \A p \in 1..Len(sets) : off[p] = off[p-1] + Len(sets[p].table)
           /\ Len(AllRows(sets)) = off[Len(sets)]
           /\ \A p \in 1..Len(sets) : \A a \in 1..Len(sets[p].table) :
                 /\ off[p-1] + a \in 1..Len(AllRows(sets))
                 /\ AllRows(sets)[off[p-1] + a] = RowOf(sets[p], a)
<1> DEFINE seqs == RowSeqs(sets)
<1>1. PICK S : seqs \in Seq(Seq(S))
  BY RowsStand
<1>2. Len(seqs) = Len(sets) /\ DOMAIN sets = 1..Len(sets)
      /\ \A p \in 1..Len(sets) : Len(seqs[p]) = Len(sets[p].table)
  BY RowsStand
<1>3. \A p \in 1..Len(sets) : DOMAIN sets[p].table = 1..Len(sets[p].table)
  BY DEF SetsFit, SetFits
<1>4. \A p \in 1..Len(sets) : \A a \in 1..Len(sets[p].table) : seqs[p][a] = RowOf(sets[p], a)
  BY <1>2, <1>3 DEF RowSeqs
<1> HIDE DEF seqs
<1>5. /\ Len(FlattenSeq(seqs)) = off[Len(seqs)]
      /\ \A p \in 1..Len(seqs) : \A a \in 1..Len(seqs[p]) :
            /\ off[p-1] + a \in 1..Len(FlattenSeq(seqs))
            /\ FlattenSeq(seqs)[off[p-1] + a] = seqs[p][a]
  BY <1>1, FlattenOffsets DEF seqs
<1>6. /\ \A p \in 0..Len(seqs) : off[p] \in Nat
      /\ off[0] = 0
      /\ \A p \in 1..Len(seqs) : off[p] = off[p-1] + Len(seqs[p])
  BY DEF IsOffsets, seqs
<1>7. AllRows(sets) = FlattenSeq(seqs)
  BY DEF AllRows, seqs
<1>8. ASSUME NEW p \in 1..Len(sets), NEW a \in 1..Len(sets[p].table)
      PROVE  /\ off[p-1] + a \in 1..Len(AllRows(sets))
             /\ AllRows(sets)[off[p-1] + a] = RowOf(sets[p], a)
  <2>1. p \in 1..Len(seqs) /\ a \in 1..Len(seqs[p])
    BY <1>2
  <2>2. off[p-1] + a \in 1..Len(FlattenSeq(seqs)) /\ FlattenSeq(seqs)[off[p-1] + a] = seqs[p][a]
    BY <1>5, <2>1
  <2> QED BY <1>4, <1>7, <2>2
<1>9. Len(AllRows(sets)) = off[Len(sets)]
  BY <1>2, <1>5, <1>7
<1>10. /\ \A p \in 0..Len(sets) : off[p] \in Nat
       /\ \A p \in 1..Len(sets) : off[p] = off[p-1] + Len(sets[p].table)
  BY <1>2, <1>6
<1> QED BY <1>6, <1>8, <1>9, <1>10

\* Where the items of each set stand: every set has one more item than rows.
LEMMA ItemOffsets ==
    ASSUME NEW b, NEW sets, SetsFit(b, sets), NEW off, IsOffsets(off, RowSeqs(sets))
    PROVE  /\ IsList(AllItems(sets))
           /\ Len(AllItems(sets)) = off[Len(sets)] + Len(sets)
           /\ \A p \in 1..Len(sets) : AllItems(sets)[off[p-1] + p] = MetadataOf(sets[p])
           /\ \A p \in 1..Len(sets) : \A a \in 1..Len(sets[p].table) :
                 AllItems(sets)[off[p-1] + p + a] = RowItem(sets[p], a)
<1> DEFINE n == Len(sets)
           seqs == ItemSeqs(sets)
           S == {MetadataOf(sets[p]) : p \in 1..n} \union
                UNION {{RowItem(sets[p], a) : a \in DOMAIN sets[p].table} : p \in 1..n}
           offI == [p \in 0..n |-> off[p] + p]
<1>1. n \in Nat /\ DOMAIN sets = 1..n
  BY LenProperties DEF SetsFit, IsList
<1>2. \A p \in 1..n : Len(sets[p].table) \in Nat /\ DOMAIN sets[p].table = 1..Len(sets[p].table)
  BY DEF SetsFit, SetFits
<1>3. /\ \A p \in 0..n : off[p] \in Nat
      /\ off[0] = 0
      /\ \A p \in 1..n : off[p] = off[p-1] + Len(sets[p].table)
  BY RowOffsets
<1>4. DOMAIN seqs = 1..n /\ seqs = [p \in 1..n |-> seqs[p]] /\ \A p \in 1..n : seqs[p] = Items(sets[p])
  BY <1>1 DEF ItemSeqs
<1> HIDE DEF n, seqs
<1>5. ASSUME NEW p \in 1..n
      PROVE  /\ seqs[p] \in Seq(S) /\ Len(seqs[p]) = Len(sets[p].table) + 1
             /\ seqs[p][1] = MetadataOf(sets[p])
             /\ \A a \in 1..Len(sets[p].table) : seqs[p][a + 1] = RowItem(sets[p], a)
  <2> DEFINE m == Len(sets[p].table)
             head == <<MetadataOf(sets[p])>>
             rest == [a \in 1..m |-> RowItem(sets[p], a)]
  <2>1. m \in Nat
    BY <1>2
  <2>2. ASSUME NEW a \in 1..m PROVE RowItem(sets[p], a) \in S
    <3>1. RowItem(sets[p], a) \in {RowItem(sets[p], x) : x \in DOMAIN sets[p].table}
      BY <1>2
    <3> QED BY <3>1
  <2>3. MetadataOf(sets[p]) \in S
    OBVIOUS
  <2> HIDE DEF S
  <2>4. seqs[p] = head \o rest
    BY <1>2, <1>4 DEF Items, MetadataOf, RowItem
  <2> HIDE DEF m
  <2>5. head \in Seq(S) /\ Len(head) = 1 /\ head[1] = MetadataOf(sets[p])
    BY <2>3
  <2>6. rest \in Seq(S) /\ Len(rest) = m /\ \A a \in 1..m : rest[a] = RowItem(sets[p], a)
    BY <2>1, <2>2
  <2> HIDE DEF head, rest
  <2>7. /\ head \o rest \in Seq(S) /\ Len(head \o rest) = Len(head) + Len(rest)
        /\ \A i \in 1..(Len(head) + Len(rest)) :
              (head \o rest)[i] = IF i <= Len(head) THEN head[i] ELSE rest[i - Len(head)]
    BY <2>5, <2>6, ConcatProperties
  <2>8. (head \o rest)[1] = MetadataOf(sets[p])
    BY <2>1, <2>5, <2>6, <2>7
  <2>9. ASSUME NEW a \in 1..m PROVE (head \o rest)[a + 1] = RowItem(sets[p], a)
    <3>1. a + 1 \in 1..(1 + m) /\ ~(a + 1 <= 1) /\ (a + 1) - 1 = a
      BY <2>1
    <3> QED BY <2>5, <2>6, <2>7, <3>1
  <2> QED BY <2>1, <2>4, <2>5, <2>6, <2>7, <2>8, <2>9 DEF m
<1> HIDE DEF S
<1>6. seqs \in Seq(Seq(S)) /\ Len(seqs) = n
  BY <1>1, <1>4, <1>5, ListOfLists
<1>7. IsOffsets(offI, seqs)
  <2>1. offI \in [0..n -> Nat] /\ offI[0] = 0
    BY <1>1, <1>3
  <2>2. ASSUME NEW p \in 1..n PROVE offI[p] = offI[p-1] + Len(seqs[p])
    <3>1. p \in 0..n /\ p - 1 \in 0..n
      BY <1>1
    <3>2. offI[p] = off[p] + p /\ offI[p-1] = off[p-1] + (p - 1)
      BY <3>1
    <3>3. off[p] = off[p-1] + Len(sets[p].table) /\ off[p-1] \in Nat
      BY <1>3, <3>1
    <3>4. Len(seqs[p]) = Len(sets[p].table) + 1 /\ Len(sets[p].table) \in Nat
      BY <1>2, <1>5
    <3> HIDE DEF offI
    <3> QED BY <1>1, <3>2, <3>3, <3>4
  <2> HIDE DEF offI
  <2> QED BY <1>6, <2>1, <2>2 DEF IsOffsets
<1>8. /\ FlattenSeq(seqs) \in Seq(S)
      /\ Len(FlattenSeq(seqs)) = offI[n]
      /\ \A p \in 1..n : \A a \in 1..Len(seqs[p]) :
            /\ offI[p-1] + a \in 1..Len(FlattenSeq(seqs))
            /\ FlattenSeq(seqs)[offI[p-1] + a] = seqs[p][a]
  <2> HIDE DEF offI
  <2> QED BY <1>6, <1>7, FlattenOffsets
<1>9. offI[n] = off[n] + n /\ \A p \in 1..n : offI[p-1] = off[p-1] + (p - 1)
  BY <1>1
<1> HIDE DEF offI
<1>10. ASSUME NEW p \in 1..n
       PROVE  /\ FlattenSeq(seqs)[off[p-1] + p] = MetadataOf(sets[p])
              /\ \A a \in 1..Len(sets[p].table) : FlattenSeq(seqs)[off[p-1] + p + a] = RowItem(sets[p], a)
  <2>1. p - 1 \in 0..n /\ off[p-1] \in Nat /\ offI[p-1] = off[p-1] + (p - 1)
    BY <1>1, <1>3, <1>9
  <2>2. 1 \in 1..Len(seqs[p]) /\ \A a \in 1..Len(sets[p].table) : a + 1 \in 1..Len(seqs[p])
    BY <1>2, <1>5
  <2>3. FlattenSeq(seqs)[offI[p-1] + 1] = MetadataOf(sets[p])
    BY <1>5, <1>8, <2>2
  <2>4. offI[p-1] + 1 = off[p-1] + p
    BY <2>1
  <2>5. ASSUME NEW a \in 1..Len(sets[p].table)
        PROVE  FlattenSeq(seqs)[off[p-1] + p + a] = RowItem(sets[p], a)
    <3>1. FlattenSeq(seqs)[offI[p-1] + (a + 1)] = RowItem(sets[p], a)
      BY <1>5, <1>8, <2>2
    <3>2. offI[p-1] + (a + 1) = off[p-1] + p + a
      BY <2>1
    <3> QED BY <3>1, <3>2
  <2> QED BY <2>3, <2>4, <2>5
<1> QED BY <1>8, <1>9, <1>10 DEF AllItems, IsList, n, seqs

-----------------------------------------------------------------------------
(* What is sent.                                                           *)

LEMMA CellFields ==
    /\ \A x : Cell(x).is = "value" /\ Cell(x).x = x
    /\ NullCell.is = "null" /\ OddCell.is = "odd"
BY DEF Cell, NullCell, OddCell

LEMMA HeldFit ==
    ASSUME NEW b \in Backends, NEW c \in Columns(b), NEW x \in Held(c)
    PROVE  CellFits(b, c, x)
<1>1. CASE c \in DOMAIN IntColumns
  <2>1. PICK n \in Extremes \intersect IntColumns[c] : x = Cell(n)
    BY <1>1 DEF Held
  <2> QED BY <2>1, CellFields DEF CellFits
<1>2. CASE c \notin DOMAIN IntColumns
  <2>1. \/ \E n : x = Cell(n)
        \/ c \in {"DATE", "TIMESTAMP", "TIMESTAMPTZ", "DATETIME"} /\ x = OddCell
    BY <1>2 DEF Held
  <2>2. ASSUME c \in {"DATE", "TIMESTAMP", "TIMESTAMPTZ", "DATETIME"}
        PROVE  b # "mssql" /\ (b = "postgres" => c \in {"DATE", "TIMESTAMP", "TIMESTAMPTZ"})
    BY <2>2 DEF Columns, LibraryTypes, MsSqlTypes, PgTypes
  <2> QED BY <1>2, <2>1, <2>2, CellFields DEF CellFits
<1> QED BY <1>1, <1>2

\* A set of the column alone.
LEMMA OneFits ==
    ASSUME NEW b, NEW c \in Columns(b), NEW t,
           \/ \E x : CellFits(b, c, x) /\ t = << <<x>> >>
           \/ \E x, y : CellFits(b, c, x) /\ CellFits(b, c, y) /\ t = << <<x>>, <<y>> >>
    PROVE  SetFits(b, [columns |-> <<c>>, table |-> t])
<1> DEFINE set == [columns |-> <<c>>, table |-> t]
<1>1. set.columns = <<c>> /\ set.table = t
  OBVIOUS
<1>2. <<c>> \in Seq(Columns(b)) /\ DOMAIN <<c>> = {1} /\ <<c>>[1] = c
  OBVIOUS
<1>3. /\ Len(t) \in Nat /\ DOMAIN t = 1..Len(t)
      /\ \A j \in DOMAIN t : DOMAIN t[j] = {1} /\ CellFits(b, c, t[j][1])
  <2>1. CASE \E x : CellFits(b, c, x) /\ t = << <<x>> >>
    <3>1. PICK x : CellFits(b, c, x) /\ t = << <<x>> >>
      BY <2>1
    <3>2. Len(t) = 1 /\ DOMAIN t = {1} /\ t[1] = <<x>> /\ DOMAIN <<x>> = {1} /\ <<x>>[1] = x
      BY <3>1
    <3>3. DOMAIN t = 1..Len(t)
      BY <3>2
    <3>4. Len(t) \in Nat
      BY <3>2
    <3> QED BY <3>1, <3>2, <3>3, <3>4
  <2>2. CASE \E x, y : CellFits(b, c, x) /\ CellFits(b, c, y) /\ t = << <<x>>, <<y>> >>
    <3>1. PICK x, y : CellFits(b, c, x) /\ CellFits(b, c, y) /\ t = << <<x>>, <<y>> >>
      BY <2>2
    <3>2. /\ Len(t) = 2 /\ DOMAIN t = 1..2 /\ t[1] = <<x>> /\ t[2] = <<y>>
          /\ DOMAIN <<x>> = {1} /\ <<x>>[1] = x /\ DOMAIN <<y>> = {1} /\ <<y>>[1] = y
      BY <3>1
    <3>3. \A j \in 1..2 : j = 1 \/ j = 2
      OBVIOUS
    <3>4. Len(t) \in Nat /\ DOMAIN t = 1..Len(t)
      BY <3>2
    <3>5. ASSUME NEW j \in DOMAIN t PROVE DOMAIN t[j] = {1} /\ CellFits(b, c, t[j][1])
      <4>1. j = 1 \/ j = 2
        BY <3>2, <3>3
      <4> QED BY <3>1, <3>2, <4>1
    <3> QED BY <3>4, <3>5
  <2> QED BY <2>1, <2>2
<1> HIDE DEF set
<1> QED BY <1>1, <1>2, <1>3 DEF SetFits, set

LEMMA TablesFit ==
    ASSUME backend \in Backends, column \in Columns(backend), CellFits(backend, column, cell),
           NEW t \in Tables
    PROVE  SetFits(backend, [columns |-> <<column>>, table |-> t])
<1>1. \/ t = << <<cell>> >>
      \/ \E x \in Held(column) \union {NullCell} : t = << <<x>>, <<cell>> >>
  BY DEF Tables
<1>2. \A x \in Held(column) \union {NullCell} : CellFits(backend, column, x)
  BY HeldFit DEF CellFits
<1> QED BY <1>1, <1>2, OneFits

LEMMA OthersFit ==
    ASSUME NEW set \in OtherSets
    PROVE  SetFits("mssql", set)
BY StatementAssumption DEF SetFits, Holds, CellFits

\* Every batch that is sent.
LEMMA BatchesFit ==
    ASSUME backend \in Backends, column \in Columns(backend), CellFits(backend, column, cell),
           NEW sets \in Batches
    PROVE  /\ SetsFit(backend, sets) /\ Len(sets) # 0
           /\ backend # "mssql" => Len(sets) = 1
           /\ Len(sets) = 1 => sets[1].columns = <<column>>
<1>1. \/ \E t \in Tables : sets = <<Alone(t)>>
      \/ /\ backend = "mssql"
         /\ \E t \in Tables, other \in OtherSets :
               sets = <<Alone(t), other>> \/ sets = <<other, Alone(t)>>
  BY DEF Batches
<1>2. \A t \in Tables : SetFits(backend, Alone(t)) /\ Alone(t).columns = <<column>>
  BY TablesFit DEF Alone
<1>3. \A other \in OtherSets : SetFits("mssql", other)
  BY OthersFit
<1>4. ASSUME NEW s, SetFits(backend, s)
      PROVE  SetsFit(backend, <<s>>) /\ Len(<<s>>) = 1 /\ <<s>>[1] = s
  <2>1. <<s>> \in Seq({s}) /\ Len(<<s>>) = 1 /\ <<s>>[1] = s
    OBVIOUS
  <2>2. \A p \in 1..1 : p = 1
    OBVIOUS
  <2> QED BY <1>4, <2>1, <2>2 DEF SetsFit, IsList
<1>5. ASSUME NEW s, NEW u, SetFits(backend, s), SetFits(backend, u)
      PROVE  SetsFit(backend, <<s, u>>) /\ Len(<<s, u>>) = 2
  <2>1. <<s, u>> \in Seq({s, u}) /\ Len(<<s, u>>) = 2 /\ <<s, u>>[1] = s /\ <<s, u>>[2] = u
    OBVIOUS
  <2>2. \A p \in 1..2 : p = 1 \/ p = 2
    OBVIOUS
  <2>3. \A p \in 1..Len(<<s, u>>) : SetFits(backend, <<s, u>>[p])
    BY <1>5, <2>1, <2>2
  <2> QED BY <2>1, <2>3 DEF SetsFit, IsList
<1> HIDE DEF backend
<1>6. CASE \E t \in Tables : sets = <<Alone(t)>>
  BY <1>2, <1>4, <1>6
<1>7. CASE /\ backend = "mssql"
           /\ \E t \in Tables, other \in OtherSets :
                 sets = <<Alone(t), other>> \/ sets = <<other, Alone(t)>>
  <2>1. PICK t \in Tables, other \in OtherSets :
           sets = <<Alone(t), other>> \/ sets = <<other, Alone(t)>>
    BY <1>7
  <2>2. SetFits(backend, Alone(t)) /\ SetFits(backend, other)
    BY <1>2, <1>3, <1>7
  <2> QED BY <1>5, <1>7, <2>1, <2>2
<1> QED BY <1>1, <1>6, <1>7

-----------------------------------------------------------------------------
(* The stream of items.                                                    *)

\* The items from number k on.
From(sets, k) == SubSeq(AllItems(sets), k, Len(AllItems(sets)))

LEMMA FromItem ==
    ASSUME NEW sets, IsList(AllItems(sets)), NEW k \in 1..Len(AllItems(sets))
    PROVE  /\ Head(From(sets, k)) = AllItems(sets)[k]
           /\ Tail(From(sets, k)) = From(sets, k + 1)
           /\ From(sets, k) # <<>>
<1> DEFINE items == AllItems(sets)
<1>1. PICK S : items \in Seq(S)
  BY DEF IsList
<1>2. Len(items) \in Nat
  BY <1>1, LenProperties
<1> HIDE DEF items
<1>3. k \in 1..Len(items) /\ Len(items) \in k..Len(items)
  BY <1>2 DEF items
<1>4. /\ Head(SubSeq(items, k, Len(items))) = items[k]
      /\ Tail(SubSeq(items, k, Len(items))) = SubSeq(items, k + 1, Len(items))
  BY <1>1, <1>3, HeadTailOfSubSeq
<1>5. SubSeq(items, k, Len(items)) # <<>>
  <2>1. Len(SubSeq(items, k, Len(items))) = (Len(items) - k) + 1
    <3>1. \A i \in k..Len(items) : items[i] \in S
      BY <1>1, <1>3, ElementOfSeq
    <3>2. k \in Int /\ Len(items) \in Int /\ k <= Len(items)
      BY <1>2, <1>3
    <3>3. Len(SubSeq(items, k, Len(items))) = IF k <= Len(items) THEN (Len(items) - k) + 1 ELSE 0
      BY <3>1, <3>2, SubSeqProperties
    <3> QED BY <3>2, <3>3
  <2>2. (Len(items) - k) + 1 # 0
    BY <1>2, <1>3
  <2> QED BY <2>1, <2>2
<1> QED BY <1>4, <1>5 DEF From, items

\* After row a of set p comes its next row, or else the metadata of the next
\* set, or else nothing.
LEMMA NextItem ==
    ASSUME NEW b, NEW sets, SetsFit(b, sets), NEW off, IsOffsets(off, RowSeqs(sets)),
           NEW p \in 1..Len(sets), NEW a \in 0..Len(sets[p].table)
    PROVE  LET next == off[p-1] + p + a + 1
           IN  /\ a < Len(sets[p].table) =>
                     /\ Head(From(sets, next)) = RowItem(sets[p], a + 1)
                     /\ Tail(From(sets, next)) = From(sets, next + 1)
                     /\ From(sets, next) # <<>>
               /\ a = Len(sets[p].table) /\ p < Len(sets) =>
                     /\ Head(From(sets, next)) = MetadataOf(sets[p + 1])
                     /\ Tail(From(sets, next)) = From(sets, next + 1)
                     /\ next = off[p] + (p + 1)
                     /\ From(sets, next) # <<>>
               /\ a = Len(sets[p].table) /\ p = Len(sets) => From(sets, next) = <<>>
<1> DEFINE n == Len(sets)
           t == Len(sets[p].table)
           next == off[p-1] + p + a + 1
           items == AllItems(sets)
<1>1. /\ \A q \in 0..n : off[q] \in Nat
      /\ \A q \in 1..n : off[q] = off[q-1] + Len(sets[q].table)
  BY RowOffsets
<1>2. n \in Nat /\ \A q \in 1..n : Len(sets[q].table) \in Nat
  BY RowsStand
<1>3. /\ IsList(items) /\ Len(items) = off[n] + n
      /\ \A q \in 1..n : items[off[q-1] + q] = MetadataOf(sets[q])
      /\ \A q \in 1..n : \A c \in 1..Len(sets[q].table) :
            items[off[q-1] + q + c] = RowItem(sets[q], c)
  BY ItemOffsets
<1>4. \A q \in 0..n : off[q] <= off[n]
  <2>1. ASSUME NEW q \in 1..n PROVE off[q-1] <= off[q]
    <3>1. q - 1 \in 0..n
      BY <1>2
    <3>2. off[q-1] \in Nat /\ Len(sets[q].table) \in Nat /\ off[q] = off[q-1] + Len(sets[q].table)
      BY <1>1, <1>2, <3>1
    <3> QED BY <3>2
  <2> HIDE DEF n
  <2> QED BY <1>1, <1>2, <2>1, OffsetsGrow
<1>5. /\ n \in Nat /\ p \in 1..n /\ t \in Nat /\ a \in 0..t
      /\ off[p-1] \in Nat /\ off[p] \in Nat /\ off[n] \in Nat
      /\ off[p] = off[p-1] + t /\ off[p] <= off[n] /\ Len(items) = off[n] + n
  <2>1. p - 1 \in 0..n /\ p \in 0..n /\ n \in 0..n
    BY <1>2
  <2> QED BY <1>1, <1>2, <1>3, <1>4, <2>1
<1> HIDE DEF n, t
<1>6. next = off[p-1] + p + a + 1
  OBVIOUS
<1> HIDE DEF next, items
<1>11. /\ a < t => next \in 1..(off[n] + n) /\ next = off[p-1] + p + (a + 1) /\ a + 1 \in 1..t
       /\ a = t /\ p < n => next \in 1..(off[n] + n) /\ next = off[p] + (p + 1) /\ p + 1 \in 1..n
       /\ a = t /\ p = n /\ off[p] = off[n] => next \in Int /\ off[n] + n < next
  <2>1. PICK x, y, z : x = off[p-1] /\ y = off[p] /\ z = off[n]
    OBVIOUS
  <2>2. /\ n \in Nat /\ p \in 1..n /\ t \in Nat /\ a \in 0..t /\ x \in Nat /\ y \in Nat /\ z \in Nat
        /\ y = x + t /\ y <= z /\ next = x + p + a + 1
    BY <1>5, <1>6, <2>1
  <2>3. /\ a < t => next \in 1..(z + n) /\ next = x + p + (a + 1) /\ a + 1 \in 1..t
        /\ a = t /\ p < n => next \in 1..(z + n) /\ next = y + (p + 1) /\ p + 1 \in 1..n
        /\ a = t /\ p = n /\ y = z => next \in Int /\ z + n < next
    BY <2>2
  <2> QED BY <2>1, <2>3
<1>7. CASE a < t
  <2>1. next \in 1..Len(items) /\ next = off[p-1] + p + (a + 1) /\ a + 1 \in 1..t
    BY <1>5, <1>11, <1>7
  <2>2. items[next] = RowItem(sets[p], a + 1)
    <3>1. p \in 1..n /\ a + 1 \in 1..Len(sets[p].table)
      BY <2>1 DEF n, t
    <3> QED BY <1>3, <2>1, <3>1
  <2>3. Head(From(sets, next)) = items[next] /\ Tail(From(sets, next)) = From(sets, next + 1)
        /\ From(sets, next) # <<>>
    BY <1>3, <2>1, FromItem DEF items
  <2> QED BY <1>7, <2>2, <2>3 DEF next, t
<1>8. CASE a = t /\ p < n
  <2>1. next \in 1..Len(items) /\ next = off[p] + (p + 1) /\ p + 1 \in 1..n
    BY <1>5, <1>11, <1>8
  <2>2. items[next] = MetadataOf(sets[p + 1])
    <3>1. (p + 1) - 1 = p
      BY <1>5
    <3>2. items[off[(p + 1) - 1] + (p + 1)] = MetadataOf(sets[p + 1])
      BY <1>3, <2>1
    <3> QED BY <2>1, <3>1, <3>2
  <2>3. Head(From(sets, next)) = items[next] /\ Tail(From(sets, next)) = From(sets, next + 1)
        /\ From(sets, next) # <<>>
    BY <1>3, <2>1, FromItem DEF items
  <2> QED BY <1>8, <2>1, <2>2, <2>3 DEF next, t, n
<1>9. CASE a = t /\ p = n
  <2>1. next \in Int /\ Len(items) \in Int /\ Len(items) < next
    BY <1>5, <1>11, <1>9
  <2>2. From(sets, next) = <<>>
    BY <2>1, SubSeqEmpty DEF From, items
  <2> QED BY <1>5, <1>9, <2>2 DEF next, t, n
<1>10. \/ a < t /\ ~(a = t)
       \/ a = t /\ p < n /\ ~(p = n)
       \/ a = t /\ p = n
  BY <1>5
<1> QED BY <1>5, <1>7, <1>8, <1>9, <1>10 DEF next, n, t

\* The first item is metadata.
LEMMA FirstItem ==
    ASSUME NEW b, NEW sets, SetsFit(b, sets), Len(sets) # 0,
           NEW off, IsOffsets(off, RowSeqs(sets))
    PROVE  /\ AllItems(sets) = From(sets, 1) /\ 1 \in 1..Len(sets)
           /\ Head(From(sets, 1)) = MetadataOf(sets[1]) /\ Tail(From(sets, 1)) = From(sets, 1 + 1)
           /\ From(sets, 1) # <<>>
<1> DEFINE items == AllItems(sets)
<1>1. Len(sets) \in Nat /\ 1 \in 1..Len(sets)
  BY RowsStand
<1>2. off[0] = 0 /\ off[Len(sets)] \in Nat
  <2>1. Len(sets) \in 0..Len(sets)
    BY <1>1
  <2> QED BY <2>1, RowOffsets
<1>3. IsList(items) /\ Len(items) = off[Len(sets)] + Len(sets) /\ items[1] = MetadataOf(sets[1])
  <2>1. IsList(items) /\ Len(items) = off[Len(sets)] + Len(sets)
        /\ items[off[1-1] + 1] = MetadataOf(sets[1])
    BY <1>1, ItemOffsets
  <2>2. off[1-1] + 1 = 1
    BY <1>2
  <2> QED BY <2>1, <2>2
<1>4. 1 \in 1..Len(items)
  BY <1>1, <1>2, <1>3
<1>5. PICK S : items \in Seq(S)
  BY <1>3 DEF IsList
<1> HIDE DEF items
<1>6. items = SubSeq(items, 1, Len(items)) /\ items # <<>>
  <2>1. Len(items) # 0
    BY <1>4
  <2> QED BY <1>5, <2>1, SubSeqFull
<1>7. Head(From(sets, 1)) = items[1] /\ Tail(From(sets, 1)) = From(sets, 1 + 1)
  BY <1>3, <1>4, FromItem DEF items
<1> QED BY <1>1, <1>3, <1>6, <1>7 DEF From, items

\* What Row::new makes of an item that follows this metadata.
RowRead(b, meta, item) ==
    [columns |-> meta,
     values  |-> [k \in DOMAIN item.cells |-> ReadCell(b, item.types[k], item.cells[k])]]

\* What a row of the server's should become.
Converted(b, row) ==
    [columns |-> row.columns,
     values  |-> [k \in DOMAIN row.cells |-> ReadCell(b, row.columns[k], row.cells[k])]]

\* rs are the first of the rows, converted.
ConvertedRows(b, sets, rs) ==
    /\ IsList(rs) /\ Len(rs) <= Len(AllRows(sets))
    /\ \A j \in 1..Len(rs) : rs[j] = Converted(b, AllRows(sets)[j])

\* Nothing has been read, or all up to row a of set p.
Underway(b, sets, meta, rs, items) ==
    /\ ConvertedRows(b, sets, rs)
    /\ \E off :
          /\ IsOffsets(off, RowSeqs(sets))
          /\ \/ rs = <<>> /\ items = From(sets, 1)
             \/ \E p \in 1..Len(sets) : \E a \in 0..Len(sets[p].table) :
                   /\ meta = sets[p].columns
                   /\ Len(rs) = off[p-1] + a
                   /\ items = From(sets, off[p-1] + p + a + 1)

LEMMA NoRows ==
    ASSUME NEW b, NEW sets, SetsFit(b, sets)
    PROVE  ConvertedRows(b, sets, <<>>)
<1>1. Len(AllRows(sets)) \in Nat
  BY RowsStand
<1>2. <<>> \in Seq({}) /\ Len(<<>>) = 0
  OBVIOUS
<1> QED BY <1>1, <1>2 DEF ConvertedRows, IsList

LEMMA StreamBegins ==
    ASSUME NEW b, NEW sets, SetsFit(b, sets), Len(sets) # 0, NEW meta
    PROVE  Underway(b, sets, meta, <<>>, AllItems(sets))
<1>1. PICK off : IsOffsets(off, RowSeqs(sets))
  <2>1. PICK S : RowSeqs(sets) \in Seq(Seq(S))
    BY RowsStand
  <2> QED BY <2>1, OffsetsExist
<1>2. AllItems(sets) = From(sets, 1)
  BY <1>1, FirstItem
<1> QED BY <1>1, <1>2, NoRows DEF Underway

LEMMA ItemKinds ==
    /\ \A set : MetadataOf(set).is = "metadata" /\ MetadataOf(set).columns = set.columns
    /\ \A set, a : /\ RowItem(set, a).is = "row" /\ RowItem(set, a).types = set.columns
                  /\ RowItem(set, a).cells = set.table[a]
BY DEF MetadataOf, RowItem

LEMMA MetadataRead ==
    ASSUME NEW b, NEW sets, SetsFit(b, sets), Len(sets) # 0, NEW meta, NEW rs, NEW items,
           Underway(b, sets, meta, rs, items), items # <<>>, Head(items).is = "metadata"
    PROVE  Underway(b, sets, Head(items).columns, rs, Tail(items))
<1>1. PICK off :
         /\ IsOffsets(off, RowSeqs(sets))
         /\ \/ rs = <<>> /\ items = From(sets, 1)
            \/ \E p \in 1..Len(sets) : \E a \in 0..Len(sets[p].table) :
                  /\ meta = sets[p].columns
                  /\ Len(rs) = off[p-1] + a
                  /\ items = From(sets, off[p-1] + p + a + 1)
  BY DEF Underway
<1> SUFFICES \E p \in 1..Len(sets) : \E a \in 0..Len(sets[p].table) :
                /\ Head(items).columns = sets[p].columns
                /\ Len(rs) = off[p-1] + a
                /\ Tail(items) = From(sets, off[p-1] + p + a + 1)
  BY <1>1 DEF Underway
<1>2. /\ \A p \in 0..Len(sets) : off[p] \in Nat
      /\ off[0] = 0
      /\ \A p \in 1..Len(sets) : off[p] = off[p-1] + Len(sets[p].table)
  BY <1>1, RowOffsets
<1>3. Len(sets) \in Nat /\ \A p \in 1..Len(sets) : Len(sets[p].table) \in Nat
  BY RowsStand
<1>4. CASE rs = <<>> /\ items = From(sets, 1)
  <2>1. /\ 1 \in 1..Len(sets) /\ Head(items) = MetadataOf(sets[1])
        /\ Tail(items) = From(sets, 1 + 1)
    BY <1>1, <1>4, FirstItem
  <2>2. 0 \in 0..Len(sets[1].table) /\ Len(rs) = off[1-1] + 0 /\ 1 + 1 = off[1-1] + 1 + 0 + 1
    BY <1>2, <1>3, <1>4, <2>1
  <2>3. Head(items).columns = sets[1].columns
    BY <2>1, ItemKinds
  <2>4. Tail(items) = From(sets, off[1-1] + 1 + 0 + 1)
    BY <2>1, <2>2
  <2> QED BY <2>1, <2>2, <2>3, <2>4
<1>5. CASE \E p \in 1..Len(sets) : \E a \in 0..Len(sets[p].table) :
              /\ meta = sets[p].columns
              /\ Len(rs) = off[p-1] + a
              /\ items = From(sets, off[p-1] + p + a + 1)
  <2>0. PICK p \in 1..Len(sets) : \E a \in 0..Len(sets[p].table) :
           /\ meta = sets[p].columns
           /\ Len(rs) = off[p-1] + a
           /\ items = From(sets, off[p-1] + p + a + 1)
    BY <1>5
  <2>1. PICK a \in 0..Len(sets[p].table) :
           /\ meta = sets[p].columns
           /\ Len(rs) = off[p-1] + a
           /\ items = From(sets, off[p-1] + p + a + 1)
    BY <2>0
  <2> DEFINE next == off[p-1] + p + a + 1
  <2>2. /\ a < Len(sets[p].table) => Head(items) = RowItem(sets[p], a + 1)
        /\ a = Len(sets[p].table) /\ p < Len(sets) =>
              /\ Head(items) = MetadataOf(sets[p + 1])
              /\ Tail(items) = From(sets, next + 1)
              /\ next = off[p] + (p + 1)
        /\ a = Len(sets[p].table) /\ p = Len(sets) => items = <<>>
    BY <1>1, <2>1, NextItem
  <2>3. a = Len(sets[p].table) /\ p < Len(sets)
    <3>1. ~(a < Len(sets[p].table))
      BY <2>2, ItemKinds
    <3>2. a = Len(sets[p].table)
      BY <1>3, <2>1, <3>1
    <3>3. p # Len(sets)
      BY <2>2, <3>2
    <3> QED BY <1>3, <3>2, <3>3
  <2> HIDE DEF next
  <2>4. p + 1 \in 1..Len(sets) /\ (p + 1) - 1 = p /\ p \in 0..Len(sets)
    BY <1>3, <2>3
  <2>5. off[p] \in Nat /\ next + 1 = off[p] + (p + 1) + 0 + 1
    BY <1>2, <2>2, <2>3, <2>4
  <2>6. off[p] = off[p-1] + Len(sets[p].table)
    BY <1>2
  <2>7. /\ 0 \in 0..Len(sets[p + 1].table) /\ Len(rs) = off[(p + 1) - 1] + 0
    BY <1>3, <2>1, <2>3, <2>4, <2>5, <2>6
  <2>8. Tail(items) = From(sets, off[(p + 1) - 1] + (p + 1) + 0 + 1)
    BY <2>2, <2>3, <2>4, <2>5
  <2>9. Head(items).columns = sets[p + 1].columns
    BY <2>2, <2>3, ItemKinds
  <2> QED BY <2>4, <2>7, <2>8, <2>9
<1> QED BY <1>1, <1>4, <1>5

LEMMA RowConverts ==
    ASSUME NEW b, NEW set, NEW a
    PROVE  RowRead(b, set.columns, RowItem(set, a)) = Converted(b, RowOf(set, a))
<1>1. /\ RowOf(set, a).columns = set.columns /\ RowOf(set, a).cells = set.table[a]
      /\ RowItem(set, a).types = set.columns /\ RowItem(set, a).cells = set.table[a]
  BY ItemKinds DEF RowOf
<1> QED BY <1>1, Zenon DEF RowRead, Converted

LEMMA RowTaken ==
    ASSUME NEW b, NEW sets, SetsFit(b, sets), Len(sets) # 0, NEW meta, NEW rs, NEW items,
           Underway(b, sets, meta, rs, items), items # <<>>, Head(items).is = "row"
    PROVE  Underway(b, sets, meta, Append(rs, RowRead(b, meta, Head(items))), Tail(items))
<1>1. PICK off :
         /\ IsOffsets(off, RowSeqs(sets))
         /\ \/ rs = <<>> /\ items = From(sets, 1)
            \/ \E p \in 1..Len(sets) : \E a \in 0..Len(sets[p].table) :
                  /\ meta = sets[p].columns
                  /\ Len(rs) = off[p-1] + a
                  /\ items = From(sets, off[p-1] + p + a + 1)
  BY DEF Underway
<1>2. ~(rs = <<>> /\ items = From(sets, 1))
  BY <1>1, FirstItem, ItemKinds
<1>0. PICK p \in 1..Len(sets) : \E a \in 0..Len(sets[p].table) :
         /\ meta = sets[p].columns
         /\ Len(rs) = off[p-1] + a
         /\ items = From(sets, off[p-1] + p + a + 1)
  BY <1>1, <1>2
<1>3. PICK a \in 0..Len(sets[p].table) :
         /\ meta = sets[p].columns
         /\ Len(rs) = off[p-1] + a
         /\ items = From(sets, off[p-1] + p + a + 1)
  BY <1>0
<1> DEFINE t == Len(sets[p].table)
           next == off[p-1] + p + a + 1
           row == RowRead(b, meta, Head(items))
<1>4. /\ \A q \in 0..Len(sets) : off[q] \in Nat
      /\ \A q \in 1..Len(sets) : \A c \in 1..Len(sets[q].table) :
            /\ off[q-1] + c \in 1..Len(AllRows(sets))
            /\ AllRows(sets)[off[q-1] + c] = RowOf(sets[q], c)
  BY <1>1, RowOffsets
<1>5. Len(sets) \in Nat /\ t \in Nat /\ Len(AllRows(sets)) \in Nat
  BY RowsStand
<1>6. /\ a < t => Head(items) = RowItem(sets[p], a + 1) /\ Tail(items) = From(sets, next + 1)
      /\ a = t /\ p < Len(sets) => Head(items) = MetadataOf(sets[p + 1])
      /\ a = t /\ p = Len(sets) => items = <<>>
  BY <1>1, <1>3, NextItem
<1>7. a < t
  <2>1. ~(a = t)
    <3>1. ~(a = t /\ p < Len(sets)) /\ ~(a = t /\ p = Len(sets))
      BY <1>6, ItemKinds
    <3>2. p < Len(sets) \/ p = Len(sets)
      BY <1>5
    <3> QED BY <3>1, <3>2
  <2> QED BY <1>5, <2>1
<1>8. p - 1 \in 0..Len(sets) /\ a + 1 \in 1..t /\ a + 1 \in 0..t
  BY <1>5, <1>7
<1>9. /\ off[p-1] \in Nat
      /\ off[p-1] + (a + 1) \in 1..Len(AllRows(sets))
      /\ AllRows(sets)[off[p-1] + (a + 1)] = RowOf(sets[p], a + 1)
  BY <1>4, <1>8
<1>10. row = Converted(b, RowOf(sets[p], a + 1))
  BY <1>3, <1>6, <1>7, RowConverts
<1>11. PICK S : rs \in Seq(S)
  BY DEF Underway, ConvertedRows, IsList
<1> HIDE DEF row, next, t
<1>12. /\ Append(rs, row) \in Seq(S \union {row})
       /\ Len(Append(rs, row)) = Len(rs) + 1
       /\ \A j \in 1..Len(rs) : Append(rs, row)[j] = rs[j]
       /\ Append(rs, row)[Len(rs) + 1] = row
  <2>1. rs \in Seq(S \union {row})
    BY <1>11
  <2> QED BY <2>1, AppendProperties
<1>18. a \in Nat /\ p \in Nat
  BY <1>5, <1>8
<1>13. Len(rs) \in Nat /\ Len(rs) + 1 = off[p-1] + (a + 1)
  <2>1. PICK x \in Nat : x = off[p-1]
    BY <1>9
  <2>2. Len(rs) = x + a
    BY <1>3, <2>1
  <2>3. Len(rs) \in Nat /\ Len(rs) + 1 = x + (a + 1)
    BY <1>18, <2>2
  <2> QED BY <2>1, <2>3
<1>14. ASSUME NEW j \in 1..(Len(rs) + 1)
       PROVE  Append(rs, row)[j] = Converted(b, AllRows(sets)[j])
  <2>1. CASE j = Len(rs) + 1
    BY <1>9, <1>10, <1>12, <1>13, <2>1
  <2>2. CASE j # Len(rs) + 1
    <3>1. j \in 1..Len(rs)
      BY <1>13, <2>2
    <3> QED BY <1>12, <3>1 DEF Underway, ConvertedRows
  <2> QED BY <2>1, <2>2
<1>15. ConvertedRows(b, sets, Append(rs, row))
  <2>1. Len(rs) + 1 <= Len(AllRows(sets))
    BY <1>5, <1>9, <1>13
  <2>2. IsList(Append(rs, row))
    BY <1>12 DEF IsList
  <2> QED BY <1>12, <1>14, <2>1, <2>2 DEF ConvertedRows
<1>16. Tail(items) = From(sets, off[p-1] + p + (a + 1) + 1)
  <2>1. next + 1 = off[p-1] + p + (a + 1) + 1
    <3>1. PICK x \in Nat : x = off[p-1]
      BY <1>9
    <3>2. x + p + a + 1 + 1 = x + p + (a + 1) + 1
      BY <1>18
    <3> QED BY <3>1, <3>2 DEF next
  <2> QED BY <1>6, <1>7, <2>1
<1>17. Len(Append(rs, row)) = off[p-1] + (a + 1)
  BY <1>12, <1>13
<1> QED BY <1>1, <1>3, <1>8, <1>15, <1>16, <1>17 DEF Underway, row, t

LEMMA StreamEnds ==
    ASSUME NEW b, NEW sets, SetsFit(b, sets), Len(sets) # 0, NEW meta, NEW rs, NEW items,
           Underway(b, sets, meta, rs, items), items = <<>>
    PROVE  Len(rs) = Len(AllRows(sets))
<1>1. PICK off :
         /\ IsOffsets(off, RowSeqs(sets))
         /\ \/ rs = <<>> /\ items = From(sets, 1)
            \/ \E p \in 1..Len(sets) : \E a \in 0..Len(sets[p].table) :
                  /\ meta = sets[p].columns
                  /\ Len(rs) = off[p-1] + a
                  /\ items = From(sets, off[p-1] + p + a + 1)
  BY DEF Underway
<1>2. ~(rs = <<>> /\ items = From(sets, 1))
  BY <1>1, FirstItem
<1>0. PICK p \in 1..Len(sets) : \E a \in 0..Len(sets[p].table) :
         /\ meta = sets[p].columns
         /\ Len(rs) = off[p-1] + a
         /\ items = From(sets, off[p-1] + p + a + 1)
  BY <1>1, <1>2
<1>3. PICK a \in 0..Len(sets[p].table) :
         /\ meta = sets[p].columns
         /\ Len(rs) = off[p-1] + a
         /\ items = From(sets, off[p-1] + p + a + 1)
  BY <1>0
<1>4. /\ \A q \in 0..Len(sets) : off[q] \in Nat
      /\ off[p] = off[p-1] + Len(sets[p].table)
      /\ Len(AllRows(sets)) = off[Len(sets)]
  BY <1>1, RowOffsets
<1>5. Len(sets) \in Nat /\ Len(sets[p].table) \in Nat
  BY RowsStand
<1>6. ~(a < Len(sets[p].table)) /\ ~(a = Len(sets[p].table) /\ p < Len(sets))
  BY <1>1, <1>3, NextItem
<1>7. a = Len(sets[p].table) /\ p = Len(sets)
  BY <1>5, <1>6
<1> QED BY <1>3, <1>4, <1>7

-----------------------------------------------------------------------------
(* The invariant.                                                          *)

Stages ==
    /\ stage \in {"idle", "bound", "stored", "streaming", "answered", "declared", "failed"}
    /\ param \in Values
    /\ stage = "idle" => param = Null
    /\ stage # "idle" => phase = "in" /\ column \in Columns(backend)

\* The cell fits its column, and holds what the column can of the parameter, if
\* that is an integer.
StoredWell ==
    stage \in {"stored", "streaming", "answered", "declared"} =>
        /\ CellFits(backend, column, cell)
        /\ param.kind \in DOMAIN Integral =>
              \E n \in Stores(column, Bound(backend, param).x) : cell = Cell(n)

SentWell ==
    stage \in {"streaming", "answered", "declared"} =>
        /\ SetsFit(backend, sent) /\ Len(sent) # 0
        /\ backend # "mssql" => Len(sent) = 1
        /\ Len(sent) = 1 => sent[1].columns = <<column>>

\* The rows are those sent so far, and all of them when there is an answer.
ReadWell ==
    /\ stage \in {"idle", "bound", "stored", "failed"} => rows = <<>>
    /\ stage = "streaming" =>
          IF backend = "mssql" THEN Underway(backend, sent, colMeta, rows, incoming) ELSE rows = <<>>
    /\ stage \in {"answered", "declared"} =>
          /\ ConvertedRows(backend, sent, rows) /\ Len(rows) = Len(AllRows(sent))
          /\ backend # "mssql" => ~Unreadable

Declared ==
    /\ stage # "declared" => ltypes = <<>>
    /\ stage = "declared" => /\ rows # <<>>
                             /\ ltypes = [j \in DOMAIN rows[1].columns |-> InferColType(j)]

Inv == ConnectInv /\ Stages /\ StoredWell /\ SentWell /\ ReadWell /\ Declared

LEMMA Initially ==
    ASSUME Init PROVE Inv
<1>1. ConnectInv
  BY ConnectInitial DEF Init
<1>2. Null \in Values
  BY DEF Values
<1> QED BY <1>1, <1>2 DEF Init, Inv, Stages, StoredWell, SentWell, ReadWell, Declared

\* A caller that is logged in has a configuration of some backend.
LEMMA BackendKnown ==
    ASSUME ConnectInv, phase = "in" PROVE backend \in Backends
BY DEF ConnectInv, ConfigFollows, Kinds, Backends, backend

\* What a step that is no step of Connect leaves as it is.
LEMMA SameBackend ==
    ASSUME UNCHANGED connectVars
    PROVE  backend' = backend /\ phase' = phase
BY DEF connectVars, backend

LEMMA SameRows ==
    ASSUME UNCHANGED <<connectVars, column, sent>>
    PROVE  Unreadable' = Unreadable
BY SameBackend DEF Unreadable, ReadFails

\* Nothing is known of the rows before a query, and there are none after an error.
LEMMA ConnectKeeps ==
    ASSUME Inv, ConnectNext, UNCHANGED statementVars
    PROVE  Inv'
<1>1. UNCHANGED <<stage, param, column, cell, sent, incoming, colMeta, rows, ltypes>>
  BY DEF statementVars, resultVars
<1>2. ConnectInv'
  BY ConnectStep DEF Inv
<1>3. stage = "idle"
  BY LoggedInStays DEF Inv, Stages
<1>4. Stages'
  BY <1>1, <1>3 DEF Inv, Stages
<1>5. StoredWell' /\ SentWell'
  BY <1>1, <1>3 DEF StoredWell, SentWell
<1>6. ReadWell' /\ Declared'
  BY <1>1, <1>3 DEF Inv, ReadWell, Declared
<1> QED BY <1>2, <1>4, <1>5, <1>6 DEF Inv

LEMMA BindKeeps ==
    ASSUME Inv, Bind PROVE Inv'
<1>1. /\ UNCHANGED <<connectVars, rows, ltypes>> /\ phase = "in"
      /\ stage = "idle" /\ stage' = "bound" /\ param' \in Params /\ column' \in Columns(backend)
  BY DEF Bind, resultVars
<1>2. ConnectInv'
  BY <1>1, ConnectStutters DEF Inv
<1>3. Stages'
  BY <1>1, SameBackend, StatementAssumption DEF Stages
<1>4. StoredWell' /\ SentWell'
  BY <1>1 DEF StoredWell, SentWell
<1>5. ReadWell' /\ Declared'
  BY <1>1 DEF Inv, ReadWell, Declared
<1> QED BY <1>2, <1>3, <1>4, <1>5 DEF Inv

LEMMA StoreKeeps ==
    ASSUME Inv, Store PROVE Inv'
<1>1. /\ UNCHANGED <<connectVars, param, column, rows, ltypes>>
      /\ stage = "bound" /\ stage' = "stored"
      /\ IF Bound(backend, param).null THEN cell' = NullCell
         ELSE \E n \in Stores(column, Bound(backend, param).x) : cell' = Cell(n)
  BY DEF Store, resultVars
<1>2. ConnectInv'
  BY <1>1, ConnectStutters DEF Inv
<1>3. Stages'
  BY <1>1, SameBackend DEF Inv, Stages
<1>4. StoredWell'
  <2>1. ASSUME column \in DOMAIN IntColumns, NEW x, NEW n \in Stores(column, x)
        PROVE  n \in IntColumns[column]
    BY <2>1 DEF Stores
  <2>2. CellFits(backend, column, cell')
    <3>1. CASE cell' = NullCell
      BY <3>1 DEF CellFits
    <3>2. CASE cell' # NullCell
      <4>1. PICK n \in Stores(column, Bound(backend, param).x) : cell' = Cell(n)
        BY <1>1, <3>2
      <4>2. column \in DOMAIN IntColumns => n \in IntColumns[column]
        BY <2>1, <4>1
      <4>3. cell'.is = "value" /\ cell'.x = n
        BY <4>1, CellFields
      <4> QED BY <4>2, <4>3 DEF CellFits
    <3> QED BY <3>1, <3>2
  <2>3. param.kind \in DOMAIN Integral => ~Bound(backend, param).null
    <3>1. Bound(backend, param).null <=> param.kind = "Null"
      BY DEF Bound
    <3>2. "Null" \notin DOMAIN Integral
      BY DEF Integral
    <3> QED BY <3>1, <3>2
  <2>4. param.kind \in DOMAIN Integral =>
           \E n \in Stores(column, Bound(backend, param).x) : cell' = Cell(n)
    BY <1>1, <2>3
  <2>5. backend' = backend
    BY <1>1, SameBackend
  <2> QED BY <1>1, <2>2, <2>4, <2>5 DEF StoredWell
<1>5. SentWell'
  BY <1>1 DEF SentWell
<1>6. ReadWell' /\ Declared'
  BY <1>1 DEF Inv, ReadWell, Declared
<1> QED BY <1>2, <1>3, <1>4, <1>5, <1>6 DEF Inv

LEMMA RefuseKeeps ==
    ASSUME Inv, Refuse PROVE Inv'
<1>1. /\ UNCHANGED <<connectVars, param, column, rows, ltypes>>
      /\ stage = "bound" /\ stage' = "failed"
  BY DEF Refuse, resultVars
<1>2. ConnectInv'
  BY <1>1, ConnectStutters DEF Inv
<1>3. Stages'
  BY <1>1, SameBackend DEF Inv, Stages
<1>4. StoredWell' /\ SentWell'
  BY <1>1 DEF StoredWell, SentWell
<1>5. ReadWell' /\ Declared'
  BY <1>1 DEF Inv, ReadWell, Declared
<1> QED BY <1>2, <1>3, <1>4, <1>5 DEF Inv

LEMMA StoredByOthersKeeps ==
    ASSUME Inv, StoredByOthers PROVE Inv'
<1>1. /\ UNCHANGED <<connectVars, param, rows, ltypes>> /\ phase = "in"
      /\ stage = "idle" /\ stage' = "stored"
      /\ column' \in Columns(backend) /\ cell' \in Held(column')
  BY DEF StoredByOthers, resultVars
<1>2. ConnectInv'
  BY <1>1, ConnectStutters DEF Inv
<1>3. Stages'
  BY <1>1, SameBackend DEF Inv, Stages
<1>4. StoredWell'
  <2>1. CellFits(backend, column', cell')
    BY <1>1, BackendKnown, HeldFit DEF Inv
  <2>2. param'.kind \notin DOMAIN Integral
    BY <1>1 DEF Inv, Stages, Null, Integral
  <2>3. backend' = backend
    BY <1>1, SameBackend
  <2> QED BY <2>1, <2>2, <2>3 DEF StoredWell
<1>5. SentWell'
  BY <1>1 DEF SentWell
<1>6. ReadWell' /\ Declared'
  BY <1>1 DEF Inv, ReadWell, Declared
<1> QED BY <1>2, <1>3, <1>4, <1>5, <1>6 DEF Inv

LEMMA QueryKeeps ==
    ASSUME Inv, Query PROVE Inv'
<1>1. /\ UNCHANGED <<connectVars, param, column, cell, colMeta, rows, ltypes>>
      /\ stage = "stored" /\ stage' = "streaming"
      /\ sent' \in Batches /\ incoming' = AllItems(sent')
  BY DEF Query, AllItems, ItemSeqs
<1>2. ConnectInv'
  BY <1>1, ConnectStutters DEF Inv
<1>3. Stages'
  BY <1>1, SameBackend DEF Inv, Stages
<1>4. backend' = backend /\ backend \in Backends /\ column \in Columns(backend)
  BY <1>1, SameBackend, BackendKnown DEF Inv, Stages
<1>5. CellFits(backend, column, cell)
      /\ (param.kind \in DOMAIN Integral =>
            \E n \in Stores(column, Bound(backend, param).x) : cell = Cell(n))
  BY <1>1 DEF Inv, StoredWell
<1>6. StoredWell'
  BY <1>1, <1>4, <1>5 DEF StoredWell
<1>7. /\ SetsFit(backend, sent') /\ Len(sent') # 0
      /\ backend # "mssql" => Len(sent') = 1
      /\ Len(sent') = 1 => sent'[1].columns = <<column>>
  BY <1>1, <1>4, <1>5, BatchesFit
<1>8. SentWell'
  BY <1>1, <1>4, <1>7 DEF SentWell
<1>9. rows = <<>>
  BY <1>1 DEF Inv, ReadWell
<1>10. Underway(backend, sent', colMeta, <<>>, incoming')
  BY <1>1, <1>7, StreamBegins
<1>11. ReadWell'
  BY <1>1, <1>4, <1>9, <1>10 DEF ReadWell
<1>12. Declared'
  BY <1>1 DEF Inv, Declared
<1> QED BY <1>2, <1>3, <1>6, <1>8, <1>11, <1>12 DEF Inv

\* What does not change once there is a result.
LEMMA ResultStays ==
    ASSUME Inv, stage \in {"streaming", "answered"},
           stage' \in {"streaming", "answered", "declared", "failed"},
           UNCHANGED <<connectVars, param, column, cell, sent>>
    PROVE  /\ ConnectInv' /\ Stages' /\ StoredWell' /\ SentWell'
           /\ backend' = backend /\ backend \in Backends
           /\ SetsFit(backend, sent) /\ Len(sent) # 0
           /\ backend # "mssql" => Len(sent) = 1
<1>1. UNCHANGED <<connectVars, param, column, cell, sent>>
  OBVIOUS
<1>2. ConnectInv'
  BY <1>1, ConnectStutters DEF Inv
<1>3. backend' = backend /\ phase' = phase /\ backend \in Backends
  BY <1>1, SameBackend, BackendKnown DEF Inv, Stages
<1>4. Stages'
  BY <1>1, <1>3 DEF Inv, Stages
<1>5. StoredWell'
  BY <1>1, <1>3 DEF Inv, StoredWell
<1>6. SentWell'
  BY <1>1, <1>3 DEF Inv, SentWell
<1>7. /\ SetsFit(backend, sent) /\ Len(sent) # 0
      /\ backend # "mssql" => Len(sent) = 1
  BY DEF Inv, SentWell
<1> QED BY <1>2, <1>3, <1>4, <1>5, <1>6, <1>7

\* PostgreSQL and MySQL convert the rows of the one set.
LEMMA OneSetConverts ==
    ASSUME NEW b, NEW sets, SetsFit(b, sets), Len(sets) = 1,
           NEW rs, rs = [j \in DOMAIN sets[1].table |-> Converted(b, RowOf(sets[1], j))]
    PROVE  ConvertedRows(b, sets, rs) /\ Len(rs) = Len(AllRows(sets))
<1> DEFINE t == Len(sets[1].table)
<1>1. 1 \in 1..Len(sets) /\ t \in Nat /\ DOMAIN sets[1].table = 1..t
  <2>1. 1 \in 1..Len(sets)
    OBVIOUS
  <2> QED BY <2>1 DEF SetsFit, SetFits
<1>2. PICK off : IsOffsets(off, RowSeqs(sets))
  <2>1. PICK S : RowSeqs(sets) \in Seq(Seq(S))
    BY RowsStand
  <2> QED BY <2>1, OffsetsExist
<1>3. /\ off[0] = 0 /\ off[1] = off[1-1] + t /\ Len(AllRows(sets)) = off[1]
      /\ \A a \in 1..t : AllRows(sets)[off[1-1] + a] = RowOf(sets[1], a)
  BY <1>1, <1>2, RowOffsets
<1> HIDE DEF t
<1>4. Len(AllRows(sets)) = t /\ \A a \in 1..t : AllRows(sets)[a] = RowOf(sets[1], a)
  <2>1. 1 - 1 = 0
    OBVIOUS
  <2>2. 0 + t = t /\ \A a \in 1..t : 0 + a = a
    BY <1>1
  <2> QED BY <1>3, <2>1, <2>2
<1> DEFINE S == {Converted(b, RowOf(sets[1], j)) : j \in 1..t}
<1>5. rs = [j \in 1..t |-> Converted(b, RowOf(sets[1], j))]
  BY <1>1
<1>6. rs \in [1..t -> S]
  BY <1>5
<1> HIDE DEF S
<1>7. rs \in Seq(S) /\ Len(rs) = t
  BY <1>1, <1>6, ListOver
<1> QED BY <1>1, <1>4, <1>5, <1>7 DEF ConvertedRows, IsList

LEMMA RowIsConverted ==
    ASSUME NEW set, NEW j
    PROVE  Row(set.columns, set.columns, set.table[j]) = Converted(backend, RowOf(set, j))
<1>1. RowOf(set, j).columns = set.columns /\ RowOf(set, j).cells = set.table[j]
  BY DEF RowOf
<1> QED BY <1>1, Zenon DEF Row, Converted

LEMMA FetchAllKeeps ==
    ASSUME Inv, FetchAll PROVE Inv'
<1>1. /\ UNCHANGED <<connectVars, param, column, cell, sent, ltypes>>
      /\ stage = "streaming" /\ stage' = "answered" /\ backend # "mssql" /\ ~Unreadable
      /\ rows' = [j \in DOMAIN sent[1].table |-> Row(sent[1].columns, sent[1].columns, sent[1].table[j])]
  BY DEF FetchAll
<1>2. /\ ConnectInv' /\ Stages' /\ StoredWell' /\ SentWell'
      /\ backend' = backend /\ SetsFit(backend, sent) /\ Len(sent) = 1
  BY <1>1, ResultStays
<1>3. rows' = [j \in DOMAIN sent[1].table |-> Converted(backend, RowOf(sent[1], j))]
  BY <1>1, RowIsConverted
<1>4. ConvertedRows(backend, sent, rows') /\ Len(rows') = Len(AllRows(sent))
  BY <1>2, <1>3, OneSetConverts
<1>5. Unreadable' = Unreadable
  BY <1>1, SameRows
<1>6. ReadWell'
  BY <1>1, <1>2, <1>4, <1>5 DEF ReadWell
<1>7. Declared'
  BY <1>1 DEF Inv, Declared
<1> QED BY <1>2, <1>6, <1>7 DEF Inv

LEMMA FetchFailsKeeps ==
    ASSUME Inv, FetchFails PROVE Inv'
<1>1. /\ UNCHANGED <<connectVars, param, column, cell, sent, rows, ltypes>>
      /\ stage = "streaming" /\ stage' = "failed" /\ backend # "mssql"
  BY DEF FetchFails, resultVars
<1>2. ConnectInv' /\ Stages' /\ StoredWell' /\ SentWell'
  BY <1>1, ResultStays
<1>3. ReadWell' /\ Declared'
  BY <1>1 DEF Inv, ReadWell, Declared
<1> QED BY <1>2, <1>3 DEF Inv

LEMMA ReadMetadataKeeps ==
    ASSUME Inv, ReadMetadata PROVE Inv'
<1>1. /\ UNCHANGED <<connectVars, stage, param, column, cell, sent, rows, ltypes>>
      /\ stage = "streaming" /\ backend = "mssql"
      /\ incoming # <<>> /\ Head(incoming).is = "metadata"
      /\ colMeta' = Head(incoming).columns /\ incoming' = Tail(incoming)
  BY DEF ReadMetadata
<1>2. /\ ConnectInv' /\ Stages' /\ StoredWell' /\ SentWell'
      /\ backend' = backend /\ SetsFit(backend, sent) /\ Len(sent) # 0
  BY <1>1, ResultStays
<1>3. Underway(backend, sent, colMeta, rows, incoming)
  BY <1>1 DEF Inv, ReadWell
<1>4. Underway(backend, sent, colMeta', rows, incoming')
  BY <1>1, <1>2, <1>3, MetadataRead
<1>5. ReadWell'
  BY <1>1, <1>2, <1>4 DEF ReadWell
<1>6. Declared'
  BY <1>1 DEF Inv, Declared
<1> QED BY <1>2, <1>5, <1>6 DEF Inv

LEMMA ReadRowKeeps ==
    ASSUME Inv, ReadRow PROVE Inv'
<1>1. /\ UNCHANGED <<connectVars, stage, param, column, cell, sent, colMeta, ltypes>>
      /\ stage = "streaming" /\ backend = "mssql"
      /\ incoming # <<>> /\ Head(incoming).is = "row"
      /\ rows' = Append(rows, RowRead(backend, colMeta, Head(incoming)))
      /\ incoming' = Tail(incoming)
  BY DEF ReadRow, Row, RowRead
<1>2. /\ ConnectInv' /\ Stages' /\ StoredWell' /\ SentWell'
      /\ backend' = backend /\ SetsFit(backend, sent) /\ Len(sent) # 0
  BY <1>1, ResultStays
<1>3. Underway(backend, sent, colMeta, rows, incoming)
  BY <1>1 DEF Inv, ReadWell
<1>4. Underway(backend, sent, colMeta, rows', incoming')
  BY <1>1, <1>2, <1>3, RowTaken
<1>5. ReadWell'
  BY <1>1, <1>2, <1>4 DEF ReadWell
<1>6. Declared'
  BY <1>1 DEF Inv, Declared
<1> QED BY <1>2, <1>5, <1>6 DEF Inv

LEMMA EndOfItemsKeeps ==
    ASSUME Inv, EndOfItems PROVE Inv'
<1>1. /\ UNCHANGED <<connectVars, param, column, cell, sent, rows, ltypes>>
      /\ stage = "streaming" /\ stage' = "answered" /\ backend = "mssql" /\ incoming = <<>>
  BY DEF EndOfItems, resultVars
<1>2. /\ ConnectInv' /\ Stages' /\ StoredWell' /\ SentWell'
      /\ backend' = backend /\ SetsFit(backend, sent) /\ Len(sent) # 0
  BY <1>1, ResultStays
<1>3. Underway(backend, sent, colMeta, rows, incoming)
  BY <1>1 DEF Inv, ReadWell
<1>4. Len(rows) = Len(AllRows(sent)) /\ ConvertedRows(backend, sent, rows)
  <2>1. ConvertedRows(backend, sent, rows)
    BY <1>3 DEF Underway
  <2> QED BY <1>1, <1>2, <1>3, <2>1, StreamEnds
<1>5. ReadWell'
  BY <1>1, <1>2, <1>4 DEF ReadWell
<1>6. Declared'
  BY <1>1 DEF Inv, Declared
<1> QED BY <1>2, <1>5, <1>6 DEF Inv

LEMMA StreamFailsKeeps ==
    ASSUME Inv, StreamFails PROVE Inv'
<1>1. /\ UNCHANGED <<connectVars, param, column, cell, sent, ltypes>>
      /\ stage = "streaming" /\ stage' = "failed" /\ rows' = <<>>
  BY DEF StreamFails
<1>2. ConnectInv' /\ Stages' /\ StoredWell' /\ SentWell'
  BY <1>1, ResultStays
<1>3. ReadWell' /\ Declared'
  BY <1>1 DEF Inv, ReadWell, Declared
<1> QED BY <1>2, <1>3 DEF Inv

LEMMA AddColumnsKeeps ==
    ASSUME Inv, AddColumns PROVE Inv'
<1>1. /\ UNCHANGED <<connectVars, param, column, cell, sent, rows>>
      /\ stage = "answered" /\ stage' = "declared" /\ rows # <<>>
      /\ ltypes' = [j \in DOMAIN rows[1].columns |-> InferColType(j)]
  BY DEF AddColumns
<1>2. /\ ConnectInv' /\ Stages' /\ StoredWell' /\ SentWell' /\ backend' = backend
  BY <1>1, ResultStays
<1>3. Unreadable' = Unreadable
  BY <1>1, SameRows
<1>4. ReadWell'
  BY <1>1, <1>2, <1>3 DEF Inv, ReadWell
<1>5. \A j : InferColType(j)' = InferColType(j)
  BY <1>1 DEF InferColType, SelectInSeq
<1>6. Declared'
  BY <1>1, <1>5 DEF Declared
<1> QED BY <1>2, <1>4, <1>6 DEF Inv

LEMMA StutterKeeps ==
    ASSUME Inv, UNCHANGED vars PROVE Inv'
<1>1. /\ UNCHANGED <<stage, param, column, cell, sent, incoming, colMeta, rows, ltypes>>
      /\ UNCHANGED connectVars
  BY DEF vars, statementVars, resultVars
<1>2. backend' = backend /\ phase' = phase /\ Unreadable' = Unreadable
  BY <1>1, SameBackend, SameRows
<1>3. \A j : InferColType(j)' = InferColType(j)
  BY <1>1 DEF InferColType, SelectInSeq
<1>4. ConnectInv'
  BY <1>1, ConnectStutters DEF Inv
<1>5. Stages' /\ StoredWell' /\ SentWell' /\ ReadWell'
  BY <1>1, <1>2 DEF Inv, Stages, StoredWell, SentWell, ReadWell
<1>6. Declared'
  BY <1>1, <1>3 DEF Inv, Declared
<1> QED BY <1>4, <1>5, <1>6 DEF Inv

LEMMA StepKeeps ==
    ASSUME Inv, [Next]_vars PROVE Inv'
BY ConnectKeeps, BindKeeps, StoreKeeps, RefuseKeeps, StoredByOthersKeeps, QueryKeeps,
   FetchAllKeeps, FetchFailsKeeps, ReadMetadataKeeps, ReadRowKeeps, EndOfItemsKeeps,
   StreamFailsKeeps, AddColumnsKeeps, StutterKeeps DEF Next

LEMMA AlwaysInv == Spec => []Inv
<1>1. Inv /\ [Next]_vars => Inv'
  BY StepKeeps
<1> QED BY Initially, <1>1, PTL DEF Spec

-----------------------------------------------------------------------------
(* What the invariant says of an answer.                                   *)

\* What is read of a cell.
LEMMA ReadValue ==
    ASSUME NEW b \in Backends, NEW c \in Columns(b), NEW x
    PROVE  /\ ReadCell(b, c, x) = Null <=> (x.is # "value" \/ c \in Lost[b])
           /\ ReadCell(b, c, x) # Null =>
                 /\ ReadCell(b, c, x).kind = Reads[b][c].kind
                 /\ Reads[b][c].kind \in DOMAIN WritesTo
                 /\ ReadCell(b, c, x).x = ReadNumber(Reads[b][c].kind, c, x.x)
                 /\ c \notin Lost[b]
<1>1. ReadsWell(b, c)
  BY AllReadWell
<1>2. Converts(b, c, x) <=> (x.is = "value" /\ c \notin Lost[b])
  BY <1>1 DEF ReadsWell, Converts
<1>3. CASE ~Converts(b, c, x)
  <2>1. ReadCell(b, c, x) = Null
    BY <1>3 DEF ReadCell
  <2> QED BY <1>2, <1>3, <2>1
<1>4. CASE Converts(b, c, x)
  <2> DEFINE y == ReadNumber(Reads[b][c].kind, c, x.x)
  <2>1. ReadCell(b, c, x) = [kind |-> Reads[b][c].kind, x |-> y]
    BY <1>4 DEF ReadCell
  <2>2. Reads[b][c].kind \in DOMAIN WritesTo
    BY <1>1, <1>2, <1>4 DEF ReadsWell
  <2>3. "Null" \notin DOMAIN WritesTo /\ Null.kind = "Null"
    BY DEF WritesTo, Null
  <2> HIDE DEF y
  <2>4. ReadCell(b, c, x).kind = Reads[b][c].kind /\ ReadCell(b, c, x).x = y
    BY <2>1
  <2>5. ReadCell(b, c, x) # Null
    BY <2>2, <2>3, <2>4
  <2> QED BY <1>2, <1>4, <2>2, <2>4, <2>5 DEF y
<1> QED BY <1>3, <1>4

\* A row of the answer and the row it comes from.
LEMMA RowFits ==
    ASSUME NEW b, NEW sets, SetsFit(b, sets), NEW rs, ConvertedRows(b, sets, rs),
           NEW j \in DOMAIN rs
    PROVE  LET row == AllRows(sets)[j]
           IN  /\ rs[j].columns = row.columns
               /\ DOMAIN rs[j].values = DOMAIN row.columns
               /\ Len(rs[j].values) = Len(row.columns)
               /\ \A k \in DOMAIN rs[j].values :
                     /\ row.columns[k] \in Columns(b)
                     /\ CellFits(b, row.columns[k], row.cells[k])
                     /\ rs[j].values[k] = ReadCell(b, row.columns[k], row.cells[k])
               /\ \E p \in 1..Len(sets) : \E a \in DOMAIN sets[p].table : row = RowOf(sets[p], a)
<1> DEFINE row == AllRows(sets)[j]
<1>1. j \in 1..Len(rs) /\ Len(rs) \in Nat
  BY LenProperties DEF ConvertedRows, IsList
<1>2. rs[j] = Converted(b, row) /\ j \in 1..Len(AllRows(sets))
  <2>1. Len(AllRows(sets)) \in Nat /\ Len(rs) <= Len(AllRows(sets))
    BY RowsStand DEF ConvertedRows
  <2> QED BY <1>1, <2>1 DEF ConvertedRows
<1>3. PICK p \in 1..Len(sets) : \E a \in DOMAIN sets[p].table : row = RowOf(sets[p], a)
  <2>1. \A i \in 1..Len(AllRows(sets)) : \E p \in 1..Len(sets) :
           \E a \in DOMAIN sets[p].table : AllRows(sets)[i] = RowOf(sets[p], a)
    BY RowsStand
  <2> QED BY <1>2, <2>1
<1>4. PICK a \in DOMAIN sets[p].table : row = RowOf(sets[p], a)
  BY <1>3
<1>5. row.columns = sets[p].columns /\ row.cells = sets[p].table[a]
  BY <1>4 DEF RowOf
<1>6. /\ sets[p].columns \in Seq(Columns(b)) /\ DOMAIN sets[p].table[a] = DOMAIN sets[p].columns
      /\ \A k \in DOMAIN sets[p].columns : CellFits(b, sets[p].columns[k], sets[p].table[a][k])
  BY DEF SetsFit, SetFits
<1> HIDE DEF row
<1>7. /\ row.columns \in Seq(Columns(b)) /\ DOMAIN row.cells = DOMAIN row.columns
      /\ \A k \in DOMAIN row.columns : CellFits(b, row.columns[k], row.cells[k])
  BY <1>5, <1>6
<1>8. /\ DOMAIN row.columns = 1..Len(row.columns) /\ Len(row.columns) \in Nat
      /\ \A k \in DOMAIN row.columns : row.columns[k] \in Columns(b)
  BY <1>7, LenProperties, ElementOfSeq
<1> DEFINE values == [k \in DOMAIN row.columns |-> ReadCell(b, row.columns[k], row.cells[k])]
<1>9. rs[j].columns = row.columns /\ rs[j].values = values
  BY <1>2, <1>7 DEF Converted
<1>10. Len(values) = Len(row.columns)
  <2> DEFINE S == {values[k] : k \in 1..Len(row.columns)}
  <2>1. values \in [1..Len(row.columns) -> S]
    BY <1>8
  <2> HIDE DEF S, values
  <2> QED BY <1>8, <2>1, ListOver
<1>11. /\ DOMAIN values = DOMAIN row.columns
       /\ \A k \in DOMAIN values : values[k] = ReadCell(b, row.columns[k], row.cells[k])
  OBVIOUS
<1> HIDE DEF values
<1> QED BY <1>3, <1>7, <1>8, <1>9, <1>10, <1>11 DEF row

\* What is known once there is an answer.
LEMMA Answer ==
    ASSUME Inv, Answered
    PROVE  /\ backend \in Backends /\ column \in Columns(backend) /\ SentRows = AllRows(sent)
           /\ SetsFit(backend, sent) /\ ConvertedRows(backend, sent, rows)
           /\ Len(rows) = Len(AllRows(sent))
           /\ backend # "mssql" => Len(sent) = 1 /\ ~Unreadable
           /\ Len(sent) = 1 => sent[1].columns = <<column>>
<1>1. stage \in {"answered", "declared"}
  BY DEF Answered
<1>2. backend \in Backends /\ column \in Columns(backend)
  BY <1>1, BackendKnown DEF Inv, Stages
<1>3. SentRows = AllRows(sent)
  BY DEF SentRows, AllRows, RowSeqs, RowOf
<1>4. /\ SetsFit(backend, sent)
      /\ backend # "mssql" => Len(sent) = 1
      /\ Len(sent) = 1 => sent[1].columns = <<column>>
  BY <1>1 DEF Inv, SentWell
<1>5. /\ ConvertedRows(backend, sent, rows) /\ Len(rows) = Len(AllRows(sent))
      /\ backend # "mssql" => ~Unreadable
  BY <1>1 DEF Inv, ReadWell
<1> QED BY <1>2, <1>3, <1>4, <1>5

LEMMA InvMatches ==
    ASSUME Inv PROVE RowsMatchColumns
<1>1. stage = "failed" => rows = <<>>
  BY DEF Inv, ReadWell
<1>2. ASSUME Answered
      PROVE  /\ Len(rows) = Len(SentRows)
             /\ \A j \in DOMAIN rows : /\ rows[j].columns = SentRows[j].columns
                                       /\ Len(rows[j].values) = Len(rows[j].columns)
  <2>1. /\ SentRows = AllRows(sent) /\ Len(rows) = Len(AllRows(sent))
        /\ SetsFit(backend, sent) /\ ConvertedRows(backend, sent, rows)
    BY <1>2, Answer
  <2>2. \A j \in DOMAIN rows : /\ rows[j].columns = AllRows(sent)[j].columns
                              /\ Len(rows[j].values) = Len(AllRows(sent)[j].columns)
    BY <2>1, RowFits
  <2> QED BY <2>1, <2>2
<1> QED BY <1>1, <1>2 DEF RowsMatchColumns

\* run_query of the three drivers: an answer has a row for every row of every
\* result set, in order, each with the columns of its own set and a value for
\* each of them; after an error it has none.
THEOREM RowsAreThoseSent == Spec => []RowsMatchColumns
BY AlwaysInv, InvMatches, PTL

\* The login of every driver is made with the settings given last.
THEOREM LoginIsAsConfigured == Spec => []LoginAsConfigured
<1>1. Inv => LoginAsConfigured
  BY LoginFollows DEF Inv
<1> QED BY AlwaysInv, <1>1, PTL

\* PostgreSQL: an odd date would have ended the query.
LEMMA NoOddDates ==
    ASSUME Inv, Answered, backend = "postgres", NEW j \in DOMAIN rows,
           NEW k \in DOMAIN rows[j].values, SentRows[j].cells[k] = OddCell
    PROVE  FALSE
<1>1. /\ column \in Columns(backend) /\ SentRows = AllRows(sent) /\ backend \in Backends
      /\ SetsFit(backend, sent) /\ ConvertedRows(backend, sent, rows)
      /\ Len(sent) = 1 /\ ~Unreadable /\ sent[1].columns = <<column>>
  BY Answer
<1>2. /\ DOMAIN rows[j].values = DOMAIN SentRows[j].columns
      /\ CellFits(backend, SentRows[j].columns[k], SentRows[j].cells[k])
      /\ \E p \in 1..Len(sent) : \E a \in DOMAIN sent[p].table : SentRows[j] = RowOf(sent[p], a)
  BY <1>1, RowFits
<1>3. PICK a \in DOMAIN sent[1].table : SentRows[j] = RowOf(sent[1], a)
  <2>1. \A p \in 1..1 : p = 1
    OBVIOUS
  <2> QED BY <1>1, <1>2, <2>1
<1>4. SentRows[j].columns = <<column>> /\ SentRows[j].cells = sent[1].table[a]
  BY <1>1, <1>3 DEF RowOf
<1>5. k = 1 /\ SentRows[j].columns[k] = column
  BY <1>2, <1>4
<1>6. column \in {"DATE", "TIMESTAMP", "TIMESTAMPTZ"}
  BY <1>2, <1>5 DEF CellFits, OddCell, NullCell
<1>7. Reads[backend][column].strict
  BY <1>1, <1>6, AllReadWell DEF ReadsWell
<1>8. ReadFails(backend, column, sent[1].table[a][1])
  BY <1>4, <1>5, <1>7 DEF ReadFails, OddCell
<1> QED BY <1>1, <1>8 DEF Unreadable

LEMMA InvLosses ==
    ASSUME Inv PROVE OnlyKnownLosses
<1> SUFFICES ASSUME Answered, NEW j \in DOMAIN rows, NEW k \in DOMAIN rows[j].values
             PROVE  rows[j].values[k] = Null <=>
                       \/ SentRows[j].cells[k] = NullCell
                       \/ SentRows[j].columns[k] \in Lost[backend]
                       \/ SentRows[j].cells[k] = OddCell /\ backend = "mysql"
  BY DEF OnlyKnownLosses
<1> DEFINE c == SentRows[j].columns[k]
           held == SentRows[j].cells[k]
<1>1. /\ SentRows = AllRows(sent) /\ backend \in Backends
      /\ SetsFit(backend, sent) /\ ConvertedRows(backend, sent, rows)
  BY Answer
<1>2. /\ c \in Columns(backend) /\ CellFits(backend, c, held)
      /\ rows[j].values[k] = ReadCell(backend, c, held)
  BY <1>1, RowFits
<1>3. ~(backend = "postgres" /\ held = OddCell)
  BY NoOddDates
<1> HIDE DEF c, held
<1>4. rows[j].values[k] = Null <=> (held.is # "value" \/ c \in Lost[backend])
  BY <1>1, <1>2, ReadValue
<1>5. held.is # "value" <=> (held = NullCell \/ (held = OddCell /\ backend = "mysql"))
  BY <1>1, <1>2, <1>3, CellFields DEF CellFits, Backends
<1> QED BY <1>4, <1>5 DEF c, held

\* The read tables of the drivers: a Null is a NULL of the server, or the value
\* of a column of a type in Lost, or a date that chrono cannot hold, on MySQL.
THEOREM LossesAreKnown == Spec => []OnlyKnownLosses
BY AlwaysInv, InvLosses, PTL

\* infer_col_type: the first value of a column, if it has one, decides.
LEMMA FirstValue ==
    ASSUME NEW j, \E r \in 1..Len(rows) : j \in DOMAIN rows[r].values /\ rows[r].values[j] # Null,
           Len(rows) \in Nat
    PROVE  \E r \in 1..Len(rows) : /\ j \in DOMAIN rows[r].values /\ rows[r].values[j] # Null
                                  /\ InferColType(j) = LogicalType(rows[r].values[j].kind)
<1> DEFINE I == {r \in 1..Len(rows) : j \in DOMAIN rows[r].values /\ rows[r].values[j] # Null}
           first == IF I # {} THEN Min(I) ELSE 0
<1>1. I \in SUBSET Nat /\ I # {}
  OBVIOUS
<1>2. Min(I) \in I
  <2>1. \E n \in I : \A m \in I : n <= m
    <3> HIDE DEF I
    <3> QED BY <1>1, LeastNumber
  <2> HIDE DEF I
  <2> QED BY <2>1 DEF Min
<1>3. InferColType(j) = IF first = 0 THEN "Varchar" ELSE LogicalType(rows[first].values[j].kind)
  BY DEF InferColType, SelectInSeq
<1>4. first \in I /\ first # 0
  <2> HIDE DEF I
  <2>1. first = Min(I) /\ 0 \notin I
    BY <1>1, <1>2 DEF I
  <2> QED BY <1>2, <2>1
<1> HIDE DEF first
<1>5. InferColType(j) = LogicalType(rows[first].values[j].kind)
  BY <1>3, <1>4
<1> QED BY <1>4, <1>5

LEMMA WrittenAsInferred ==
    ASSUME NEW k \in DOMAIN WritesTo
    PROVE  WritesTo[k] = LogicalType(k)
BY DEF WritesTo, LogicalType, LogicalTypes

\* Every integer, in terms of the widest.
LEMMA Magnitudes ==
    ASSUME NEW k \in DOMAIN Integral, NEW x \in Integral[k]
    PROVE  x \in Int /\ -Half[64] <= x /\ x < 2 * Half[64] /\ (k # "UInt64" => x < Half[64])
<1>1. /\ Half[8] \in Nat \ {0} /\ Half[16] \in Nat \ {0} /\ Half[32] \in Nat \ {0} /\ Half[64] \in Nat \ {0}
      /\ 2 * Half[8] <= Half[16] /\ 2 * Half[16] <= Half[32] /\ 2 * Half[32] <= Half[64]
  BY Widths
<1>2. Half[8] <= Half[64] /\ Half[16] <= Half[64] /\ Half[32] <= Half[64]
      /\ 2 * Half[8] <= Half[64] /\ 2 * Half[16] <= Half[64]
  BY <1>1
<1>3. ASSUME NEW h \in Nat \ {0}, NEW H \in Nat \ {0}, h <= H, x \in -h .. h - 1
      PROVE  x \in Int /\ -H <= x /\ x < 2 * H /\ x < H
  BY <1>3
<1>4. ASSUME NEW h \in Nat \ {0}, NEW H \in Nat \ {0}, 2 * h <= H, x \in 0 .. 2 * h - 1
      PROVE  x \in Int /\ -H <= x /\ x < 2 * H /\ x < H
  BY <1>4
<1>5. \/ x \in Signed(8) \/ x \in Signed(16) \/ x \in Signed(32) \/ x \in Signed(64)
      \/ x \in Unsigned(8) \/ x \in Unsigned(16) \/ x \in Unsigned(32)
      \/ k = "UInt64" /\ x \in Unsigned(64)
  BY Ranges
<1>6. CASE x \in Signed(8) \/ x \in Signed(16) \/ x \in Signed(32) \/ x \in Signed(64)
  <2>1. Half[64] <= Half[64]
    BY <1>1
  <2> QED BY <1>1, <1>2, <1>3, <1>6, <2>1 DEF Signed
<1>7. CASE x \in Unsigned(8) \/ x \in Unsigned(16) \/ x \in Unsigned(32)
  BY <1>1, <1>2, <1>4, <1>7 DEF Unsigned
<1>8. CASE k = "UInt64" /\ x \in Unsigned(64)
  BY <1>1, <1>8 DEF Unsigned
<1> QED BY <1>5, <1>6, <1>7, <1>8

LEMMA KeptFits ==
    ASSUME param \in Values, param.kind \in DOMAIN Integral, NEW b \in Backends
    PROVE  /\ Bound(b, param).x = Kept
           /\ Kept \in Int /\ Magnitude(Kept) <= 2048 * Mantissa
<1>1. PICK k \in DOMAIN Integral, x \in UNION {Integral[i] : i \in DOMAIN Integral} :
         param = [kind |-> k, x |-> x] /\ x \in Integral[k]
  <2>1. \/ param = Null
        \/ \E k \in DOMAIN Integral : param \in [kind : {k}, x : Integral[k]]
        \/ param \in [kind : Opaque, x : {0}]
    BY DEF Values
  <2>2. param # Null /\ param \notin [kind : Opaque, x : {0}]
    BY DEF Null, Integral, Opaque
  <2>3. PICK k \in DOMAIN Integral : param \in [kind : {k}, x : Integral[k]]
    BY <2>1, <2>2
  <2>4. PICK x \in Integral[k] : param = [kind |-> k, x |-> x]
    BY <2>3
  <2> QED BY <2>4
<1>2. x \in Int /\ -Half[64] <= x /\ x < 2 * Half[64] /\ (k # "UInt64" => x < Half[64])
  BY <1>1, Magnitudes
<1>3. Bound(b, param).x = IF k = "UInt64" /\ x >= Half[64] THEN x - 2 * Half[64] ELSE x
  BY <1>1, BoundKeepsNumber
<1>4. param.x = x
  BY <1>1
<1>5. Half[64] \in Nat \ {0} /\ Mantissa \in Nat /\ Half[64] <= 1024 * Mantissa
  BY ValuesAssumption
<1>6. Kept = IF x > Half[64] - 1 THEN x - 2 * Half[64] ELSE x
  BY <1>4 DEF Kept
<1>7. CASE x >= Half[64]
  <2>1. k = "UInt64" /\ x > Half[64] - 1
    BY <1>2, <1>5, <1>7
  <2>2. Kept = x - 2 * Half[64] /\ Bound(b, param).x = x - 2 * Half[64]
    BY <1>3, <1>6, <1>7, <2>1
  <2>3. x - 2 * Half[64] \in Int /\ Magnitude(x - 2 * Half[64]) <= 2048 * Mantissa
    BY <1>2, <1>5, <1>7 DEF Magnitude
  <2> QED BY <2>2, <2>3
<1>8. CASE ~(x >= Half[64])
  <2>1. ~(x > Half[64] - 1)
    BY <1>2, <1>5, <1>8
  <2>2. Kept = x /\ Bound(b, param).x = x
    BY <1>3, <1>6, <1>8, <2>1
  <2>3. x \in Int /\ Magnitude(x) <= 2048 * Mantissa
    BY <1>2, <1>5, <1>8 DEF Magnitude
  <2> QED BY <2>2, <2>3
<1> QED BY <1>7, <1>8

\* In an answer of one result set, every row has the column alone.
LEMMA OneColumn ==
    ASSUME Inv, Answered, Len(sent) = 1, NEW j \in DOMAIN rows
    PROVE  /\ rows[j].columns = <<column>> /\ DOMAIN rows[j].values = {1}
           /\ \E x : rows[j].values[1] = ReadCell(backend, column, x)
<1>1. /\ SetsFit(backend, sent) /\ ConvertedRows(backend, sent, rows) /\ sent[1].columns = <<column>>
  BY Answer
<1> DEFINE row == AllRows(sent)[j]
<1>2. /\ rows[j].columns = row.columns /\ DOMAIN rows[j].values = DOMAIN row.columns
      /\ \A k \in DOMAIN rows[j].values : rows[j].values[k] = ReadCell(backend, row.columns[k], row.cells[k])
      /\ \E p \in 1..Len(sent) : \E a \in DOMAIN sent[p].table : row = RowOf(sent[p], a)
  BY <1>1, RowFits
<1> HIDE DEF row
<1>3. row.columns = <<column>>
  <2>1. \A p \in 1..1 : p = 1
    OBVIOUS
  <2>2. \E a : row = RowOf(sent[1], a)
    BY <1>2, <2>1
  <2> QED BY <1>1, <2>2 DEF RowOf
<1>4. DOMAIN <<column>> = {1} /\ <<column>>[1] = column
  OBVIOUS
<1> QED BY <1>2, <1>3, <1>4

\* What is read of a number that was put into a column.
NumberIsNear(kind, kept, x) ==
    CASE kind = "Bool"    -> x = Truth(kept)
      [] kind = "Float32" -> Magnitude(x - kept) * SingleMantissa <= Magnitude(kept)
      [] kind = "Float64" -> Magnitude(x - kept) * Mantissa <= Magnitude(kept)
      [] OTHER            -> x = kept

LEMMA StoredIsNear ==
    ASSUME NEW b \in Backends, NEW c \in Columns(b), c \notin Lost[b],
           NEW kept \in Int, Magnitude(kept) <= 2048 * Mantissa,
           NEW n \in Stores(c, kept)
    PROVE  NumberIsNear(Reads[b][c].kind, kept, ReadNumber(Reads[b][c].kind, c, n))
<1> DEFINE kind == Reads[b][c].kind
<1>1. /\ kind = "Float32" => c \in Singles
      /\ kind = "Float64" => c \in Doubles \union {"Numeric"}
      /\ c \in Singles \union Doubles => kind \in {"Float32", "Float64"}
      /\ c = "Bit" => kind = "Bool"
      /\ c = "Numeric" => kind = "Float64"
  BY AllReadWell DEF ReadsWell
<1> HIDE DEF kind
<1>2. /\ Singles \intersect DOMAIN IntColumns = {} /\ Doubles \intersect DOMAIN IntColumns = {}
      /\ Singles \intersect Doubles = {} /\ "Numeric" \notin DOMAIN IntColumns
      /\ "Numeric" \notin Singles /\ "Numeric" \notin Doubles
      /\ "Bit" \notin DOMAIN IntColumns /\ "Bit" \notin Singles \union Doubles
  BY DEF IntColumns, Singles, Doubles
<1>3. CASE c \in Singles
  <2>1. n \in NearFloats(kept, SingleMantissa) /\ ReadNumber(kind, c, n) = n /\ kind = "Float32"
    BY <1>1, <1>2, <1>3
    DEF Stores, ReadNumber
  <2> QED BY <2>1 DEF NumberIsNear, NearFloats, kind
<1>4. CASE c \in Doubles
  <2>1. n \in NearFloats(kept, Mantissa) /\ ReadNumber(kind, c, n) = n /\ kind = "Float64"
    BY <1>1, <1>2, <1>4 DEF Stores, ReadNumber
  <2> QED BY <2>1 DEF NumberIsNear, NearFloats, kind
<1>5. CASE c = "Numeric"
  <2>1. n = kept /\ ReadNumber(kind, c, n) = AsF64(kept) /\ kind = "Float64"
    BY <1>1, <1>2, <1>5 DEF Stores, ReadNumber
  <2>2. Magnitude(AsF64(kept) - kept) * Mantissa <= Magnitude(kept)
    <3>1. CASE AsF64(kept) = kept
      BY <3>1, ValuesAssumption DEF Magnitude
    <3>2. CASE AsF64(kept) # kept
      BY <3>2, FloatIsNear
    <3> QED BY <3>1, <3>2
  <2> QED BY <2>1, <2>2 DEF NumberIsNear, kind
<1>6. CASE c \notin Singles \union Doubles \union {"Numeric"}
  <2>1. n = kept \/ (n = Truth(kept) /\ kind = "Bool")
    <3>1. CASE c \in DOMAIN IntColumns
      <4>1. n \in {kept} \intersect IntColumns[c]
        BY <3>1 DEF Stores
      <4> QED BY <4>1
    <3>2. CASE c = "Bit"
      BY <1>1, <1>2, <3>2 DEF Stores
    <3>3. CASE c \notin DOMAIN IntColumns /\ c # "Bit"
      BY <1>6, <3>3 DEF Stores
    <3> QED BY <3>1, <3>2, <3>3
  <2>2. kind # "Float32" /\ kind # "Float64"
    BY <1>1, <1>6
  <2>3. Truth(Truth(kept)) = Truth(kept)
    BY DEF Truth
  <2> QED BY <1>6, <2>1, <2>2, <2>3 DEF NumberIsNear, ReadNumber, kind
<1> QED BY <1>3, <1>4, <1>5, <1>6

LEMMA InvNumbers ==
    ASSUME Inv PROVE NumbersSurvive
<1> SUFFICES ASSUME Answered, param.kind \in DOMAIN Integral, NEW j \in DOMAIN rows,
                    SentRows[j].columns = <<column>>, SentRows[j].cells = <<cell>>,
                    rows[j].values[1] # Null
             PROVE  /\ NumberIsNear(rows[j].values[1].kind, Kept, rows[j].values[1].x)
                    /\ stage = "declared" /\ Len(sent) = 1 => WellWritten(rows[j].values[1], 1)
  BY DEF NumbersSurvive, NumberIsNear
<1> DEFINE value == rows[j].values[1]
<1>1. /\ backend \in Backends /\ column \in Columns(backend) /\ SentRows = AllRows(sent)
      /\ SetsFit(backend, sent) /\ ConvertedRows(backend, sent, rows)
  BY Answer
<1>2. PICK n \in Stores(column, Kept) : cell = Cell(n)
  <2>1. \E n \in Stores(column, Bound(backend, param).x) : cell = Cell(n)
    BY DEF Answered, Inv, StoredWell
  <2>2. param \in Values
    BY DEF Inv, Stages
  <2> QED BY <1>1, <2>1, <2>2, KeptFits
<1>3. Kept \in Int /\ Magnitude(Kept) <= 2048 * Mantissa
  BY <1>1, KeptFits DEF Inv, Stages
<1>4. value = ReadCell(backend, column, cell)
  <2>1. /\ DOMAIN rows[j].values = DOMAIN SentRows[j].columns
        /\ \A k \in DOMAIN rows[j].values :
              rows[j].values[k] = ReadCell(backend, SentRows[j].columns[k], SentRows[j].cells[k])
    BY <1>1, RowFits
  <2>2. 1 \in DOMAIN <<column>> /\ <<column>>[1] = column /\ <<cell>>[1] = cell
    OBVIOUS
  <2> QED BY <2>1, <2>2
<1> HIDE DEF value
<1>5. value # Null
  BY DEF value
<1>6. /\ value.kind = Reads[backend][column].kind /\ Reads[backend][column].kind \in DOMAIN WritesTo
      /\ value.x = ReadNumber(Reads[backend][column].kind, column, n)
      /\ column \notin Lost[backend]
  BY <1>1, <1>2, <1>4, <1>5, ReadValue, CellFields
<1>7. NumberIsNear(value.kind, Kept, value.x)
  BY <1>1, <1>2, <1>3, <1>6, StoredIsNear
<1>8. ASSUME stage = "declared", Len(sent) = 1
      PROVE  WellWritten(value, 1)
  <2>1. Len(rows) \in Nat /\ DOMAIN rows = 1..Len(rows)
    BY <1>1, LenProperties DEF ConvertedRows, IsList
  <2>2. 1 \in DOMAIN rows
    BY <2>1
  <2>3. ltypes[1] = InferColType(1)
    <3>1. ltypes = [k \in DOMAIN rows[1].columns |-> InferColType(k)]
      BY <1>8 DEF Inv, Declared
    <3>2. rows[1].columns = <<column>>
      BY <1>8, <2>2, OneColumn
    <3>3. 1 \in DOMAIN <<column>>
      OBVIOUS
    <3> QED BY <3>1, <3>2, <3>3
  <2>4. 1 \in DOMAIN rows[j].values
    BY <1>8, OneColumn
  <2>5. PICK r \in 1..Len(rows) : /\ 1 \in DOMAIN rows[r].values /\ rows[r].values[1] # Null
                                  /\ InferColType(1) = LogicalType(rows[r].values[1].kind)
    <3>1. \E r \in 1..Len(rows) : 1 \in DOMAIN rows[r].values /\ rows[r].values[1] # Null
      BY <1>5, <2>1, <2>4 DEF value
    <3> QED BY <2>1, <3>1, FirstValue
  <2>6. rows[r].values[1].kind = Reads[backend][column].kind
    <3>1. PICK x : rows[r].values[1] = ReadCell(backend, column, x)
      BY <1>8, <2>1, <2>5, OneColumn
    <3> QED BY <1>1, <2>5, <3>1, ReadValue
  <2> QED BY <1>6, <2>3, <2>5, <2>6, WrittenAsInferred DEF WellWritten
<1> QED BY <1>7, <1>8 DEF value

\* From the cast of a parameter to the vector of DuckDB: an integer that is bound,
\* stored, read and written is the number that was bound, but for a u64 above
\* i64::MAX, the Bools of one-bit columns and MySQL's TINYINT(1), and what an f32
\* or f64 cannot hold of it.
THEOREM NumbersAreKept == Spec => []NumbersSurvive
BY AlwaysInv, InvNumbers, PTL

\* Values of one row.
LEMMA ValuesInRange ==
    ASSUME NEW b \in Backends, NEW sets, SetsFit(b, sets), NEW rs, ConvertedRows(b, sets, rs),
           NEW j \in DOMAIN rs, NEW k \in DOMAIN rs[j].values,
           rs[j].values[k].kind \in DOMAIN Integral
    PROVE  rs[j].values[k].x \in Integral[rs[j].values[k].kind]
<1> DEFINE c == AllRows(sets)[j].columns[k]
           held == AllRows(sets)[j].cells[k]
           value == rs[j].values[k]
<1>1. c \in Columns(b) /\ CellFits(b, c, held) /\ value = ReadCell(b, c, held)
  BY RowFits
<1>2. value.kind \in DOMAIN Integral
  OBVIOUS
<1> HIDE DEF c, held, value
<1>3. value # Null
  BY <1>2 DEF Null, Integral
<1>4. /\ held.is = "value" /\ c \notin Lost[b]
      /\ value.kind = Reads[b][c].kind
      /\ value.x = ReadNumber(Reads[b][c].kind, c, held.x)
  BY <1>1, <1>3, ReadValue
<1>5. /\ c \in DOMAIN IntColumns /\ c # "Numeric"
      /\ IntColumns[c] \subseteq Integral[Reads[b][c].kind]
  BY <1>1, <1>2, <1>4, AllReadWell DEF ReadsWell
<1>6. held.x \in IntColumns[c]
  BY <1>1, <1>4, <1>5, CellFields DEF CellFits
<1>7. value.x = held.x
  <2>1. value.kind # "Bool"
    BY <1>2 DEF Integral
  <2> QED BY <1>4, <1>5, <2>1 DEF ReadNumber
<1> QED BY <1>4, <1>5, <1>6, <1>7 DEF value

LEMMA InvTypes ==
    ASSUME Inv PROVE TypeOK
<1>1. phase \in {"start", "building", "parsing", "ready", "refused", "driver", "in"}
  BY DEF Inv, ConnectInv
<1>2. /\ stage \in {"idle", "bound", "stored", "streaming", "answered", "declared", "failed"}
      /\ stage # "idle" => phase = "in" /\ column \in Columns(backend)
      /\ param \in Values
  BY DEF Inv, Stages
<1>3. \A j \in DOMAIN rows : \A k \in DOMAIN rows[j].values :
          rows[j].values[k].kind \in DOMAIN Integral =>
              rows[j].values[k].x \in Integral[rows[j].values[k].kind]
  <2>1. CASE rows = <<>>
    BY <2>1
  <2>2. CASE rows # <<>>
    <3>1. stage \in {"streaming", "answered", "declared"}
      BY <1>2, <2>2 DEF Inv, ReadWell
    <3>2. backend \in Backends /\ SetsFit(backend, sent)
      BY <1>2, <3>1, BackendKnown DEF Inv, SentWell
    <3>3. ConvertedRows(backend, sent, rows)
      BY <2>2, <3>1 DEF Inv, ReadWell, Underway
    <3> QED BY <3>2, <3>3, ValuesInRange
  <2> QED BY <2>1, <2>2
<1>4. Len(ltypes) = IF stage = "declared" THEN Len(rows[1].columns) ELSE 0
  <2>1. CASE stage # "declared"
    BY <2>1 DEF Inv, Declared
  <2>2. CASE stage = "declared"
    <3>1. /\ rows # <<>>
          /\ ltypes = [j \in DOMAIN rows[1].columns |-> InferColType(j)]
      BY <2>2 DEF Inv, Declared
    <3>2. SetsFit(backend, sent) /\ ConvertedRows(backend, sent, rows)
      BY <2>2, Answer DEF Answered
    <3>3. 1 \in DOMAIN rows
      <4>1. PICK S : rows \in Seq(S)
        BY <3>2 DEF ConvertedRows, IsList
      <4> QED BY <3>1, <4>1
    <3>4. rows[1].columns = AllRows(sent)[1].columns
      BY <3>2, <3>3, RowFits
    <3>5. PICK n \in Nat : DOMAIN rows[1].columns = 1..n /\ Len(rows[1].columns) = n
      <4>1. \E p \in 1..Len(sent) : \E a \in DOMAIN sent[p].table : AllRows(sent)[1] = RowOf(sent[p], a)
        BY <3>2, <3>3, RowFits
      <4>2. PICK p \in 1..Len(sent) : rows[1].columns = sent[p].columns
        BY <3>4, <4>1 DEF RowOf
      <4>3. sent[p].columns \in Seq(Columns(backend))
        BY <3>2 DEF SetsFit, SetFits
      <4> QED BY <4>2, <4>3, LenProperties
    <3> DEFINE T == {InferColType(j) : j \in 1..n}
    <3>6. ltypes \in [1..n -> T]
      BY <3>1, <3>5
    <3> HIDE DEF T
    <3>7. Len(ltypes) = n
      BY <3>6, ListOver
    <3> QED BY <2>2, <3>5, <3>7
  <2> QED BY <2>1, <2>2
<1> QED BY <1>1, <1>2, <1>3, <1>4 DEF TypeOK

\* Types: a statement runs on a driver that is logged in, on a column of its
\* backend, and an integer that comes back is in the range of its variant.
THEOREM TypeCorrect == Spec => []TypeOK
BY AlwaysInv, InvTypes, PTL
=============================================================================
