-------------------------------- MODULE Connect --------------------------------
(***************************************************************************)
(* From a DatabaseConfig to a login: the constructors and builder methods  *)
(* of config.rs, the connectors of the DuckDB functions with the           *)
(* connection string of SQL Server, connect() of the three drivers, and    *)
(* the first connection, which MySQL opens in connect() and the other two  *)
(* when the first statement asks for it.                                   *)
(*                                                                         *)
(* A configuration is a record of settings; text is a token.               *)
(***************************************************************************)
EXTENDS Integers, Sequences, SequencesExt

CONSTANTS
    Places,         \* what constructors are given: records of host, port and database
    Auths,          \* and of auth, text, user and password
    BuilderCalls,   \* what the with_ methods set: records of one or more settings
    Segments,       \* segments of an ADO.NET connection string
    PoolSizes,      \* the connector's max_connections
    AzureAuth,      \* is the feature azure-auth on?
    MaxBuilderCalls, MaxSegments    \* bounds on the two

\* In place of a port that is not a number.
NoNumber == -1

ASSUME ConnectAssumption ==
    /\ \A place \in Places : place.port # NoNumber
    /\ \A settings \in BuilderCalls : DOMAIN settings \subseteq
          {"tls", "trust", "app", "connStr", "min", "max", "timeout", "idle", "life",
           "connectTimeout"}
    /\ \A segment \in Segments :
          \/ DOMAIN segment \in {{"encrypt"}, {"trustCert"}, {"malformed"}}
          \/ DOMAIN segment \subseteq {"host", "port", "database", "user", "password"}
    /\ AzureAuth \in BOOLEAN
    /\ MaxBuilderCalls \in Nat /\ MaxSegments \in Nat

VARIABLES
    phase,      \* "start", "building", "parsing", "ready", "refused", "driver" or "in"
    config,     \* DatabaseConfig, so far
    given,      \* every setting given: the constructor's, then one record a call or segment
    input,      \* the segments that have not been read
    options,    \* the settings that the driver has handed to the client library
    fault       \* the DbError last returned

connectVars == <<phase, config, given, input, options, fault>>

-----------------------------------------------------------------------------
(* DatabaseConfig                                                          *)

\* PoolConfig::default, in seconds
DefaultPool == [min |-> 1, max |-> 10, timeout |-> 30, idle |-> 600, life |-> 1800]

\* DatabaseConfig::postgres, mysql and mssql
New(backend, host, port, database, auth) ==
    [backend |-> backend, host |-> host, port |-> port, database |-> database,
     auth |-> auth.auth, text |-> auth.text, user |-> auth.user, password |-> auth.password,
     min |-> DefaultPool.min, max |-> DefaultPool.max, timeout |-> DefaultPool.timeout,
     idle |-> DefaultPool.idle, life |-> DefaultPool.life,
     tls |-> backend = "mssql", trust |-> FALSE, connStr |-> "none", app |-> "none",
     connectTimeout |-> 30]

\* A configuration after some of its settings are given again.
Updated(old, settings) ==
    [f \in DOMAIN old \union DOMAIN settings |->
        IF f \in DOMAIN settings THEN settings[f] ELSE old[f]]

NoAuth    == [auth |-> "None", text |-> "none", user |-> "", password |-> ""]
AzureKinds == {"AzureDefaultCredential", "AzureClientSecret", "AzureManagedIdentity"}

ConnectInit ==
    /\ phase = "start"
    /\ config = <<>> /\ given = <<>> /\ input = <<>> /\ options = <<>>
    /\ fault = "none"

Configured(c) == config' = c /\ given' = <<c>>

\* A caller of the library begins a configuration.
Construct ==
    /\ phase = "start"
    /\ \E backend \in {"postgres", "mysql", "mssql"}, place \in Places, auth \in Auths :
          Configured(New(backend, place.host, place.port, place.database, auth))
    /\ phase' = "building"
    /\ UNCHANGED <<input, options, fault>>

\* with_pool, with_tls, with_trust_cert, with_app_name, with_connection_string;
\* the field connect_timeout, which has no such method, is public.
With ==
    /\ phase = "building"
    /\ Len(given) <= MaxBuilderCalls
    /\ \E settings \in BuilderCalls :
          /\ config' = Updated(config, settings)
          /\ given' = Append(given, settings)
    /\ UNCHANGED <<phase, input, options, fault>>

-----------------------------------------------------------------------------
(* The connectors of postgres_query, mysql_query and mssql_query           *)

\* PostgresConnector.  The connection string stands for what it asks for.
PostgresConfig(text, size) ==
    LET auth == [NoAuth EXCEPT !.auth = "ConnectionString", !.text = text]
    IN  [New("postgres", "", 5432, "", auth) EXCEPT
            !.tls = (text # "sslmode=disable"), !.trust = TRUE, !.min = 0, !.max = size]

PostgresConnector ==
    /\ phase = "start"
    /\ \E text \in {"sslmode=disable", "other", "malformed"}, size \in PoolSizes :
          Configured(PostgresConfig(text, size))
    /\ phase' = "ready"
    /\ UNCHANGED <<input, options, fault>>

MySqlConfig(text, size) ==
    [New("mysql", "", 3306, "", NoAuth) EXCEPT !.connStr = text, !.min = 0, !.max = size]

MySqlConnector ==
    /\ phase = "start"
    /\ \E text \in {"other", "malformed"}, size \in PoolSizes :
          Configured(MySqlConfig(text, size))
    /\ phase' = "ready"
    /\ UNCHANGED <<input, options, fault>>

\* The variables of parse_mssql_conn_str before its loop, and the pool.
MssqlConfig(size) ==
    LET auth == [NoAuth EXCEPT !.auth = "SqlPassword"]
    IN  [New("mssql", "localhost", 1433, "", auth) EXCEPT !.min = 0, !.max = size]

MssqlConnector ==
    /\ phase = "start"
    /\ \E size \in PoolSizes : Configured(MssqlConfig(size))
    /\ input' \in BoundedSeq(Segments, MaxSegments)
    /\ phase' = "parsing"
    /\ UNCHANGED <<options, fault>>

\* The settings that one segment changes.  A port that is no number is
\* 1433; encryption goes off only for "false" and trust comes on only for "true".
Reading(segment) ==
    IF "encrypt" \in DOMAIN segment THEN [tls |-> segment.encrypt # "false"]
    ELSE IF "trustCert" \in DOMAIN segment THEN [trust |-> segment.trustCert = "true"]
    ELSE [f \in DOMAIN segment |-> IF f = "port" /\ segment.port = NoNumber THEN 1433 ELSE segment[f]]

\* @mutant a server without a port sets the port back
ParseSegmentResets ==
    /\ phase = "parsing"
    /\ input # <<>>
    /\ "malformed" \notin DOMAIN Head(input)
    /\ LET reset == IF "host" \in DOMAIN Head(input) THEN [config EXCEPT !.port = 1433] ELSE config
       IN  config' = Updated(reset, Reading(Head(input)))
    /\ given' = Append(given, Head(input))
    /\ input' = Tail(input)
    /\ UNCHANGED <<phase, options, fault>>

\* parse_mssql_conn_str; a segment of another key, or an empty one, is a
\* record without settings.
ParseSegment ==
    /\ phase = "parsing"
    /\ input # <<>>
    /\ "malformed" \notin DOMAIN Head(input)
    /\ config' = Updated(config, Reading(Head(input)))
    /\ given' = Append(given, Head(input))
    /\ input' = Tail(input)
    /\ UNCHANGED <<phase, options, fault>>

\* A segment without "=".
ParseFails ==
    /\ phase = "parsing"
    /\ input # <<>>
    /\ "malformed" \in DOMAIN Head(input)
    /\ phase' = "refused"
    /\ UNCHANGED <<config, given, input, options, fault>>

ParseEnds ==
    /\ phase = "parsing"
    /\ input = <<>>
    /\ phase' = "ready"
    /\ UNCHANGED <<config, given, input, options, fault>>

-----------------------------------------------------------------------------
(* connect                                                                 *)

\* The settings that PostgresDriver::connect copies into deadpool's.
PgPassed ==
    {"host", "port", "database", "app", "max", "timeout", "idle", "tls", "trust"} \union
    (IF config.auth = "SqlPassword" THEN {"user", "password"}
     ELSE IF config.auth = "ConnectionString" THEN {"text"} ELSE {})

\* MySqlPoolOptions, and build_mysql_opts but for the ssl_mode.  A connection
\* string that is handed on stands for all that it asks for, its ssl-mode apart.
MySqlPassed ==
    DOMAIN DefaultPool \union
    (IF config.connStr # "none" THEN {"connStr"}
     ELSE {"host", "port", "database"} \union
          (IF config.auth = "SqlPassword" THEN {"user", "password"} ELSE {}))

\* Its last lines, which set the ssl_mode whatever the string has asked for.
SslMode(tls, trust) == IF ~tls THEN "Disabled" ELSE IF trust THEN "Required" ELSE "VerifyIdentity"

\* MssqlDriver::connect and, for each connection, new_client
MssqlPassed ==
    {"host", "port", "database", "app", "max", "tls", "trust"} \union
    (IF config.auth = "SqlPassword" THEN {"user", "password"} ELSE {})

Passed ==
    [postgres |-> PgPassed, mysql |-> MySqlPassed, mssql |-> MssqlPassed][config.backend]

\* The settings as the client library has them.
HandedOn ==
    LET passed == [f \in Passed |-> config[f]]
    IN  IF config.backend # "mysql" THEN passed
        ELSE Updated(passed, [sslMode |-> SslMode(config.tls, config.trust)])

\* Text that the client library cannot parse.
Malformed ==
    \/ /\ config.backend = "postgres"
       /\ config.auth = "ConnectionString" /\ config.text = "malformed"
    \/ config.backend = "mysql" /\ config.connStr = "malformed"

\* Authentication that MySQL has no use for or that is not compiled in.
Unsupported ==
    \/ /\ config.backend = "mysql"
       /\ config.connStr = "none" /\ config.auth \notin {"SqlPassword", "None"}
    \/ config.backend = "mssql" /\ config.auth \in AzureKinds /\ ~AzureAuth

ConnectRefuses ==
    /\ phase \in {"building", "ready"}
    /\ \/ Malformed /\ fault' = "Config"
       \/ Unsupported /\ fault' = "NotSupported"
    /\ phase' = "refused"
    /\ UNCHANGED <<config, given, input, options>>

\* MySQL's pool opens its first connection before connect() returns; on SQL
\* Server there may be no credential to make a token provider of; deadpool wants
\* a database, of the connection string if the field is empty.
ConnectFails ==
    /\ phase \in {"building", "ready"}
    /\ ~Malformed /\ ~Unsupported
    /\ \/ config.backend = "mysql" /\ fault' \in {"Backend", "Timeout", "Config"}
       \/ config.backend = "mssql" /\ config.auth \in AzureKinds /\ fault' = "Auth"
       \/ config.backend = "postgres" /\ config.database = "" /\ fault' = "Config"
    /\ phase' = "refused"
    /\ UNCHANGED <<config, given, input, options>>

\* connect() returns a driver.
Connected ==
    /\ phase \in {"building", "ready"}
    /\ ~Malformed /\ ~Unsupported
    /\ options' = HandedOn
    /\ phase' = IF config.backend = "mysql" THEN "in" ELSE "driver"
    /\ UNCHANGED <<config, given, input, fault>>

-----------------------------------------------------------------------------
(* The first connection of PostgreSQL and SQL Server                       *)

\* new_client finds no use for the rest.
UsableAuth ==
    config.backend = "mssql" => config.auth \in AzureKinds \union {"SqlPassword", "None"}

Login ==
    /\ phase = "driver"
    /\ UsableAuth
    /\ phase' = "in"
    /\ fault' = "none"
    /\ UNCHANGED <<config, given, input, options>>

\* Whatever stood in the way, the statement that asked for the connection gets
\* an error of the pool; the next one tries again.
LoginFails ==
    /\ phase = "driver"
    /\ fault' = "Pool"
    /\ UNCHANGED <<phase, config, given, input, options>>

ConnectNext ==
    \/ Construct \/ With
    \/ PostgresConnector \/ MySqlConnector
    \/ MssqlConnector \/ ParseSegment \/ ParseFails \/ ParseEnds
    \/ ConnectRefuses \/ ConnectFails \/ Connected
    \/ Login \/ LoginFails

-----------------------------------------------------------------------------
(* Correctness.                                                            *)

\* The last value given for a setting, in the words it was given in.
EverGiven(f) == \E j \in DOMAIN given : f \in DOMAIN given[j]
LastGiven(f) ==
    LET sets(settings) == f \in DOMAIN settings
    IN  given[SelectLastInSeq(given, sets)][f]

\* The settings that reach the client library, by backend, and no others: the
\* application name gets lost on MySQL, connect_timeout everywhere, the pool's
\* min_connections and max_lifetime on PostgreSQL and all of the pool's but
\* max_connections on SQL Server.
Reaching ==
    LET login == {"host", "port", "database"} \union
                 (IF config.auth = "SqlPassword" THEN {"user", "password"} ELSE {}) \union
                 (IF config.auth = "ConnectionString" THEN {"text"} ELSE {})
    IN  CASE config.backend = "postgres" -> login \union {"app", "tls", "trust", "max", "timeout", "idle"}
          [] config.backend = "mysql" ->
                (IF config.connStr # "none" THEN {"connStr"} ELSE login) \union
                {"sslMode", "min", "max", "timeout", "idle", "life"}
          [] config.backend = "mssql" -> login \union {"app", "tls", "trust", "max"}

\* The settings of these that are not handed on in the words they were given in.
LastPort  == IF LastGiven("port") = NoNumber THEN 1433 ELSE LastGiven("port")
LastTls   == IF EverGiven("encrypt") THEN LastGiven("encrypt") # "false" ELSE LastGiven("tls")
LastTrust == IF EverGiven("trustCert") THEN LastGiven("trustCert") = "true" ELSE LastGiven("trust")

\* README: "where to connect and how", refined with builder methods, and pool
\* settings that each backend translates.  In whatever order settings are given,
\* in methods or in the segments of a connection string, the login is made with
\* the settings above and the last value given for each, or the default; on MySQL
\* this is so of the ssl_mode whatever the connection string says of it.
LoginAsConfigured ==
    phase \in {"driver", "in"} /\ UsableAuth =>
        /\ DOMAIN options = Reaching
        /\ \A f \in Reaching :
              options[f] = CASE f = "port"    -> LastPort
                             [] f = "tls"     -> LastTls
                             [] f = "trust"   -> LastTrust
                             [] f = "sslMode" -> SslMode(LastTls, LastTrust)
                             [] OTHER         -> LastGiven(f)

===============================================================================
