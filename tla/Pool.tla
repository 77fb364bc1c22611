-------------------------------- MODULE Pool --------------------------------
(***************************************************************************)
(* The connection pool of the PostgreSQL and SQL Server drivers, and the   *)
(* path every DbDriver::query, execute and ping takes through it:          *)
(*                                                                         *)
(*     let conn = self.pool.get().await?;   // a permit, then a connection *)
(*     ... one or more round trips on conn ...                             *)
(*     drop(conn)                           // back to the pool            *)
(*                                                                         *)
(* A caller is one future that runs such calls one after the other.  The   *)
(* futures are polled on a multi-threaded runtime, so the steps of two     *)
(* callers interleave; one of the steps below is what a caller does        *)
(* between two suspension points, or under one acquisition of the pool's   *)
(* lock.                                                                   *)
(*                                                                         *)
(* The pool itself is the library deadpool.  It is modelled from how the   *)
(* drivers configure and use it: a fair semaphore of max_size permits, a   *)
(* list of idle connections, the manager's create and recycle hooks, and   *)
(* the wait, create and recycle timeouts, of which the SQL Server driver   *)
(* sets none.                                                              *)
(***************************************************************************)
EXTENDS Integers, FiniteSets, SequencesExt

CONSTANTS
    Callers,            \* the futures that call the driver
    Conns,              \* identities for the backend connections
    NoConn,             \* "holds no connection"
    MaxConnections      \* PoolConfig::max_connections

ASSUME PoolAssumption ==
    /\ IsFiniteSet(Callers)
    /\ NoConn \notin Conns
    /\ MaxConnections \in Nat

VARIABLES
    pc,         \* pc[c]: where caller c is in its call
    conn,       \* conn[c]: the connection c holds, or NoConn
    waiters,    \* callers queued for a permit, the first to be served first
    permits,    \* permits nobody holds
    idle,       \* open connections nobody holds
    dead,       \* open connections the backend no longer serves
    noticed,    \* dead connections the client library knows to be closed
    backend     \* the driver in use, "postgres" or "mssql"

poolVars == <<pc, conn, waiters, permits, idle, dead, noticed, backend>>

-----------------------------------------------------------------------------
(* What the two drivers configure differently.                             *)

\* PostgreSQL passes wait and create timeouts; the SQL Server pool has none.
HasTimeouts == backend = "postgres"

\* MssqlManager::recycle sends a statement; deadpool-postgres only looks at
\* whether the client object is closed (its Fast method, the default).
Probes == backend = "mssql"

-----------------------------------------------------------------------------
(* The life of a call: waiting for a permit, granted one, recycling an     *)
(* idle connection or creating a new one, running the statement, settled.  *)

Busy    == {"recycling", "creating", "running"}
Holding == {"granted"} \union Busy
Settled == {"ok", "poolErr", "queryErr", "dropped"}
States  == {"fresh", "waiting"} \union Holding \union Settled

InState(S)   == {c \in Callers : pc[c] \in S}
PermitOwners == InState(Holding)
Lent         == {conn[c] : c \in InState({"recycling", "running"})}
Open         == idle \union Lent

Init ==
    /\ pc = [c \in Callers |-> "fresh"]
    /\ conn = [c \in Callers |-> NoConn]
    /\ waiters = <<>>
    /\ permits = MaxConnections
    /\ idle = {}
    /\ dead = {}
    /\ noticed = {}
    /\ backend \in {"postgres", "mssql"}

-----------------------------------------------------------------------------
(* The semaphore hands a released permit to the first waiter, whether or   *)
(* not that waiter is polled soon, and keeps it when nobody waits.         *)

\* @mutant a released permit is added to the count although a waiter took it
ReleaseTwice(c, outcome) ==
    /\ permits' = permits + 1
    /\ waiters' = IF waiters = <<>> THEN waiters ELSE Tail(waiters)
    /\ pc' = [d \in Callers |-> IF d = c THEN outcome
                                ELSE IF waiters # <<>> /\ d = Head(waiters)
                                     THEN "granted" ELSE pc[d]]

\* @mutant the permit goes back to the count and no waiter is woken
ReleaseSilently(c, outcome) ==
    /\ permits' = permits + 1
    /\ pc' = [pc EXCEPT ![c] = outcome]
    /\ UNCHANGED waiters

Release(c, outcome) ==
    \/ /\ waiters = <<>>
       /\ permits' = permits + 1
       /\ pc' = [pc EXCEPT ![c] = outcome]
       /\ UNCHANGED waiters
    \/ /\ waiters # <<>>
       /\ pc' = [pc EXCEPT ![c] = outcome, ![Head(waiters)] = "granted"]
       /\ waiters' = Tail(waiters)
       /\ UNCHANGED permits

\* Caller c leaves the queue from wherever it stands in it.
LeaveQueue(c, outcome) ==
    /\ \E i \in 1..Len(waiters) :
          /\ waiters[i] = c
          /\ waiters' = RemoveAt(waiters, i)
    /\ pc' = [pc EXCEPT ![c] = outcome]
    /\ UNCHANGED permits

\* Close connection k: nothing of it is left.
Forget(k) ==
    /\ dead' = dead \ {k}
    /\ noticed' = noticed \ {k}

-----------------------------------------------------------------------------
(* Pool::get                                                               *)

\* pool.get() takes a permit if there is one and queues if there is none.
Get(c) ==
    /\ pc[c] \in {"fresh"} \union Settled
    /\ \/ /\ permits > 0
          /\ permits' = permits - 1
          /\ pc' = [pc EXCEPT ![c] = "granted"]
          /\ UNCHANGED waiters
       \/ /\ permits = 0
          /\ pc' = [pc EXCEPT ![c] = "waiting"]
          /\ waiters' = Append(waiters, c)
          /\ UNCHANGED permits
    /\ UNCHANGED <<conn, idle, dead, noticed, backend>>

\* @mutant the pool is built without a runtime whose timer could fire
WaitNeverTimesOut(c) == FALSE

\* The wait timeout.  A caller that was granted a permit before it is polled
\* again finds the permit, not the timeout.
WaitTimesOut(c) ==
    /\ HasTimeouts
    /\ pc[c] = "waiting"
    /\ LeaveQueue(c, "poolErr")
    /\ UNCHANGED <<conn, idle, dead, noticed, backend>>

\* @mutant an idle connection is lent without leaving the idle list
TakeIdleShared(c) ==
    /\ pc[c] = "granted"
    /\ \E k \in idle : conn' = [conn EXCEPT ![c] = k]
    /\ pc' = [pc EXCEPT ![c] = "recycling"]
    /\ UNCHANGED <<waiters, permits, idle, dead, noticed, backend>>

\* With a permit, an idle connection is taken out of the list and recycled.
TakeIdle(c) ==
    /\ pc[c] = "granted"
    /\ \E k \in idle :
          /\ idle' = idle \ {k}
          /\ conn' = [conn EXCEPT ![c] = k]
    /\ pc' = [pc EXCEPT ![c] = "recycling"]
    /\ UNCHANGED <<waiters, permits, dead, noticed, backend>>

\* @mutant a new connection is opened although an idle one is left
StartCreateEagerly(c) ==
    /\ pc[c] = "granted"
    /\ pc' = [pc EXCEPT ![c] = "creating"]
    /\ UNCHANGED <<conn, waiters, permits, idle, dead, noticed, backend>>

\* Only when the list is empty is a new connection opened.
StartCreate(c) ==
    /\ pc[c] = "granted"
    /\ idle = {}
    /\ pc' = [pc EXCEPT ![c] = "creating"]
    /\ UNCHANGED <<conn, waiters, permits, idle, dead, noticed, backend>>

\* Does recycle find connection k usable?
RecycleOk(k) == k \notin (IF Probes THEN dead ELSE noticed)

Recycled(c) ==
    /\ pc[c] = "recycling"
    /\ RecycleOk(conn[c])
    /\ pc' = [pc EXCEPT ![c] = "running"]
    /\ UNCHANGED <<conn, waiters, permits, idle, dead, noticed, backend>>

\* recycle fails: the connection is closed and the caller, which keeps its
\* permit, goes back to the idle list.  A probe may also fail on a link that
\* is still up.
Discard(c) ==
    /\ pc[c] = "recycling"
    /\ Probes \/ ~RecycleOk(conn[c])
    /\ Forget(conn[c])
    /\ conn' = [conn EXCEPT ![c] = NoConn]
    /\ pc' = [pc EXCEPT ![c] = "granted"]
    /\ UNCHANGED <<waiters, permits, idle, backend>>

Created(c) ==
    /\ pc[c] = "creating"
    /\ \E k \in Conns \ Open : conn' = [conn EXCEPT ![c] = k]
    /\ pc' = [pc EXCEPT ![c] = "running"]
    /\ UNCHANGED <<waiters, permits, idle, dead, noticed, backend>>

\* The backend refuses the connection or, with timeouts, the create times out.
CreateFails(c) ==
    /\ pc[c] = "creating"
    /\ Release(c, "poolErr")
    /\ UNCHANGED <<conn, idle, dead, noticed, backend>>

-----------------------------------------------------------------------------
(* The statement, and the drop of the connection at the end of the call.   *)

\* The handle is dropped: the connection goes back to the idle list, with no
\* look at its state, and the permit is released.
GiveBack(c, outcome) ==
    /\ idle' = idle \union {conn[c]}
    /\ conn' = [conn EXCEPT ![c] = NoConn]
    /\ Release(c, outcome)
    /\ UNCHANGED <<dead, noticed, backend>>

QueryOk(c) ==
    /\ pc[c] = "running"
    /\ conn[c] \notin dead
    /\ GiveBack(c, "ok")

\* The backend reports an error, the link is down, or a row does not convert.
QueryFails(c) ==
    /\ pc[c] = "running"
    /\ GiveBack(c, "queryErr")

-----------------------------------------------------------------------------
(* The future is dropped before it is done, by whoever owns it.            *)

\* @mutant a call dropped while a permit is on its way to it keeps the permit
DropLeaksGrant(c) ==
    \/ /\ pc[c] = "waiting"
       /\ LeaveQueue(c, "dropped")
       /\ UNCHANGED <<conn, idle, dead, noticed, backend>>
    \/ /\ pc[c] \in {"granted", "creating"}
       /\ pc' = [pc EXCEPT ![c] = "dropped"]
       /\ UNCHANGED <<conn, waiters, permits, idle, dead, noticed, backend>>
    \/ /\ pc[c] = "running"
       /\ GiveBack(c, "dropped")

Drop(c) ==
    \/ /\ pc[c] = "waiting"
       /\ LeaveQueue(c, "dropped")
       /\ UNCHANGED <<conn, idle, dead, noticed, backend>>
    \/ /\ pc[c] \in {"granted", "creating"}
       /\ Release(c, "dropped")
       /\ UNCHANGED <<conn, idle, dead, noticed, backend>>
    \/ /\ pc[c] = "recycling"        \* only a probe suspends here; the
       /\ Probes                      \* half-recycled connection is closed
       /\ Release(c, "dropped")
       /\ Forget(conn[c])
       /\ conn' = [conn EXCEPT ![c] = NoConn]
       /\ UNCHANGED <<idle, backend>>
    \/ /\ pc[c] = "running"
       /\ GiveBack(c, "dropped")

-----------------------------------------------------------------------------
(* The environment.                                                        *)

\* The backend, or the network, stops serving an open connection.
ConnectionDies(k) ==
    /\ k \in Open \ dead
    /\ dead' = dead \union {k}
    /\ UNCHANGED <<pc, conn, waiters, permits, idle, noticed, backend>>

\* tokio-postgres reads each connection in a task of its own, which sees the
\* link go down some time after it did.
NoticeClosed(k) ==
    /\ ~Probes
    /\ k \in dead \ noticed
    /\ noticed' = noticed \union {k}
    /\ UNCHANGED <<pc, conn, waiters, permits, idle, dead, backend>>

-----------------------------------------------------------------------------
(* What the runtime does on its own, and what waits for the backend.       *)
LocalStep(c)   == TakeIdle(c) \/ StartCreate(c) \/ WaitTimesOut(c)
BackendStep(c) == Recycled(c) \/ Discard(c) \/ Created(c) \/ CreateFails(c)
                    \/ QueryOk(c) \/ QueryFails(c)
CallStep(c)    == LocalStep(c) \/ BackendStep(c)
LinkStep       == \E k \in Conns : ConnectionDies(k) \/ NoticeClosed(k)

Next ==
    \/ \E c \in Callers : Get(c) \/ CallStep(c) \/ Drop(c)
    \/ LinkStep

Spec == Init /\ [][Next]_poolVars

\* Woken futures are polled and timers fire.
LocalFairness == \A c \in Callers : WF_poolVars(LocalStep(c))
\* SQL Server answers, in one way or another, whatever it is asked: nothing in
\* that driver would end a wait for it.  PostgreSQL may never answer.
BackendFairness ==
    \A c \in Callers : WF_poolVars(~HasTimeouts /\ BackendStep(c))

FairSpec == Spec /\ LocalFairness /\ BackendFairness

-----------------------------------------------------------------------------
(* Correctness.                                                            *)

\* Every variable has its type, and a caller holds a connection exactly while
\* it recycles one or runs its statement on one (pool.get, connection drop).
TypeOK ==
    /\ pc \in [Callers -> States]
    /\ conn \in [Callers -> Conns \union {NoConn}]
    /\ waiters \in Seq(Callers)
    /\ permits \in 0..MaxConnections
    /\ idle \subseteq Conns
    /\ noticed \subseteq dead
    /\ dead \subseteq Open
    /\ \A c \in Callers : conn[c] # NoConn <=> pc[c] \in {"recycling", "running"}

\* No permit is lost or made up: over every end a call can come to (success,
\* failure, timeout, future dropped at any point), the free permits and the
\* callers that own one add up to max_connections.
PermitAccounting == permits + Cardinality(PermitOwners) = MaxConnections

\* README: max_connections is a hard ceiling on concurrent connections.
\* Idle connections, lent ones and those being opened count together.
PoolBound == Cardinality(idle) + Cardinality(InState(Busy)) <= MaxConnections

\* A connection serves one caller at a time: it is never lent to two, nor idle
\* and lent at once (the drivers run statements on it without a further lock).
ExclusiveLoan ==
    /\ \A c, d \in Callers : conn[c] # NoConn /\ conn[c] = conn[d] => c = d
    /\ \A c \in Callers : conn[c] \notin idle

\* The queue is exactly the callers that wait, each once, and nobody waits
\* while a permit is free: a wake-up is never lost (query: pool.get().await).
WorkConserving ==
    /\ \A i, j \in DOMAIN waiters : waiters[i] = waiters[j] => i = j
    /\ {waiters[i] : i \in DOMAIN waiters} = InState({"waiting"})
    /\ permits > 0 => waiters = <<>>

\* A caller does not wait for ever for a connection, however long the calls
\* that go before it keep coming (query: "waiting up to the configured
\* timeout"; with no timeout, because the queue is fair and calls come to an
\* end).
WaitEnds == \A c \in Callers : pc[c] = "waiting" ~> pc[c] # "waiting"

=============================================================================
