----------------------------- MODULE TokenCache -----------------------------
(***************************************************************************)
(* AzureTokenProvider, shared by all connections of a SQL Server pool:     *)
(*                                                                         *)
(*     { let cache = self.cache.read().await;                              *)
(*       if cached.is_valid() { return Ok(cached.token.clone()); } }       *)
(*     self.refresh_token().await                                          *)
(*                                                                         *)
(* refresh_token asks the credential (for the default one, a chain of      *)
(* sources), then takes the write lock and overwrites the cache.  A client *)
(* is one MssqlManager::new_client: it gets a token, logs in with it, and  *)
(* the connection then runs queries.  Several clients are created at the   *)
(* same time and move at every await; time passes between any two steps.   *)
(*                                                                         *)
(* Time is counted in units of which TOKEN_REFRESH_BUFFER_SECS is Buffer;  *)
(* the cache's lock is tokio's RwLock, whose queue readers and writers     *)
(* share: a reader waits for the writers that came before it, a writer for *)
(* everybody who did.  A client's future may be dropped at any await.      *)
(***************************************************************************)
EXTENDS Integers, FiniteSets, SequencesExt

CONSTANTS
    Clients,        \* connections being created or in use
    Sources,        \* how many credentials the chain holds
    Buffer,         \* TOKEN_REFRESH_BUFFER_SECS
    Fallback,       \* assumed lifetime when the credential names none (3600)
    Lifetimes,      \* remaining lifetimes the credential may answer with
    MaxTime         \* bound on the clock

ASSUME TokenAssumption ==
    /\ Sources \in Nat \ {0}
    /\ Buffer \in Nat
    /\ Fallback \in Nat
    /\ Lifetimes \subseteq Nat
    /\ MaxTime \in Nat

VARIABLES
    now,        \* SystemTime::now()
    cache,      \* the cached token, or NoToken
    st,         \* st[c]: where client c is
    tok,        \* tok[c]: the token c has fetched or been given, or NoToken
    failed,     \* failed[c]: how many sources have failed c's fetch
    queue,      \* clients that wait for the lock, the first to be served first
    readers,    \* clients that hold the read guard
    hitAt       \* hitAt[c]: when c took its token from the cache, or -1

vars == <<now, cache, st, tok, failed, queue, readers, hitAt>>

\* A token ends at "expires", or nobody knows when; the cache trusts it until
\* "until".
NoToken   == [expires |-> 0, until |-> -1, known |-> FALSE]
Tokens    == [expires : Nat, until : Int, known : BOOLEAN]

\* No call, waiting for the read lock, under its guard, waiting for a source,
\* waiting for the write lock, logging in with the token, in use, refused.
InCall == {"reading", "checking", "fetching", "storing"}
States == {"idle", "login", "connected", "error"} \union InCall

Init ==
    /\ now = 0
    /\ cache = NoToken
    /\ st = [c \in Clients |-> "idle"]
    /\ tok = [c \in Clients |-> NoToken]
    /\ failed = [c \in Clients |-> 0]
    /\ queue = <<>>
    /\ readers = {}
    /\ hitAt = [c \in Clients |-> -1]

-----------------------------------------------------------------------------
\* @mutant a token is used to its last second
IsValidToTheEnd(t) == now < t.until

\* CachedToken::is_valid; no cached token is a token that never was valid.
IsValid(t) == now + Buffer < t.until

LeaveQueue(c) ==
    \E i \in DOMAIN queue : queue[i] = c /\ queue' = RemoveAt(queue, i)

\* A client is created and calls get_token: self.cache.read().
Ask(c) ==
    /\ st[c] = "idle"
    /\ st' = [st EXCEPT ![c] = "reading"]
    /\ queue' = Append(queue, c)
    /\ UNCHANGED <<now, cache, tok, failed, readers, hitAt>>

\* The read lock: no writer is in the queue before c.
Read(c) ==
    /\ st[c] = "reading"
    /\ \E i \in DOMAIN queue :
          /\ queue[i] = c
          /\ \A j \in 1..(i - 1) : st[queue[j]] # "storing"
    /\ LeaveQueue(c)
    /\ st' = [st EXCEPT ![c] = "checking"]
    /\ readers' = readers \union {c}
    /\ UNCHANGED <<now, cache, tok, failed, hitAt>>

\* The cached token is good: it is cloned and the guard goes.
Hit(c) ==
    /\ st[c] = "checking"
    /\ IsValid(cache)
    /\ st' = [st EXCEPT ![c] = "login"]
    /\ tok' = [tok EXCEPT ![c] = cache]
    /\ hitAt' = [hitAt EXCEPT ![c] = now]
    /\ readers' = readers \ {c}
    /\ UNCHANGED <<now, cache, failed, queue>>

\* @mutant the read guard lives until refresh_token returns
MissKeepsGuard(c) ==
    /\ st[c] = "checking"
    /\ ~IsValid(cache)
    /\ st' = [st EXCEPT ![c] = "fetching"]
    /\ UNCHANGED <<now, cache, tok, failed, queue, readers, hitAt>>

\* It is not: the guard goes at the end of its block, before the refresh.
Miss(c) ==
    /\ st[c] = "checking"
    /\ ~IsValid(cache)
    /\ st' = [st EXCEPT ![c] = "fetching"]
    /\ readers' = readers \ {c}
    /\ UNCHANGED <<now, cache, tok, failed, queue, hitAt>>

\* A source of the chain answers with a token, which need not be a new one.
\* A lifetime the credential does not name is taken to be Fallback.
SourceAnswers(c) ==
    /\ st[c] = "fetching"
    /\ \E l \in Lifetimes, known \in BOOLEAN :
          tok' = [tok EXCEPT ![c] =
                     [expires |-> now + l,
                      until   |-> IF known THEN now + l ELSE now + Fallback,
                      known   |-> known]]
    /\ st' = [st EXCEPT ![c] = "storing"]
    /\ queue' = Append(queue, c)
    /\ UNCHANGED <<now, cache, failed, readers, hitAt>>

\* @mutant the chain gives up on the first source that fails
FirstSourceFails(c) ==
    /\ st[c] = "fetching"
    /\ failed' = [failed EXCEPT ![c] = @ + 1]
    /\ st' = [st EXCEPT ![c] = "error"]
    /\ UNCHANGED <<now, cache, tok, queue, readers, hitAt>>

\* A source fails: the next one is asked, and after the last its error stands.
SourceFails(c) ==
    /\ st[c] = "fetching"
    /\ failed' = [failed EXCEPT ![c] = @ + 1]
    /\ st' = [st EXCEPT ![c] = IF failed[c] + 1 = Sources THEN "error" ELSE "fetching"]
    /\ UNCHANGED <<now, cache, tok, queue, readers, hitAt>>

\* refresh_token: the write lock, the overwrite and the return.
Store(c) ==
    /\ st[c] = "storing"
    /\ readers = {}
    /\ queue # <<>> /\ Head(queue) = c
    /\ queue' = Tail(queue)
    /\ cache' = tok[c]
    /\ st' = [st EXCEPT ![c] = "login"]
    /\ UNCHANGED <<now, tok, failed, readers, hitAt>>

\* The login with the token succeeds, or the connection is not made.
LoggedIn(c) ==
    /\ st[c] = "login"
    /\ st' = [st EXCEPT ![c] = "connected"]
    /\ UNCHANGED <<now, cache, tok, failed, queue, readers, hitAt>>

\* The client is done with: closed, failed, or its creation dropped at an
\* await.  Another may take its place.
Close(c) ==
    /\ \/ st[c] \in {"fetching", "login", "connected", "error"} /\ UNCHANGED queue
       \/ st[c] \in {"reading", "storing"} /\ LeaveQueue(c)
    /\ st' = [st EXCEPT ![c] = "idle"]
    /\ tok' = [tok EXCEPT ![c] = NoToken]
    /\ failed' = [failed EXCEPT ![c] = 0]
    /\ hitAt' = [hitAt EXCEPT ![c] = -1]
    /\ UNCHANGED <<now, cache, readers>>

Tick ==
    /\ now < MaxTime
    /\ now' = now + 1
    /\ UNCHANGED <<cache, st, tok, failed, queue, readers, hitAt>>

GetToken(c) ==
    Read(c) \/ Hit(c) \/ Miss(c) \/ SourceAnswers(c) \/ SourceFails(c) \/ Store(c)

Next == (\E c \in Clients : Ask(c) \/ GetToken(c) \/ LoggedIn(c) \/ Close(c)) \/ Tick

Spec == Init /\ [][Next]_vars

\* A client that asked for a token is polled, the lock serves its queue, and a
\* source that is asked answers; nobody is obliged to create or to close a client.
FairSpec ==
    /\ Spec
    /\ \A c \in Clients :
          /\ WF_vars(Read(c))
          /\ WF_vars(Hit(c) \/ Miss(c))
          /\ WF_vars(SourceAnswers(c) \/ SourceFails(c))
          /\ WF_vars(Store(c))

-----------------------------------------------------------------------------
(* Correctness.                                                            *)

\* Types, and the guard is held only inside the block that looks at the cache.
TypeOK ==
    /\ now \in Nat
    /\ cache \in Tokens
    /\ st \in [Clients -> States]
    /\ tok \in [Clients -> Tokens]
    /\ failed \in [Clients -> 0..Sources]
    /\ queue \in Seq(Clients)
    /\ readers = {c \in Clients : st[c] = "checking"}
    /\ hitAt \in [Clients -> Int]

\* TOKEN_REFRESH_BUFFER_SECS: a token taken from the cache, whose end the
\* credential named, does not expire for the next Buffer units, whoever
\* refreshed the cache in between.
HitLastsBuffer ==
    \A c \in Clients :
        st[c] \in {"login", "connected"} /\ hitAt[c] >= 0 /\ tok[c].known =>
            (now <= hitAt[c] + Buffer => now < tok[c].expires)

\* ChainedCredential: a token is refused only after every source failed.
AllSourcesTried ==
    \A c \in Clients : st[c] = "error" => failed[c] = Sources

\* get_token comes back, from its first await on and whatever the other clients
\* do with the lock, or is dropped by its caller ("idle").
GetTokenReturns ==
    \A c \in Clients : st[c] \in InCall ~> st[c] \in {"login", "error", "idle"}

\* README: "all pooled connections reuse one cached token instead of each
\* fetching their own": no two clients fetch at the same time.
OneFetchForAll ==
    \A c, d \in Clients : st[c] = "fetching" /\ st[d] = "fetching" => c = d

=============================================================================
