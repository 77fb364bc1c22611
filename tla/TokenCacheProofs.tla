-------------------------- MODULE TokenCacheProofs --------------------------
(***************************************************************************)
(* For every set of clients, every buffer, and tokens of any lifetime: the *)
(* types, what a cache hit promises, and what a refusal means.             *)
(***************************************************************************)
EXTENDS TokenCache, SequenceTheorems, TLAPS

\* Before a client has a token it carries no mark of a hit, and a fetch still
\* has a source to ask.
Stages ==
    \A c \in Clients :
        /\ st[c] \notin {"login", "connected"} => hitAt[c] = -1
        /\ hitAt[c] = -1 \/ hitAt[c] \in Nat
        /\ st[c] \in {"idle", "reading", "checking", "fetching"} => failed[c] < Sources
        /\ st[c] = "error" => failed[c] = Sources

\* A token whose end is known is trusted exactly to that end.
Honest(t) == t.known => t.until = t.expires

\* A token that was a hit had more than Buffer to go.
Hits ==
    /\ Honest(cache)
    /\ \A c \in Clients :
          /\ Honest(tok[c])
          /\ hitAt[c] >= 0 => hitAt[c] + Buffer < tok[c].until

Inv == TypeOK /\ Stages /\ Hits

LEMMA InitInv == Init => Inv
<1> SUFFICES ASSUME Init PROVE Inv
  OBVIOUS
<1> USE TokenAssumption DEF Init
<1>1. TypeOK
  BY DEF TypeOK, Tokens, NoToken, States, InCall
<1>2. Stages
  BY DEF Stages
<1>3. Hits
  BY DEF Hits, Honest, NoToken
<1> QED BY <1>1, <1>2, <1>3 DEF Inv

LEMMA QueueKept ==
    ASSUME queue \in Seq(Clients), NEW c \in Clients, LeaveQueue(c)
    PROVE  queue' \in Seq(Clients)
<1>1. PICK i \in 1..Len(queue) : queue' = SubSeq(queue, 1, i - 1) \o SubSeq(queue, i + 1, Len(queue))
  BY LenProperties DEF LeaveQueue, RemoveAt
<1>2. SubSeq(queue, 1, i - 1) \in Seq(Clients) /\ SubSeq(queue, i + 1, Len(queue)) \in Seq(Clients)
  BY LenProperties, SubSeqProperties
<1> QED
  BY <1>1, <1>2

LEMMA TypeStep == Inv /\ [Next]_vars => TypeOK'
<1> SUFFICES ASSUME Inv, [Next]_vars PROVE TypeOK'
  OBVIOUS
<1> USE TokenAssumption DEF Inv, TypeOK, Stages, States, InCall
<1>0. ASSUME NEW c \in Clients, Ask(c) PROVE TypeOK'
  BY <1>0 DEF Ask
<1>1. ASSUME NEW c \in Clients, Read(c) PROVE TypeOK'
  BY <1>1, QueueKept DEF Read
<1>2. ASSUME NEW c \in Clients, Hit(c) PROVE TypeOK'
  BY <1>2 DEF Hit
<1>3. ASSUME NEW c \in Clients, Miss(c) PROVE TypeOK'
  BY <1>3 DEF Miss
<1>4. ASSUME NEW c \in Clients, SourceAnswers(c) PROVE TypeOK'
  <2>1. PICK l \in Lifetimes, known \in BOOLEAN :
           tok' = [tok EXCEPT ![c] =
                     [expires |-> now + l,
                      until   |-> IF known THEN now + l ELSE now + Fallback,
                      known   |-> known]]
    BY <1>4 DEF SourceAnswers
  <2>2. l \in Nat
    OBVIOUS
  <2>3. [expires |-> now + l, until |-> IF known THEN now + l ELSE now + Fallback,
         known |-> known] \in Tokens
    BY <2>2 DEF Tokens
  <2>4. tok' \in [Clients -> Tokens]
    BY <2>1, <2>3
  <2> QED BY <1>4, <2>4 DEF SourceAnswers
<1>5. ASSUME NEW c \in Clients, SourceFails(c) PROVE TypeOK'
  <2>1. failed'[c] = failed[c] + 1 /\ failed' \in [Clients -> 0..Sources]
    BY <1>5 DEF SourceFails
  <2> QED BY <1>5, <2>1 DEF SourceFails
<1>6. ASSUME NEW c \in Clients, Store(c) PROVE TypeOK'
  BY <1>6 DEF Store
<1>7. ASSUME NEW c \in Clients, LoggedIn(c) PROVE TypeOK'
  BY <1>7 DEF LoggedIn
<1>8. ASSUME NEW c \in Clients, Close(c) PROVE TypeOK'
  BY <1>8, QueueKept DEF Close, NoToken, Tokens
<1>9. CASE Tick
  BY <1>9 DEF Tick
<1>10. CASE UNCHANGED vars
  BY <1>10 DEF vars
<1> QED BY <1>0, <1>1, <1>2, <1>3, <1>4, <1>5, <1>6, <1>7, <1>8, <1>9, <1>10
        DEF Next, GetToken

LEMMA StagesStep == Inv /\ [Next]_vars => Stages'
<1> SUFFICES ASSUME Inv, [Next]_vars PROVE Stages'
  OBVIOUS
<1> USE TokenAssumption DEF Inv, TypeOK, Stages, States, InCall
<1>0. ASSUME NEW c \in Clients, Ask(c) PROVE Stages'
  BY <1>0 DEF Ask
<1>1. ASSUME NEW c \in Clients, Read(c) PROVE Stages'
  BY <1>1 DEF Read
<1>2. ASSUME NEW c \in Clients, Hit(c) PROVE Stages'
  BY <1>2 DEF Hit
<1>3. ASSUME NEW c \in Clients, Miss(c) PROVE Stages'
  BY <1>3 DEF Miss
<1>4. ASSUME NEW c \in Clients, SourceAnswers(c) PROVE Stages'
  BY <1>4 DEF SourceAnswers
<1>5. ASSUME NEW c \in Clients, SourceFails(c) PROVE Stages'
  BY <1>5 DEF SourceFails
<1>6. ASSUME NEW c \in Clients, Store(c) PROVE Stages'
  BY <1>6 DEF Store
<1>7. ASSUME NEW c \in Clients, LoggedIn(c) PROVE Stages'
  BY <1>7 DEF LoggedIn
<1>8. ASSUME NEW c \in Clients, Close(c) PROVE Stages'
  BY <1>8 DEF Close
<1>9. CASE Tick
  BY <1>9 DEF Tick
<1>10. CASE UNCHANGED vars
  BY <1>10 DEF vars
<1> QED BY <1>0, <1>1, <1>2, <1>3, <1>4, <1>5, <1>6, <1>7, <1>8, <1>9, <1>10
        DEF Next, GetToken

LEMMA HitsStep == Inv /\ [Next]_vars => Hits'
<1> SUFFICES ASSUME Inv, [Next]_vars PROVE Hits'
  OBVIOUS
<1> USE TokenAssumption DEF Inv, TypeOK, Stages, States, InCall, Hits
<1>0. ASSUME NEW c \in Clients, Ask(c) PROVE Hits'
  BY <1>0 DEF Ask
<1>1. ASSUME NEW c \in Clients, Read(c) PROVE Hits'
  BY <1>1 DEF Read
<1>2. ASSUME NEW c \in Clients, Hit(c) PROVE Hits'
  BY <1>2 DEF Hit, IsValid
<1>3. ASSUME NEW c \in Clients, Miss(c) PROVE Hits'
  BY <1>3 DEF Miss
<1>4. ASSUME NEW c \in Clients, SourceAnswers(c) PROVE Hits'
  <2>1. hitAt[c] = -1 /\ hitAt' = hitAt /\ cache' = cache
    BY <1>4 DEF SourceAnswers
  <2>2. Honest(tok'[c]) /\ \A d \in Clients \ {c} : tok'[d] = tok[d]
    BY <1>4 DEF SourceAnswers, Honest
  <2>3. Honest(cache')
    BY <2>1 DEF Honest
  <2>4. ASSUME NEW d \in Clients
        PROVE  Honest(tok'[d]) /\ (hitAt'[d] >= 0 => hitAt'[d] + Buffer < tok'[d].until)
    <3>1. CASE d = c
      BY <2>1, <2>2, <3>1
    <3>2. CASE d # c
      BY <2>1, <2>2, <3>2 DEF Honest
    <3> QED
      BY <3>1, <3>2
  <2> QED BY <2>3, <2>4
<1>5. ASSUME NEW c \in Clients, SourceFails(c) PROVE Hits'
  BY <1>5 DEF SourceFails
<1>6. ASSUME NEW c \in Clients, Store(c) PROVE Hits'
  BY <1>6 DEF Store
<1>7. ASSUME NEW c \in Clients, LoggedIn(c) PROVE Hits'
  BY <1>7 DEF LoggedIn
<1>8. ASSUME NEW c \in Clients, Close(c) PROVE Hits'
  BY <1>8 DEF Close, NoToken, Honest
<1>9. CASE Tick
  BY <1>9 DEF Tick
<1>10. CASE UNCHANGED vars
  BY <1>10 DEF vars
<1> QED BY <1>0, <1>1, <1>2, <1>3, <1>4, <1>5, <1>6, <1>7, <1>8, <1>9, <1>10
        DEF Next, GetToken

LEMMA InvAlways == Spec => []Inv
<1>1. Inv /\ [Next]_vars => Inv'
  BY TypeStep, StagesStep, HitsStep DEF Inv
<1> QED BY InitInv, <1>1, PTL DEF Spec

-----------------------------------------------------------------------------
\* The provider keeps its types, and a client holds the read guard exactly
\* while it looks at the cache: never across the refresh (get_token).
THEOREM TypeCorrect == Spec => []TypeOK
<1>1. Inv => TypeOK
  BY DEF Inv
<1> QED BY <1>1, InvAlways, PTL

\* A token taken from the cache lasts for the buffer at least, however the
\* clients interleave their refreshes (CachedToken::is_valid).
THEOREM HitsLastBuffer == Spec => []HitLastsBuffer
<1>1. Inv => HitLastsBuffer
  <2> SUFFICES ASSUME Inv, NEW c \in Clients,
                      st[c] \in {"login", "connected"}, hitAt[c] >= 0, tok[c].known,
                      now <= hitAt[c] + Buffer
               PROVE  now < tok[c].expires
    BY DEF HitLastsBuffer
  <2>1. hitAt[c] + Buffer < tok[c].until /\ tok[c].until = tok[c].expires
    BY DEF Inv, Hits, Honest
  <2>2. /\ hitAt[c] \in Int /\ now \in Int /\ Buffer \in Int
        /\ tok[c].expires \in Int
    BY TokenAssumption DEF Inv, TypeOK, Tokens
  <2> QED BY <2>1, <2>2
<1> QED BY <1>1, InvAlways, PTL

\* No client is refused a token while a source has not been asked
\* (ChainedCredential::get_token).
THEOREM RefusedOnlyByAll == Spec => []AllSourcesTried
<1>1. Inv => AllSourcesTried
  BY DEF Inv, Stages, AllSourcesTried
<1> QED BY <1>1, InvAlways, PTL

=============================================================================
