\* Clients that find the cache empty each fetch a token.
CONSTANTS
    Clients = {c1, c2}
    Sources = 2
    Buffer = 1
    Fallback = 2
    Lifetimes = {1, 3}
    MaxTime = 3
SPECIFICATION Spec
INVARIANTS OneFetchForAll
