\* Two clients of one provider; tokens shorter and longer than the buffer.
CONSTANTS
    Clients = {c1, c2}
    Sources = 2
    Buffer = 1
    Fallback = 2
    Lifetimes = {1, 3}
    MaxTime = 3
SPECIFICATION FairSpec
INVARIANTS TypeOK HitLastsBuffer AllSourcesTried
PROPERTIES GetTokenReturns
