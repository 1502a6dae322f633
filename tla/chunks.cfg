CONSTANTS
    x = x
    y = y
    z = z
    s = s
    None = None
    Node = {n1, n2, n3}
    Path = {f, g}
    Reader = {r}
    Data <- MCData
    Payload <- MCPayload
    Large <- MCLarge
    Similar <- MCSimilar
    Wins <- MCWins
    Delta = TRUE
SPECIFICATION Spec
SYMMETRY Interchangeable
INVARIANTS TypeOK PoolResolves FailsOnlyIfPruned GarbageOnlyFromPrune
