\* Three processes make four attempts in all, so that retries follow a race or
\* a death; the stamp is older, missing, current or newer.
SPECIFICATION Spec
CONSTANTS
    Process = {p, q, r}
    Setting = {rules, delta}
    Lists = {rules}
    Value = {usual, other}
    Usual = usual
    Request <- MCRequest
    Default <- MCDefault
    None = None
    Current = 1
    Stamp <- MCStamp
    MaxTries = 4
SYMMETRY Interchangeable
INVARIANTS TypeOK PolicyAgrees RefusesOnlyForeign FailsOnlyIfRaced
PROPERTY FoundIsKept
CHECK_DEADLOCK FALSE
