\* Three processes over one artifact: two first reads at once, sessions that end
\* while another begins, sweeps of a dead session, forks. Focus in MCReadCache
\* says which of these meet.
SPECIFICATION Spec
CONSTANTS
    two = two
    one = one
    none = none
    Process = {two, one, none}
    Thread <- MCThread
    Artifact = {a}
    None = None
    MaxSessions <- MCSessions
CONSTRAINT Focus
INVARIANTS TypeOK PathsReadable FailsOnlyIf SweptClean LeavesNothing
CHECK_DEADLOCK FALSE
