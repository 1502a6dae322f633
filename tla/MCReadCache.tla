---------------------------- MODULE MCReadCache ----------------------------
\* A process with two threads, one with a single thread, and one without, which
\* opens, sweeps, forks, closes and dies between them.
EXTENDS ReadCache

CONSTANTS two, one, none

MCThread == {<<two, 1>>, <<two, 2>>, <<one, 1>>}
MCSessions == [x \in Process |-> IF x = two THEN 2 ELSE 1]

\* One process reads at a time and one dies at most; the second thread of two
\* reads while that process is alone; the third process comes when nothing is pruned,
\* no session was begun twice and no read met a close.
Focus ==
    /\ ~Reading(two) \/ ~Reading(one)
    /\ pc[<<two, 2>>] = "idle" \/ (mode[one] = "new" /\ mode[none] = "new")
    /\ mode[none] = "new" \/ (named[two] < 2 /\ late = {} /\ stored = Artifact)
    /\ Cardinality({x \in Process : mode[x] = "dead"}) <= 1
=============================================================================
