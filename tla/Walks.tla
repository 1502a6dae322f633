------------------------------- MODULE Walks -------------------------------
(***************************************************************************)
(* The walks over the lineage graph that ancestree does in Python, on rows *)
(* it has fetched: the order of a lineage (metadata_store.py), the columns *)
(* of the explorer (web/graph.py) and the list a prune deletes             *)
(* (maintenance.py). A graph is a set of pairs <<child, parent>>; a walk   *)
(* is a function of the number of turns its loop has made.                 *)
(***************************************************************************)
EXTENDS Integers, SequencesExt

Above(E, n) == {e[2] : e \in {d \in E : d[1] = n}}
Below(E, n) == {e[1] : e \in {d \in E : d[2] = n}}
Ends(E) == {e[1] : e \in E} \union {e[2] : e \in E}

-----------------------------------------------------------------------------
(* lineage(): a depth-first walk with an explicit stack.                   *)

EmittedFirst(E, w) ==
    LET n == Last(w.stack).node
        parents == SetToSeq(Above(E, n) \ w.done)
        pushed == [i \in 1..Len(parents) |-> [node |-> parents[i], expanded |-> FALSE]]
    IN  [w EXCEPT !.stack = Front(@) \o pushed, !.done = @ \union {n},
                  !.order = IF n \in w.done THEN @ ELSE Append(@, n)]

\* A node is popped twice: first its parents go on the stack above it, then
\* it is emitted. One that is open already, and not yet emitted, is a cycle.
LineageTurn(E, w) ==
    LET top == Last(w.stack)
        n == top.node
        rest == Front(w.stack)
        parents == SetToSeq(Above(E, n) \ w.done)
        pushed == [i \in 1..Len(parents) |-> [node |-> parents[i], expanded |-> FALSE]]
    IN  CASE n \in w.done -> [w EXCEPT !.stack = rest]
          [] n \notin w.done /\ top.expanded ->
                [w EXCEPT !.stack = rest, !.open = @ \ {n},
                          !.done = @ \union {n}, !.order = Append(@, n)]
          [] n \in w.open \ w.done /\ ~top.expanded ->
                [w EXCEPT !.stack = <<>>, !.cyclic = TRUE]
          [] OTHER ->
                [w EXCEPT !.open = @ \union {n},
                          !.stack = rest \o <<[node |-> n, expanded |-> TRUE]>> \o pushed]

\* A node comes on the stack once for the start and for each edge, and its
\* marker once.
LineageWalk(E, start) ==
    LET turns == 2 * Cardinality(E) + 2
        walk[k \in 0..turns] ==
            IF k = 0
            THEN [stack |-> <<[node |-> start, expanded |-> FALSE]>>, open |-> {},
                  done |-> {}, order |-> <<>>, cyclic |-> FALSE]
            ELSE IF walk[k - 1].stack = <<>> THEN walk[k - 1]
            ELSE LineageTurn(E, walk[k - 1])
    IN  walk[turns]

-----------------------------------------------------------------------------
(* Kahn's algorithm, as assign_levels() and Pruner.plan() use it.          *)

KahnStart(N, E) ==
    [ready |-> {n \in N : Above(E, n) = {}}, order |-> <<>>,
     indegree |-> [n \in N |-> Cardinality(Above(E, n))],
     level |-> [n \in N |-> 0]]

\* The next ready node counts for its children; which one the loop pops
\* depends on the order of the rows.
KahnTurn(E, w) ==
    LET n == CHOOSE r \in w.ready : TRUE
        kids == Below(E, n)
    IN  [ready |-> (w.ready \ {n}) \union {c \in kids : w.indegree[c] = 1},
         order |-> Append(w.order, n),
         indegree |-> [c \in DOMAIN w.indegree |->
                         w.indegree[c] - (IF c \in kids THEN 1 ELSE 0)],
         level |-> [c \in DOMAIN w.level |->
                      IF c \in kids THEN Max({w.level[c], w.level[n] + 1})
                      ELSE w.level[c]]]

Kahn(N, E) ==
    LET walk[k \in 0..Cardinality(N)] ==
            IF k = 0 THEN KahnStart(N, E)
            ELSE IF walk[k - 1].ready = {} THEN walk[k - 1]
            ELSE KahnTurn(E, walk[k - 1])
    IN  walk[Cardinality(N)]

\* The column of every node, and of every node only an edge names.
Levels(N, E) == Kahn(N \union Ends(E), E).level

\* The rows a prune deletes, children first: going down the region, the
\* target and each node all of whose parents are going.
PruneList(region, above, target) ==
    LET inside == {e \in region \X region : e[2] \in above[e[1]]}
        topo == Kahn(region, inside).order
        Goes(n, doomed) == n = target \/ above[n] \subseteq doomed
        list[k \in 0..Len(topo)] ==
            IF k = 0 THEN <<>>
            ELSE IF Goes(topo[k], Range(list[k - 1])) THEN <<topo[k]>> \o list[k - 1]
            ELSE list[k - 1]
    IN  list[Len(topo)]

-----------------------------------------------------------------------------
(* What the walks are to compute, without a loop.                          *)

\* The least set that holds start and is closed under E (parents or children).
Closure(Id, Step(_), start) ==
    CHOOSE S \in SUBSET Id :
        /\ start \in S
        /\ \A n \in S : Step(n) \subseteq S
        /\ \A T \in SUBSET S : (start \in T /\ \A n \in T : Step(n) \subseteq T) => T = S

AncestorsIn(Id, E, n) == LET Up(m) == Above(E, m) IN Closure(Id, Up, n)
DescendantsIn(Id, E, n) == LET Down(m) == Below(E, m) IN Closure(Id, Down, n)

\* seq lists the set S, each element once and after all its parents in E.
ListsInOrder(seq, S, E) ==
    /\ Range(seq) = S
    /\ Len(seq) = Cardinality(S)
    /\ \A i, j \in 1..Len(seq) : <<seq[i], seq[j]>> \in E => j < i

\* Columns are longest paths: one more than the deepest parent's.
LongestPaths(level, E) ==
    \A n \in DOMAIN level :
        level[n] = IF Above(E, n) = {} THEN 0
                   ELSE 1 + Max({level[p] : p \in Above(E, n)})
=============================================================================
