-------------------------- MODULE QueriesInvariant -------------------------
(***************************************************************************)
(* The inductive invariant of Queries.tla, and of the walks of Walks.tla,  *)
(* in named parts. What a request has still to do is the set of statements *)
(* left, ordered by their kinds; what it has found is compared with what   *)
(* was right at some moment. Reader is most of it; Everyone, Edged and     *)
(* Walked are the rest.                                                    *)
(***************************************************************************)
EXTENDS Queries

-----------------------------------------------------------------------------
(* The walk of lineage().                                                  *)

\* A graph of numbers: parents come before their children, as they do in time.
IsGraph(N, E) ==
    /\ N \subseteq Nat
    /\ IsFiniteSet(E) /\ E \subseteq N \X N
    /\ \A e \in E : e[2] < e[1]

WalkType(N) ==
    [stack : Seq([node : N, expanded : BOOLEAN]), open : SUBSET N, done : SUBSET N,
     order : Seq(N), cyclic : BOOLEAN]

\* The top of the stack s is gone.
Popped(s, t) ==
    /\ Len(t) = Len(s) - 1
    /\ \A i \in 1..Len(s) - 1 : t[i] = s[i]

\* The top of the stack s is expanded, with the nodes of new above it.
Pushed(s, t, new) ==
    /\ Len(t) = Len(s) + Cardinality(new)
    /\ \A i \in 1..Len(s) - 1 : t[i] = s[i]
    /\ t[Len(s)] = [node |-> s[Len(s)].node, expanded |-> TRUE]
    /\ \A i \in Len(s) + 1..Len(t) : t[i].node \in new /\ ~t[i].expanded
    /\ \A p \in new : \E i \in Len(s) + 1..Len(t) : t[i].node = p

Drop(w, v, n) ==
    /\ n \in w.done
    /\ Popped(w.stack, v.stack)
    /\ v.open = w.open /\ v.done = w.done /\ v.order = w.order /\ v.cyclic = w.cyclic

Emit(w, v, n) ==
    /\ n \notin w.done /\ w.stack[Len(w.stack)].expanded
    /\ Popped(w.stack, v.stack)
    /\ v.open = w.open \ {n} /\ v.done = w.done \union {n}
    /\ v.order = Append(w.order, n) /\ v.cyclic = w.cyclic

Cyclic(w, v, n) ==
    /\ n \in w.open \ w.done /\ ~w.stack[Len(w.stack)].expanded
    /\ v = [w EXCEPT !.stack = <<>>, !.cyclic = TRUE]

Expand(E, w, v, n) ==
    /\ n \notin w.open \union w.done /\ ~w.stack[Len(w.stack)].expanded
    /\ Pushed(w.stack, v.stack, Above(E, n) \ w.done)
    /\ v.open = w.open \union {n} /\ v.done = w.done
    /\ v.order = w.order /\ v.cyclic = w.cyclic

\* What is on the stack above an expanded node is older than it.
Nested(s) == \A i, j \in 1..Len(s) : i < j /\ s[i].expanded => s[j].node < s[i].node

\* The parents of an expanded node are listed or on the stack above it.
Waiting(E, s, done) ==
    \A i \in 1..Len(s) : s[i].expanded =>
        \A p \in Above(E, s[i].node) : p \in done \/ \E j \in i + 1..Len(s) : s[j].node = p

\* A node that is open is expanded on the stack, or listed.
Marked(s, open, done) ==
    \A n \in open : n \in done \/ \E i \in 1..Len(s) : s[i].expanded /\ s[i].node = n

\* The start is not lost.
Begun(s, done, start) == start \in done \/ \E i \in 1..Len(s) : s[i].node = start

ClosedUp(E, T) == \A n \in T : Above(E, n) \subseteq T

\* The walk stays where it has to go.
Inside(E, s, done, start) ==
    \A T : start \in T /\ ClosedUp(E, T) => done \subseteq T /\ \A i \in 1..Len(s) : s[i].node \in T

\* The list has what is done, each node once and after its parents.
Listing(E, order, done) ==
    /\ \A i \in 1..Len(order) : order[i] \in done
    /\ \A n \in done : \E i \in 1..Len(order) : order[i] = n
    /\ \A i, j \in 1..Len(order) : order[i] = order[j] => i = j
    /\ \A j \in 1..Len(order) : \A p \in Above(E, order[j]) : \E i \in 1..j - 1 : order[i] = p

\* The invariant of the walk.
Walking(E, w, start) ==
    /\ Nested(w.stack) /\ Waiting(E, w.stack, w.done) /\ Marked(w.stack, w.open, w.done)
    /\ Begun(w.stack, w.done, start) /\ Inside(E, w.stack, w.done, start)
    /\ ClosedUp(E, w.done) /\ Listing(E, w.order, w.done)
    /\ ~w.cyclic

\* What has an end: the walk has no more turns than there is room for.
Places(E, start) == {start} \union {e[2] : e \in E}
Passed(w) == w.open \union w.done
Room(E, start, w) == Places(E, start) \ Passed(w)
Unused(E, w) == {e \in E : e[1] \notin Passed(w)}
TurnsLeft(E, start, w) ==
    Len(w.stack) + Cardinality(Room(E, start, w)) + Cardinality(Unused(E, w))

WalkStart(start) ==
    [stack |-> <<[node |-> start, expanded |-> FALSE]>>, open |-> {},
     done |-> {}, order |-> <<>>, cyclic |-> FALSE]

-----------------------------------------------------------------------------
(* Kahn's algorithm, and the list of a prune.                              *)

KahnType(N) ==
    [ready : SUBSET N, order : Seq(N), indegree : [N -> Nat], level : [N -> Nat]]

\* n is one column behind the last of its parents in S, if it has any there.
Behind(E, level, S, n) ==
    /\ \A p \in Above(E, n) \intersect S : level[p] < level[n]
    /\ level[n] = 0 \/ \E p \in Above(E, n) \intersect S : level[n] = level[p] + 1

\* The invariant of the loop: it has counted the nodes of its order.
Counting(N, E, w) ==
    LET S == Range(w.order) IN
    /\ Listing(E, w.order, S)
    /\ w.ready = {n \in N \ S : Above(E, n) \subseteq S}
    /\ \A n \in N : w.indegree[n] = Cardinality(Above(E, n) \ S)
    /\ \A n \in N : Behind(E, w.level, S, n)

-----------------------------------------------------------------------------
(* The statements still to be made.                                        *)

Kinds ==
    {"select", "all", "copy", "term", "sift", "edges", "values", "exists", "newest", "closure",
     "kids", "row", "links", "parents", "rows", "relink", "again", "entries", "files", "bytes"}

StatementType == [do : Kinds, on : SUBSET Id]

KindsOf(op) ==
    CASE op = "find" -> {"select", "edges", "values", "links", "rows"}
      [] op = "latest" -> {"select", "edges", "values", "newest", "row", "links"}
      [] op = "lineage" -> {"exists", "closure", "links", "rows"}
      [] op = "children" -> {"exists", "kids", "links", "rows"}
      [] op = "ancestors" ->
            {"select", "edges", "values", "exists", "closure", "links", "rows"}
      [] op \in {"detail", "diff"} -> {"row", "links", "files", "entries"}
      [] op = "page" ->
            {"select", "edges", "values", "links", "rows", "relink", "again", "entries", "files"}
      [] op = "snapshot" ->
            {"select", "edges", "values", "links", "rows", "row", "files", "entries", "bytes"}
      [] op \in {"runs", "sidecars"} -> {"all", "row", "links", "files", "entries"}
      [] op = "search" -> {"all", "term", "sift", "edges", "values"}
      [] op = "stats" -> {"all", "files"}
      [] op = "backup" -> {"copy"}
      [] op = "artifacts" -> {"files", "bytes"}
      [] op = "from_parent" -> {"row", "parents", "exists", "files", "bytes"}
      [] OTHER -> {}

Rank(k) ==
    CASE k \in {"select", "all", "copy"} -> 0
      [] k = "term" -> 1
      [] k \in {"edges", "sift"} -> 2
      [] k = "values" -> 3
      [] k = "exists" -> 4
      [] k \in {"newest", "closure", "kids"} -> 5
      [] k = "row" -> 6
      [] k \in {"links", "parents"} -> 7
      [] k = "rows" -> 8
      [] k = "relink" -> 9
      [] k = "again" -> 10
      [] k \in {"entries", "files"} -> 11
      [] OTHER -> 12

\* Statements come in this order.
Before(k, l) ==
    \/ Rank(k) < Rank(l)
    \/ k \in {"edges", "sift"} /\ l \in {"edges", "sift"}
    \/ k # l /\ k \in {"entries", "files"} /\ l \in {"entries", "files"}

Sorted(s) == \A i, j \in 1..Len(s) : i < j => Before(s[i].do, s[j].do)

\* Those that change the ids.
Narrowing ==
    {"select", "all", "copy", "term", "sift", "edges", "values", "newest", "closure", "kids", "rows"}

Many == {"find", "lineage", "children", "ancestors", "page", "snapshot"}
Filtered == {"find", "latest", "ancestors", "page", "snapshot", "search"}
Rowless == {"search", "stats"} \union Artifacts
Of == {"detail", "diff", "artifacts"}  \* answer about the nodes they are given

\* What P holds, a set of statements.
Await(P, k) == \E s \in P : s.do = k
Some(P, K) == \E s \in P : s.do \in K
Leads(P, k, l) == Await(P, k) => Await(P, l)

Fits(op, of, f, s) ==
    /\ s.do \in KindsOf(op)
    /\ s.do \in {"exists", "closure", "kids", "row", "parents", "bytes"} =>
          \E n \in Id : s.on = {n}
    /\ s.do \in {"exists", "closure", "kids"} /\ op # "from_parent" => s.on = {of[1]}
    /\ s.do \in {"row", "parents"} /\ op = "from_parent" => s.on = {of[1]}
    /\ op = "artifacts" => s.on = {of[1]}
    /\ s.do \in {"relink", "again", "rows", "term", "sift", "edges", "values"} => s.on = Found
    /\ s.do = "values" => f.call # "none"
    /\ s.do = "edges" => f.parents # {}
    /\ s.do = "links" => s.on = Found \/ \E n \in Id : s.on = {n}
    /\ s.do = "links" /\ op \notin Many => s.on # Found
    /\ s.do = "links" /\ op \notin Gets => s.on = Found
    /\ s.do \in {"entries", "files"} /\ op \notin {"page", "stats"} => \E n \in Id : s.on = {n}
    /\ s.do \in {"entries", "files"} /\ op = "page" => s.on = Found
    /\ s.do = "files" /\ op = "stats" => s.on = Id

\* P reads the edges of many nodes, then their rows, and the row of one, then
\* its edges.
Reads(op, P) ==
    /\ op \in Many =>
          (Some(P, {"select", "edges", "values", "exists", "closure", "kids"}) =>
              Do("links", Found) \in P)
    /\ Do("links", Found) \in P => Do("rows", Found) \in P
    /\ op = "page" =>
          /\ Leads(P, "rows", "relink") /\ Leads(P, "relink", "again")
          /\ Leads(P, "rows", "entries") /\ Leads(P, "rows", "files")
    /\ \A n \in Id : Do("row", {n}) \in P => Do("links", {n}) \in P \/ Do("parents", {n}) \in P

\* P asks for the whole filter.
Asks(op, f, P) ==
    /\ f.parents # {} =>
          /\ Leads(P, "select", "edges") /\ Leads(P, "term", "edges")
          /\ op = "search" => Leads(P, "all", "edges")
    /\ f.call # "none" =>
          /\ Leads(P, "select", "values") /\ Leads(P, "term", "values") /\ Leads(P, "edges", "values")
          /\ op = "search" => Leads(P, "all", "values")
    /\ op = "search" /\ f.equal # {} => Leads(P, "all", "term")

Finishes(op, P) ==
    /\ op = "ancestors" =>
          Leads(P, "select", "closure") /\ Leads(P, "edges", "closure") /\ Leads(P, "exists", "closure")
    /\ op = "lineage" => Leads(P, "exists", "closure")
    /\ op = "children" => Leads(P, "exists", "kids")
    /\ op = "latest" => Leads(P, "select", "newest")
    /\ op = "from_parent" => Leads(P, "row", "parents")
    /\ op = "stats" => Leads(P, "all", "files")

\* P is about nodes of W, those a request is to answer with.
About(op, P, W) ==
    /\ op \in {"sidecars", "from_parent"} => \A s, t \in P : s.on = t.on
    /\ op = "from_parent" /\ Await(P, "exists") => ~Await(P, "parents")
    /\ op # "stats" =>
          \A s \in P : s.do \in {"row", "entries", "files"} /\ s.on # Found => ~Some(P, Narrowing)
    /\ \A s \in P : s.do \in {"row", "entries", "files"} =>
          op = "stats" \/ (op = "from_parent" /\ s.do = "row") \/ s.on \subseteq W

Planned(op, of, f, P, W) ==
    /\ \A s \in P : Fits(op, of, f, s)
    /\ Reads(op, P) /\ Asks(op, f, P) /\ Finishes(op, P) /\ About(op, P, W)

Pending == Range(q.todo)
Awaits(k) == Await(Pending, k)
Waits(k, n) == Do(k, {n}) \in Pending
Live == q.out \in {"running", "ok"}

\* The nodes a request is to answer with.
Wanted == IF q.op \in Of THEN Range(q.of) ELSE q.ids

Plan ==
    /\ Sorted(q.todo) /\ Planned(q.op, q.of, q.f, Pending, Wanted)
    /\ q.left \subseteq Wanted
    /\ q.left # {} => q.op \in Loops \union {"diff"}
    /\ q.out # "running" => q.todo = <<>>
    /\ q.todo = <<>> /\ q.out # "error" => q.left = {}

\* What is empty until P has been made.
Blank ==
    /\ Some(Pending, Narrowing \union {"parents"}) =>
          q.left = {} /\ q.edges = {} /\ q.entries = {} /\ q.files = {}
    /\ Some(Pending, Narrowing) => q.rows = {}
    /\ Some(Pending, {"select", "all", "copy", "kids", "parents"}) => q.ids = {}
    /\ q.op = "lineage" /\ Awaits("closure") => q.ids = {}
    /\ q.edges # {} => q.op \in Many

\* What a request can be asked with.
Worded(op, of, f) ==
    /\ f.equal \subseteq Asked
    /\ op \in {"lineage", "children", "detail", "ancestors"} \union Artifacts => \E n \in Id : of = <<n>>
    /\ op = "diff" => \E m, n \in Id : m # n /\ of = <<m, n>>
    /\ op \notin {"lineage", "children", "detail", "ancestors", "diff"} \union Artifacts => of = <<>>
    /\ op \notin {"find", "latest", "ancestors", "search"} => f = NoFilter
    /\ op = "search" => CanAsk(f) /\ {} \notin f.parents /\ f.call # "missing"

Question ==
    /\ Worded(q.op, q.of, q.f)
    /\ q.out = "idle" => q = Idle /\ seen = Unseen
    /\ q.out # "idle" => q.op \in Operation

AnswerType == [ok : BOOLEAN, ids : SUBSET Id, records : SUBSET (Id \X SUBSET Id)]
QueryType ==
    [op : Operation \union {"none"}, of : Seq(Id), f : FilterType, todo : Seq(StatementType),
     left : SUBSET Id, ids : SUBSET Id, order : Seq(Id), rows : SUBSET Id,
     above : [Id -> SUBSET Id], edges : SUBSET (Id \X Id), entries : SUBSET Id,
     files : SUBSET Id, out : {"idle", "running", "ok", "error"}]
SeenType ==
    [right : SUBSET AnswerType, was : SUBSET (Id \X SUBSET Id), gone : SUBSET Id,
     lacked : SUBSET Id, changes : 0..MaxChanges]

-----------------------------------------------------------------------------
(* What holds of the database, of the history, and of what was read.       *)

Stores ==
    /\ present \subseteq ever /\ ever \subseteq Id
    /\ link \subseteq present \X present
    /\ \A e \in link : e[2] < e[1]

Recorded ==
    /\ seen.gone \subseteq ever \ present
    /\ q.out # "idle" =>
          /\ AnswerNow(q.op, q.of, q.f) \in seen.right
          /\ Records(present) \subseteq seen.was
          /\ Id \ present \subseteq seen.lacked
    /\ seen.gone = {} => \A r \in seen.was : r[1] \in present /\ r[2] = Parents(r[1])

\* What was read was there at some time.
Known ==
    /\ q.ids \union q.rows \union q.entries \union q.files \subseteq present \union seen.gone
    /\ q.op = "lineage" /\ ~Awaits("exists") /\ Live => q.of[1] \in present \union seen.gone

Once(n) == \E a \in seen.right : IF q.op = "latest" THEN \A x \in a.ids : n <= x ELSE n \in a.ids
Always(n) == \A a \in seen.right : n \in a.ids
Likely(n) == q.f.call # "missing" /\ (q.f.call = "liked" => n \in Liked)
Ancestry == AncestorsIn(Id, link, q.of[1])
Excused == Newcomer \/ Rounded

There(n) == n \in present \/ q.op = "search"

\* An id that has passed the filters made so far.
Sifted(n) ==
    /\ ~Awaits("term") => Equals(n)
    /\ ~Awaits("values") /\ There(n) => Likely(n)
    /\ /\ ~Awaits("term") /\ ~Awaits("edges") /\ ~Excused
       /\ There(n) /\ Likely(n) /\ (Awaits("closure") => n \in Ancestry)
       => Once(n)

Screened ==
    q.op \in Filtered /\ Live /\ ~Awaits("select") /\ ~Awaits("all") =>
        CanAsk(q.f) /\ \A n \in q.ids : Sifted(n)

Genuine ==
    /\ q.op \in {"lineage", "children", "runs", "sidecars", "stats", "backup", "from_parent"} /\ Live =>
          \A n \in q.ids : n \in present \/ q.op # "lineage" => Once(n)
    /\ Live /\ ~Excused /\ q.op \notin {"detail", "diff"} \union Rowless => \A n \in q.rows : Once(n)
    /\ q.op \in Artifacts /\ Live => \A n \in q.files : Once(n)

Pair(n) ==
    \/ <<n, q.above[n]>> \in seen.was
    \/ q.op \in Gets /\ n \in seen.gone /\ q.above[n] = {}

\* The edges of many nodes are read before their rows, and of one node after.
Linked ==
    q.op \in Many /\ Live /\ Do("links", Found) \notin Pending =>
        \A n \in q.ids \intersect present : <<n, q.above[n]>> \in seen.was

Paired == Live => \A n \in q.rows : Awaits("again") \/ Waits("links", n) \/ Waits("parents", n) \/ Pair(n)

\* No row is read twice but for a snapshot.
Fresh ==
    /\ q.op \in {"latest", "from_parent"} /\ Awaits("row") => q.rows = {}
    /\ q.op = "sidecars" =>
          /\ \A n \in q.left : n \notin q.rows /\ ~Waits("row", n)
          /\ \A n \in q.rows : ~Waits("row", n)

\* What a request reads of each node, and what it has read.
Needed(op, k) ==
    \/ k = "row" /\ op \notin Rowless
    \/ k = "entries" /\ op \in Details
    \/ k = "files" /\ op \in Details \union {"from_parent"}

Got(k) == CASE k = "row" -> q.rows [] k = "entries" -> q.entries [] k = "files" -> q.files

Covered(n, k) ==
    \/ Awaits("newest") \/ Awaits("rows") \/ Do(k, Found) \in Pending \/ Waits(k, n)
    \/ n \in seen.gone \union q.left \union Got(k)

Every(k) == Got(k) \subseteq Wanted /\ \A n \in Wanted : Covered(n, k)

Complete == Live => \A k \in {"row", "entries", "files"} : Needed(q.op, k) => Every(k)

\* The requests that take no filter, and answer with the ids they find.
Simple == {"lineage", "children", "runs", "sidecars", "stats", "from_parent"}

\* X was the right answer at some time, with the parents its nodes have now.
Moment(X) == \E a \in seen.right : a.ok /\ a.ids = X /\ a.records = Records(X)

\* Those that will have passed when the filters to come have been made.
Remaining ==
    LET S == {n \in q.ids :
                /\ Awaits("term") => Equals(n)
                /\ Awaits("edges") => Parents(n) \in q.f.parents
                /\ Awaits("values") => Likely(n)
                /\ Awaits("closure") => n \in Ancestry}
    IN  IF Awaits("newest") THEN Newest(S) ELSE S

\* What is found is right at one moment, whichever filters are to come; so is
\* what a request without filters finds, the files of a node, the edges between
\* the rows, and the nodes with the files that are counted.
FiltersAtOnce ==
    q.op \in Filtered /\ ~Excused /\ ~Awaits("select") /\ ~Awaits("all") => Moment(Remaining)
FindsAtOnce ==
    q.op \in Simple /\ ~Some(Pending, {"closure", "kids", "all", "parents"}) => Moment(q.ids)
FilesAtOnce ==
    q.op = "artifacts" => IF Awaits("files") THEN q.files = {} ELSE Moment(q.files)
EdgesAtOnce ==
    q.op \in {"page", "snapshot"} /\ ~Awaits("rows") =>
        q.edges = {e \in q.ids \X Id : e[2] \in Parents(e[1])}
CountAtOnce ==
    q.op = "stats" =>
        IF Awaits("files") THEN q.files = {}
        ELSE q.ids \subseteq q.files /\ \E b \in seen.right : b.ids = q.files

Momentary ==
    Live /\ seen.gone = {} =>
        FiltersAtOnce /\ FindsAtOnce /\ FilesAtOnce /\ EdgesAtOnce /\ CountAtOnce

\* A backup is of one moment whatever happens.
Backed ==
    q.op = "backup" =>
        /\ q.out # "error"
        /\ ~Awaits("copy") =>
              /\ q.ids = q.rows /\ q.entries = q.rows /\ q.files = q.rows
              /\ \E a \in seen.right : a.ok /\ a.ids = q.rows /\ a.records = DeliveredRecords

Failed == q.out = "error" /\ seen.gone = {} => \E a \in seen.right : ~a.ok

\* The ids a request is about have been read.
Sought ==
    /\ \A k \in {"select", "all", "kids", "parents", "copy"} : ~Awaits(k)
    /\ q.op = "lineage" => ~Awaits("closure")

Everyone ==
    Live =>
    /\ q.op \notin Of /\ Sought /\ ~(q.op = "latest" /\ Rounded) =>
          \A n \in Id : Always(n) => n \in q.ids
    /\ q.op = "artifacts" /\ ~Awaits("files") => \A n \in Id : Always(n) => n \in q.files

QType == q \in QueryType /\ seen \in SeenType

-----------------------------------------------------------------------------
(* The walks of a request.                                                 *)

\* While nobody prunes, a lineage lists what it found, parents first.
Ordered ==
    q.op = "lineage" /\ Live /\ ~Awaits("closure") /\ seen.gone = {} =>
        ListsInOrder(q.order, q.ids, link)

\* Parents are older than their children, also those that were read.
Backward ==
    /\ \A r \in seen.was : \A p \in r[2] : p < r[1]
    /\ \A e \in q.edges : e[2] < e[1]

\* A page has the parents of what it lists, but for those that are gone.
Rooted ==
    q.op = "page" /\ Live /\ ~Awaits("select") =>
        /\ \A n \in q.ids : Parents(n) \subseteq q.ids \union seen.gone
        /\ Do("links", Found) \notin Pending =>
              \A n \in q.ids : q.above[n] \subseteq q.ids \union seen.gone
        /\ \A e \in q.edges : e[2] \in q.ids \union seen.gone

Walked == Ordered /\ Backward /\ Rooted

-----------------------------------------------------------------------------
(* The statements a request makes, as sets with an order.                  *)

\* s makes the statements of R, in their order.
Program(s, R) == s \in Seq(StatementType) /\ Sorted(s) /\ Range(s) = R

Sieves(f) ==
    (IF f.parents = {} THEN {} ELSE {Do("edges", Found)})
    \union (IF f.call = "none" THEN {} ELSE {Do("values", Found)})
Finds(f) == {Do("select", Id)} \union Sieves(f)
ReadsMany == {Do("links", Found), Do("rows", Found)}
ReadsOne(n) == {Do("row", {n}), Do("links", {n})}
ReadsDetail(n) == ReadsOne(n) \union {Do("files", {n}), Do("entries", {n})}
Searches(f) ==
    {Do("all", Id)} \union Sieves(f)
    \union (IF f.equal # {} THEN {Do("term", Found)} ELSE {})
    \union (IF f.parents = {} /\ f.call = "none" THEN {} ELSE {Do("sift", Found)})

Makes(op, of, f) ==
    CASE op = "find" -> Finds(f) \union ReadsMany
      [] op = "latest" -> Finds(f) \union {Do("newest", Found)}
      [] op = "lineage" -> {Do("exists", {of[1]}), Do("closure", {of[1]})} \union ReadsMany
      [] op = "children" -> {Do("exists", {of[1]}), Do("kids", {of[1]})} \union ReadsMany
      [] op = "ancestors" ->
            Finds(f) \union {Do("exists", {of[1]}), Do("closure", {of[1]})} \union ReadsMany
      [] op \in {"detail", "diff"} -> ReadsDetail(of[1])
      [] op = "page" ->
            Finds(f) \union ReadsMany
            \union {Do("relink", Found), Do("again", Found),
                    Do("entries", Found), Do("files", Found)}
      [] op = "snapshot" -> Finds(f) \union ReadsMany
      [] op \in {"runs", "sidecars"} -> {Do("all", Id)}
      [] op = "search" -> Searches(f)
      [] op = "stats" -> {Do("all", Id), Do("files", Id)}
      [] op = "backup" -> {Do("copy", Id)}
      [] op = "artifacts" -> {Do("files", {of[1]}), Do("bytes", {of[1]})}
      [] op = "from_parent" -> {Do("row", {of[1]}), Do("parents", {of[1]})}

MakesFor(op, n) ==
    CASE op \in {"runs", "diff", "sidecars"} -> ReadsDetail(n)
      [] op = "snapshot" -> ReadsDetail(n) \union {Do("bytes", {n})}
      [] op = "from_parent" -> {Do("exists", {n}), Do("files", {n}), Do("bytes", {n})}

\* s makes the statements of R, in their order; their kinds are in K.
Steps(s, R, K) == Program(s, R) /\ \A x \in R : x.do \in K
Follows(K, L) == \A k \in K, l \in L : Before(k, l)

\* What a request starts with.
Finding == {"find", "latest", "ancestors", "page", "snapshot"}

Starts(op, of, f, s) ==
    \/ op \in Finding /\ s = Do("select", Id)
    \/ op \in Filtered /\ f.parents # {} /\ s = Do("edges", Found)
    \/ op \in Filtered /\ f.call # "none" /\ s = Do("values", Found)
    \/ op \in Many /\ s \in {Do("links", Found), Do("rows", Found)}
    \/ op = "latest" /\ s = Do("newest", Found)
    \/ op \in {"lineage", "children", "ancestors"} /\ s = Do("exists", {of[1]})
    \/ op \in {"lineage", "ancestors"} /\ s = Do("closure", {of[1]})
    \/ op = "children" /\ s = Do("kids", {of[1]})
    \/ op \in {"detail", "diff"} /\ s \in ReadsDetail(of[1])
    \/ op = "page" /\ s \in {Do("relink", Found), Do("again", Found), Do("entries", Found), Do("files", Found)}
    \/ op \in {"runs", "sidecars", "search", "stats"} /\ s = Do("all", Id)
    \/ op = "search" /\ f.equal # {} /\ s = Do("term", Found)
    \/ op = "search" /\ s = Do("sift", Found) /\ (f.parents # {} \/ f.call # "none")
    \/ op = "stats" /\ s = Do("files", Id)
    \/ op = "backup" /\ s = Do("copy", Id)
    \/ op = "artifacts" /\ s \in {Do("files", {of[1]}), Do("bytes", {of[1]})}
    \/ op = "from_parent" /\ s \in {Do("row", {of[1]}), Do("parents", {of[1]})}

-----------------------------------------------------------------------------
(* What a statement leaves.                                                *)

\* p is r but for the statements to come and the nodes left.
Same(p, r) ==
    /\ p.op = r.op /\ p.of = r.of /\ p.f = r.f /\ p.ids = r.ids /\ p.order = r.order
    /\ p.rows = r.rows /\ p.above = r.above /\ p.edges = r.edges
    /\ p.entries = r.entries /\ p.files = r.files /\ p.out = r.out

Goes(p, r, t) ==
    \/ (t # <<>> \/ r.left = {}) /\ p.todo = t /\ p.left = r.left
    \/ t = <<>> /\ \E n \in r.left : p.todo = PerNode(r.op, n) /\ p.left = r.left \ {n}

\* The first statement is done, with those of T to come, or else those of the
\* next node of L.
Advance(T, L) ==
    \/ Pending' = T /\ q'.left = L /\ (T = {} => L = {})
    \/ T = {} /\ \E n \in L : Pending' = MakesFor(q.op, n) /\ q'.left = L \ {n}

Rest == Range(Tail(q.todo))

\* The request goes on, with these.
Moves(ids, L, rows, above, edges, entries, files) ==
    /\ q' \in QueryType /\ q'.op = q.op /\ q'.of = q.of /\ q'.f = q.f /\ q'.out = "running"
    /\ q'.ids = ids /\ q'.rows = rows /\ q'.above = above /\ q'.edges = edges
    /\ q'.entries = entries /\ q'.files = files
    /\ Sorted(q'.todo) /\ Advance(Rest, L) /\ (q'.todo = <<>> => q'.left = {})
    /\ UNCHANGED <<present, link, ever, seen>>

\* It makes no more statements.
Ended(ids, out) ==
    /\ q' \in QueryType /\ q'.op = q.op /\ q'.of = q.of /\ q'.f = q.f /\ q'.out = out
    /\ q'.ids = ids /\ q'.rows = q.rows /\ q'.above = q.above /\ q'.edges = q.edges
    /\ q'.entries = q.entries /\ q'.files = q.files
    /\ q'.todo = <<>> /\ Pending' = {} /\ q'.left = q.left
    /\ UNCHANGED <<present, link, ever, seen>>

\* It makes no more for this node.
Skips ==
    /\ q' \in QueryType /\ q'.op = q.op /\ q'.of = q.of /\ q'.f = q.f /\ q'.out = "running"
    /\ q'.ids = q.ids /\ q'.rows = q.rows /\ q'.above = q.above /\ q'.edges = q.edges
    /\ q'.entries = q.entries /\ q'.files = q.files
    /\ Sorted(q'.todo) /\ Advance({}, q.left) /\ (q'.todo = <<>> => q'.left = {})
    /\ UNCHANGED <<present, link, ever, seen>>

Core == QType /\ Stores /\ Plan /\ Blank /\ Question

\* What a statement may change, given those after it.
Allowed(X, L, R, E, N, F) ==
    /\ X = q.ids \/ Head(q.todo).do \in Narrowing \union {"parents"}
    /\ \/ X \subseteq q.ids
       \/ /\ ~Some(Rest, {"select", "all", "copy", "kids", "parents"})
          /\ q.op = "lineage" => ~Await(Rest, "closure")
    /\ \/ L = q.left
       \/ L = {}
       \/ L \subseteq X /\ q.op \in Loops /\ ~Some(Rest, Narrowing \union {"parents"})
    /\ R = q.rows \/ ~Some(Rest, Narrowing)
    /\ E = q.edges \/ (q.op \in Many /\ ~Some(Rest, Narrowing \union {"parents"}))
    /\ (N = q.entries /\ F = q.files) \/ ~Some(Rest, Narrowing \union {"parents"})

\* A request as it is asked.
Begins(op, of, f) ==
    /\ q' \in QueryType /\ q'.op = op /\ q'.of = of /\ q'.f = f /\ q'.out = "running"
    /\ Pending' = Makes(op, of, f) /\ q'.left = (IF op = "diff" THEN {of[2]} ELSE {})
    /\ q'.ids = {} /\ q'.rows = {} /\ q'.edges = {} /\ q'.entries = {} /\ q'.files = {}
    /\ UNCHANGED <<present, link, ever>>
    /\ seen'.right = {AnswerNow(q.op, q.of, q.f)'} /\ seen'.was = Records(present)
    /\ seen'.gone = {} /\ seen'.lacked = Id \ present /\ seen' \in SeenType

-----------------------------------------------------------------------------
(* The same by its kind, and what comes of it.                             *)

IdsBy(k) ==
    CASE k = "select" -> {n \in present : Equals(n)}
      [] k \in {"all", "copy"} -> present
      [] k = "edges" -> {n \in q.ids : Parents(n) \in q.f.parents}
      [] k = "values" -> {n \in q.ids : Accepted(n)}
      [] k = "term" -> {n \in q.ids \intersect present : Equals(n)}
      [] k \in {"sift", "rows"} -> q.ids \intersect present
      [] k = "closure" -> IF q.op = "lineage" THEN Ancestry ELSE q.ids \intersect Ancestry
      [] k = "kids" -> Below(link, q.of[1])
      [] k = "parents" -> Parents(q.of[1])
      [] OTHER -> q.ids

LeftBy(k) ==
    CASE k \in {"all", "rows"} -> IF q.op \in Loops THEN IdsBy(k) ELSE {}
      [] k = "parents" -> IdsBy(k)
      [] OTHER -> q.left

RowsBy(k) ==
    CASE k \in {"copy", "rows"} -> IdsBy(k)
      [] k = "again" -> q.ids \intersect present
      [] k = "row" -> q.rows \union Head(q.todo).on
      [] OTHER -> q.rows

AboveBy(k) ==
    CASE k = "copy" -> [n \in Id |-> Parents(n)]
      [] k = "links" -> [n \in Id |-> IF n \in On THEN Parents(n) ELSE q.above[n]]
      [] k = "relink" -> [n \in Id |-> IF n \in q.ids THEN Parents(n) ELSE q.above[n]]
      [] k = "parents" -> [q.above EXCEPT ![q.of[1]] = Parents(q.of[1])]
      [] OTHER -> q.above

EdgesBy(k) == IF k = "rows" THEN {e \in IdsBy(k) \X Id : e[2] \in q.above[e[1]]} ELSE q.edges

EntriesBy(k) ==
    CASE k = "copy" -> present
      [] k = "entries" -> q.entries \union (On \intersect present)
      [] OTHER -> q.entries

FilesBy(k) ==
    CASE k = "copy" -> present
      [] k = "files" -> q.files \union (On \intersect present)
      [] OTHER -> q.files

\* The node that the statement is about has no row any more.
Missing == ~(Head(q.todo).on \subseteq present)

Made(k) ==
    /\ Moves(IdsBy(k), LeftBy(k), RowsBy(k), AboveBy(k), EdgesBy(k), EntriesBy(k), FilesBy(k))
    /\ k = "select" => CanAsk(q.f)
    /\ k \in {"exists", "row"} => ~Missing
    /\ k # "newest"

Refused(k) ==
    /\ Ended(q.ids, "error")
    /\ \/ k = "select" /\ ~CanAsk(q.f)
       \/ k = "exists" /\ q.op \in {"lineage", "ancestors"} /\ Missing
       \/ k = "row" /\ q.op \in {"detail", "diff", "runs", "snapshot"} /\ Missing
       \/ k = "bytes" /\ Head(q.todo).on \subseteq q.files \ present

Stopped(k) ==
    \/ /\ k \in {"edges", "values", "term", "sift"} /\ q.op = "search"
       /\ IdsBy(k) = {} /\ Ended({}, "running")
    \/ k = "exists" /\ q.op = "children" /\ Missing /\ Ended(q.ids, "running")
    \/ k = "row" /\ q.op \in {"latest", "from_parent"} /\ Missing /\ Ended(q.ids, "running")

Skipped(k) ==
    /\ Missing /\ Skips
    /\ \/ k = "exists" /\ q.op = "from_parent"
       \/ k = "row" /\ q.op = "sidecars"

Taken(k) ==
    LET X == q.ids \intersect present IN
    /\ k = "newest" /\ q.op = "latest"
    /\ q' \in QueryType /\ q'.op = q.op /\ q'.of = q.of /\ q'.f = q.f /\ q'.out = "running"
    /\ q'.rows = q.rows /\ q'.above = q.above /\ q'.edges = q.edges
    /\ q'.entries = q.entries /\ q'.files = q.files /\ q'.left = q.left
    /\ q'.ids = Newest(X)
    /\ UNCHANGED <<present, link, ever, seen>>
    /\ \/ X = {} /\ Newest(X) = {} /\ Pending' = {}
       \/ \E m \in X : (\A n \in X : n <= m) /\ Newest(X) = {m} /\ Pending' = ReadsOne(m)

Outcome(k) == Due(k) /\ (Made(k) \/ Refused(k) \/ Stopped(k) \/ Skipped(k) \/ Taken(k))

\* Kinds of statements that are made node by node.
Single == {"row", "links", "files", "entries", "bytes", "exists"}

Edged == q.edges \subseteq q.ids \X Id

Restarts == q' = Idle /\ seen' = Unseen /\ UNCHANGED <<present, link, ever>>

Reading == {"row", "entries", "files"}

-----------------------------------------------------------------------------
(* The whole.                                                              *)

\* What holds of every state, of which the theorems of QueriesProofs are consequences.
Reader ==
    /\ Core /\ Recorded /\ Known /\ Complete
    /\ Screened /\ Genuine
    /\ Linked /\ Fresh /\ Paired
    /\ Momentary /\ Backed /\ Failed
=============================================================================
