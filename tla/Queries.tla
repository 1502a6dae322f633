------------------------------ MODULE Queries ------------------------------
(***************************************************************************)
(* Reading a store while others write to it. Every query of the store, the *)
(* explorer's pages and the two exports are sequences of SELECTs, each a   *)
(* transaction of its own (autocommit), so a commit or a prune can fall    *)
(* between any two. The database is NodeGraph, which Lineage implements;   *)
(* a request only reads, so one reader at a time shows all there is.       *)
(*                                                                         *)
(* Nodes are numbered in the order of created_epoch_seconds, which a node  *)
(* gets when its block ends, after all its parents. A node's row, entries  *)
(* and artifacts never change and go with it: which artifacts a node has   *)
(* does not matter, and its entries are what Entries makes of the calls.   *)
(***************************************************************************)
EXTENDS Walks, Entries

CONSTANTS
    Id,         \* node ids, in creation order
    Calls,      \* the add_meta calls of the block that made a node
    Liked,      \* the nodes whose metadata a callable filter accepts
    Filters,    \* the filters that are asked
    MaxChanges  \* commits and prunes during a request

\* parents holds the parents that are asked for, or nothing when any will do.
FilterType ==
    [equal: SUBSET [key : STRING, value : Value], parents: SUBSET SUBSET Id,
     call: {"none", "liked", "missing"}]

ASSUME QueriesAssumption ==
    /\ Id \subseteq Nat /\ IsFiniteSet(Id) /\ Calls \in [Id -> Seq(Call)] /\ Liked \subseteq Id
    /\ Filters \subseteq FilterType
    /\ MaxChanges \in Nat

VARIABLES
    present, link, ever,  \* the database, see NodeGraph
    q,                    \* the request being answered
    seen                  \* history: what was right while it was

vars == <<present, link, ever, q, seen>>
DB == INSTANCE NodeGraph

Wholes == {"page", "runs", "snapshot"}       \* fail when a node is gone
Artifacts == {"artifacts", "from_parent"}    \* answer with files
Details == Wholes \union {"sidecars", "detail", "diff", "backup"}
Gets ==  \* read a row, then its edges
    {"latest", "detail", "diff", "runs", "sidecars", "snapshot", "from_parent"}
Operation ==
    Details \union Artifacts
    \union {"find", "latest", "lineage", "children", "ancestors", "search", "stats"}

Parents(n) == Above(link, n)

-----------------------------------------------------------------------------
(* Equalities: the nodes that find matches, and those that it is to match. *)

\* A term is typed as text and parsed.
Typed(f) == [f EXCEPT !.equal = {[e EXCEPT !.value = Parse(Str(@))] : e \in @}]

Asked == UNION {f.equal \union Typed(f).equal : f \in Filters}
Hits == [e \in Asked |-> {n \in Id : Matching(Calls[n], e.key, e.value)}]
Meant == [e \in Asked |-> {n \in Id : Told(Calls[n], e.key, e.value)}]

-----------------------------------------------------------------------------
(* The statements of each request.                                         *)

Do(what, on) == [do |-> what, on |-> on]

\* A statement over whatever ids were found so far.
Found == {}

RowsFirst(on) == <<Do("rows", on), Do("links", on)>>

GetMany(on) == <<Do("links", on), Do("rows", on)>>
Get(n) == <<Do("row", {n}), Do("links", {n})>>
NodeDetail(n) == Get(n) \o <<Do("files", {n}), Do("entries", {n})>>

\* metadata.find: one SELECT for columns and equalities, then the edges and
\* the values that the other filters need.
Find(f) ==
    <<Do("select", Id)>>
    \o (IF f.parents = {} THEN <<>> ELSE <<Do("edges", Found)>>)
    \o (IF f.call = "none" THEN <<>> ELSE <<Do("values", Found)>>)

\* Paths are handed out after the manifest was read, file by file.
ArtifactPaths(n) == <<Do("files", {n}), Do("bytes", {n})>>

\* Given an id; a handle brings the parents it was read with.
FromParent(n) == <<Do("row", {n}), Do("parents", {n})>>

\* Nodes are counted first, then artifacts and their chunks.
Stats == <<Do("all", Id), Do("files", Id)>>

\* search_ids: the ids of all nodes, then one find or LIKE per term.
Search(f) ==
    <<Do("all", Id)>>
    \o (IF f.equal # {} THEN <<Do("term", Found)>> ELSE <<>>)
    \o (IF f.parents = {} THEN <<>> ELSE <<Do("sift", Found), Do("edges", Found)>>)
    \o (IF f.call = "none" THEN <<>> ELSE <<Do("sift", Found), Do("values", Found)>>)

Statements(op, of, f) ==
    CASE op = "find" -> Find(f) \o GetMany(Found)
      [] op = "latest" -> Find(f) \o <<Do("newest", Found)>>
      [] op = "lineage" -> <<Do("exists", {of[1]}), Do("closure", {of[1]})>> \o GetMany(Found)
      [] op = "children" -> <<Do("exists", {of[1]}), Do("kids", {of[1]})>> \o GetMany(Found)
      [] op = "ancestors" ->
            Find(f) \o <<Do("exists", {of[1]}), Do("closure", {of[1]})>> \o GetMany(Found)
      [] op \in {"detail", "diff"} -> NodeDetail(of[1])
      [] op = "page" ->
            Find(f) \o GetMany(Found)
            \o <<Do("relink", Found), Do("again", Found),
                 Do("entries", Found), Do("files", Found)>>
      [] op = "snapshot" -> Find(f) \o GetMany(Found)
      [] op \in {"runs", "sidecars"} -> <<Do("all", Id)>>
      [] op = "search" -> Search(f)
      [] op = "stats" -> Stats
      [] op = "backup" -> <<Do("copy", Id)>>
      [] op = "artifacts" -> ArtifactPaths(of[1])
      [] op = "from_parent" -> FromParent(of[1])

\* Then some go through the nodes they found, one by one; a diff has two.
Loops == {"runs", "sidecars", "snapshot", "from_parent"}

PerNode(op, n) ==
    CASE op \in {"runs", "diff"} -> NodeDetail(n)
      [] op = "snapshot" -> NodeDetail(n) \o <<Do("bytes", {n})>>
      [] op = "sidecars" -> Get(n) \o <<Do("entries", {n}), Do("files", {n})>>
      [] op = "from_parent" -> <<Do("exists", {n})>> \o ArtifactPaths(n)

-----------------------------------------------------------------------------
(* What a request would answer if all of it happened now.                  *)

MatchingNow(f) ==
    {n \in present :
        /\ \A e \in f.equal : n \in Meant[e]
        /\ f.parents # {} => Parents(n) \in f.parents
        /\ f.call = "liked" => n \in Liked
        /\ f.call # "missing"}

CanAsk(f) == \A e \in f.equal : MayAsk(e.value)

Records(S) == {<<n, Parents(n)>> : n \in S}

Newest(S) == {n \in S : \A m \in S : m <= n}

AnswerNow(op, of, f) ==
    LET answer(ids) == [ok |-> TRUE, ids |-> ids, records |-> Records(ids)]
        failure == [ok |-> FALSE, ids |-> {}, records |-> {}]
    IN  IF ~CanAsk(f) THEN failure ELSE
        CASE op \in {"find", "search"} -> answer(MatchingNow(f))
          [] op = "latest" -> answer(Newest(MatchingNow(f)))
          [] op = "children" -> answer(Below(link, of[1]))
          [] op \in {"page", "runs", "sidecars", "snapshot", "stats", "backup"} -> answer(present)
          [] op = "artifacts" -> answer(Range(of) \intersect present)
          [] op = "from_parent" -> answer(Parents(of[1]))
          [] Range(of) \subseteq present /\ op \in {"detail", "diff"} -> answer(Range(of))
          [] of[1] \in present /\ op = "lineage" -> answer(AncestorsIn(Id, link, of[1]))
          [] of[1] \in present /\ op = "ancestors" ->
                answer(AncestorsIn(Id, link, of[1]) \intersect MatchingNow(f))
          [] OTHER -> failure

-----------------------------------------------------------------------------
NoFilter == [equal |-> {}, parents |-> {}, call |-> "none"]

Idle ==
    [op |-> "none", of |-> <<>>, f |-> NoFilter, todo |-> <<>>, left |-> {}, ids |-> {},
     order |-> <<>>, rows |-> {}, above |-> [n \in Id |-> {}], edges |-> {},
     entries |-> {}, files |-> {}, out |-> "idle"]

Unseen == [right |-> {}, was |-> {}, gone |-> {}, lacked |-> {}, changes |-> 0]

\* Any store that create_node can have made.
Init ==
    /\ present \in SUBSET Id
    /\ link \in SUBSET {e \in present \X present : e[2] < e[1]}
    /\ ever = present
    /\ q = Idle
    /\ seen = Unseen

\* What is so now, and the history with what will be so after the step.
Glimpse ==
    [right |-> {AnswerNow(q.op, q.of, q.f)}, was |-> Records(present),
     lacked |-> Id \ present]

Remember(s) ==
    [s EXCEPT !.right = @ \union Glimpse'.right, !.was = @ \union Glimpse'.was,
              !.lacked = @ \union Glimpse'.lacked]

Database == <<present, link, ever>>

\* A block of another thread or process ends: its node appears whole.
Commit ==
    /\ q.out = "running" /\ seen.changes < MaxChanges
    /\ \E n \in Id, ps \in SUBSET present :
          /\ \A p \in ps : p < n
          /\ DB!Add(n, ps)
    /\ UNCHANGED q
    /\ seen' = Remember([seen EXCEPT !.changes = @ + 1])

\* Another thread or process prunes.
Prune ==
    /\ q.out = "running" /\ seen.changes < MaxChanges
    /\ \E t \in present : \E D \in SUBSET present : t \in D /\ DB!Remove(t, D)
    /\ UNCHANGED q
    /\ seen' = Remember([seen EXCEPT !.changes = @ + 1,
                                     !.gone = @ \union (present \ present')])

Ask(op, of, f) ==
    /\ q.out = "idle"
    /\ q' = [Idle EXCEPT !.op = op, !.of = of, !.f = f, !.out = "running",
                         !.todo = Statements(op, of, f),
                         !.left = IF op = "diff" THEN {of[2]} ELSE {}]
    /\ UNCHANGED Database
    /\ seen' = Remember(Unseen)

AskStore == \E op \in Wholes \union {"sidecars", "stats", "backup"} : Ask(op, <<>>, NoFilter)
AskNode ==
    \E op \in {"lineage", "children", "detail"} \union Artifacts, n \in Id :
        Ask(op, <<n>>, NoFilter)
AskDiff == \E m, n \in Id : m # n /\ Ask("diff", <<m, n>>, NoFilter)
AskFilter == \E op \in {"find", "latest"}, f \in Filters : Ask(op, <<>>, f)
AskAncestors == \E n \in Id, f \in Filters : Ask("ancestors", <<n>>, f)

\* A term has a value, and none is a predicate that likes a missing key.
AskSearch ==
    \E f \in Filters :
        {} \notin f.parents /\ f.call # "missing" /\ Ask("search", <<>>, Typed(f))

-----------------------------------------------------------------------------
Due(what) == q.out = "running" /\ q.todo # <<>> /\ Head(q.todo).do = what
On == IF Head(q.todo).on = Found THEN q.ids ELSE Head(q.todo).on
The(S) == CHOOSE n \in S : TRUE

\* r with the statements of todo to come, or those of the next node left.
Onward(r, todo) ==
    IF todo # <<>> \/ r.left = {} THEN [r EXCEPT !.todo = todo]
    ELSE LET n == Min(r.left) IN
         [r EXCEPT !.todo = PerNode(r.op, n), !.left = @ \ {n}]

\* The request goes on with r, the statement done.
Proceed(r) == q' = Onward(r, Tail(q.todo)) /\ UNCHANGED <<Database, seen>>
Stop(r) == q' = [r EXCEPT !.todo = <<>>] /\ UNCHANGED <<Database, seen>>
Fail == q' = [q EXCEPT !.todo = <<>>, !.out = "error"] /\ UNCHANGED <<Database, seen>>

\* The statements to come for this node are not made.
Skip == q' = Onward(q, <<>>) /\ UNCHANGED <<Database, seen>>

\* r, with what it found; a loop starts over that.
Through(r, ids) == [r EXCEPT !.ids = ids, !.left = IF r.op \in Loops THEN ids ELSE {}]

\* Narrows the ids; a search with none left looks no further.
Keep(ids) ==
    IF q.op = "search" /\ ids = {} THEN Stop([q EXCEPT !.ids = ids])
    ELSE Proceed([q EXCEPT !.ids = ids])

Equals(n) == \A e \in q.f.equal : n \in Hits[e]

SelectIds ==
    /\ Due("select")
    /\ IF CanAsk(q.f) THEN Proceed([q EXCEPT !.ids = {n \in present : Equals(n)}])
       ELSE Fail

AllNodeIds == Due("all") /\ Proceed(Through(q, present))

RootsForgotten ==
    /\ Due("edges")
    /\ Keep({n \in q.ids : Parents(n) # {} /\ Parents(n) \in q.f.parents})

\* _parent_lists: a node without rows in the edge table has no parents.
FilterParents == Due("edges") /\ Keep({n \in q.ids : Parents(n) \in q.f.parents})

\* A node without a value hands the predicate None.
Accepted(n) == IF q.f.call = "liked" THEN n \in present \intersect Liked ELSE n \notin present

FilterValues == Due("values") /\ Keep({n \in q.ids : Accepted(n)})
SearchTerm == Due("term") /\ Keep({n \in q.ids \intersect present : Equals(n)})
SearchSift == Due("sift") /\ Keep(q.ids \intersect present)

MostRecent ==
    /\ Due("newest")
    /\ LET newest == Newest(q.ids \intersect present) IN
          q' = [q EXCEPT !.ids = newest,
                         !.todo = IF newest = {} THEN <<>> ELSE Get(The(newest))]
    /\ UNCHANGED <<Database, seen>>

Exists ==
    /\ Due("exists")
    /\ IF On \subseteq present THEN Proceed(q)
       ELSE IF q.op = "children" THEN Stop(q)
       ELSE IF q.op = "from_parent" THEN Skip
       ELSE Fail

Closed ==
    /\ Due("closure")
    /\ LET walk == LineageWalk(link, The(On))
           found == Range(walk.order)
           ids == IF q.op = "lineage" THEN found ELSE q.ids \intersect found
       IN  IF walk.cyclic THEN Fail
           ELSE Proceed([q EXCEPT !.ids = ids, !.order = walk.order])

Children == Due("kids") /\ Proceed([q EXCEPT !.ids = Below(link, The(On)) \intersect present])

ReadLinks ==
    /\ Due("links")
    /\ Proceed([q EXCEPT !.above = [n \in Id |-> IF n \in On THEN Parents(n) ELSE @[n]]])

\* A page reads all it lists again.
ReadLinksAgain ==
    /\ Due("relink")
    /\ Proceed([q EXCEPT !.above = [n \in Id |-> IF n \in q.ids THEN Parents(n) ELSE @[n]]])

\* from_parent: the edges of a node whose row was there.
ReadParents ==
    /\ Due("parents")
    /\ LET n == The(On) IN
          Proceed(Through([q EXCEPT !.above[n] = Parents(n)], Parents(n)))

\* backup(): SQLite copies the whole file under one read lock.
CopyAll ==
    /\ Due("copy")
    /\ Proceed([q EXCEPT !.ids = present, !.rows = present, !.above = [n \in Id |-> Parents(n)],
                         !.entries = present, !.files = present])

SkeletonOfAll ==
    /\ Due("rows")
    /\ LET rows == q.ids \intersect present
           edges == {e \in q.ids \X Id : e[2] \in q.above[e[1]]}
       IN  Proceed(Through([q EXCEPT !.rows = rows, !.edges = edges], rows))

\* get_many drops the ids that have no row by now; the page's and the
\* snapshot's skeleton is built from what is left.
ReadRows ==
    /\ Due("rows")
    /\ LET rows == q.ids \intersect present
           edges == {e \in rows \X Id : e[2] \in q.above[e[1]]}
       IN  Proceed(Through([q EXCEPT !.rows = rows, !.edges = edges], rows))

ReadAllAgain == Due("again") /\ Proceed([q EXCEPT !.rows = present])

ReadRowsAgain == Due("again") /\ Proceed([q EXCEPT !.rows = q.ids \intersect present])

NoneUnchecked ==
    /\ Due("row")
    /\ IF On \subseteq present THEN Proceed([q EXCEPT !.rows = @ \union On])
       ELSE IF q.op \in {"latest", "from_parent"} THEN Stop(q)
       ELSE Fail

ReadRow ==
    /\ Due("row")
    /\ IF On \subseteq present THEN Proceed([q EXCEPT !.rows = @ \union On])
       ELSE IF q.op \in {"latest", "from_parent"} THEN Stop(q)
       ELSE IF q.op = "sidecars" THEN Skip
       ELSE Fail

ReadEntries == Due("entries") /\ Proceed([q EXCEPT !.entries = @ \union (On \intersect present)])
ReadFiles == Due("files") /\ Proceed([q EXCEPT !.files = @ \union (On \intersect present)])

\* The bytes of an artifact that the manifest listed.
ReadBytes ==
    /\ Due("bytes")
    /\ IF On \subseteq q.files \ present THEN Fail ELSE Proceed(q)

\* The page looks every node of its skeleton up among the rows read again.
Deliver ==
    /\ q.out = "running" /\ q.todo = <<>>
    /\ IF q.op = "page" /\ q.rows # q.ids THEN Fail
       ELSE q' = [q EXCEPT !.out = "ok"] /\ UNCHANGED <<Database, seen>>

Forget ==
    /\ q.out \in {"ok", "error"}
    /\ q' = Idle
    /\ seen' = Unseen
    /\ UNCHANGED Database

Statement ==
    \/ SelectIds \/ AllNodeIds \/ FilterParents \/ FilterValues
    \/ SearchTerm \/ SearchSift \/ MostRecent \/ Exists \/ Closed \/ Children
    \/ ReadLinks \/ ReadLinksAgain \/ ReadParents \/ CopyAll \/ ReadRows \/ ReadRowsAgain \/ ReadRow
    \/ ReadEntries \/ ReadFiles \/ ReadBytes

Request ==
    \/ AskStore \/ AskNode \/ AskDiff \/ AskFilter \/ AskAncestors \/ AskSearch
    \/ Statement \/ Deliver \/ Forget

Next == Request \/ Commit \/ Prune

Spec == Init /\ [][Next]_vars

-----------------------------------------------------------------------------
\* The database, the request, its answer and the history keep their types.
TypeOK ==
    /\ present \subseteq ever /\ ever \subseteq Id
    /\ link \subseteq present \X present
    /\ q.op \in Operation \union {"none"} /\ q.f \in FilterType
    /\ q.ids \subseteq Id /\ q.left \subseteq Id /\ q.rows \subseteq Id
    /\ q.above \in [Id -> SUBSET Id] /\ q.edges \subseteq q.ids \X Id
    /\ q.entries \subseteq Id /\ q.files \subseteq Id
    /\ q.out \in {"idle", "running", "ok", "error"}
    /\ seen.gone \subseteq Id /\ seen.lacked \subseteq Id
    /\ seen.changes \in 0..MaxChanges

-----------------------------------------------------------------------------
Answered == q.out = "ok"
Delivered ==
    CASE q.op \in {"search", "stats"} -> q.ids
      [] q.op \in Artifacts -> q.files
      [] OTHER -> q.rows

\* The store keeps numbers as doubles beside their text, and find compares
\* those: of two integers that share a double it finds either.
Rounded == \E e \in q.f.equal : Coarse(e.value)

\* ancestors() filters first and looks for the node after: the one it asks
\* about may have arrived in between.
Newcomer == q.op = "ancestors" /\ q.of[1] \in seen.lacked

\* latest() looks for the newest of the ids it found: when that one is pruned
\* in between an older one wins, though a newer one may have arrived as well.
Overtaken == q.op = "latest" /\ seen.gone # {}
DeliveredRecords == {<<n, q.above[n]>> : n \in q.rows}

\* While nobody prunes, a request answers as if all of it had happened at
\* one moment between its start and its end, however many nodes were
\* committed meanwhile: the same nodes, each with its parents, its entries
\* and its artifacts, and a failure only where there was one to report. A
\* backup does so whatever happens. Nodes and artifacts that stats() counts
\* can be of two moments, and no artifact is missing.
OneMoment ==
    /\ q.out \in {"ok", "error"}
    /\ seen.gone = {} \/ q.op = "backup"
    /\ ~Newcomer /\ ~Rounded
    =>
        \E a \in seen.right :
            /\ a.ok = Answered
            /\ Answered =>
                /\ a.ids = Delivered
                /\ q.op \notin {"search", "stats"} \union Artifacts =>
                      a.records = DeliveredRecords
                /\ q.op = "stats" =>
                      q.ids \subseteq q.files /\ \E b \in seen.right : b.ids = q.files
                /\ q.op \in Details => q.entries = q.rows /\ q.files = q.rows
                /\ q.op \in {"page", "snapshot"} =>
                      q.edges = {e \in Id \X Id : e[1] \in q.rows /\ e[2] \in q.above[e[1]]}

\* Whatever is pruned meanwhile, a node is only listed if it was right to
\* list it at some moment, and with parents it really had. Two reads that
\* are not one moment can show: a node read row first (get) that loses its
\* edges to a prune in between, so that it looks like a root, and ancestors
\* of a node that was not there when they were filtered. And what an equality
\* finds has the value asked for, unless that is a number near others.
NothingInvented ==
    Answered =>
        /\ \A n \in Delivered :
              \/ \E a \in seen.right : n \in a.ids
              \/ q.op \in {"detail", "diff"}
              \/ Newcomer \/ Overtaken \/ Rounded
        /\ \A n \in q.rows :
              \/ <<n, q.above[n]>> \in seen.was
              \/ q.op \in Gets /\ n \in seen.gone /\ q.above[n] = {}

\* A node that it was right to list all along is listed. Only latest() may
\* take a newer node for it, one that has a number near the one asked for.
NobodyLeftOut ==
    Answered /\ ~(q.op = "latest" /\ Rounded) =>
        \A n \in Id : (\A a \in seen.right : n \in a.ids) => n \in Delivered

\* A request fails only if a node it names was not there, or, for the page,
\* the runs table, the snapshot and paths of artifacts, if a prune took a
\* node meanwhile, or if the value it is to find has no JSON: find takes a
\* numpy number or a date as little as a Path, though add_meta did.
FailsOnlyIfGone ==
    q.out = "error" =>
        \/ Range(q.of) \intersect seen.lacked # {}
        \/ q.op \in Wholes \union Artifacts /\ seen.gone # {}
        \/ ~CanAsk(q.f)

\* The loops of Walks do what they are for. A lineage comes parents first,
\* each node once; an edge of a page joins two nodes of it unless one was
\* pruned meanwhile, and points to a deeper column; a prune deletes the
\* target and, children first, the descendants that would keep no parent,
\* also when rows of the region are gone by the time they are read.
WalksAgree ==
    /\ Answered /\ q.op = "lineage" /\ seen.gone = {} =>
          ListsInOrder(q.order, q.rows, link)
    /\ Answered /\ q.op = "page" =>
          LET level == Levels(q.rows, q.edges) IN
          /\ Ends(q.edges) \subseteq q.rows \union seen.gone
          /\ LongestPaths(level, q.edges)
    /\ q = Idle => \A t \in present :
          LET region == DescendantsIn(Id, link, t) IN
          \A lost \in SUBSET (region \ {t}) :
              LET above == [n \in region |-> IF n \in lost THEN {} ELSE Parents(n)]
                  doomed == UNION {S \in SUBSET region :
                                     \A d \in S \ {t} : above[d] \subseteq S}
              IN  ListsInOrder(PruneList(region, above, t), doomed,
                               {e \in region \X region : e[1] \in above[e[2]]})
=============================================================================
