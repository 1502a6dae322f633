# ancestree in TLA+

Specifications, model checks and proofs for ancestree, a Python library that
keeps the lineage of a pipeline's artifacts in one SQLite database per store.
Source paths below are relative to `src/ancestree/` of the repository.

## 1. The system

A *store* is a directory with `ancestree.db` (WAL mode), `.scratch/` (one
directory per running `create_node` block) and `.cache/` (reassembled
artifacts). There is no daemon: every process opens the store itself with
`LineageStore(root)`, and threads of one process may share an instance. All
coordination goes through SQLite's single write lock, the file system and pids.

| component | state it keeps | operations that change it | talks to |
|---|---|---|---|
| store facade, `store.py` | open connections, policy, live server | `create_node`, `prune`, `compact`, `close`, `serve_graph` | everything below |
| lineage tables, `db/metadata_store.py` | `node`, `edge`, `metadata` | `add_node` (in the ingest transaction), cascade of a delete | connections |
| rules, `domain/rules.py` | none | `validate`, `generation_for`, pure | called by `create_node` before the block |
| ingest, `ingest/packing.py` | none | `ingest_node`: one transaction, then the scratch is discarded | lineage tables, chunk store, workspace |
| workspaces, `ingest/workspace.py` | `.scratch/<id>`, its seed | constructor (staging, seed, rename, or re-seed in place), `resolve`, `discard` | file system |
| chunk store, `db/chunk_store.py` | `chunk`, `chunk_feature`, `artifact`, `artifact_chunk` | `put_chunk`, `add_artifact`; reads in several statements | connections, chunker |
| prune and compaction, `maintenance.py` | none | plan by reads, delete by ids; one `DELETE` of unreferenced chunks | lineage tables, chunk pool |
| orphan sweep, `maintenance.py` | none | at every open: adopts, removes, reaps | `.scratch`, lineage tables, ingest |
| connections, `db/connection.py` | a connection per thread, an RLock, depth and a failed flag per thread | `read`, `write`, `close` | SQLite |
| schema and opening, `db/schema.py` | tables, version, policy row | `ensure_schema`, `_load_or_create_config` | SQLite |
| read cache, `db/chunk_store.py` | `.cache/<pid>-<suffix>` | `reassemble`, `clear_cache`, the sweep of dead pids | file system |
| metadata entries, `domain/metadata.py`, `domain/node.py` | the entries of a running block | `add_meta` | ingest, `find` |
| graph walks, `metadata_store.lineage`, `web/graph.py` | none | pure, over rows read before | lineage tables |
| chunker, `ingest/cdc.py` | none | pure | ingest |
| server and export, `web/` | a thread and a socket | replaced by `serve_graph`, stopped by `close` | reads of everything |

Calls are synchronous; what is shared is the database, `.scratch` and `.cache`.

What is hard here:

- *Check, then act, in two transactions.* The twin of a node is looked up before
  its insert; parents are validated before a block that may run for hours; a
  prune plans with many reads and deletes by id.
- *Reads of several statements.* An artifact, a lineage page or a plan is put
  together from autocommit reads while others commit.
- *Kills.* A process dies between any two system calls; the next open decides
  from a seed, a pid and a row what to do with each directory, and several opens
  may decide at once.
- *Long histories.* Deduplication, deltas, prune and compaction must leave every
  remaining artifact readable after any sequence.

What makes each component correct:

- lineage: every edge is a transition the rules allow and joins present nodes;
  a row appears whole; a prune takes its target and only descendants left with
  no parent; an id never returns; no recorded work vanishes; one node per content.
- chunk pool: every recipe resolves, deltas have depth one, failed ingests leave
  nothing, a read is right or fails only because its artifact is gone.
- scratch: a running block is never touched; files outlive any kill until they
  are a row, are reused, or are pruned; opening never fails because of orphans.
- connections: a transaction commits iff no part of it failed; no lock survives
  its holder.
- opening: one policy for everybody, no root bricked by a race or a death.
- read cache: a path handed out stays readable; sessions are cleaned away.
- metadata entries: a value recorded for search is found by what it means.
- queries and walks: an answer shows nodes and edges that were there; lineage
  lists ancestors oldest first, once each; levels are longest paths.
- chunker: chunks tile the text; shortcuts change no boundary; edits stay local.

## 2. Modules

| module | what it is |
|---|---|
| `NodeGraph` | abstract: what the database promises about the graph |
| `Lineage` | `create_node`, reuse, commit, `prune`, several actors; implements `NodeGraph` |
| `Chunks` | pool, recipes, ingest transaction, cascade, compaction, readers |
| `Scratch` | workspaces, kills, the sweep at open |
| `SerialTxn` | abstract: one write transaction at a time, whole or not at all |
| `Connection` | `read`, `write` with nesting, `close`, threads, a fork, interrupts; implements `SerialTxn` |
| `Opening` | schema and policy of a root that several processes open at once |
| `ReadCache` | session directories under `.cache`: reads, sweep, close, exit, kill, fork |
| `Walks` | the loops over the graph: order of a lineage, Kahn's algorithm, the prune list |
| `Entries` | metadata from `add_meta` to the row of the table, and what an equality matches there |
| `Queries` | every reading request as the `SELECT`s it makes, over the actions of `NodeGraph`, with `Walks` and `Entries` |
| `Cdc` | where the chunker cuts a text and an edit of it |
| `QueriesInvariant` | the inductive invariant of `Queries` and of the loops of `Walks`, in named parts, without a theorem |
| `LineageProofs`, `ChunksProofs`, `ScratchProofs`, `ConnectionProofs`, `OpeningProofs`, `ReadCacheProofs`, `CdcProofs`, `QueriesProofs` | theorems and proofs; `QueriesProofs` is about `Walks`, `Entries` and `Queries`, by way of `QueriesInvariant` |
| `MCLineage`, `MCChunks`, `MCScratch`, `MCConnection`, `MCOpening`, `MCReadCache`, `MCQueries`, `MCCdc` | constants, symmetry and constraints for TLC |

`Lineage` and `Queries` meet in `NodeGraph`, whose `Remove` takes a target and any
nodes all of whose parents go with it, in whatever way they hang together, and
whose ids never return: so it is of `create_node` and `prune`, while adoption may
bring an id back (`scratch_resurrection`). The first is shown to implement it,
the second runs its requests against its `Add` and `Remove`. `Chunks` and
`Scratch` model the two halves of an ingest that `Lineage` takes as one step;
`Connection` shows why that step is atomic.

### Lineage

`node` and `edge` are the tables, `scratch` the ids with a directory; `pc`,
`block` and `plan` hold each actor's place and local variables. One step is one
read statement or one write transaction plus the computation up to the next one:

| action | code |
|---|---|
| `Call`, `Resolve`, `UnknownParent` | `create_node` entered; `_resolve_parents`, one parent per step |
| `Refuse`, `Open` | `RuleEngine.validate`; new id, workspace, block starts |
| `Discard`, `Finalize` | the block ends untouched, or with content, cleanly or not (`_finalize`) |
| `Nominate`, `NoTwin` | `find_by_hash` |
| `Rebind`, `Differs` | the comparison in `_reuse_identical_node` |
| `Commit`, `CommitFails` | `ingest_node`; foreign keys decide, any commit may also fail |
| `Prune`, `Descend`, `Weigh` | `Pruner.plan`: existence, children, then parents, one read each |
| `DryRun`, `Delete` | `prune`'s default; `Pruner.delete` with its cascades |

Content stands for the files and metadata of a block; a fingerprint is the
summary it is the hash of, so a hash collision is left out. What a candidate holds
comes back through JSON, which only a NaN does not survive (`add_meta` accepts it,
its digest is always the same, and it equals nothing but itself as an object): for
the contents in `WithNaN` a comparison with an identical row may go either way
(`MayDiffer`). `Doomed` states the
result of the topological walk in `Pruner.plan` as the largest set closed under
"all parents doomed"; `Walks` has the walk itself and `WalksAgree` compares the
two. `issued` and `born` are history variables. That `uuid4().hex[:8]` never
repeats is an assumption (the code retries on ids it can see).

### Chunks

`db` is the committed state, `tx` the one open ingest transaction with its
working copy (`BEGIN IMMEDIATE` admits one writer), `reader` the readers in the
middle of `artifact_bytes`. A payload is the sequence of chunks the chunker cuts
a file into. `Similar` and `Wins` are arbitrary relations: which chunks share a
feature and which deltas pay is data, so the theorems hold for any resemblance.
`_find_base` prefers the candidate with most shared features; the model takes any.

### Scratch

`dir` is `.scratch/<id>` with the pid in its seed (or none, or a truncated one)
and whether it has files; `staging` the `.staging-*` directories; `at` what each
session does. Every file-system call that another process can interleave with is
a step of its own, and `write_text` is two, the open that leaves the file empty and
the write: `Place`, `OpenSeed`, `FillSeed`, `Rename` for the constructor of a
workspace in its staging directory, `RenameFails`, `Truncate`, `Rewrite` in place,
shared by `create_node` and adoption; `LeaveStaging`, `CondemnStaging`,
`ReapStaging` for what a sweep does with a staging directory; `SkipEntry`,
`MeetLitter`, `MeetOrphan`, `CheckRow`, `LookForFiles`, `Adopt`, `Remove` for
another entry. The clock is left out: a staging directory without a seed may be
older than the 300 s of grace whenever a sweep looks at it, or not; one whose seed
is open but empty has no grace. `Die` is both an exit and a kill. `torn` is a
history variable: the ids of which a sweep took a directory for litter before its
seed was whole. A rename onto an empty directory succeeds or fails, as systems
differ. Left out: the reuse of pids by the operating system, threads of one process,
a `rmtree` that is interrupted half way, and a descriptor that outlives its
directory being made anew.

### Connection

Every thread has a connection (`slot`), its own `nest` and `failed`; a process has
a `registry` of connections, a `closed` flag and an RLock (`lock`, owner and
count). `Kid` is the one thread of a forked child: `Fork` copies the manager and
the caller's thread-locals, and a lock that another thread held gets the owner
`Ghost`. SQLite's part is `txn`, `work` and `table`.

| action | code |
|---|---|
| `Enter`, `Refused` | `read`/`write` called; the closed test |
| `Reuse`, `Connect` | `_connection`: the thread's own connection of this pid, or a new one |
| `Acquire`, `Begin`, `BeginFails`, `BeginInterrupted` | RLock, then `BEGIN IMMEDIATE` at depth 0; busy timeout; a signal right after it |
| `Execute`, `Leave` | a statement of the body; the body returns or raises |
| `ExitInner`, `Commit`, `CommitFails`, `Abort` | a nested block, which poisons on failure; the outermost one |
| `Close`, `CloseAll` | the flag is set; the registered connections of this pid are closed |

`frame` is the connection each `write` call has in its local variable: after a
`close()` in between, a nested block may work on another connection than the
outermost one.

### Opening

`legacy`, `exists`, `tables`, `version` and `stored` are the root; each process
goes through `_refuse_legacy_root`, `ensure_schema` (read the tables, create them
or verify the version) and `_load_or_create_config`, one statement per step.
`Init` offers every root a caller may point at: nothing, a 0.1.x directory, an
empty, foreign, partial, older, newer or current database. `Die` ends a process
at any point and rolls back its DDL; `Start` is also the retry. A policy is a value
per setting. `Heeded` is the test the code makes before it takes a value or warns:
flags count unless they are `None`, `rules` and `gen_triggers` (`Lists`) only if they
are not empty. Arguments have the types of the signature: a tuple of triggers, for
one, would be told apart from the list that is stored. Not told apart from other
failures: a root whose file is no SQLite database, and a `journal_mode` pragma that
finds the file locked.

### ReadCache

`cache`, `dirs`, `files` are the file system, `root` is `_cache_root`, and each
thread walks through `reassemble`: look at the session, make it, look for a copy,
fetch, make the directory, write under a temporary name, replace. Each `mkdir`
with `parents=True` is the two or three calls it makes, since another session's
end can remove `.cache` between them. A process opens (listing and reaping
sessions of dead pids), closes (files, session, `.cache`, manager), exits, is
killed or forks.

### Walks, Entries and Queries

A walk is a function of the number of turns its loop has made; that the bound on
the turns suffices is part of `WalksAgree`, which also compares each walk with a
definition by fixed points over every graph of four nodes, and for `PruneList`
with any rows of the region missing by the time they are read. `WalksAreRight`
proves it for every store.

`Entries` follows a value from `add_meta` to `find`. `Accepts`, `DataTypeOf`,
`Shown`, `Stored` and `Searchable` are `prepare_entry` with `infer_data_type` and
`to_jsonable`; `MetadataRow` and `Numeric` the persisted row; `Rows` the last
accepted call for a key; `Matches` the condition `find` puts in its `WHERE`. A
value is its Python kind and a number for what it holds, so that `True`, `1`,
`1.0`, `numpy.int64(1)` and `"1"` are five values that are easily taken for each
other. Against this stands `Told`, what the docstrings promise, stated over the
calls themselves. A double is exact up to `Exact` (2 in the run, for 2^53).

A request of `Queries` (`find`, `latest`, `lineage`, `children`, `ancestors`,
`from_parent`, `artifacts`, `detail`, `diff`, `page`, `snapshot`, `runs`, `stats`,
`backup`, `sidecars`, `search`) is the sequence of its `SELECT`s in `todo`; each is
one step, and commits and prunes of others come between them. Those that go
through the nodes they found, one by one (`Loops`), and a `diff` have the others in
`left`: when `todo` is done, `Onward` takes the next. `seen` collects, for every moment of the request, what
an answer given then would be (`AnswerNow`), and the properties compare the
answer with those. A filter has three kinds of condition: equalities of metadata
(in SQL, where the code matches by `Hits` and should by `Meant`), the set of
parents, and a predicate called on the value.

### Cdc

One step is one turn of the rolling loop, one slice of a large text, or one
yield. The text is chunked and then an edit of it by one byte. `fp` is the
fingerprint as the code keeps it, cut down to the stricter mask; `wide` is the
64-bit one it stands for. `CastSamples` and `LoopSamples` are the two ways
`_samples` finds its offsets.

## 3. Runs

| run | bounds | what it shows | states |
|---|---|---|---|
| `lineage` | 4 ids, 2 actors, 2 steps, a content and one with a NaN; the fourth id without a NaN and while one actor is busy | rules, work, copies, orphans, refinement of `NodeGraph` | 1 000 000 |
| `lineage_duplicate` | 3 ids, 2 actors, no prune | `NoDuplicates` fails | |
| `chunks` | 3 nodes, 2 paths, 4 chunks, 1 reader | pool, readers, garbage | 1 010 000 |
| `scratch` | 2 ids and 3 sessions, 1 id and 4 sessions | blocks untouched, files kept | 201 000 |
| `scratch_torn_seed`, `scratch_resurrection` | 2 ids, 3 sessions | `WorkKept`, `PruneIsPermanent` fail | |
| `connection` | 2 threads and a child, depth 2, 2 statements, 2 calls of one thread and 1 of the others | ends, strays, forks, refinement of `SerialTxn` | 1 580 000 |
| `connection_live` | the same, one call each, no statements | writers get in, transactions end | 59 000 |
| `opening` | 3 processes, 4 attempts, a list and a flag of 2 values each, 4 requests, 4 stamps | policy, warnings, refusals, failures, roots | 4 310 000 |
| `read_cache` | 3 processes with 2, 1 and no threads, 1 artifact, 2 sessions of one process | paths, failures, sweep, leftovers | 640 000 |
| `queries` | every store of 3 nodes, 2 changes during a request; of 4 nodes, 1 change during `lineage` and `page` | answers, filters, walks | 1 630 000 |
| `cdc` | texts up to 10 bytes of 2 values, edits of one byte, sizes 1, 5, 7 | tiles, shortcuts, edits | 1 330 000 |

Why these bounds. Two actors are enough for each race of `Lineage`: each is
between one block or plan and one concurrent writer. Three ids give a chain, a
join, and a rerun of either; the fourth, with one actor busy (`FourthAlone`),
adds a diamond and a rerun of a join. One content is the worst case for reuse,
since every two blocks of a step under the same parents are twins; the one with a
NaN is there so that twins may also be taken for different. In `chunks`
three nodes allow a delta whose base loses its owner, a later ingest that meets
the delta, and a prune of either; `z` pays only against `y`, so that taking a
delta as a base is tempting. Two paths make the order of files matter, one reader
suffices because readers do not affect anything. In `scratch` one session leaves
an orphan and two sweep it, or two sweep a live one; the fourth over one id
(`CrowdOnOne`) is for two that make a directory anew after a third removed it. In `connection` the thread that signals reach makes two
calls, which may nest, be a `write` after a poisoned one, or a `close` after a
block; the other threads' single call is a block or a `close` in the middle of
it. In `read_cache`, `Focus` keeps apart what does not interact: two threads that
begin a session at once need no second process, and a third process is there to
sweep, fork or end. In `opening` the fourth attempt follows a race or a death of
three; callers ask for nothing, for what is usual (empty rules among it), for other
rules, or for another flag (`MCRequest`). In `queries` a request names at most two nodes; a third is an
ancestor, a child or a newcomer of theirs. The calls in `MCCalls` give them values
that a loose comparison would confuse, calls that are refused, entries that are
overwritten or not searchable, and integers that share a double.
In `cdc` the texts span one chunk of every kind (at most `MinSize`, cut by
the strict mask, by the loose one, at `MaxSize`, fixed) and a second chunk
behind it.

Deadlock is checked in `chunks` and `queries`. In the others the system may
really stop: ids, sessions, attempts and calls are bounded and run out, a session
may be dead, a child may wait for a lock nobody holds, and the chunker ends.

**Fairness.** Only `connection_live` assumes any, in `FairSpec`. Weak fairness of
`Progress` and `Leave`: what a thread has begun goes on, `BEGIN` returns or times
out, and no body runs for ever. Strong fairness of leaving an outermost block: a
body that nests again and again ends all the same. Strong fairness of `Acquire`:
an RLock that is released again and again is not always won by somebody else,
which CPython does not promise but its scheduling makes so. Other actions have no
fairness; nobody needs to call anything. The liveness properties name the two
exceptions the code has: a lock inherited by a fork, and a transaction left open
by an interrupt between `BEGIN` and the `try`.

What the failing runs show:

- `lineage_duplicate`: README.md:46 promises the same node for identical
  content; two blocks that end together both miss the other. The same property
  also fails with a single actor: a join of `a` and `b` whose parent `b` is
  pruned keeps the fingerprint it had under both, so a rerun under `a` alone
  does not find it. `TwinsBounded` says how far it goes while nothing has been
  pruned: as many copies as actors. With prunes there is no such bound. Two actors
  that have found the same copy, when a third one prunes it, both add another,
  whatever copies there are besides. Nor for content with a NaN: each rerun by a
  single actor may add a copy, since the candidate it finds does not compare equal.
- `scratch_torn_seed`: a sweep that reads the seed of a staging directory between
  the open and the write of `write_text` gets a JSON error and removes the directory
  at once, though its owner lives and is young. The rename fails, the directory is
  made and seeded in place, and another open that meets it truncated deletes it
  under the running block. Nobody has to be killed for that. Adoption, which seeds
  in place too, loses an orphan's files to a second open in the same way, and a
  maker that stalls for more than 300 s before its seed comes to the same end.
  `LiveBlockUntouched` and `WorkKeptUnlessTorn` (both hold) say that these are the
  only ways in which a running block is touched or files are lost.
- `scratch_resurrection`: killed between commit and discard, pruned by a session
  that was already open, then adopted by the next open.

What the exceptions named in the properties that hold show:

- `OrphanedOnlyByRace`: a child committed between plan and delete survives
  without the parent that rules.py:59-60 require. What cannot happen is the
  reverse: a delete that takes a node with a surviving parent (`RefinesGraph`).
- `FailsOnlyIfPruned`: a prune during a read is reported as `IntegrityError` or
  `CorruptChunk`, over a store that is sound.
- `WorkKeptUnlessTorn`: two sweeps that adopt one orphan may make one of the two
  opens raise `FileNotFoundError`; no files are lost by it.
- `EndsTruthfully`: a nested failure that the caller swallows makes the outermost
  block roll back without an exception; a signal during `COMMIT` makes it raise
  although everything is committed; and a `close()` by another thread ends the
  guarantee, since a nested block may then make a new connection whose statements
  commit one by one.
- `StrayOnlyIfInterrupted`: the interrupt after `BEGIN` leaves a transaction that
  nothing rolls back, and other writers time out.
- `FailsOnlyIfRaced`: of two first opens of a root, one may fail on the other's
  DDL or policy row; it can try again.
- `PolicyAgrees`: an empty `rules` or `gen_triggers` is ignored without a warning.
- `FailsOnlyIf`, `LeavesNothing`, `PathsReadable`: the end of another session can
  remove `.cache` under a first read; two first reads of a process make two
  sessions, one of which stays; a forked child works in its parent's session.
- `OneMoment`, `NothingInvented`: `ancestors` filters before it looks for the
  node, which may have arrived in between (`Newcomer`); `latest` may return an
  older node when the newest it found is pruned (`Overtaken`); `get` reads the row
  before the edges, so a node pruned in between looks like a root; `diff` may show
  two nodes that were never there together.
  Nodes and artifacts that `stats` counts may be of two moments; a `backup` is
  always of one.
- `OneMoment`, `NothingInvented`, `FoundByValue`: `find` compares numbers as
  doubles, so that it takes two integers from 2^53 on for each other (`Rounded`).
- `FailsOnlyIfGone`: the page, the runs table and the snapshot fail when a node is
  pruned between their `SELECT`s, also one the user did not ask about, and paths
  of artifacts when theirs is. A value that `add_meta` would convert (a numpy
  number, a date, a set) makes `find` raise `TypeError`: the recorded `5` is found
  by `5`, not by the `numpy.int64(5)` that was recorded.
- `EditIsLocal` does not say that chunks fall into step again after an edit: that
  is likely, and not sure.

Where the documentation says otherwise, besides the failing runs, the model follows
the code:

- docs/caveats.md:23 says that prune deletes "the node plus all descendants"; the
  docstring of `prune`, the code and the tests spare a descendant with a surviving
  parent.
- store.py:9-11 and docs/caveats.md:7 say that opening with different values warns;
  store.py:210 and 218 are silent about an explicit `{}` or `[]` (`Heeded`).
- README.md:46 says that a rerun returns the same node; with a NaN in the metadata
  store.py:449 takes it for a hash collision (`MayDiffer`).
- docs/caveats.md:39 and workspace.py:72-76 say that no sweep touches a node that
  is being written; see `scratch_torn_seed`.

No property covers these: a join whose parent is pruned keeps its old fingerprint
(store.py:403), since `lineage_duplicate` has no prune and `TwinsBounded` is about
stores without one; a cached path outlives the prune of its node
(chunk_store.py:382), as `PathsReadable` is about the file; and a session shared
with a forked child (maintenance.py:203), a second first session of a process
(chunk_store.py:401) and a read that overlaps its close (chunk_store.py:387) are
exceptions which `PathsReadable`, `SweptClean` and `LeavesNothing` name, not
something they promise about.

## 4. Proofs

All theorems are for every value of the constants, under the named `ASSUME`s of
the modules:

- `Lineage`: rules map steps to sets of steps; the marks `None` are no members of
  the other sets, and no summary is NULL; contents with a NaN are contents; the actors are finitely many
  (`FiniteActorsAssumption`, only used to count rows in `CopiesBounded`).
- `Chunks`: payloads are sequences of chunks, marks are no members.
- `Scratch`: marks are no members. Nothing is assumed about time.
- `Connection`: the thread that signals reach is one of the parent's threads, the
  child's thread is none of them, the pids differ, marks are no members, bounds
  are numbers.
- `Opening`: the default is a policy, `Lists` are settings, requests give settings
  values or nothing, marks are no members, an empty database has the stamp 0 and the
  current version is another one.
- `ReadCache`: threads carry the pid of their process, temporary names are no
  artifact's name.
- `Entries`: `Exact` is a number.
- `Queries`: ids are finitely many numbers, which stand for the order in which
  nodes are made; calls are sequences.
- `Cdc`: the masks are powers of two in the sense that matters, each a divisor of
  the next and of the width; sizes are ordered, `MaxSize` is not 0.

The arguments:

- **Lineage** (`TypeCorrect`, `RulesAlwaysHold`, `Refinement`). `IInv` is the types
  and the edges' rules, with: rows and edges go together (`TablesInv`); ids are
  never reused, and the id of a running block is its own (`IdsInv`); the parents a
  block has read belong to rows that, if still present, have not changed
  (`ParentsInv`); and the parents a plan has read of a node include those it
  still has (`PlanInv`). That last part is what carries the refinement: the edges
  of a node are inserted with its row and afterwards only disappear, so a node
  whose parents, as read at any earlier time, are all doomed has no parent
  outside the doomed set when the delete runs.
- `OrphansOnlyByRace` needs the converse, `PlansStayTrue`: of the parents a plan
  has read, those still present are still parents, because an edge goes only
  with one of its ends. So a node of the region that loses all its parents had
  them all doomed, and is doomed itself, or another prune took one.
- `WorkIsKept`: `WorkInv` says of each running block that its files are in scratch
  and that a nominee it verified is, if present, healthy and what it was when it
  was read; a rebind therefore happens onto a row that has the block's content.
- `CopiesBounded`: `TwinsInv` says that, without prunes, stored fingerprints are
  true (`HashesTrue`), a nominee stays and has the block's fingerprint
  (`NomineesTrue`), and that rows and pending commits of one fingerprint together
  are no more than the actors (`FewRows`). Going to commit needs that there was no
  row at the lookup, or that the nominee differs, which `NomineesTrue` excludes for
  content that equals itself; the bound is for those fingerprints only (`Stable`).
- **Chunks** (`ChunksTypeCorrect`, `PoolAlwaysResolves`). `PoolResolves` says that
  what recipes and deltas name is in the pool, for the committed tables and for
  those of the open transaction, and that no base is a delta. It is not inductive:
  a recipe is written when its last chunk is placed, so every digest placed so
  far for the file in hand must be in the working pool (`PlacedInv`); and a reader
  that fetches a base is at a chunk of its list (`BaseInv`), which types need.
- `FailuresArePrunes`: `RInv` follows a reader. As long as its artifact is stored,
  what it has read is a prefix of the recipe and the base it fetches is the base
  of the chunk in hand (`ReaderInv`); commits keep this because an open ingest has
  only added to the committed tables, under an id never used before (`TxInv`).
- `OnlyPrunesLeaveGarbage`: `GInv` adds to the property that the chunks of the open
  transaction are live or named by the part already placed of the file in hand.
- **Scratch** (`ScratchTypeCorrect`, `LiveBlocksSafe`, `WorkSurvives`), for sweeps
  that come at any time. `OwnInv`: the directory of a block is absent until it is
  renamed into place, and then carries the seed of its own, live process; its
  staging directory is there until then unless a sweep took it (`ReapInv`: what is
  reaped was made by a dead process, or is torn), and only then is the block made in
  place. So no sweep takes the entry up, and nobody else works on the id, except
  to delete it as litter of a torn one (`AloneInv`).
  `DeleteInv`: whoever is about to delete a directory deletes one without files,
  one whose row has them, or a torn one. This has to be remembered from the step
  that decided it to the step that deletes, across steps of other sessions, and
  it survives them because only a block's own session gives its directory files
  and a prune that takes the row also ends the claim. `FilesInv` adds that the
  row of owed work has files, and that a directory made without a seed has none.
- **Connection** (`ConnectionTypeCorrect`, `StrayTransactions`,
  `BlocksEndTruthfully`, `ForkedConnections`, `WriteIsSerial`). Per thread: frames
  are as many as its depth (`ShapeInv`), its connections are its own (`OwnInv`),
  until `close()` they are all the one in its slot (`SlotInv`), the connection of
  its outermost block, while open, has the transaction (`TxnInv`), it holds the
  lock at least as often as it is deep (`LockInv`), what it executed is in that
  transaction (`MineInv`), and a nested failure is remembered (`HurtInv`). With
  them an open transaction belongs to one outermost block (`StrayInv`) and its
  work to that thread (`WorkInv`). `WriteIsSerial` maps each step to one of
  `SerialTxn` or to a stutter; the invariant shows that a statement outside a
  transaction can only follow a `close()`.
- **Opening** (`OpeningTypeCorrect`, `OnePolicy`, `NeverBricked`, `OpensAlone`,
  `RootsKept`). `Known` says what a process knows of the root at its place, which
  nobody undoes: tables and policies are only ever added. `Alone` says what an
  attempt knows beyond that as long as no other one overlaps it.
- **ReadCache** (`CacheTypeCorrect`, `PathsStayReadable`, `SweepCleans`,
  `ReadsSucceed`, `ExitLeavesNothing`). `Owned`:
  a process that never forked, and its threads, work in sessions of its own pid;
  hence no other process's close or sweep takes its files (`Given`), the sweep
  because it spares live pids. `Swept`: what a sweep has still to reap is on its
  list, since no dead process makes a session. A read that is under way has what
  its next call needs: an open store (`Quiet`), a session (`Rooted`), `.cache`
  above it unless a session's end was noted (`Roofed`), and its directory and
  temporary file (`Placed`); hence a call that fails has one of the four excuses.
  What a session leaves is the other side of it: a process without an excuse named
  its session once and every thread works in that one (`Lone`), its directory is
  there only until `rmdir` (`Home`), and nobody writes into it in between (`Wiped`).
- **Cdc** (`CdcTypeCorrect`, `ChunksAlwaysTile`, `ShortcutsAlwaysExact`,
  `EditsStayLocal`). `InChunk`
  bounds the loop between the least and the largest end; `Narrowed` says that the
  kept fingerprint is the full one modulo the stricter mask, preserved because
  that divides the width. The lemmas about quotients and remainders before it also
  give `PlatformsAgree`: both ways to sample a chunk take the same offsets.
  `EditsStayLocal` compares two runs of the loop. `Explained` keeps of each chunk
  that was made a trace, the fingerprints at its bytes, which says what its end is
  without the loop; two traces over the same bytes are the same (`SameTrace`), so
  a chunk that begins at the same byte of the common part ends at the same one.
  From chunk to chunk the argument is induction, over the set of ends that are
  not shared: it has no least element.
- **Entries** (`FoundByValue`, `ToldIsFound`): a call that is accepted and
  searchable stores its value up to the kind (`SameMeaning`), what is not
  searchable is what is for display only (`SearchableUnlessShown`), and rounding
  is harmless when one of two numbers is below `Exact` (`Rounding`). It is stated
  for the calls of one block; that the request gives it to the user is part of
  `NothingIsInvented` and `NobodyIsLeftOut`, through `Hits` and `Meant`.
- **Walks.** `LineageIsRight`: the state of the depth-first walk after any number
  of turns satisfies `Walking`: the parents of a node that waits on the stack are
  listed or above it (`Waiting`), and what is above it is older (`Nested`); what is
  listed comes after its parents and only once (`Listing`); and everything met is
  in any set that has the start and the parents of its members (`Inside`). The
  second of these is why an acyclic store is never reported as cyclic. `TurnsLeft`
  (the stack, the nodes not met, the edges not followed) falls with each turn, so
  that the bound on the turns is enough.
  `ColumnsAreRight` and `PruneListIsRight` go through Kahn's loop, whose invariant
  is `Counting`: the order lists each node after its parents, what is ready is
  what has all its parents in the order, an indegree counts the parents that are
  not there yet, and a column is one more than the last of the parents that are
  (`Behind`). When nothing is ready every node is counted (`KahnStops`: the oldest
  one left would be ready), so the loop does not end early, and after as many turns
  as there are nodes it has ended (`KahnSorts`). The columns are then the longest
  paths whichever ready node is popped. The list of a prune is a second loop over
  that order: after k nodes it has those of them that are doomed, the latest
  first. Since each comes after its parents, "all parents are in the list" is by
  then "all parents are doomed" (`DoomedAre`), also when rows of the region are gone
  by then: a node that has no parent left to spare it goes.
- **Queries.** The first part is about programs. `Plan` says of the statements
  still to be made, as a set, what kinds they are, what they are about and which
  imply which others (`Reads`, `Asks`, `Finishes`, `About`), and of the sequence
  that it is sorted by `Before`; `Blank` what is empty until they are made,
  `Question` what was asked, `Stores` that the database is acyclic. Together with
  the types they are `Core`, the type invariant's strengthening (`TypeCorrect`).
  A lemma for each kind of statement says what it leaves, and `Outcomes` sums
  them up: a request has started, gone on, refused, stopped early, or taken the
  next node, and everything below goes through these.
  - `FailuresAreFounded`: `Recorded` (the history has the present state, and what
    is gone is not present), `Known` (what was read was there at some time) and
    `Complete` (of every node the answer is about, each part is read, still to be
    read, or the node is gone): a part that is missing in the end was pruned.
  - `NobodyIsLeftOut`: `Everyone`, that a node right at every moment is among the
    ids as soon as they have been read. `latest` was the hard one: it drops all ids
    but the newest, so `Screened` must say that each id that passed a filter was
    once right. With numbers that share a double that is false, and checking the
    invariant before proving it showed the property itself to be: with 4 and 5
    equal as doubles `latest` may prefer a newer node with the other number. The
    property now names that exception.
  - `AnswersOfOneMoment`, `NothingIsInvented`: `Genuine` says that what is listed
    was once right; `Linked`, `Fresh` and `Paired` that the edges read for a row
    are those the node had. Requests for many nodes read the edges first and those
    for one the row first, so only the latter can see a node lose its edges.
    `Momentary` needs the filters that are still to come: `Remaining` is what will
    be left of the ids when they have been made on the present state, and that is
    the answer of one moment (`FiltersAtOnce`), because as long as nobody prunes
    a commit adds no id to those read and changes no parents or values of theirs.
    `FindsAtOnce`, `FilesAtOnce`, `EdgesAtOnce` and `CountAtOnce` say the same of
    the other requests, `Backed` of a backup under prunes too, and `Failed` of
    failures. `Reader` is the invariant so far.
  - `WalksAreRight` says of the loops above that requests use them on what they
    rely on, and that this stays so until the answer. `Ordered`: while nobody
    prunes, the order of a lineage stays right between the walk and the last row
    (commits add no edge between nodes that are there). `Backward`: every edge that
    was read points back in time, though the rows at its ends may be gone by now,
    so that a page's columns need no check for cycles. `Rooted`: an edge of a page
    ends in a node it lists or in one pruned meanwhile; it needs that a page asks
    for all nodes first and for edges after that, and that prunes only ever take
    edges from a node. Together they are `Walked`.

Every part of `Reader`, `Everyone`, `Edged` and `Walked` was checked by TLC on the
stores of the run `queries` before it was proved.

Every invariant that a passing run checks is now a theorem. Only model-checked are the
liveness of `connection_live`, since temporal reasoning under fairness is beyond the
prover, and the violations, which are single behaviours.

## 5. Not modelled

- **Server lifecycle and HTTP.** `serve_graph` and `close` start and stop one
  thread and socket of the standard library; there is no persistent state. What
  the endpoints read is in `Queries`.
- **Rendering.** HTML, JSON, the files of the static export, browser assets.
- **Parts of the queries.** `sql` (one `SELECT`), the refusal of
  `find(parent_id=None)`, the `LIKE` of a free-text term
  (one `SELECT` as well), a handle's older parents in `from_parent`, the order of
  rows and of parents, batches of 900 host parameters, and the SQL text of filters.
- **Features and deltas.** The minima over the samples and the delta codec; in
  `Chunks` resemblance is any relation and decoding gives back what was encoded.
- **Parts of the metadata.** What lists and texts contain; the rewriting of an image
  or link into a path relative to the node, which no filter sees; and integers
  that no double comes near: such a one passes `prepare_entry`, whose check is
  there so that "the eventual write cannot fail", and overflows in `_numeric`
  when the rows are built at the end of the block. The block's files stay in
  scratch, as after `CommitFails` of `Lineage`.
- **`MetadataStore.remove` and `checkpoint`.** The first is called by tests only;
  the second moves the WAL into the file and changes no row.
- **Pids used again.** The sweep would take the new process for the owner and
  leave the directory until that process ends.
- **Provenance subprocesses, the command line, display helpers, notebooks.** Pure
  input and output, or examples.
