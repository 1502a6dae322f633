------------------------------ MODULE Chunks ------------------------------
(***************************************************************************)
(* The chunk pool and artifact recipes of a store (chunk_store.py), the    *)
(* ingest transaction that fills them (packing.py), the cascade of a prune *)
(* and the compaction that empties them (maintenance.py), and readers that *)
(* reassemble an artifact with one autocommit statement after another      *)
(* while all this goes on.                                                 *)
(*                                                                         *)
(* A chunk is its plaintext: SHA-256 is taken to be injective and a stored *)
(* blob to decode to what was encoded. Writers hold the database's one     *)
(* write lock for a whole transaction and see their own changes; readers   *)
(* see the last committed state (WAL).                                     *)
(***************************************************************************)
EXTENDS Naturals, Sequences, Functions

CONSTANTS
    Node,      \* node ids
    Path,      \* relpaths of artifacts
    Data,      \* plaintext chunks
    Payload,   \* what a file can be: the chunks the chunker cuts it into
    Reader,    \* threads that read artifacts
    None,
    Delta,     \* the store's delta policy
    Large,     \* the chunks of at least _DELTA_MIN_SIZE bytes
    Similar,   \* pairs <<base, chunk>> that share a super-feature
    Wins       \* pairs <<base, chunk>> whose delta beats plain compression

ASSUME PayloadAssumption == Payload \subseteq Seq(Data)
ASSUME ChunkNoneAssumption == None \notin Node /\ None \notin Path /\ None \notin Data

VARIABLES
    db,      \* the committed tables
    tx,      \* the open ingest transaction, if any
    reader,  \* each reader's artifact_bytes call
    used     \* history: ids of every node that was committed

vars == <<db, tx, reader, used>>

-----------------------------------------------------------------------------
\* chunk: digest -> how it is stored; chunk_feature: the indexed digests;
\* artifact and artifact_chunk: <<node, relpath>> -> ordered digests.
EmptyDb == [nodes |-> {}, pool |-> [d \in {} |-> None], indexed |-> {},
            recipe |-> [k \in {} |-> <<>>]]

Raw == [kind |-> "raw", base |-> None]
DeltaWithoutBase(b) == [kind |-> "delta", base |-> None]
DeltaOn(b) == [kind |-> "delta", base |-> b]

NoTx == [open |-> FALSE, work |-> EmptyDb, node |-> None, path |-> None,
         rest |-> <<>>, done |-> <<>>]

Idle == [pc |-> "idle", key |-> <<None, None>>, want |-> <<>>, rest |-> <<>>,
         got |-> <<>>, base |-> None]

Pool(s) == DOMAIN s.pool
Stored(s) == DOMAIN s.recipe

Put(f, k, v) == [x \in DOMAIN f \union {k} |-> IF x = k THEN v ELSE f[x]]

CandidatesAnyKind(s, d) == {b \in Pool(s) : <<b, d>> \in Similar}

\* _find_base: non-delta chunks of the index that share a feature with d (the
\* query takes the one that shares most, the oldest among equals).
Candidates(s, d) ==
    {b \in s.indexed \intersect Pool(s) :
       s.pool[b].kind # "delta" /\ <<b, d>> \in Similar}

\* compact_chunks keeps what a recipe uses and, one hop, the bases of those.
Referenced(s) == UNION {Range(s.recipe[k]) : k \in Stored(s)}
LiveWithoutBases(s) == Referenced(s)

Live(s) ==
    Referenced(s) \union
    {s.pool[d].base : d \in {c \in Referenced(s) \intersect Pool(s) :
                               s.pool[c].kind = "delta"}}

-----------------------------------------------------------------------------
Init ==
    /\ db = EmptyDb
    /\ tx = NoTx
    /\ reader = [r \in Reader |-> Idle]
    /\ used = {}

\* ingest_node takes the write lock and inserts the node row. Every id is
\* committed at most once.
Begin(n) ==
    /\ ~tx.open /\ n \notin used
    /\ tx' = [NoTx EXCEPT !.open = TRUE, !.node = n,
                          !.work = [db EXCEPT !.nodes = @ \union {n}]]
    /\ UNCHANGED <<db, reader, used>>

\* The next file of the scratch is read and cut.
NextFile(f, payload) ==
    /\ tx.open /\ tx.path = None
    /\ <<tx.node, f>> \notin Stored(tx.work)
    /\ tx' = [tx EXCEPT !.path = f, !.rest = payload, !.done = <<>>]
    /\ UNCHANGED <<db, reader, used>>

\* One put_chunk: the digest joins the file's list, the tables become work.
Placed(work) ==
    tx' = [tx EXCEPT !.work = work, !.rest = Tail(@),
                     !.done = Append(@, Head(tx.rest))]

Cutting == tx.open /\ tx.path # None /\ tx.rest # <<>>

\* Layer 1: the chunk is in the pool already.
PutKnown ==
    /\ Cutting /\ Head(tx.rest) \in Pool(tx.work)
    /\ Placed(tx.work)
    /\ UNCHANGED <<db, reader, used>>

Resembles(d) == Delta /\ d \in Large

\* _insert_chunk and _store_features.
WithChunk(work, d, c, indexed) ==
    [work EXCEPT !.pool = Put(@, d, c), !.indexed = indexed]

\* Layer 2: a delta against a base that makes it small enough. A delta gets
\* no features.
PutDelta(b) ==
    LET d == Head(tx.rest) IN
    /\ Cutting /\ d \notin Pool(tx.work)
    /\ Resembles(d) /\ b \in Candidates(tx.work, d) /\ <<b, d>> \in Wins
    /\ Placed(WithChunk(tx.work, d, DeltaOn(b), tx.work.indexed))
    /\ UNCHANGED <<db, reader, used>>

\* Otherwise a base chunk, indexed under its features if it has any.
PutRaw ==
    LET d == Head(tx.rest) IN
    /\ Cutting /\ d \notin Pool(tx.work)
    /\ Resembles(d) =>
         \/ Candidates(tx.work, d) = {}
         \/ \E b \in Candidates(tx.work, d) : <<b, d>> \notin Wins
    /\ Placed(WithChunk(tx.work, d, Raw,
                        tx.work.indexed \union (IF Resembles(d) THEN {d} ELSE {})))
    /\ UNCHANGED <<db, reader, used>>

\* add_artifact, once the file's chunks are placed.
AddArtifact ==
    /\ tx.open /\ tx.path # None /\ tx.rest = <<>>
    /\ tx' = [tx EXCEPT !.work.recipe = Put(@, <<tx.node, tx.path>>, tx.done),
                        !.path = None, !.done = <<>>]
    /\ UNCHANGED <<db, reader, used>>

Commit ==
    /\ tx.open /\ tx.path = None
    /\ db' = tx.work
    /\ tx' = NoTx
    /\ used' = used \union {tx.node}
    /\ UNCHANGED reader

RollbackKeepsChunks ==
    /\ tx.open
    /\ tx' = NoTx
    /\ db' = [db EXCEPT !.pool = tx.work.pool]
    /\ UNCHANGED <<reader, used>>

\* Any failure rolls the whole transaction back.
Rollback ==
    /\ tx.open
    /\ tx' = NoTx
    /\ UNCHANGED <<db, reader, used>>

\* Pruner.delete of one row: its recipes cascade, chunks stay.
DeleteNode(n) ==
    /\ ~tx.open /\ n \in db.nodes
    /\ db' = [db EXCEPT !.nodes = @ \ {n},
                        !.recipe = Restrict(@, {k \in Stored(db) : k[1] # n})]
    /\ UNCHANGED <<tx, reader, used>>

\* compact_chunks: one DELETE under the write lock; features cascade.
Compact ==
    LET keep == Pool(db) \intersect Live(db) IN
    /\ ~tx.open
    /\ db' = [db EXCEPT !.pool = Restrict(@, keep),
                        !.indexed = @ \intersect keep]
    /\ UNCHANGED <<tx, reader, used>>

-----------------------------------------------------------------------------
Becomes(r, state) ==
    /\ reader' = [reader EXCEPT ![r] = state]
    /\ UNCHANGED <<db, tx, used>>

Over == {"idle", "ok", "notfound", "integrity", "corrupt"}

\* artifact_bytes reads the artifact's row (its SHA-256 is the content) ...
Ask(r, n, f) ==
    /\ reader[r].pc \in Over
    /\ Becomes(r, IF <<n, f>> \in Stored(db)
                  THEN [Idle EXCEPT !.pc = "recipe", !.key = <<n, f>>,
                                    !.want = db.recipe[<<n, f>>]]
                  ELSE [Idle EXCEPT !.pc = "notfound"])

\* ... then the recipe, which is empty if the node has gone since ...
ReadRecipe(r) ==
    LET rd == reader[r] IN
    /\ rd.pc = "recipe"
    /\ Becomes(r, [rd EXCEPT !.pc = "chunks",
                    !.rest = IF rd.key \in Stored(db) THEN db.recipe[rd.key] ELSE <<>>])

\* ... then every chunk: get_chunk, a missing one is an IntegrityError ...
ReadChunk(r) ==
    LET rd == reader[r]
        d == Head(rd.rest)
    IN
    /\ rd.pc = "chunks" /\ rd.rest # <<>>
    /\ Becomes(r, IF d \notin Pool(db) THEN [rd EXCEPT !.pc = "integrity"]
                  ELSE IF db.pool[d].kind = "delta"
                       THEN [rd EXCEPT !.pc = "base", !.base = db.pool[d].base]
                       ELSE [rd EXCEPT !.rest = Tail(@), !.got = Append(@, d)])

\* ... and the base of a delta, which must be there and not be a delta ...
ReadBase(r) ==
    LET rd == reader[r] IN
    /\ rd.pc = "base"
    /\ Becomes(r, IF rd.base \in Pool(db) /\ db.pool[rd.base].kind # "delta"
                  THEN [rd EXCEPT !.pc = "chunks", !.base = None, !.rest = Tail(@),
                                  !.got = Append(@, Head(rd.rest))]
                  ELSE [rd EXCEPT !.pc = "integrity"])

\* ... and checks the whole against the SHA-256 it read first.
Deliver(r) ==
    LET rd == reader[r] IN
    /\ rd.pc = "chunks" /\ rd.rest = <<>>
    /\ Becomes(r, [rd EXCEPT !.pc = IF rd.got = rd.want THEN "ok" ELSE "corrupt"])

-----------------------------------------------------------------------------
WriteStep ==
    \/ \E n \in Node : Begin(n) \/ DeleteNode(n)
    \/ \E f \in Path, payload \in Payload : NextFile(f, payload)
    \/ PutKnown
    \/ \E b \in Data : PutDelta(b)
    \/ PutRaw
    \/ AddArtifact
    \/ Commit
    \/ Rollback
    \/ Compact

ReadStep(r) ==
    \/ \E n \in Node, f \in Path : Ask(r, n, f)
    \/ ReadRecipe(r)
    \/ ReadChunk(r)
    \/ ReadBase(r)
    \/ Deliver(r)

Next == WriteStep \/ \E r \in Reader : ReadStep(r)

Spec == Init /\ [][Next]_vars
-----------------------------------------------------------------------------
Chunk == [kind : {"raw"}, base : {None}] \union [kind : {"delta"}, base : Data]

IsPartialFn(f, D, R) == DOMAIN f \subseteq D /\ f \in [DOMAIN f -> R]

IsTables(s) ==
    /\ s \in [nodes : SUBSET Node, pool : {s.pool}, indexed : SUBSET Data,
               recipe : {s.recipe}]
    /\ IsPartialFn(s.pool, Data, Chunk)
    /\ IsPartialFn(s.recipe, Node \X Path, Seq(Data))

IsIngest(t) ==
    /\ t \in [open : BOOLEAN, work : {t.work}, node : Node \union {None},
               path : Path \union {None}, rest : Seq(Data), done : Seq(Data)]
    /\ IsTables(t.work)
    /\ t.open => t.node \in Node

Reading == [pc : Over \union {"recipe", "chunks", "base"},
            key : (Node \union {None}) \X (Path \union {None}),
            want : Seq(Data), rest : Seq(Data), got : Seq(Data),
            base : Data \union {None}]

\* The tables, committed and in the open transaction, the readers and the
\* history keep their types.
TypeOK ==
    /\ IsTables(db)
    /\ IsIngest(tx)
    /\ reader \in [Reader -> Reading]
    /\ used \subseteq Node

\* Every recipe names chunks of the pool, and a delta's base is in the pool and
\* is not a delta.
Resolves(s) ==
    /\ Referenced(s) \subseteq Pool(s)
    /\ \A d \in Pool(s) :
         s.pool[d].kind = "delta" =>
           s.pool[d].base \in Pool(s) /\ s.pool[s.pool[d].base].kind # "delta"

\* So it is in every committed state and at every point of an ingest, whatever
\* was deduplicated, pruned and compacted before: an artifact that is stored
\* can be read in at most two fetches per chunk.
PoolResolves == Resolves(db) /\ (tx.open => Resolves(tx.work))

\* A read fails its integrity checks only if the artifact was pruned while it
\* was being read: neither compaction nor a concurrent ingest disturbs it.
FailsOnlyIfPruned ==
    \A r \in Reader :
      reader[r].pc \in {"integrity", "corrupt"} => reader[r].key \notin Stored(db)

\* While nothing was ever pruned every chunk is live: a transaction that is
\* rolled back leaves no chunk behind.
GarbageOnlyFromPrune == used = db.nodes => Pool(db) \subseteq Live(db)
=============================================================================
