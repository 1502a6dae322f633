---------------------------- MODULE ChunksProofs ----------------------------
(***************************************************************************)
(* Proofs about Chunks.tla, for every set of nodes, chunks and payloads and*)
(* every resemblance between chunks: the type invariant, that every recipe *)
(* and every delta always resolves in the pool, that a read fails only if  *)
(* its artifact was pruned, and that only a prune leaves garbage.          *)
(***************************************************************************)
EXTENDS Chunks, TLAPS

\* The digests already placed for the file in hand are in the pool.
PlacedInv == tx.open => Range(tx.done) \subseteq Pool(tx.work)

\* A reader that fetches a base is at a chunk of its list.
BaseInv == \A r \in Reader : reader[r].pc = "base" => reader[r].rest # <<>>

IInv == TypeOK /\ PoolResolves /\ PlacedInv /\ BaseInv

-----------------------------------------------------------------------------
\* Put extends or overrides a partial function at one point.
LEMMA PutFn ==
    ASSUME NEW D, NEW R, NEW f, IsPartialFn(f, D, R), NEW k \in D, NEW v \in R
    PROVE  /\ IsPartialFn(Put(f, k, v), D, R)
           /\ DOMAIN Put(f, k, v) = DOMAIN f \union {k}
           /\ Put(f, k, v)[k] = v
           /\ \A i \in DOMAIN f \ {k} : Put(f, k, v)[i] = f[i]
BY DEF Put, IsPartialFn

\* Restrict keeps a part of a partial function.
LEMMA RestrictFn ==
    ASSUME NEW D, NEW R, NEW f, IsPartialFn(f, D, R), NEW S, S \subseteq DOMAIN f
    PROVE  /\ IsPartialFn(Restrict(f, S), D, R)
           /\ DOMAIN Restrict(f, S) = S
           /\ \A i \in S : Restrict(f, S)[i] = f[i]
BY DEF Restrict, IsPartialFn

\* What a chunk rests on is a digest or nothing.
LEMMA ChunkBase ==
    ASSUME NEW c \in Chunk PROVE c.base \in Data \union {None}
BY DEF Chunk, Raw, DeltaOn

\* A file with no chunk yet has an empty recipe.
LEMMA EmptyFile == <<>> \in Seq(Data) /\ Range(<<>>) = {}
BY DEF Range

\* Placing one more chunk of a file adds its digest to the file's recipe.
LEMMA AppendRange ==
    ASSUME NEW q \in Seq(Data), NEW d \in Data
    PROVE  /\ Append(q, d) \in Seq(Data)
           /\ Range(Append(q, d)) \subseteq Range(q) \union {d}
<1>1. DOMAIN Append(q, d) = 1 .. (Len(q) + 1) /\ DOMAIN q = 1 .. Len(q)
  OBVIOUS
<1>2. \A i \in 1 .. (Len(q) + 1) :
        Append(q, d)[i] = IF i \in 1 .. Len(q) THEN q[i] ELSE d
  OBVIOUS
<1> QED
  BY <1>1, <1>2 DEF Range

\* What is left of a payload after its next chunk.
LEMMA HeadTail ==
    ASSUME NEW q \in Seq(Data), q # <<>>
    PROVE  Head(q) \in Data /\ Tail(q) \in Seq(Data)
OBVIOUS

\* Tables that are empty are well typed and resolve.
LEMMA EmptyTables == IsTables(EmptyDb) /\ Resolves(EmptyDb)
BY DEF EmptyDb, IsTables, IsPartialFn, Resolves, Referenced, Stored, Pool

\* No transaction is well typed, and not open.
LEMMA NoTxTyped == IsIngest(NoTx) /\ NoTx.open = FALSE
BY EmptyTables DEF NoTx, IsIngest

-----------------------------------------------------------------------------
\* A new chunk, stored raw or as a delta on a chunk that is not one, leaves
\* everything resolved.
LEMMA NewChunkResolves ==
    ASSUME NEW s, IsTables(s), Resolves(s), NEW d \in Data \ Pool(s), NEW c \in Chunk,
           c.kind = "delta" => c.base \in Pool(s) /\ s.pool[c.base].kind # "delta",
           NEW I \in SUBSET Data,
           NEW t, t = WithChunk(s, d, c, I)
    PROVE  IsTables(t) /\ Resolves(t) /\ Pool(t) = Pool(s) \union {d}
<1> USE DEF WithChunk
<1>1. /\ t.nodes = s.nodes /\ t.recipe = s.recipe /\ t.indexed = I
      /\ t.pool = Put(s.pool, d, c)
      /\ t \in [nodes : SUBSET Node, pool : {t.pool}, indexed : SUBSET Data,
                 recipe : {t.recipe}]
  BY DEF IsTables
<1>2. /\ IsPartialFn(t.pool, Data, Chunk)
      /\ Pool(t) = Pool(s) \union {d}
      /\ t.pool[d] = c
      /\ \A e \in Pool(s) : t.pool[e] = s.pool[e]
  <2>1. IsPartialFn(s.pool, Data, Chunk) /\ d \in Data /\ c \in Chunk
    BY DEF IsTables
  <2>2. /\ IsPartialFn(Put(s.pool, d, c), Data, Chunk)
        /\ DOMAIN Put(s.pool, d, c) = DOMAIN s.pool \union {d}
        /\ Put(s.pool, d, c)[d] = c
        /\ \A e \in DOMAIN s.pool \ {d} : Put(s.pool, d, c)[e] = s.pool[e]
    BY <2>1, PutFn
  <2> QED
    BY <1>1, <2>2 DEF Pool
<1>3. IsTables(t)
  BY <1>1, <1>2 DEF IsTables
<1>4. Referenced(t) = Referenced(s)
  BY <1>1 DEF Referenced, Stored
<1>5. Resolves(t)
  BY <1>2, <1>4 DEF Resolves
<1> QED
  BY <1>2, <1>3, <1>5

\* A recipe over chunks of the pool resolves.
LEMMA NewRecipeResolves ==
    ASSUME NEW s, IsTables(s), Resolves(s), NEW k, k \in Node \X Path,
           NEW q \in Seq(Data), Range(q) \subseteq Pool(s),
           NEW t, t = [s EXCEPT !.recipe = Put(@, k, q)]
    PROVE  IsTables(t) /\ Resolves(t)
<1>1. /\ t.nodes = s.nodes /\ t.pool = s.pool /\ t.indexed = s.indexed
      /\ t.recipe = Put(s.recipe, k, q)
      /\ t \in [nodes : SUBSET Node, pool : {t.pool}, indexed : SUBSET Data,
                 recipe : {t.recipe}]
  BY DEF IsTables
<1>2. /\ IsPartialFn(t.recipe, Node \X Path, Seq(Data))
      /\ Stored(t) = Stored(s) \union {k} /\ t.recipe[k] = q
      /\ \A j \in Stored(s) \ {k} : t.recipe[j] = s.recipe[j]
  <2> DEFINE D == Node \X Path
             R == Seq(Data)
  <2>1. IsPartialFn(s.recipe, D, R) /\ k \in D /\ q \in R
    BY DEF IsTables
  <2> HIDE DEF D, R
  <2>2. /\ IsPartialFn(Put(s.recipe, k, q), D, R)
        /\ DOMAIN Put(s.recipe, k, q) = DOMAIN s.recipe \union {k}
        /\ Put(s.recipe, k, q)[k] = q
        /\ \A j \in DOMAIN s.recipe \ {k} : Put(s.recipe, k, q)[j] = s.recipe[j]
    BY <2>1 DEF Put, IsPartialFn
  <2> QED
    BY <1>1, <2>2 DEF Stored, D, R
<1>3. IsTables(t)
  BY <1>1, <1>2 DEF IsTables
<1>4. Referenced(t) \subseteq Referenced(s) \union Range(q)
  BY <1>2 DEF Referenced
<1> QED
  BY <1>1, <1>3, <1>4 DEF Resolves, Pool

\* Dropping recipes needs no chunk.
LEMMA FewerRecipesResolve ==
    ASSUME NEW s, IsTables(s), Resolves(s), NEW N \in SUBSET Node,
           NEW K, K \subseteq Stored(s),
           NEW t, t = [s EXCEPT !.nodes = N, !.recipe = Restrict(@, K)]
    PROVE  IsTables(t) /\ Resolves(t)
<1>1. /\ t.nodes = N /\ t.pool = s.pool /\ t.indexed = s.indexed
      /\ t.recipe = Restrict(s.recipe, K)
      /\ t \in [nodes : SUBSET Node, pool : {t.pool}, indexed : SUBSET Data,
                 recipe : {t.recipe}]
  BY DEF IsTables
<1>2. /\ IsPartialFn(t.recipe, Node \X Path, Seq(Data))
      /\ Stored(t) = K
      /\ \A j \in K : t.recipe[j] = s.recipe[j]
  BY <1>1, RestrictFn DEF IsTables, Stored
<1>3. IsTables(t)
  BY <1>1, <1>2 DEF IsTables
<1>4. Referenced(t) \subseteq Referenced(s)
  BY <1>2 DEF Referenced
<1> QED
  BY <1>1, <1>3, <1>4 DEF Resolves, Pool

\* Compaction keeps, with what recipes use, the bases those need: one hop is
\* enough because no base is a delta.
LEMMA CompactResolves ==
    ASSUME NEW s, IsTables(s), Resolves(s),
           NEW t, NEW keep, keep = Pool(s) \intersect Live(s),
           t = [s EXCEPT !.pool = Restrict(@, keep), !.indexed = @ \intersect keep]
    PROVE  IsTables(t) /\ Resolves(t)
<1>1. /\ t.nodes = s.nodes /\ t.recipe = s.recipe /\ t.pool = Restrict(s.pool, keep)
      /\ t \in [nodes : SUBSET Node, pool : {t.pool}, indexed : SUBSET Data,
                 recipe : {t.recipe}]
  BY DEF IsTables
<1>2. /\ IsPartialFn(t.pool, Data, Chunk)
      /\ Pool(t) = keep
      /\ \A d \in keep : t.pool[d] = s.pool[d]
  BY <1>1, RestrictFn DEF IsTables, Pool
<1>3. IsTables(t)
  BY <1>1, <1>2 DEF IsTables
<1>4. Referenced(t) = Referenced(s) /\ Referenced(s) \subseteq keep
  BY <1>1 DEF Referenced, Stored, Resolves, Live
<1>5. ASSUME NEW d \in keep, s.pool[d].kind = "delta"
      PROVE  s.pool[d].base \in keep /\ s.pool[s.pool[d].base].kind # "delta"
  <2>1. d \in Pool(s) /\ d \in Live(s)
    OBVIOUS
  <2>2. s.pool[d].base \in Pool(s) /\ s.pool[s.pool[d].base].kind # "delta"
    BY <1>5, <2>1 DEF Resolves
  <2>3. d \in Referenced(s)
    BY <1>5, <2>1 DEF Live, Resolves
  <2>4. s.pool[d].base \in Live(s)
    BY <1>5, <2>1, <2>3 DEF Live
  <2> QED
    BY <2>2, <2>4
<1> QED
  BY ZenonT(60), <1>2, <1>3, <1>4, <1>5 DEF Resolves

-----------------------------------------------------------------------------
\* The empty pool with idle readers satisfies the invariant.
LEMMA InitInv == Init => IInv
<1>1. Idle \in Reading
  BY DEF Idle, Reading, Over
<1> QED
  BY <1>1, EmptyTables, NoTxTyped DEF Init, IInv, TypeOK, PoolResolves, PlacedInv,
       BaseInv, Idle

\* A step inside an ingest transaction keeps the invariant if its own tables
\* do; a step that replaces the committed tables, if those do; a read always.
LEMMA IngestStepInv ==
    ASSUME IInv, UNCHANGED <<db, reader, used>>, IsIngest(tx'),
           tx'.open => Resolves(tx'.work) /\ Range(tx'.done) \subseteq Pool(tx'.work)
    PROVE  IInv'
BY DEF IInv, TypeOK, PoolResolves, PlacedInv, BaseInv, IsIngest, IsTables, Resolves, Referenced,
       Stored, Pool

\* A step that replaces the committed tables and closes the transaction.
LEMMA CommitStepInv ==
    ASSUME IInv, IsTables(db'), Resolves(db'), UNCHANGED reader, used' \subseteq Node,
           IsIngest(tx'), ~tx'.open
    PROVE  IInv'
BY DEF IInv, TypeOK, PoolResolves, PlacedInv, BaseInv, IsIngest, IsTables, Resolves, Referenced,
       Stored, Pool

\* A step of one reader.
LEMMA ReadingStepInv ==
    ASSUME IInv, NEW r \in Reader, NEW state \in Reading, Becomes(r, state),
           state.pc = "base" => state.rest # <<>>
    PROVE  IInv'
<1>1. UNCHANGED <<db, tx, used>> /\ reader' = [reader EXCEPT ![r] = state]
  BY DEF Becomes
<1>2. reader' \in [Reader -> Reading]
  BY <1>1 DEF IInv, TypeOK
<1>3. BaseInv'
  BY <1>1 DEF IInv, BaseInv, TypeOK
<1> QED
  BY <1>1, <1>2, <1>3 DEF IInv, TypeOK, PoolResolves, PlacedInv, IsIngest, IsTables,
                          Resolves, Referenced, Stored, Pool

\* Every statement of a reader keeps its type.
LEMMA ReadStepInv ==
    ASSUME IInv, NEW r \in Reader, ReadStep(r)
    PROVE  IInv'
<1> DEFINE rd == reader[r]
<1>1. /\ rd \in Reading /\ Idle \in Reading
      /\ IsPartialFn(db.pool, Data, Chunk)
      /\ IsPartialFn(db.recipe, Node \X Path, Seq(Data))
  BY DEF IInv, TypeOK, IsTables, Idle, Reading, Over
<1>2. CASE \E n \in Node, f \in Path : Ask(r, n, f)
  <2> PICK n \in Node, f \in Path : Ask(r, n, f)
    BY <1>2
  <2> DEFINE q == db.recipe[<<n, f>>]
             found == [Idle EXCEPT !.pc = "recipe", !.key = <<n, f>>, !.want = q]
             missing == [Idle EXCEPT !.pc = "notfound"]
  <2>1. CASE <<n, f>> \in Stored(db)
    <3>1. q \in Seq(Data)
      BY <1>1, <2>1 DEF IsPartialFn, Stored
    <3> HIDE DEF q
    <3>2. found \in Reading /\ found.pc = "recipe"
      BY <1>1, <3>1 DEF Reading
    <3>3. Becomes(r, found)
      BY <2>1 DEF Ask, q
    <3> HIDE DEF found
    <3> QED
      BY <3>2, <3>3, ReadingStepInv
  <2>2. CASE <<n, f>> \notin Stored(db)
    <3>1. missing \in Reading /\ missing.pc = "notfound"
      BY <1>1 DEF Reading, Over
    <3>2. Becomes(r, missing)
      BY <2>2 DEF Ask
    <3> HIDE DEF missing
    <3> QED
      BY <3>1, <3>2, ReadingStepInv
  <2> QED
    BY <2>1, <2>2
<1>3. CASE ReadRecipe(r)
  <2> DEFINE q == IF rd.key \in Stored(db) THEN db.recipe[rd.key] ELSE <<>>
             next == [rd EXCEPT !.pc = "chunks", !.rest = q]
  <2>1. q \in Seq(Data)
    BY <1>1 DEF IsPartialFn, Stored
  <2>2. Becomes(r, next)
    BY <1>3 DEF ReadRecipe
  <2> HIDE DEF q
  <2>3. next \in Reading /\ next.pc = "chunks"
    BY <1>1, <2>1 DEF Reading
  <2> HIDE DEF next
  <2> QED
    BY <2>2, <2>3, ReadingStepInv
<1>4. CASE ReadChunk(r)
  <2> DEFINE d == Head(rd.rest)
             missing == [rd EXCEPT !.pc = "integrity"]
             delta == [rd EXCEPT !.pc = "base", !.base = db.pool[d].base]
             raw == [rd EXCEPT !.rest = Tail(@), !.got = Append(@, d)]
  <2>1. rd.pc = "chunks" /\ rd.rest # <<>> /\ rd.rest \in Seq(Data) /\ rd.got \in Seq(Data)
    BY <1>1, <1>4 DEF ReadChunk, Reading
  <2>2. d \in Data /\ Tail(rd.rest) \in Seq(Data) /\ Append(rd.got, d) \in Seq(Data)
    BY <2>1, HeadTail
  <2>3. /\ missing \in Reading /\ missing.pc = "integrity"
        /\ raw \in Reading /\ raw.pc = "chunks"
    BY <1>1, <2>1, <2>2 DEF Reading, Over
  <2>4. d \in Pool(db) => delta \in Reading /\ delta.rest # <<>>
    <3> SUFFICES ASSUME d \in Pool(db) PROVE delta \in Reading /\ delta.rest # <<>>
      OBVIOUS
    <3>1. db.pool[d] \in Chunk
      BY <1>1 DEF IsPartialFn, Pool
    <3>2. db.pool[d].base \in Data \union {None}
      BY <3>1, ChunkBase
    <3> DEFINE b == db.pool[d].base
    <3> HIDE DEF b
    <3>3. delta = [rd EXCEPT !.pc = "base", !.base = b] /\ b \in Data \union {None}
      BY <3>2 DEF b
    <3> HIDE DEF delta
    <3> QED
      BY <1>1, <2>1, <3>3 DEF Reading
  <2>5. \/ Becomes(r, missing)
        \/ d \in Pool(db) /\ Becomes(r, delta)
        \/ Becomes(r, raw)
    BY <1>4 DEF ReadChunk
  <2> HIDE DEF missing, delta, raw
  <2> QED
    BY <2>3, <2>4, <2>5, ReadingStepInv
<1>5. CASE ReadBase(r)
  <2> DEFINE got == [rd EXCEPT !.pc = "chunks", !.base = None, !.rest = Tail(@),
                               !.got = Append(@, Head(rd.rest))]
             missing == [rd EXCEPT !.pc = "integrity"]
  <2>1. Becomes(r, got) \/ Becomes(r, missing)
    BY <1>5 DEF ReadBase
  <2>2. missing \in Reading /\ missing.pc = "integrity"
    BY <1>1 DEF Reading, Over
  <2>3. got \in Reading /\ got.pc = "chunks"
    <3>1. rd.rest # <<>> /\ rd.rest \in Seq(Data) /\ rd.got \in Seq(Data)
      BY <1>1, <1>5 DEF ReadBase, IInv, BaseInv, Reading
    <3> DEFINE tail == Tail(rd.rest)
               more == Append(rd.got, Head(rd.rest))
    <3>2. tail \in Seq(Data) /\ more \in Seq(Data)
      BY <3>1, HeadTail
    <3> HIDE DEF tail, more
    <3>3. got = [rd EXCEPT !.pc = "chunks", !.base = None, !.rest = tail, !.got = more]
      BY DEF tail, more
    <3> HIDE DEF got
    <3> QED
      BY <1>1, <3>2, <3>3 DEF Reading
  <2> HIDE DEF got, missing
  <2> QED
    BY <2>1, <2>2, <2>3, ReadingStepInv
<1>6. CASE Deliver(r)
  <2> DEFINE w == IF rd.got = rd.want THEN "ok" ELSE "corrupt"
             done == [rd EXCEPT !.pc = w]
  <2>1. Becomes(r, done)
    BY <1>6 DEF Deliver
  <2>2. w \in Over
    BY DEF Over
  <2> HIDE DEF w
  <2>3. done \in Reading /\ done.pc # "base"
    BY <1>1, <2>2 DEF Reading, Over
  <2> HIDE DEF done
  <2> QED
    BY <2>1, <2>3, ReadingStepInv
<1> QED
  BY <1>2, <1>3, <1>4, <1>5, <1>6 DEF ReadStep

\* Every step of a writer keeps the invariant: an ingest adds chunks before
\* the recipes that name them, a delta only ever rests on a base that is not
\* one, and deletion and compaction remove only what nothing names.
LEMMA WriteStepInv ==
    ASSUME IInv, WriteStep
    PROVE  IInv'
<1>1. /\ IsTables(db) /\ Resolves(db) /\ IsIngest(tx) /\ used \subseteq Node
      /\ tx.open => Resolves(tx.work) /\ Range(tx.done) \subseteq Pool(tx.work)
      /\ IsTables(tx.work) /\ tx.rest \in Seq(Data) /\ tx.done \in Seq(Data)
      /\ tx.path \in Path \union {None} /\ (tx.open => tx.node \in Node)
  BY DEF IInv, TypeOK, PoolResolves, PlacedInv, IsIngest
<1>2. CASE \E n \in Node : Begin(n)
  <2> PICK n \in Node : Begin(n)
    BY <1>2
  <2> DEFINE w == [db EXCEPT !.nodes = @ \union {n}]
             t == [NoTx EXCEPT !.open = TRUE, !.node = n, !.work = w]
  <2>1. tx' = t /\ UNCHANGED <<db, reader, used>>
    BY DEF Begin
  <2>2. /\ IsTables(w) /\ w.pool = db.pool /\ w.recipe = db.recipe
    BY <1>1 DEF IsTables
  <2>3. Resolves(w)
    BY <1>1, <2>2 DEF Resolves, Pool, Referenced, Stored
  <2> HIDE DEF w
  <2>4. /\ t.open /\ t.work = w /\ t.done = <<>> /\ t.node = n
        /\ t \in [open : BOOLEAN, work : {t.work}, node : Node \union {None},
                  path : Path \union {None}, rest : Seq(Data), done : Seq(Data)]
    <3>1. /\ IsIngest(NoTx) /\ NoTx.done = <<>>
      BY NoTxTyped DEF NoTx
    <3> QED
      BY <3>1 DEF IsIngest
  <2>5. IsIngest(t)
    BY <2>2, <2>4 DEF IsIngest
  <2>6. Range(t.done) = {}
    BY <2>4, EmptyFile
  <2> HIDE DEF t
  <2> QED
    BY <2>1, <2>3, <2>4, <2>5, <2>6, IngestStepInv
<1>3. CASE \E f \in Path, payload \in Payload : NextFile(f, payload)
  <2> PICK f \in Path, payload \in Payload : NextFile(f, payload)
    BY <1>3
  <2> DEFINE t == [tx EXCEPT !.path = f, !.rest = payload, !.done = <<>>]
  <2>1. tx.open /\ tx' = t /\ UNCHANGED <<db, reader, used>>
    BY DEF NextFile
  <2>2. payload \in Seq(Data)
    BY PayloadAssumption
  <2>3. /\ t.open = tx.open /\ t.work = tx.work /\ t.node = tx.node /\ t.done = <<>>
        /\ t \in [open : BOOLEAN, work : {t.work}, node : Node \union {None},
                  path : Path \union {None}, rest : Seq(Data), done : Seq(Data)]
    <3> DEFINE e == <<>>
    <3>1. e \in Seq(Data) /\ t = [tx EXCEPT !.path = f, !.rest = payload, !.done = e]
      BY EmptyFile
    <3> HIDE DEF e, t
    <3>2. /\ t.open = tx.open /\ t.work = tx.work /\ t.node = tx.node /\ t.done = e
          /\ t \in [open : BOOLEAN, work : {t.work}, node : Node \union {None},
                    path : Path \union {None}, rest : Seq(Data), done : Seq(Data)]
      BY <1>1, <2>2, <3>1 DEF IsIngest
    <3> QED
      BY <3>2 DEF e
  <2>4. IsIngest(t)
    BY <1>1, <2>3 DEF IsIngest
  <2>5. Range(t.done) = {}
    BY <2>3, EmptyFile
  <2> HIDE DEF t
  <2> QED
    BY <1>1, <2>1, <2>3, <2>4, <2>5, IngestStepInv
<1>4. \* one chunk placed
      ASSUME Cutting, NEW w, Placed(w), UNCHANGED <<db, reader, used>>,
             IsTables(w), Resolves(w),
             Pool(tx.work) \union {Head(tx.rest)} \subseteq Pool(w)
      PROVE  IInv'
  <2> DEFINE tail == Tail(tx.rest)
             more == Append(tx.done, Head(tx.rest))
             t == [tx EXCEPT !.work = w, !.rest = tail, !.done = more]
  <2>1. tx.open /\ tx' = t
    BY <1>4 DEF Cutting, Placed
  <2>2. /\ tail \in Seq(Data) /\ more \in Seq(Data)
        /\ Range(more) \subseteq Range(tx.done) \union {Head(tx.rest)}
    BY <1>1, <1>4, HeadTail, AppendRange DEF Cutting
  <2> HIDE DEF tail, more
  <2>3. /\ t.open = tx.open /\ t.work = w /\ t.node = tx.node /\ t.done = more
        /\ t \in [open : BOOLEAN, work : {t.work}, node : Node \union {None},
                  path : Path \union {None}, rest : Seq(Data), done : Seq(Data)]
    BY <1>1, <2>2 DEF IsIngest
  <2>4. IsIngest(t)
    BY <1>1, <1>4, <2>3 DEF IsIngest
  <2> HIDE DEF t
  <2> QED
    BY <1>1, <1>4, <2>1, <2>2, <2>3, <2>4, IngestStepInv
<1>5. CASE PutKnown
  <2>1. /\ Cutting /\ Placed(tx.work) /\ UNCHANGED <<db, reader, used>>
        /\ Head(tx.rest) \in Pool(tx.work) /\ tx.open
    BY <1>5 DEF PutKnown, Cutting
  <2> QED
    BY <1>1, <1>4, <2>1
<1>6. \* one chunk stored
      ASSUME Cutting, NEW d, d = Head(tx.rest), d \notin Pool(tx.work),
             NEW c \in Chunk,
             c.kind = "delta" =>
               c.base \in Pool(tx.work) /\ tx.work.pool[c.base].kind # "delta",
             NEW I \in SUBSET Data,
             Placed(WithChunk(tx.work, d, c, I)), UNCHANGED <<db, reader, used>>
      PROVE  IInv'
  <2> DEFINE w == WithChunk(tx.work, d, c, I)
  <2>1. IsTables(tx.work) /\ Resolves(tx.work) /\ d \in Data \ Pool(tx.work)
    BY <1>1, <1>6, HeadTail DEF Cutting
  <2>2. IsTables(w) /\ Resolves(w) /\ Pool(w) = Pool(tx.work) \union {d}
    BY <1>6, <2>1, NewChunkResolves
  <2> QED
    BY <1>4, <1>6, <2>2
<1>7. CASE \E b \in Data : PutDelta(b)
  <2> PICK b \in Data : PutDelta(b)
    BY <1>7
  <2> DEFINE d == Head(tx.rest)
             c == DeltaOn(b)
             I == tx.work.indexed
  <2>1. /\ Cutting /\ Placed(WithChunk(tx.work, d, c, I)) /\ UNCHANGED <<db, reader, used>>
        /\ d \notin Pool(tx.work) /\ b \in Candidates(tx.work, d) /\ tx.open
    BY DEF PutDelta, Cutting
  <2>2. /\ c \in Chunk /\ c.base = b
        /\ b \in Pool(tx.work) /\ tx.work.pool[b].kind # "delta"
    BY <2>1 DEF Chunk, DeltaOn, Candidates
  <2>3. I \in SUBSET Data
    BY <1>1, <2>1 DEF IsTables
  <2> HIDE DEF c, I
  <2> QED
    BY <1>6, <2>1, <2>2, <2>3
<1>12. CASE PutRaw
  <2> DEFINE d == Head(tx.rest)
             c == Raw
             I == tx.work.indexed \union (IF Resembles(d) THEN {d} ELSE {})
  <2>1. /\ Cutting /\ Placed(WithChunk(tx.work, d, c, I)) /\ UNCHANGED <<db, reader, used>>
        /\ d \notin Pool(tx.work) /\ tx.open
    BY <1>12 DEF PutRaw, Cutting
  <2>2. d \in Data
    BY <1>1, <2>1, HeadTail DEF Cutting
  <2>3. I \in SUBSET Data
    BY <1>1, <2>1, <2>2 DEF IsTables
  <2>4. c \in Chunk /\ c.kind # "delta"
    BY DEF Chunk, Raw
  <2> HIDE DEF c, I
  <2> QED
    BY <1>6, <2>1, <2>3, <2>4
<1>8. CASE AddArtifact
  <2> DEFINE k == <<tx.node, tx.path>>
             w == [tx.work EXCEPT !.recipe = Put(@, k, tx.done)]
             t == [tx EXCEPT !.work = w, !.path = None, !.done = <<>>]
  <2>1. /\ tx.open /\ tx.path # None /\ UNCHANGED <<db, reader, used>>
        /\ tx' = t
    BY <1>1, <1>8 DEF AddArtifact, IsIngest
  <2>2. k \in Node \X Path
    BY <1>1, <2>1
  <2> HIDE DEF k
  <2>3. IsTables(w) /\ Resolves(w)
    BY <1>1, <2>1, <2>2, NewRecipeResolves
  <2> HIDE DEF w
  <2>4. /\ t.open = tx.open /\ t.work = w /\ t.node = tx.node /\ t.done = <<>>
        /\ t \in [open : BOOLEAN, work : {t.work}, node : Node \union {None},
                  path : Path \union {None}, rest : Seq(Data), done : Seq(Data)]
    <3> DEFINE e == <<>>
    <3>1. e \in Seq(Data) /\ t = [tx EXCEPT !.work = w, !.path = None, !.done = e]
      BY EmptyFile
    <3> HIDE DEF e, t
    <3>2. /\ t.open = tx.open /\ t.work = w /\ t.node = tx.node /\ t.done = e
          /\ t \in [open : BOOLEAN, work : {t.work}, node : Node \union {None},
                    path : Path \union {None}, rest : Seq(Data), done : Seq(Data)]
      BY <1>1, <3>1 DEF IsIngest
    <3> QED
      BY <3>2 DEF e
  <2>5. IsIngest(t)
    BY <1>1, <2>3, <2>4 DEF IsIngest
  <2>6. Range(t.done) = {}
    BY <2>4, EmptyFile
  <2> HIDE DEF t
  <2> QED
    BY <2>1, <2>3, <2>4, <2>5, <2>6, IngestStepInv
<1>9. CASE Commit
  <2>1. /\ tx.open /\ db' = tx.work /\ tx' = NoTx /\ used' = used \union {tx.node}
        /\ UNCHANGED reader
    BY <1>9 DEF Commit
  <2> QED
    BY <1>1, <2>1, NoTxTyped, CommitStepInv
<1>10. CASE Rollback
  <2>1. tx' = NoTx /\ UNCHANGED <<db, reader, used>>
    BY <1>10 DEF Rollback
  <2> QED
    BY <2>1, NoTxTyped, IngestStepInv
<1>11. CASE \E n \in Node : DeleteNode(n)
  <2> PICK n \in Node : DeleteNode(n)
    BY <1>11
  <2> DEFINE K == {k \in Stored(db) : k[1] # n}
             N == db.nodes \ {n}
  <2>1. /\ ~tx.open /\ UNCHANGED <<tx, reader, used>>
        /\ db' = [db EXCEPT !.nodes = N, !.recipe = Restrict(@, K)]
    BY DEF DeleteNode
  <2>2. K \subseteq Stored(db) /\ N \in SUBSET Node
    BY <1>1 DEF IsTables
  <2> HIDE DEF K, N
  <2>3. IsTables(db') /\ Resolves(db')
    BY <1>1, <2>1, <2>2, FewerRecipesResolve
  <2> QED
    BY <1>1, <2>1, <2>3, CommitStepInv
<1>13. CASE Compact
  <2> DEFINE keep == Pool(db) \intersect Live(db)
  <2>1. /\ ~tx.open /\ UNCHANGED <<tx, reader, used>>
        /\ db' = [db EXCEPT !.pool = Restrict(@, keep), !.indexed = @ \intersect keep]
    BY <1>13 DEF Compact
  <2>2. IsTables(db') /\ Resolves(db')
    BY <1>1, <2>1, CompactResolves
  <2> QED
    BY <1>1, <2>1, <2>2, CommitStepInv
<1> QED
  BY <1>2, <1>3, <1>5, <1>7, <1>8, <1>9, <1>10, <1>11, <1>12, <1>13 DEF WriteStep

\* The invariant depends on the variables only.
LEMMA StutterInv == IInv /\ UNCHANGED vars => IInv'
BY DEF IInv, TypeOK, PoolResolves, PlacedInv, BaseInv, IsIngest, IsTables, Resolves,
       Referenced, Stored, Pool, vars

-----------------------------------------------------------------------------
\* The inductive invariant holds in every state of every execution.
THEOREM Invariance == Spec => []IInv
<1>1. IInv /\ [Next]_vars => IInv'
  <2> SUFFICES ASSUME IInv, [Next]_vars PROVE IInv'
    OBVIOUS
  <2>1. CASE Next
    BY <2>1, WriteStepInv, ReadStepInv DEF Next
  <2> QED
    BY <2>1, StutterInv
<1> QED
  BY InitInv, <1>1, PTL DEF Spec

\* The tables, the open transaction and the readers keep their types.
THEOREM ChunksTypeCorrect == Spec => []TypeOK
<1>1. IInv => TypeOK
  BY DEF IInv
<1> QED
  BY Invariance, <1>1, PTL

\* However ingests, prunes and compactions follow each other, every recipe and
\* every delta resolves in the committed pool and in the open transaction's.
THEOREM PoolAlwaysResolves == Spec => []PoolResolves
<1>1. IInv => PoolResolves
  BY DEF IInv
<1> QED
  BY Invariance, <1>1, PTL

-----------------------------------------------------------------------------
\* t has what s has, recipes and chunks alike.
Extends(t, s) ==
    /\ \A k \in Stored(s) : k \in Stored(t) /\ t.recipe[k] = s.recipe[k]
    /\ \A d \in Pool(s) : d \in Pool(t) /\ t.pool[d] = s.pool[d]

\* An open ingest has only added to the committed tables, and its recipes are
\* those of its own node, which was never committed before.
TxInv ==
    tx.open => /\ tx.node \notin used
               /\ Extends(tx.work, db)
               /\ \A k \in Stored(tx.work) \ Stored(db) : k[1] = tx.node

\* A recipe belongs to a node that was committed.
StoredInv == \A k \in Stored(db) : k[1] \in used

\* While its artifact is stored, a reader has read a part of its recipe, fetches
\* the base of a delta of it, and has not failed.
OnTrack(rd, s) ==
    /\ rd.pc \in {"recipe", "chunks", "base"} /\ rd.want = s.recipe[rd.key]
    /\ rd.pc = "recipe" => rd.got = <<>>
    /\ rd.pc \in {"chunks", "base"} => rd.got \o rd.rest = rd.want
    /\ rd.pc = "base" => /\ Head(rd.rest) \in Pool(s)
                         /\ s.pool[Head(rd.rest)].kind = "delta"
                         /\ s.pool[Head(rd.rest)].base = rd.base

ReaderFine(rd, s, u) ==
    rd.pc \in {"recipe", "chunks", "base", "integrity", "corrupt"} =>
      /\ rd.key[1] \in u
      /\ rd.key \in Stored(s) => OnTrack(rd, s)

ReaderInv == \A r \in Reader : ReaderFine(reader[r], db, used)

RInv == TxInv /\ StoredInv /\ ReaderInv

\* What is live once the file in hand, of which q is placed, has its recipe.
LiveWith(s, q) ==
    LET R == Referenced(s) \union Range(q) IN
    R \union {s.pool[d].base : d \in {c \in R \intersect Pool(s) :
                                       s.pool[c].kind = "delta"}}

\* Without a prune every chunk of the open transaction is live, or will be
\* when the file in hand is done.
GInv ==
    /\ db.nodes \subseteq used
    /\ GarbageOnlyFromPrune
    /\ tx.open => /\ tx.node \notin used
                  /\ tx.work.nodes = db.nodes \union {tx.node}
                  /\ tx.path = None => tx.done = <<>>
                  /\ tx.path # None => <<tx.node, tx.path>> \notin Stored(tx.work)
                  /\ used = db.nodes => Pool(tx.work) \subseteq LiveWith(tx.work, tx.done)

-----------------------------------------------------------------------------
\* Placing one more chunk adds exactly its digest to the file's recipe.
LEMMA AppendRangeExact ==
    ASSUME NEW q \in Seq(Data), NEW d \in Data
    PROVE  Range(Append(q, d)) = Range(q) \union {d}
<1> DEFINE a == Append(q, d)
<1>1. DOMAIN a = 1 .. (Len(q) + 1) /\ DOMAIN q = 1 .. Len(q) /\ Len(q) \in Nat
  OBVIOUS
<1>2. \A i \in 1 .. (Len(q) + 1) : a[i] = IF i \in 1 .. Len(q) THEN q[i] ELSE d
  OBVIOUS
<1> HIDE DEF a
<1>3. a[Len(q) + 1] = d /\ \A i \in DOMAIN q : i \in DOMAIN a /\ a[i] = q[i]
  BY <1>1, <1>2
<1>4. Range(a) \subseteq Range(q) \union {d}
  BY <1>1, <1>2 DEF Range
<1>5. Range(q) \union {d} \subseteq Range(a)
  BY <1>1, <1>3 DEF Range
<1>6. Range(a) = Range(q) \union {d}
  BY <1>4, <1>5
<1> QED
  BY <1>6 DEF a

\* What is still to come of a recipe, moved over by one chunk.
LEMMA MoveOver ==
    ASSUME NEW got \in Seq(Data), NEW rest \in Seq(Data), rest # <<>>
    PROVE  /\ Append(got, Head(rest)) \o Tail(rest) = got \o rest
           /\ Head(rest) \in Range(got \o rest)
<1> DEFINE l == Append(got, Head(rest)) \o Tail(rest)
           r == got \o rest
           n == Len(got) + Len(rest)
<1>1. /\ Len(rest) \in Nat /\ Len(rest) >= 1 /\ Len(got) \in Nat
      /\ Head(rest) = rest[1] /\ Head(rest) \in Data
      /\ Tail(rest) \in Seq(Data) /\ Len(Tail(rest)) = Len(rest) - 1
      /\ \A i \in 1 .. (Len(rest) - 1) : Tail(rest)[i] = rest[i + 1]
  OBVIOUS
<1>2. /\ Append(got, Head(rest)) \in Seq(Data)
      /\ Len(Append(got, Head(rest))) = Len(got) + 1
      /\ \A i \in 1 .. Len(got) : Append(got, Head(rest))[i] = got[i]
      /\ Append(got, Head(rest))[Len(got) + 1] = rest[1]
  BY <1>1
<1>3. l \in Seq(Data) /\ r \in Seq(Data) /\ Len(l) = n /\ Len(r) = n
  BY <1>1, <1>2
<1>4. ASSUME NEW i \in 1 .. n PROVE l[i] = r[i]
  <2>1. CASE i \in 1 .. Len(got)
    BY <2>1, <1>1, <1>2
  <2>2. CASE i = Len(got) + 1
    BY <2>2, <1>1, <1>2
  <2>3. CASE i \in (Len(got) + 2) .. n
    <3>1. i - (Len(got) + 1) \in 1 .. (Len(rest) - 1)
      BY <2>3, <1>1
    <3>2. l[i] = Tail(rest)[i - (Len(got) + 1)]
      BY <2>3, <1>1, <1>2
    <3>3. Tail(rest)[i - (Len(got) + 1)] = rest[(i - (Len(got) + 1)) + 1]
      BY <3>1, <1>1
    <3>4. r[i] = rest[i - Len(got)] /\ (i - (Len(got) + 1)) + 1 = i - Len(got)
      BY <2>3, <1>1
    <3> QED
      BY <3>2, <3>3, <3>4
  <2> QED
    BY <2>1, <2>2, <2>3, <1>1
<1>5. r[Len(got) + 1] = Head(rest) /\ Len(got) + 1 \in DOMAIN r
  BY <1>1, <1>3
<1>6. Head(rest) \in Range(r)
  BY <1>5 DEF Range
<1>7. l = r
  BY <1>3, <1>4
<1> QED
  BY <1>6, <1>7 DEF l, r

-----------------------------------------------------------------------------
\* The open transaction is typed, whatever part of it a step looks at.
LEMMA TxTyped ==
    ASSUME IInv
    PROVE  /\ tx = [open |-> tx.open, work |-> tx.work, node |-> tx.node,
                    path |-> tx.path, rest |-> tx.rest, done |-> tx.done]
           /\ IsTables(tx.work) /\ tx.rest \in Seq(Data) /\ tx.done \in Seq(Data)
           /\ tx.path \in Path \union {None} /\ (tx.open => tx.node \in Node)
           /\ IsTables(db)
BY DEF IInv, TypeOK, IsIngest

\* Tables are a record of four.
LEMMA TablesRecord ==
    ASSUME NEW s, IsTables(s)
    PROVE  s = [nodes |-> s.nodes, pool |-> s.pool, indexed |-> s.indexed,
                recipe |-> s.recipe]
BY DEF IsTables

\* What an ingest that begins starts from.
LEMMA BeginIs ==
    ASSUME IInv, NEW n \in Node, Begin(n)
    PROVE  /\ ~tx.open /\ tx'.open /\ tx'.node = n /\ n \notin used /\ tx'.path = None
           /\ tx'.done = <<>> /\ UNCHANGED <<db, reader, used>>
           /\ tx'.work.nodes = db.nodes \union {n}
           /\ tx'.work.pool = db.pool /\ tx'.work.recipe = db.recipe
<1>1. tx' = [NoTx EXCEPT !.open = TRUE, !.node = n,
                         !.work = [db EXCEPT !.nodes = @ \union {n}]]
  BY DEF Begin
<1> DEFINE w == [db EXCEPT !.nodes = @ \union {n}]
<1>2. w.nodes = db.nodes \union {n} /\ w.pool = db.pool /\ w.recipe = db.recipe
  BY TxTyped, TablesRecord
<1> HIDE DEF w
<1>3. tx' = [NoTx EXCEPT !.open = TRUE, !.node = n, !.work = w]
  BY <1>1 DEF w
<1>4. /\ tx'.open /\ tx'.node = n /\ tx'.path = None /\ tx'.done = <<>>
      /\ tx'.work = w
  BY <1>3 DEF NoTx
<1> QED
  BY <1>2, <1>4 DEF Begin

\* What taking up a file leaves as it is.
LEMMA NextFileIs ==
    ASSUME IInv, NEW f \in Path, NEW payload \in Payload, NextFile(f, payload)
    PROVE  /\ tx.open /\ tx.path = None /\ <<tx.node, f>> \notin Stored(tx.work)
           /\ tx'.open /\ tx'.work = tx.work /\ tx'.node = tx.node /\ tx'.path = f
           /\ tx'.done = <<>> /\ UNCHANGED <<db, reader, used>>
<1>1. tx' = [tx EXCEPT !.path = f, !.rest = payload, !.done = <<>>]
  BY DEF NextFile
<1> QED
  BY <1>1, TxTyped DEF NextFile

\* What a stored chunk adds to the tables.
LEMMA WithChunkIs ==
    ASSUME NEW s, IsTables(s), NEW d, NEW c, NEW I, NEW t, t = WithChunk(s, d, c, I)
    PROVE  /\ t.nodes = s.nodes /\ t.recipe = s.recipe
           /\ Pool(t) = Pool(s) \union {d}
           /\ \A e \in Pool(s) \ {d} : t.pool[e] = s.pool[e]
<1>1. t.nodes = s.nodes /\ t.recipe = s.recipe /\ t.pool = Put(s.pool, d, c)
  BY TablesRecord DEF WithChunk
<1> QED
  BY <1>1 DEF Pool, Put

\* Tables t are s with, perhaps, the chunk d.
Gains(t, s, d) ==
    /\ t.nodes = s.nodes /\ t.recipe = s.recipe
    /\ Pool(t) = Pool(s) \union {d}
    /\ \A e \in Pool(s) : t.pool[e] = s.pool[e]

\* One put_chunk, whichever layer answers it, adds at most its own chunk.
LEMMA PutIs ==
    ASSUME IInv, PutKnown \/ (\E b \in Data : PutDelta(b)) \/ PutRaw
    PROVE  /\ tx.open /\ tx.path # None
           /\ tx'.open /\ tx'.node = tx.node /\ tx'.path = tx.path
           /\ UNCHANGED <<db, reader, used>>
           /\ Gains(tx'.work, tx.work, Head(tx.rest))
           /\ Range(tx'.done) = Range(tx.done) \union {Head(tx.rest)}
<1> DEFINE d == Head(tx.rest)
<1>1. Cutting /\ UNCHANGED <<db, reader, used>>
  BY DEF PutKnown, PutDelta, PutRaw
<1>2. PICK w : Placed(w) /\ Gains(w, tx.work, d)
  <2>1. CASE PutKnown
    <3>1. Placed(tx.work) /\ d \in Pool(tx.work)
      BY <2>1 DEF PutKnown
    <3> QED
      BY <3>1 DEF Gains
  <2>2. CASE (\E b \in Data : PutDelta(b)) \/ PutRaw
    <3>1. \E c, I : Placed(WithChunk(tx.work, d, c, I)) /\ d \notin Pool(tx.work)
      BY <2>2 DEF PutDelta, PutRaw
    <3> PICK c, I : Placed(WithChunk(tx.work, d, c, I)) /\ d \notin Pool(tx.work)
      BY <3>1
    <3> DEFINE v == WithChunk(tx.work, d, c, I)
    <3>2. /\ v.nodes = tx.work.nodes /\ v.recipe = tx.work.recipe
          /\ Pool(v) = Pool(tx.work) \union {d}
          /\ \A e \in Pool(tx.work) \ {d} : v.pool[e] = tx.work.pool[e]
      BY TxTyped, WithChunkIs
    <3> QED
      BY <3>2 DEF Gains
  <2> QED
    BY <2>1, <2>2
<1>3. tx' = [tx EXCEPT !.work = w, !.rest = Tail(tx.rest), !.done = Append(tx.done, d)]
  BY <1>2, TxTyped DEF Placed
<1>4. /\ tx'.open = tx.open /\ tx'.node = tx.node /\ tx'.path = tx.path
      /\ tx'.work = w /\ tx'.done = Append(tx.done, d)
  BY <1>3, TxTyped
<1>5. d \in Data
  BY <1>1, TxTyped, HeadTail DEF Cutting
<1>6. Range(tx'.done) = Range(tx.done) \union {d}
  BY <1>4, <1>5, TxTyped, AppendRangeExact
<1> QED
  BY <1>1, <1>2, <1>4, <1>6 DEF Cutting

\* What a finished file adds.
LEMMA AddArtifactIs ==
    ASSUME IInv, AddArtifact
    PROVE  /\ tx.open /\ tx.path # None
           /\ tx'.open /\ tx'.node = tx.node /\ tx'.path = None /\ tx'.done = <<>>
           /\ UNCHANGED <<db, reader, used>>
           /\ tx'.work.nodes = tx.work.nodes /\ tx'.work.pool = tx.work.pool
           /\ Stored(tx'.work) = Stored(tx.work) \union {<<tx.node, tx.path>>}
           /\ tx'.work.recipe[<<tx.node, tx.path>>] = tx.done
           /\ \A k \in Stored(tx.work) \ {<<tx.node, tx.path>>} :
                tx'.work.recipe[k] = tx.work.recipe[k]
<1> DEFINE k0 == <<tx.node, tx.path>>
           w == [tx.work EXCEPT !.recipe = Put(@, k0, tx.done)]
<1>1. tx' = [tx EXCEPT !.work = w, !.path = None, !.done = <<>>]
  BY TxTyped DEF AddArtifact
<1> HIDE DEF k0
<1>2. /\ w.nodes = tx.work.nodes /\ w.pool = tx.work.pool
      /\ w.recipe = Put(tx.work.recipe, k0, tx.done)
  BY TxTyped, TablesRecord
<1> HIDE DEF w
<1>3. /\ tx'.open = tx.open /\ tx'.node = tx.node /\ tx'.path = None
      /\ tx'.done = <<>> /\ tx'.work = w
  BY <1>1, TxTyped
<1>4. /\ Stored(w) = Stored(tx.work) \union {k0} /\ w.recipe[k0] = tx.done
      /\ \A k \in Stored(tx.work) \ {k0} : w.recipe[k] = tx.work.recipe[k]
  BY <1>2 DEF Put, Stored
<1> QED
  BY <1>2, <1>3, <1>4 DEF AddArtifact, k0

\* What a prune of one node takes.
LEMMA DeleteIs ==
    ASSUME IInv, NEW n \in Node, DeleteNode(n)
    PROVE  /\ ~tx.open /\ n \in db.nodes /\ UNCHANGED <<tx, reader, used>>
           /\ db'.nodes = db.nodes \ {n} /\ db'.pool = db.pool
           /\ Stored(db') = {k \in Stored(db) : k[1] # n}
           /\ \A k \in Stored(db') : db'.recipe[k] = db.recipe[k]
<1> DEFINE K == {k \in Stored(db) : k[1] # n}
<1>1. K \subseteq Stored(db)
  OBVIOUS
<1>2. db' = [db EXCEPT !.nodes = db.nodes \ {n}, !.recipe = Restrict(db.recipe, K)]
  BY TxTyped, TablesRecord DEF DeleteNode
<1>3. /\ db'.nodes = db.nodes \ {n} /\ db'.pool = db.pool
      /\ db'.recipe = Restrict(db.recipe, K)
  BY <1>2, TxTyped, TablesRecord
<1>4. Stored(db') = K /\ \A k \in K : db'.recipe[k] = db.recipe[k]
  BY <1>1, <1>3 DEF Restrict, Stored
<1> QED
  BY <1>3, <1>4 DEF DeleteNode

\* What compaction takes.
LEMMA CompactIs ==
    ASSUME IInv, Compact
    PROVE  /\ ~tx.open /\ UNCHANGED <<tx, reader, used>>
           /\ db'.nodes = db.nodes /\ db'.recipe = db.recipe
           /\ Pool(db') = Pool(db) \intersect Live(db)
           /\ \A d \in Pool(db') : db'.pool[d] = db.pool[d]
<1> DEFINE keep == Pool(db) \intersect Live(db)
<1>1. db' = [db EXCEPT !.pool = Restrict(db.pool, keep),
                       !.indexed = db.indexed \intersect keep]
  BY TxTyped, TablesRecord DEF Compact
<1>2. keep \subseteq Pool(db)
  OBVIOUS
<1> HIDE DEF keep
<1>3. /\ db'.nodes = db.nodes /\ db'.recipe = db.recipe
      /\ db'.pool = Restrict(db.pool, keep)
  BY <1>1, TxTyped, TablesRecord
<1>4. Pool(db') = keep /\ \A d \in keep : db'.pool[d] = db.pool[d]
  BY <1>2, <1>3 DEF Restrict, Pool
<1> QED
  BY <1>3, <1>4 DEF Compact, keep

-----------------------------------------------------------------------------
\* A state that keeps the recipes a reader may be at, and the chunks they name,
\* keeps what is known of the reader.
LEMMA ReaderKept ==
    ASSUME NEW rd \in Reading, NEW s, NEW t, NEW u, NEW v,
           ReaderFine(rd, s, u), u \subseteq v,
           \A k \in Stored(t) : k[1] \in u =>
              /\ k \in Stored(s) /\ t.recipe[k] = s.recipe[k]
              /\ \A d \in Range(s.recipe[k]) \intersect Pool(s) :
                   d \in Pool(t) /\ t.pool[d] = s.pool[d],
           rd.pc = "base" => rd.rest # <<>>
    PROVE  ReaderFine(rd, t, v)
<1> SUFFICES ASSUME rd.pc \in {"recipe", "chunks", "base", "integrity", "corrupt"}
             PROVE  /\ rd.key[1] \in v
                    /\ rd.key \in Stored(t) => OnTrack(rd, t)
  BY DEF ReaderFine
<1>1. rd.key[1] \in u /\ (rd.key \in Stored(s) => OnTrack(rd, s))
  BY DEF ReaderFine
<1>2. ASSUME rd.key \in Stored(t) PROVE OnTrack(rd, t)
  <2>1. /\ rd.key \in Stored(s) /\ t.recipe[rd.key] = s.recipe[rd.key]
        /\ \A d \in Range(s.recipe[rd.key]) \intersect Pool(s) :
             d \in Pool(t) /\ t.pool[d] = s.pool[d]
    BY <1>1, <1>2
  <2>2. OnTrack(rd, s)
    BY <1>1, <2>1
  <2>3. ASSUME rd.pc = "base"
        PROVE  Head(rd.rest) \in Pool(t) /\ t.pool[Head(rd.rest)] = s.pool[Head(rd.rest)]
    <3>1. rd.rest # <<>> /\ rd.rest \in Seq(Data) /\ rd.got \in Seq(Data)
      BY <2>3 DEF Reading
    <3>2. Head(rd.rest) \in Range(rd.got \o rd.rest)
      BY <3>1, MoveOver
    <3>3. Head(rd.rest) \in Range(s.recipe[rd.key]) /\ Head(rd.rest) \in Pool(s)
      BY <2>2, <2>3, <3>2 DEF OnTrack
    <3> QED
      BY <2>1, <3>3
  <2> QED
    BY <2>1, <2>2, <2>3 DEF OnTrack
<1> QED
  BY <1>1, <1>2

\* A step of the writers leaves every reader what is known of it.
LEMMA ReadersKept ==
    ASSUME IInv, RInv, UNCHANGED reader, used \subseteq used',
           \A k \in Stored(db') : k[1] \in used =>
              /\ k \in Stored(db) /\ db'.recipe[k] = db.recipe[k]
              /\ \A d \in Range(db.recipe[k]) \intersect Pool(db) :
                   d \in Pool(db') /\ db'.pool[d] = db.pool[d]
    PROVE  ReaderInv'
<1> SUFFICES ASSUME NEW r \in Reader PROVE ReaderFine(reader[r], db', used')
  BY DEF ReaderInv
<1>1. /\ reader[r] \in Reading /\ ReaderFine(reader[r], db, used)
      /\ reader[r].pc = "base" => reader[r].rest # <<>>
  BY DEF IInv, TypeOK, BaseInv, RInv, ReaderInv
<1> QED
  BY <1>1, ReaderKept

\* Every step of a writer keeps the readers' invariant: an ingest only adds,
\* a prune takes whole recipes and compaction nothing a recipe names.
LEMMA WriteStepReaders ==
    ASSUME IInv, RInv, WriteStep
    PROVE  RInv'
<1>1. /\ tx.open => /\ tx.node \notin used
                    /\ Extends(tx.work, db)
                    /\ \A k \in Stored(tx.work) \ Stored(db) : k[1] = tx.node
      /\ \A k \in Stored(db) : k[1] \in used
  BY DEF RInv, TxInv, StoredInv
<1>2. \* steps inside a transaction
      ASSUME UNCHANGED <<db, reader, used>>, TxInv' PROVE RInv'
  BY <1>2, <1>1 DEF RInv, StoredInv, ReaderInv
<1>3. CASE \E n \in Node : Begin(n)
  <2> PICK n \in Node : Begin(n)
    BY <1>3
  <2> QED
    BY <1>2, BeginIs DEF TxInv, Extends, Stored, Pool
<1>4. CASE \E f \in Path, payload \in Payload : NextFile(f, payload)
  <2> PICK f \in Path, payload \in Payload : NextFile(f, payload)
    BY <1>4
  <2>1. /\ tx.open /\ tx'.work = tx.work /\ tx'.node = tx.node
        /\ UNCHANGED <<db, reader, used>>
    BY NextFileIs
  <2> QED
    BY <1>1, <1>2, <2>1 DEF TxInv, Extends, Stored, Pool
<1>5. CASE PutKnown \/ (\E b \in Data : PutDelta(b)) \/ PutRaw
  <2>1. /\ tx.open /\ tx'.node = tx.node /\ UNCHANGED <<db, reader, used>>
        /\ Gains(tx'.work, tx.work, Head(tx.rest))
    BY <1>5, PutIs
  <2> QED
    BY <1>1, <1>2, <2>1 DEF TxInv, Extends, Gains, Stored, Pool
<1>6. CASE AddArtifact
  <2>1. /\ tx.open /\ tx'.node = tx.node /\ UNCHANGED <<db, reader, used>>
        /\ tx'.work.pool = tx.work.pool
        /\ Stored(tx'.work) = Stored(tx.work) \union {<<tx.node, tx.path>>}
        /\ \A k \in Stored(tx.work) \ {<<tx.node, tx.path>>} :
             tx'.work.recipe[k] = tx.work.recipe[k]
    BY <1>6, AddArtifactIs
  <2>2. <<tx.node, tx.path>> \notin Stored(db)
    BY <1>1, <2>1
  <2>3. Extends(tx'.work, db)
    BY <1>1, <2>1, <2>2 DEF Extends, Pool
  <2>4. \A k \in Stored(tx'.work) \ Stored(db) : k[1] = tx.node
    BY <1>1, <2>1
  <2> QED
    BY <1>1, <1>2, <2>1, <2>3, <2>4 DEF TxInv, Extends, Stored, Pool
<1>7. CASE Commit
  <2>1. /\ tx.open /\ db' = tx.work /\ tx' = NoTx /\ used' = used \union {tx.node}
        /\ UNCHANGED reader
    BY <1>7 DEF Commit
  <2>2. \A k \in Stored(db') : k[1] \in used =>
              /\ k \in Stored(db) /\ db'.recipe[k] = db.recipe[k]
              /\ \A d \in Range(db.recipe[k]) \intersect Pool(db) :
                   d \in Pool(db') /\ db'.pool[d] = db.pool[d]
    BY <1>1, <2>1 DEF Extends
  <2>3. ReaderInv'
    BY <2>1, <2>2, ReadersKept
  <2>4. StoredInv'
    BY <1>1, <2>1 DEF StoredInv, Stored
  <2>5. TxInv'
    BY <2>1, NoTxTyped DEF TxInv
  <2> QED
    BY <2>3, <2>4, <2>5 DEF RInv
<1>8. CASE Rollback
  <2>1. tx' = NoTx /\ UNCHANGED <<db, reader, used>>
    BY <1>8 DEF Rollback
  <2> QED
    BY <1>2, <2>1, NoTxTyped DEF TxInv
<1>9. CASE \E n \in Node : DeleteNode(n)
  <2> PICK n \in Node : DeleteNode(n)
    BY <1>9
  <2>1. /\ ~tx.open /\ UNCHANGED <<tx, reader, used>> /\ db'.pool = db.pool
        /\ Stored(db') \subseteq Stored(db)
        /\ \A k \in Stored(db') : db'.recipe[k] = db.recipe[k]
    BY DeleteIs
  <2>2. ReaderInv'
    BY <2>1, ReadersKept DEF Pool
  <2> QED
    BY <1>1, <2>1, <2>2 DEF RInv, TxInv, StoredInv
<1>10. CASE Compact
  <2>1. /\ ~tx.open /\ UNCHANGED <<tx, reader, used>> /\ db'.recipe = db.recipe
        /\ Pool(db') = Pool(db) \intersect Live(db)
        /\ \A d \in Pool(db') : db'.pool[d] = db.pool[d]
    BY <1>10, CompactIs
  <2>2. Stored(db') = Stored(db)
    BY <2>1 DEF Stored
  <2>3. \A k \in Stored(db) : Range(db.recipe[k]) \subseteq Live(db)
    BY DEF Live, Referenced
  <2>4. ReaderInv'
    BY <2>1, <2>2, <2>3, ReadersKept
  <2> QED
    BY <1>1, <2>1, <2>2, <2>4 DEF RInv, TxInv, StoredInv
<1> QED
  BY <1>3, <1>4, <1>5, <1>6, <1>7, <1>8, <1>9, <1>10 DEF WriteStep

\* Every statement of a reader keeps it: what its recipe names is there as long
\* as the recipe is.
LEMMA ReadStepReaders ==
    ASSUME IInv, RInv, NEW r \in Reader, ReadStep(r)
    PROVE  RInv'
<1> DEFINE rd == reader[r]
<1>1. /\ rd \in Reading /\ ReaderFine(rd, db, used) /\ Resolves(db)
      /\ reader \in [Reader -> Reading]
      /\ rd.pc = "base" => rd.rest # <<>>
      /\ \A k \in Stored(db) : k[1] \in used
  BY DEF IInv, TypeOK, PoolResolves, BaseInv, RInv, ReaderInv, StoredInv
<1>2. ASSUME NEW state, Becomes(r, state), ReaderFine(state, db, used) PROVE RInv'
  <2>1. UNCHANGED <<db, tx, used>> /\ reader' = [reader EXCEPT ![r] = state]
    BY <1>2 DEF Becomes
  <2>2. ReaderInv'
    BY <1>1, <1>2, <2>1 DEF RInv, ReaderInv
  <2> QED
    BY <2>1, <2>2 DEF RInv, TxInv, StoredInv
<1>3. CASE \E n \in Node, f \in Path : Ask(r, n, f)
  <2> PICK n \in Node, f \in Path : Ask(r, n, f)
    BY <1>3
  <2> DEFINE k == <<n, f>>
             found == [Idle EXCEPT !.pc = "recipe", !.key = k, !.want = db.recipe[k]]
             missing == [Idle EXCEPT !.pc = "notfound"]
  <2>1. CASE k \in Stored(db)
    <3>1. Becomes(r, found) /\ k[1] \in used
      BY <1>1, <2>1 DEF Ask
    <3>2. /\ found.pc = "recipe" /\ found.key = k /\ found.want = db.recipe[k]
          /\ found.got = <<>>
      BY DEF Idle
    <3> HIDE DEF found
    <3>3. ReaderFine(found, db, used)
      BY <3>1, <3>2 DEF ReaderFine, OnTrack
    <3> QED
      BY <1>2, <3>1, <3>3
  <2>2. CASE k \notin Stored(db)
    <3>1. Becomes(r, missing) /\ missing.pc = "notfound"
      BY <2>2 DEF Ask, Idle
    <3> HIDE DEF missing
    <3> QED
      BY <1>2, <3>1 DEF ReaderFine
  <2> QED
    BY <2>1, <2>2
<1>4. CASE ReadRecipe(r)
  <2> DEFINE q == IF rd.key \in Stored(db) THEN db.recipe[rd.key] ELSE <<>>
             next == [rd EXCEPT !.pc = "chunks", !.rest = q]
  <2>1. rd.pc = "recipe" /\ Becomes(r, next)
    BY <1>4 DEF ReadRecipe
  <2>2. rd.key[1] \in used /\ (rd.key \in Stored(db) => OnTrack(rd, db))
    BY <1>1, <2>1 DEF ReaderFine
  <2>3. /\ next.pc = "chunks" /\ next.key = rd.key /\ next.want = rd.want
        /\ next.got = rd.got /\ next.rest = q
    <3> HIDE DEF q
    <3> QED
      BY <1>1 DEF Reading
  <2>4. ASSUME rd.key \in Stored(db) PROVE OnTrack(next, db)
    <3>1. next.rest = next.want /\ next.got = <<>> /\ next.want \in Seq(Data)
      BY <1>1, <2>1, <2>2, <2>3, <2>4 DEF OnTrack, Reading
    <3> HIDE DEF next
    <3>2. next.got \o next.rest = next.want
      BY <3>1
    <3> QED
      BY <2>2, <2>3, <2>4, <3>2 DEF OnTrack
  <2> HIDE DEF next
  <2>5. ReaderFine(next, db, used)
    BY <2>2, <2>3, <2>4 DEF ReaderFine
  <2> QED
    BY <1>2, <2>1, <2>5
<1>5. \* the next chunk of a stored recipe
      ASSUME rd.pc \in {"chunks", "base"}, rd.rest # <<>>
      PROVE  /\ rd.key[1] \in used
             /\ rd.key \in Stored(db) =>
                  /\ OnTrack(rd, db) /\ Head(rd.rest) \in Pool(db)
                  /\ Append(rd.got, Head(rd.rest)) \o Tail(rd.rest) = rd.want
  <2>1. rd.key[1] \in used /\ (rd.key \in Stored(db) => OnTrack(rd, db))
    BY <1>1, <1>5 DEF ReaderFine
  <2>2. /\ Append(rd.got, Head(rd.rest)) \o Tail(rd.rest) = rd.got \o rd.rest
        /\ Head(rd.rest) \in Range(rd.got \o rd.rest)
    BY <1>1, <1>5, MoveOver DEF Reading
  <2>3. ASSUME rd.key \in Stored(db) PROVE Head(rd.rest) \in Pool(db)
    <3>1. Head(rd.rest) \in Range(db.recipe[rd.key])
      BY <1>5, <2>1, <2>2, <2>3 DEF OnTrack
    <3> QED
      BY <1>1, <2>3, <3>1 DEF Resolves, Referenced
  <2> QED
    BY <1>5, <2>1, <2>2, <2>3 DEF OnTrack
<1>6. \* a chunk got whole
      ASSUME rd.pc \in {"chunks", "base"}, rd.rest # <<>>, NEW next,
             next.pc = "chunks", next.key = rd.key, next.want = rd.want,
             next.rest = Tail(rd.rest), next.got = Append(rd.got, Head(rd.rest))
      PROVE  ReaderFine(next, db, used)
  BY <1>5, <1>6 DEF ReaderFine, OnTrack
<1>7. CASE ReadChunk(r)
  <2> DEFINE d == Head(rd.rest)
             missing == [rd EXCEPT !.pc = "integrity"]
             delta == [rd EXCEPT !.pc = "base", !.base = db.pool[d].base]
             raw == [rd EXCEPT !.rest = Tail(rd.rest), !.got = Append(rd.got, d)]
  <2>1. rd.pc = "chunks" /\ rd.rest # <<>>
    BY <1>7 DEF ReadChunk
  <2>2. CASE d \notin Pool(db)
    <3>1. Becomes(r, missing)
      BY <1>7, <2>2 DEF ReadChunk
    <3>2. missing.key = rd.key
      BY <1>1 DEF Reading
    <3> HIDE DEF missing
    <3>3. ReaderFine(missing, db, used)
      BY <1>5, <2>1, <2>2, <3>2 DEF ReaderFine
    <3> QED
      BY <1>2, <3>1, <3>3
  <2>3. CASE d \in Pool(db) /\ db.pool[d].kind = "delta"
    <3>1. Becomes(r, delta)
      BY <1>7, <2>3 DEF ReadChunk
    <3> DEFINE b == db.pool[d].base
    <3>2. b = db.pool[d].base
      OBVIOUS
    <3> HIDE DEF b
    <3>3. delta = [rd EXCEPT !.pc = "base", !.base = b]
      BY <3>2
    <3>4. /\ delta.pc = "base" /\ delta.key = rd.key /\ delta.want = rd.want
          /\ delta.rest = rd.rest /\ delta.got = rd.got /\ delta.base = b
      BY <1>1, <3>3 DEF Reading
    <3> HIDE DEF delta
    <3>5. ReaderFine(delta, db, used)
      BY <1>5, <2>1, <2>3, <3>2, <3>4 DEF ReaderFine, OnTrack
    <3> QED
      BY <1>2, <3>1, <3>5
  <2>4. CASE d \in Pool(db) /\ db.pool[d].kind # "delta"
    <3>1. Becomes(r, raw)
      BY <1>1, <1>7, <2>4 DEF ReadChunk, Reading
    <3>2. /\ raw.pc = "chunks" /\ raw.key = rd.key /\ raw.want = rd.want
          /\ raw.rest = Tail(rd.rest) /\ raw.got = Append(rd.got, Head(rd.rest))
      BY <1>1, <2>1 DEF Reading
    <3> HIDE DEF raw
    <3> QED
      BY <1>2, <1>6, <2>1, <3>1, <3>2
  <2> QED
    BY <2>2, <2>3, <2>4
<1>8. CASE ReadBase(r)
  <2> DEFINE got == [rd EXCEPT !.pc = "chunks", !.base = None, !.rest = Tail(rd.rest),
                               !.got = Append(rd.got, Head(rd.rest))]
             missing == [rd EXCEPT !.pc = "integrity"]
             there == rd.base \in Pool(db) /\ db.pool[rd.base].kind # "delta"
  <2>1. rd.pc = "base" /\ rd.rest # <<>>
    BY <1>1, <1>8 DEF ReadBase
  <2>2. CASE there
    <3>1. Becomes(r, got)
      BY <1>1, <1>8, <2>2 DEF ReadBase, Reading
    <3>2. /\ got.pc = "chunks" /\ got.key = rd.key /\ got.want = rd.want
          /\ got.rest = Tail(rd.rest) /\ got.got = Append(rd.got, Head(rd.rest))
      BY <1>1 DEF Reading
    <3> HIDE DEF got
    <3> QED
      BY <1>2, <1>6, <2>1, <3>1, <3>2
  <2>3. CASE ~there
    <3>1. Becomes(r, missing)
      BY <1>8, <2>3 DEF ReadBase
    <3>2. missing.key = rd.key
      BY <1>1 DEF Reading
    <3>3. rd.key \notin Stored(db)
      <4> SUFFICES ASSUME rd.key \in Stored(db) PROVE there
        BY <2>3
      <4>1. /\ Head(rd.rest) \in Pool(db) /\ db.pool[Head(rd.rest)].kind = "delta"
            /\ db.pool[Head(rd.rest)].base = rd.base
        BY <1>5, <2>1 DEF OnTrack
      <4> QED
        BY <1>1, <4>1 DEF Resolves
    <3> HIDE DEF missing
    <3>4. ReaderFine(missing, db, used)
      BY <1>5, <2>1, <3>2, <3>3 DEF ReaderFine
    <3> QED
      BY <1>2, <3>1, <3>4
  <2> QED
    BY <2>2, <2>3
<1>9. CASE Deliver(r)
  <2> DEFINE w == IF rd.got = rd.want THEN "ok" ELSE "corrupt"
             done == [rd EXCEPT !.pc = w]
  <2>1. Becomes(r, done) /\ rd.pc = "chunks" /\ rd.rest = <<>>
    BY <1>9 DEF Deliver
  <2>2. /\ rd.key[1] \in used /\ (rd.key \in Stored(db) => OnTrack(rd, db))
        /\ rd.got \in Seq(Data)
    BY <1>1, <2>1 DEF ReaderFine, Reading
  <2>3. rd.key \in Stored(db) => rd.got = rd.want
    <3>1. rd.got \o <<>> = rd.got
      BY <2>2
    <3> QED
      BY <2>1, <2>2, <3>1 DEF OnTrack
  <2>4. w = "ok" \/ (w = "corrupt" /\ rd.key \notin Stored(db))
    BY <2>3
  <2> HIDE DEF w
  <2>5. done.pc = w /\ done.key = rd.key
    BY <1>1 DEF Reading
  <2> HIDE DEF done
  <2>6. ReaderFine(done, db, used)
    BY <2>2, <2>4, <2>5 DEF ReaderFine
  <2> QED
    BY <1>2, <2>1, <2>6
<1> QED
  BY <1>3, <1>4, <1>7, <1>8, <1>9 DEF ReadStep

\* The readers' invariant holds in every state of every execution.
THEOREM ReadersInvariance == Spec => [](IInv /\ RInv)
<1>1. Init => RInv
  BY NoTxTyped DEF Init, RInv, TxInv, StoredInv, ReaderInv, ReaderFine, Idle, EmptyDb,
       Stored
<1>2. IInv /\ RInv /\ [Next]_vars => RInv'
  <2> SUFFICES ASSUME IInv, RInv, [Next]_vars PROVE RInv'
    OBVIOUS
  <2>1. CASE Next
    BY <2>1, WriteStepReaders, ReadStepReaders DEF Next
  <2>2. CASE UNCHANGED vars
    BY <2>2 DEF RInv, TxInv, StoredInv, ReaderInv, vars
  <2> QED
    BY <2>1, <2>2
<1> QED
  BY Invariance, <1>1, <1>2, PTL DEF Spec

\* Whatever is written, pruned and compacted while an artifact is read chunk by
\* chunk, artifact_bytes raises only if the artifact itself has been pruned.
THEOREM FailuresArePrunes == Spec => []FailsOnlyIfPruned
<1>1. RInv => FailsOnlyIfPruned
  BY DEF RInv, ReaderInv, ReaderFine, OnTrack, FailsOnlyIfPruned
<1> QED
  BY ReadersInvariance, <1>1, PTL

-----------------------------------------------------------------------------
\* Live is what is live when no file is in hand.
LEMMA LiveIsLiveWithNothing ==
    ASSUME NEW s PROVE LiveWith(s, <<>>) = Live(s)
<1>1. Range(<<>>) = {}
  BY EmptyFile
<1>2. Referenced(s) \union Range(<<>>) = Referenced(s)
  BY <1>1
<1> QED
  BY <1>2 DEF LiveWith, Live

\* What is live stays live when recipes and chunks are only added.
LEMMA LiveGrows ==
    ASSUME NEW s, NEW t, NEW q, NEW p,
           Referenced(s) \union Range(q) \subseteq Referenced(t) \union Range(p),
           \A d \in Pool(s) : d \in Pool(t) /\ t.pool[d] = s.pool[d]
    PROVE  LiveWith(s, q) \subseteq LiveWith(t, p)
<1> SUFFICES ASSUME NEW e \in LiveWith(s, q) PROVE e \in LiveWith(t, p)
  OBVIOUS
<1> DEFINE R == Referenced(s) \union Range(q)
           T == Referenced(t) \union Range(p)
<1>1. CASE e \in R
  BY <1>1 DEF LiveWith
<1>2. CASE e \notin R
  <2>1. PICK d \in R \intersect Pool(s) : s.pool[d].kind = "delta" /\ e = s.pool[d].base
    BY <1>2 DEF LiveWith
  <2>2. d \in T \intersect Pool(t) /\ t.pool[d].kind = "delta" /\ e = t.pool[d].base
    BY <2>1
  <2> QED
    BY <2>2 DEF LiveWith
<1> QED
  BY <1>1, <1>2

\* Equal tables, chunks and recipes alike, refer to the same digests.
LEMMA SameRecipes ==
    ASSUME NEW s, NEW t, t.recipe = s.recipe
    PROVE  Referenced(t) = Referenced(s) /\ Stored(t) = Stored(s)
BY DEF Referenced, Stored

\* Every step keeps garbage accounted for: an ingest stores a chunk only for
\* the file in hand, and its rollback takes every chunk with it.
LEMMA WriteStepGarbage ==
    ASSUME IInv, GInv, WriteStep
    PROVE  GInv'
<1>1. /\ db.nodes \subseteq used
      /\ used = db.nodes => Pool(db) \subseteq LiveWith(db, <<>>)
      /\ tx.open => /\ tx.node \notin used
                    /\ tx.work.nodes = db.nodes \union {tx.node}
                    /\ tx.path = None => tx.done = <<>>
                    /\ tx.path # None => <<tx.node, tx.path>> \notin Stored(tx.work)
                    /\ used = db.nodes =>
                         Pool(tx.work) \subseteq LiveWith(tx.work, tx.done)
  BY LiveIsLiveWithNothing DEF GInv, GarbageOnlyFromPrune
<1>2. \* steps inside a transaction
      ASSUME UNCHANGED <<db, used>>,
             tx'.open => /\ tx'.node \notin used
                         /\ tx'.work.nodes = db.nodes \union {tx'.node}
                         /\ tx'.path = None => tx'.done = <<>>
                         /\ tx'.path # None => <<tx'.node, tx'.path>> \notin Stored(tx'.work)
                         /\ used = db.nodes =>
                              Pool(tx'.work) \subseteq LiveWith(tx'.work, tx'.done)
      PROVE  GInv'
  BY <1>2 DEF GInv, GarbageOnlyFromPrune, LiveWith, Live, Referenced, Stored, Pool
<1>3. CASE \E n \in Node : Begin(n)
  <2> PICK n \in Node : Begin(n)
    BY <1>3
  <2>1. /\ tx'.open /\ tx'.node = n /\ n \notin used /\ tx'.path = None
        /\ tx'.done = <<>> /\ UNCHANGED <<db, reader, used>>
        /\ tx'.work.nodes = db.nodes \union {n}
        /\ tx'.work.pool = db.pool /\ tx'.work.recipe = db.recipe
    BY BeginIs
  <2>2. Pool(tx'.work) = Pool(db) /\ Referenced(tx'.work) = Referenced(db)
    BY <2>1, SameRecipes DEF Pool
  <2>3. LiveWith(db, <<>>) \subseteq LiveWith(tx'.work, tx'.done)
    BY <2>1, <2>2, LiveGrows
  <2> QED
    BY <1>1, <1>2, <2>1, <2>2, <2>3
<1>4. CASE \E f \in Path, payload \in Payload : NextFile(f, payload)
  <2> PICK f \in Path, payload \in Payload : NextFile(f, payload)
    BY <1>4
  <2>1. /\ tx.open /\ tx.path = None /\ <<tx.node, f>> \notin Stored(tx.work)
        /\ tx'.open /\ tx'.work = tx.work /\ tx'.node = tx.node /\ tx'.path = f
        /\ tx'.done = <<>> /\ UNCHANGED <<db, reader, used>>
    BY NextFileIs
  <2>2. tx'.path # None
    BY <2>1, ChunkNoneAssumption
  <2>3. tx'.done = tx.done
    BY <1>1, <2>1
  <2> QED
    BY <1>1, <1>2, <2>1, <2>2, <2>3 DEF LiveWith, Referenced, Stored, Pool
<1>5. CASE PutKnown \/ (\E b \in Data : PutDelta(b)) \/ PutRaw
  <2> DEFINE d == Head(tx.rest)
  <2>1. /\ tx.open /\ tx.path # None
        /\ tx'.open /\ tx'.node = tx.node /\ tx'.path = tx.path
        /\ UNCHANGED <<db, reader, used>>
        /\ Gains(tx'.work, tx.work, d)
        /\ Range(tx'.done) = Range(tx.done) \union {d}
    BY <1>5, PutIs
  <2> HIDE DEF d
  <2>2. /\ tx'.work.nodes = tx.work.nodes /\ tx'.work.recipe = tx.work.recipe
        /\ Pool(tx'.work) = Pool(tx.work) \union {d}
        /\ \A e \in Pool(tx.work) : tx'.work.pool[e] = tx.work.pool[e]
    BY <2>1 DEF Gains
  <2>3. Referenced(tx'.work) = Referenced(tx.work) /\ Stored(tx'.work) = Stored(tx.work)
    BY <2>2, SameRecipes
  <2>4. LiveWith(tx.work, tx.done) \subseteq LiveWith(tx'.work, tx'.done)
    BY <2>1, <2>2, <2>3, LiveGrows
  <2>5. d \in LiveWith(tx'.work, tx'.done)
    BY <2>1 DEF LiveWith
  <2> QED
    BY <1>1, <1>2, <2>1, <2>2, <2>3, <2>4, <2>5
<1>6. CASE AddArtifact
  <2> DEFINE k0 == <<tx.node, tx.path>>
  <2>1. /\ tx.open /\ tx.path # None
        /\ tx'.open /\ tx'.node = tx.node /\ tx'.path = None /\ tx'.done = <<>>
        /\ UNCHANGED <<db, reader, used>>
        /\ tx'.work.nodes = tx.work.nodes /\ tx'.work.pool = tx.work.pool
        /\ Stored(tx'.work) = Stored(tx.work) \union {k0}
        /\ tx'.work.recipe[k0] = tx.done
        /\ \A k \in Stored(tx.work) \ {k0} : tx'.work.recipe[k] = tx.work.recipe[k]
    BY <1>6, AddArtifactIs
  <2>2. k0 \notin Stored(tx.work)
    BY <1>1, <2>1
  <2> HIDE DEF k0
  <2>3. Referenced(tx.work) \union Range(tx.done) \subseteq Referenced(tx'.work)
    BY <2>1, <2>2 DEF Referenced
  <2>4. LiveWith(tx.work, tx.done) \subseteq LiveWith(tx'.work, tx'.done)
    BY <2>1, <2>3, LiveGrows DEF Pool
  <2> QED
    BY <1>1, <1>2, <2>1, <2>4 DEF Pool
<1>7. CASE Commit
  <2>1. /\ tx.open /\ tx.path = None /\ db' = tx.work /\ tx' = NoTx
        /\ used' = used \union {tx.node}
    BY <1>7 DEF Commit
  <2>2. db'.nodes \subseteq used' /\ ~tx'.open
    BY <1>1, <2>1, NoTxTyped
  <2>3. ASSUME used' = db'.nodes PROVE Pool(db') \subseteq Live(db')
    <3>1. used = db.nodes
      BY <1>1, <2>1, <2>3
    <3>2. Pool(tx.work) \subseteq LiveWith(tx.work, <<>>)
      BY <1>1, <2>1, <3>1
    <3> QED
      BY <2>1, <3>2, LiveIsLiveWithNothing
  <2> QED
    BY <2>2, <2>3 DEF GInv, GarbageOnlyFromPrune
<1>8. CASE Rollback
  <2>1. tx' = NoTx /\ UNCHANGED <<db, reader, used>>
    BY <1>8 DEF Rollback
  <2> QED
    BY <1>2, <2>1, NoTxTyped
<1>9. CASE \E n \in Node : DeleteNode(n)
  <2> PICK n \in Node : DeleteNode(n)
    BY <1>9
  <2>1. /\ ~tx.open /\ n \in db.nodes /\ UNCHANGED <<tx, used>>
        /\ db'.nodes = db.nodes \ {n}
    BY DeleteIs
  <2>2. used' # db'.nodes /\ db'.nodes \subseteq used' /\ ~tx'.open
    BY <1>1, <2>1
  <2> QED
    BY <2>2 DEF GInv, GarbageOnlyFromPrune
<1>10. CASE Compact
  <2>1. /\ ~tx.open /\ UNCHANGED <<tx, used>>
        /\ db'.nodes = db.nodes /\ db'.recipe = db.recipe
        /\ Pool(db') = Pool(db) \intersect Live(db)
        /\ \A d \in Pool(db') : db'.pool[d] = db.pool[d]
    BY <1>10, CompactIs
  <2>2. Referenced(db') = Referenced(db)
    BY <2>1, SameRecipes
  <2>3. ASSUME NEW e \in Pool(db') PROVE e \in Live(db')
    <3>1. CASE e \in Referenced(db)
      BY <2>2, <3>1 DEF Live
    <3>2. CASE e \notin Referenced(db)
      <4>1. PICK c \in Referenced(db) \intersect Pool(db) :
              db.pool[c].kind = "delta" /\ e = db.pool[c].base
        BY <2>1, <3>2 DEF Live
      <4>2. c \in Pool(db')
        BY <2>1, <4>1 DEF Live
      <4>3. c \in Referenced(db') \intersect Pool(db') /\ db'.pool[c].kind = "delta"
            /\ e = db'.pool[c].base
        BY <2>1, <2>2, <4>1, <4>2
      <4> QED
        BY <4>3 DEF Live
    <3> QED
      BY <3>1, <3>2
  <2> QED
    BY <1>1, <2>1, <2>3 DEF GInv, GarbageOnlyFromPrune
<1> QED
  BY <1>3, <1>4, <1>5, <1>6, <1>7, <1>8, <1>9, <1>10 DEF WriteStep

\* A failed or killed ingest leaves no chunk behind: as long as nothing was
\* pruned, every chunk of the pool is part of an artifact, or the base of one.
THEOREM OnlyPrunesLeaveGarbage == Spec => []GarbageOnlyFromPrune
<1>1. Init => GInv
  BY NoTxTyped DEF Init, GInv, GarbageOnlyFromPrune, EmptyDb, Pool
<1>2. IInv /\ GInv /\ [Next]_vars => GInv'
  <2> SUFFICES ASSUME IInv, GInv, [Next]_vars PROVE GInv'
    OBVIOUS
  <2>1. CASE WriteStep
    BY <2>1, WriteStepGarbage
  <2>2. CASE UNCHANGED <<db, tx, used>>
    BY <2>2 DEF GInv, GarbageOnlyFromPrune, LiveWith, Live, Referenced, Stored, Pool
  <2>3. CASE \E r \in Reader : ReadStep(r)
    BY <2>2, <2>3 DEF ReadStep, Ask, ReadRecipe, ReadChunk, ReadBase, Deliver, Becomes
  <2> QED
    BY <2>1, <2>2, <2>3 DEF Next, vars
<1>3. GInv => GarbageOnlyFromPrune
  BY DEF GInv
<1> QED
  BY Invariance, <1>1, <1>2, <1>3, PTL DEF Spec
=============================================================================
