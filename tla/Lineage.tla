------------------------------ MODULE Lineage ------------------------------
(***************************************************************************)
(* The lineage tables of an ancestree store and the two operations that    *)
(* change them, as several actors (processes, or threads of one process)   *)
(* run them at once: the create_node block with its resolution of parents, *)
(* reuse of identical nodes and commit (store.py, packing.py), and prune   *)
(* with its plan and its delete (maintenance.py).                          *)
(*                                                                         *)
(* A step of an actor is one read statement (autocommit) or one write      *)
(* transaction, with the local computation up to the next one. Crashes and *)
(* the sweep of orphaned scratch directories are in Scratch.tla, chunks in *)
(* Chunks.tla. That uuid4().hex[:8] never repeats an id is assumed.        *)
(***************************************************************************)
EXTENDS Naturals, FiniteSets, Functions

CONSTANTS
    Id,              \* node ids
    Step,            \* step types
    Content,         \* what a block can leave behind: its files and metadata
    WithNaN,         \* the contents that hold a NaN in their metadata
    Actor,           \* the processes and threads that share the store
    None,            \* Python's None
    Rules,           \* the store's rules: step -> allowed parents' steps
    Triggers,        \* gen_triggers
    ReuseIdentical,  \* the store's reuse_identical policy
    MaxParents       \* bound on the parents one block names

ASSUME RulesAssumption == Rules \in [DOMAIN Rules -> SUBSET (Step \union {None})]
ASSUME ReuseAssumption == ReuseIdentical \in BOOLEAN
ASSUME NoneAssumption == None \notin Id /\ None \notin Step /\ None \notin Content
ASSUME NaNAssumption == WithNaN \subseteq Content
ASSUME FiniteActorsAssumption == IsFiniteSet(Actor)

VARIABLES
    node,     \* the table node: present ids -> row
    edge,     \* the table edge: pairs <<child, parent>>
    scratch,  \* ids with a directory under .scratch/
    pc,       \* where each actor is
    block,    \* each actor's create_node call
    plan,     \* each actor's prune call
    issued,   \* history: every id handed to a block
    born      \* history: every id that had a row

vars == <<node, edge, scratch, pc, block, plan, issued, born>>

-----------------------------------------------------------------------------
Summary == [step : Step, parents : SUBSET Id, content : Content]

\* NULL is no fingerprint.
ASSUME NoHashAssumption == None \notin Summary

Row == [step : Step, gen : Nat, healthy : BOOLEAN, content : Content,
        hash : Summary \union {None}]

\* gen is the deepest parent's generation so far, and the node's own once the
\* block has an id.
Block == [step : Step \union {None}, todo : SUBSET Id, parents : SUBSET Id,
          kinds : SUBSET Step, gen : Nat, id : Id \union {None},
          healthy : BOOLEAN, content : Content \union {None},
          cand : Id \union {None}]

NoBlock == [step |-> None, todo |-> {}, parents |-> {}, kinds |-> {},
            gen |-> 0, id |-> None, healthy |-> TRUE, content |-> None,
            cand |-> None]

Plan == [target : Id \union {None}, stack : SUBSET Id, region : SUBSET Id,
         read : SUBSET Id, above : [Id -> SUBSET Id]]

NoPlan == [target |-> None, stack |-> {}, region |-> {}, read |-> {},
           above |-> [n \in Id |-> {}]]

Control == {"idle", "resolve", "block", "lookup", "verify", "commit",
            "region", "weigh", "delete"}

Present == DOMAIN node
Parents(n) == {p \in Id : <<n, p>> \in edge}
Children(n) == {c \in Id : <<c, n>> \in edge}

\* RuleEngine.validate: an unlisted step accepts anything, a root has the one
\* parent type None.
Accepts(s, kinds) ==
    s \in DOMAIN Rules => (IF kinds = {} THEN {None} ELSE kinds) \subseteq Rules[s]

\* RuleEngine.generation_for, given the deepest parent's generation.
GenerationFor(s, ps, base) ==
    IF ps # {} /\ s \in Triggers THEN base + 1 ELSE base

LastParent(g, h) == h

Deeper(g, h) == IF g > h THEN g ELSE h

\* ContentSummary of what a block produced, and of what a stored node is now.
BlockSummary(b) == [step |-> b.step, parents |-> b.parents, content |-> b.content]
NodeSummary(n) ==
    [step |-> node[n].step, parents |-> Parents(n), content |-> node[n].content]

\* The fingerprint a row gets: a failed run carries none.
HashOf(b) == IF b.healthy THEN BlockSummary(b) ELSE None

NominatedNever(b) == {}

Nominated(b) == {n \in Present : node[n].hash = BlockSummary(b)}

DoomedRegion(pl) == pl.region

DoomedTarget(pl) == {pl.target}

\* What a plan dooms: its target and, walking the region parents first, each
\* node all of whose parents (as read) are doomed. On an acyclic region that
\* walk computes the largest set closed in this way.
Doomed(pl) ==
    UNION {S \in SUBSET pl.region :
             \A d \in S \ {pl.target} : pl.above[d] \subseteq S}

-----------------------------------------------------------------------------
Init ==
    /\ node = [n \in {} |-> None]
    /\ edge = {}
    /\ scratch = {}
    /\ pc = [a \in Actor |-> "idle"]
    /\ block = [a \in Actor |-> NoBlock]
    /\ plan = [a \in Actor |-> NoPlan]
    /\ issued = {}
    /\ born = {}

Goto(a, where) == pc' = [pc EXCEPT ![a] = where]
InBlock(a, b) == block' = [block EXCEPT ![a] = b]
EndBlock(a) == Goto(a, "idle") /\ InBlock(a, NoBlock)
Tables == <<node, edge>>

-----------------------------------------------------------------------------
\* create_node is entered with a step type and any ids the caller holds.
Call(a, s, ps) ==
    /\ pc[a] = "idle"
    /\ ps \subseteq issued /\ Cardinality(ps) <= MaxParents
    /\ Goto(a, "resolve")
    /\ InBlock(a, [NoBlock EXCEPT !.step = s, !.todo = ps])
    /\ UNCHANGED <<Tables, scratch, plan, issued, born>>

\* _resolve_parents reads one parent's row.
Resolve(a, p) ==
    /\ pc[a] = "resolve" /\ p \in block[a].todo
    /\ p \in Present
    /\ InBlock(a, [block[a] EXCEPT !.todo = @ \ {p},
                                   !.parents = @ \union {p},
                                   !.kinds = @ \union {node[p].step},
                                   !.gen = Deeper(@, node[p].gen)])
    /\ UNCHANGED <<Tables, scratch, pc, plan, issued, born>>

\* ... or finds none: ValueError.
UnknownParent(a, p) ==
    /\ pc[a] = "resolve" /\ p \in block[a].todo
    /\ p \notin Present
    /\ EndBlock(a)
    /\ UNCHANGED <<Tables, scratch, plan, issued, born>>

\* InvalidTransition.
Refuse(a) ==
    /\ pc[a] = "resolve" /\ block[a].todo = {}
    /\ ~Accepts(block[a].step, block[a].kinds)
    /\ EndBlock(a)
    /\ UNCHANGED <<Tables, scratch, plan, issued, born>>

\* The rules accept the call: it gets an id nobody has and a scratch
\* directory, and the user's block starts.
Open(a, n) ==
    /\ pc[a] = "resolve" /\ block[a].todo = {}
    /\ Accepts(block[a].step, block[a].kinds)
    /\ n \in Id \ (issued \union Present \union scratch)
    /\ Goto(a, "block")
    /\ InBlock(a, [block[a] EXCEPT
                     !.id = n,
                     !.gen = GenerationFor(block[a].step, block[a].parents, @)])
    /\ scratch' = scratch \union {n}
    /\ issued' = issued \union {n}
    /\ UNCHANGED <<Tables, plan, born>>
\* An untouched block leaves no trace, whichever way it ends.
Discard(a) ==
    /\ pc[a] = "block"
    /\ EndBlock(a)
    /\ scratch' = scratch \ {block[a].id}
    /\ UNCHANGED <<Tables, plan, issued, born>>

\* The block ends cleanly (ok) or raises, leaving content c: _finalize up to its
\* first statement. Only a clean run is fingerprinted and may be reused.
Finalize(a, c, ok) ==
    /\ pc[a] = "block"
    /\ Goto(a, IF ok /\ ReuseIdentical THEN "lookup" ELSE "commit")
    /\ InBlock(a, [block[a] EXCEPT !.content = c, !.healthy = ok])
    /\ UNCHANGED <<Tables, scratch, plan, issued, born>>

\* find_by_hash returns one row with the block's fingerprint ...
Nominate(a, m) ==
    /\ pc[a] = "lookup" /\ m \in Nominated(block[a])
    /\ Goto(a, "verify")
    /\ InBlock(a, [block[a] EXCEPT !.cand = m])
    /\ UNCHANGED <<Tables, scratch, plan, issued, born>>

\* ... or none.
NoTwin(a) ==
    /\ pc[a] = "lookup" /\ Nominated(block[a]) = {}
    /\ Goto(a, "commit")
    /\ UNCHANGED <<Tables, scratch, block, plan, issued, born>>

IsTwin(b) == b.cand \in Present /\ NodeSummary(b.cand) = BlockSummary(b)

\* A row's values come back through JSON. Only a NaN is not what it was: it equals
\* nothing but the object it is, and the one json.loads returns is the one stored
\* only if that came from json.loads as well.
MayDiffer(b) == ~IsTwin(b) \/ b.content \in WithNaN

\* The candidate is read back and is the same content: the handle is rebound
\* onto it and the scratch discarded. (The reads of the row, its parents, its
\* metadata and its manifest agree with the block only if the row was there
\* with these parents when the parents were read: one step stands for them.)
Rebind(a) ==
    /\ pc[a] = "verify" /\ IsTwin(block[a])
    /\ EndBlock(a)
    /\ scratch' = scratch \ {block[a].id}
    /\ UNCHANGED <<Tables, plan, issued, born>>

\* It was pruned meanwhile, or its parents are no longer those it was
\* fingerprinted with, or a NaN in it differs from itself: not a duplicate.
Differs(a) ==
    /\ pc[a] = "verify" /\ MayDiffer(block[a])
    /\ Goto(a, "commit")
    /\ InBlock(a, [block[a] EXCEPT !.cand = None])
    /\ UNCHANGED <<Tables, scratch, plan, issued, born>>

RowWithoutFailedContent(b) ==
    [step |-> b.step, gen |-> b.gen, healthy |-> b.healthy,
     content |-> IF b.healthy THEN b.content ELSE None, hash |-> HashOf(b)]

RowOf(b) == [step |-> b.step, gen |-> b.gen, healthy |-> b.healthy,
             content |-> b.content, hash |-> HashOf(b)]

\* The foreign keys of the table edge at the transaction's statements.
MayInsert(b) == b.id \notin Present /\ b.parents \subseteq Present

\* ingest_node: row, edges and content in one transaction, then the scratch is
\* discarded.
Commit(a) ==
    LET b == block[a] IN
    /\ pc[a] = "commit" /\ MayInsert(b)
    /\ node' = [n \in Present \union {b.id} |-> IF n = b.id THEN RowOf(b) ELSE node[n]]
    /\ edge' = edge \union ({b.id} \X b.parents)
    /\ scratch' = scratch \ {b.id}
    /\ born' = born \union {b.id}
    /\ EndBlock(a)
    /\ UNCHANGED <<plan, issued>>

CommitFailsAndDiscards(a) ==
    /\ pc[a] = "commit"
    /\ EndBlock(a)
    /\ scratch' = scratch \ {block[a].id}
    /\ UNCHANGED <<Tables, plan, issued, born>>

\* The transaction fails (a parent is gone, the busy timeout, the disk), rolls
\* back and the exception leaves create_node: the scratch stays.
CommitFails(a) ==
    /\ pc[a] = "commit"
    /\ EndBlock(a)
    /\ UNCHANGED <<Tables, scratch, plan, issued, born>>

-----------------------------------------------------------------------------
\* prune(t) of a node that exists; for an unknown id it returns at once.
Prune(a, t) ==
    /\ pc[a] = "idle" /\ t \in Present
    /\ Goto(a, "region")
    /\ plan' = [plan EXCEPT ![a] = [NoPlan EXCEPT !.target = t, !.stack = {t}]]
    /\ UNCHANGED <<Tables, scratch, block, issued, born>>

\* One id of the stack joins the region and its children join the stack.
Descend(a, n) ==
    LET pl == plan[a]
        region == pl.region \union {n}
        stack == (pl.stack \union Children(n)) \ region
    IN
    /\ pc[a] = "region" /\ n \in pl.stack
    /\ plan' = [plan EXCEPT ![a] = [pl EXCEPT !.region = region, !.stack = stack]]
    /\ Goto(a, IF stack = {} THEN "weigh" ELSE "region")
    /\ UNCHANGED <<Tables, scratch, block, issued, born>>

\* The parents of one id of the region are read; a vanished one has none.
Weigh(a, n) ==
    LET pl == plan[a] IN
    /\ pc[a] = "weigh" /\ n \in pl.region \ pl.read
    /\ plan' = [plan EXCEPT ![a].read = @ \union {n}, ![a].above[n] = Parents(n)]
    /\ Goto(a, IF pl.read \union {n} = pl.region THEN "delete" ELSE "weigh")
    /\ UNCHANGED <<Tables, scratch, block, issued, born>>

\* dry_run, the default: the plan is only returned.
DryRun(a) ==
    /\ pc[a] = "delete"
    /\ Goto(a, "idle")
    /\ plan' = [plan EXCEPT ![a] = NoPlan]
    /\ UNCHANGED <<Tables, scratch, block, issued, born>>

\* One transaction deletes the doomed rows; the edges at either end cascade.
Delete(a) ==
    LET doomed == Doomed(plan[a]) IN
    /\ pc[a] = "delete"
    /\ node' = Restrict(node, Present \ doomed)
    /\ edge' = {e \in edge : e[1] \notin doomed /\ e[2] \notin doomed}
    /\ Goto(a, "idle")
    /\ plan' = [plan EXCEPT ![a] = NoPlan]
    /\ UNCHANGED <<scratch, block, issued, born>>

-----------------------------------------------------------------------------
CreateStep(a) ==
    \/ \E s \in Step, ps \in SUBSET issued : Call(a, s, ps)
    \/ \E p \in Id : Resolve(a, p) \/ UnknownParent(a, p)
    \/ Refuse(a)
    \/ \E n \in Id : Open(a, n)
    \/ Discard(a)
    \/ \E c \in Content, ok \in BOOLEAN : Finalize(a, c, ok)
    \/ \E m \in Id : Nominate(a, m)
    \/ NoTwin(a)
    \/ Rebind(a)
    \/ Differs(a)
    \/ Commit(a)
    \/ CommitFails(a)

PruneStep(a) ==
    \/ \E n \in Id : Prune(a, n) \/ Descend(a, n) \/ Weigh(a, n)
    \/ DryRun(a)
    \/ Delete(a)

Next == \E a \in Actor : CreateStep(a) \/ PruneStep(a)

Spec == Init /\ [][Next]_vars
-----------------------------------------------------------------------------
\* Every variable stays in its type; ids the tables and the actors hold have
\* been issued.
TypeOK ==
    /\ Present \subseteq Id /\ node \in [Present -> Row]
    /\ edge \subseteq Id \X Id
    /\ scratch \subseteq Id
    /\ pc \in [Actor -> Control]
    /\ block \in [Actor -> Block]
    /\ plan \in [Actor -> Plan]
    /\ issued \subseteq Id
    /\ born \subseteq issued

\* However resolutions, prunes and commits interleave, every edge of the store
\* joins two present nodes, is a transition the rules allow, and goes to a
\* generation no lower than the parent's, higher when the step triggers one
\* (RuleEngine, applied in create_node to rows read before the block ran).
EdgesObeyRules ==
    \A e \in edge :
      /\ {e[1], e[2]} \subseteq Present
      /\ Accepts(node[e[1]].step, {node[e[2]].step})
      /\ IF node[e[1]].step \in Triggers
         THEN node[e[1]].gen > node[e[2]].gen
         ELSE node[e[1]].gen >= node[e[2]].gen

\* A step of a that leaves n without parents is its delete, behind the plan's back.
OrphansBehindPlan(a, n) ==
    (plan'[a] # plan[a] /\ pc[a] = "delete" /\ n \in Present \intersect Present'
       /\ Parents(n) # {} /\ ~\E p \in Id : <<n, p>> \in edge') =>
      n \notin plan[a].region \/ ~(plan[a].above[n] \subseteq Present)

EveryOrphanBehindPlan == \A a \in Actor, n \in Id : OrphansBehindPlan(a, n)

\* A delete leaves a node without parents, though its rule may demand one
\* (rules.py:60), only behind the plan's back: a node it never read, or one of
\* whose parents, as read, another prune has removed since.
OrphanedOnlyByRace == [][EveryOrphanBehindPlan]_vars

\* No two present nodes are the same content: step, parents, files and metadata
\* of clean runs (README.md:46, reuse_identical).
NoDuplicates ==
    \A m, n \in Present :
      (m # n /\ node[m].healthy /\ node[n].healthy) => NodeSummary(m) # NodeSummary(n)

\* While nothing has been pruned, races let each actor add at most one row of a
\* given fingerprint: whoever finalizes a second time finds the first
\* (_reuse_identical_node). Prunes lift the bound: every actor whose nominee goes
\* before it is read back adds a copy, whatever other copies there are. So does a
\* NaN: one actor that repeats such a block may add a row each time, although
\* README.md:46 says that a repeated step is recognised.
TwinsBounded ==
    (ReuseIdentical /\ born = Present) =>
      \A n \in Present :
        (node[n].healthy /\ node[n].content \notin WithNaN) =>
          Cardinality({m \in Present : node[m].hash = node[n].hash}) <= Cardinality(Actor)

\* What a step that ends the call of a leaves of its work.
KeepsWork(a) ==
    (block[a].content # None /\ block'[a].content = None) =>
      \/ block[a].id \in Present' /\ node'[block[a].id] = RowOf(block[a])
      \/ block[a].id \in scratch'
      \/ \E m \in Present' :
           /\ node'[m].healthy /\ block[a].healthy
           /\ node'[m].content = block[a].content
           /\ node'[m].step = block[a].step
           /\ {p \in Id : <<m, p>> \in edge'} = block[a].parents

EveryBlockKeepsWork == \A a \in Actor : KeepsWork(a)

\* Whatever a block left behind is kept when its call ends: as the node's row,
\* as an identical healthy row the handle is rebound to, or still in scratch.
NoWorkLost == [][EveryBlockKeepsWork]_vars

Graph == INSTANCE NodeGraph WITH present <- DOMAIN node, link <- edge, ever <- born

\* The tables implement the abstract graph: rows arrive whole under present
\* parents, leave only with a target and descendants left with no parent, and
\* never return, although prune deletes from a plan made of earlier reads.
RefinesGraph == Graph!GraphSpec
=============================================================================
