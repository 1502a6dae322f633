--------------------------- MODULE LineageProofs ---------------------------
(***************************************************************************)
(* Proofs about Lineage.tla, for every set of ids, actors, steps and rules:*)
(* the type invariant, that every edge obeys the rules, that the tables    *)
(* implement NodeGraph.tla, that only races leave a node without parents,  *)
(* that no recorded work is lost, and how many copies a race can add.      *)
(***************************************************************************)
EXTENDS Lineage, FiniteSetTheorems, TLAPS

InFlight(a) == pc[a] \in {"block", "lookup", "verify", "commit"}

\* Rows and edges: the foreign keys, and that present ids were inserted once.
TablesInv ==
    /\ Present \subseteq born
    /\ \A e \in edge : e[1] \in Present /\ e[2] \in Present

\* A block in flight owns an id that no row and no other block ever had.
IdsInv ==
    /\ \A a \in Actor : InFlight(a) => block[a].id \in issued \ born
    /\ \A a, b \in Actor :
         (a # b /\ InFlight(a) /\ InFlight(b)) => block[a].id # block[b].id

\* What a block read of its parents still describes those that are present.
ParentsInv ==
    \A a \in Actor :
      /\ pc[a] = "resolve" \/ InFlight(a) => block[a].step \in Step
      /\ pc[a] \in {"lookup", "verify", "commit"} => block[a].content \in Content
      /\ block[a].parents \subseteq born
      /\ InFlight(a) => Accepts(block[a].step, block[a].kinds)
      /\ \A p \in block[a].parents \intersect Present :
           /\ node[p].step \in block[a].kinds
           /\ block[a].gen >= node[p].gen
           /\ (InFlight(a) /\ block[a].step \in Triggers) => block[a].gen > node[p].gen

\* A plan holds ids that were once rows, and a superset of the parents each
\* node it has read still has.
PlanInv ==
    \A a \in Actor :
      /\ plan[a].region \union plan[a].stack \subseteq born
      /\ plan[a].read \subseteq plan[a].region
      /\ \A n \in plan[a].read : Parents(n) \subseteq plan[a].above[n]
      /\ pc[a] \in {"region", "weigh", "delete"} => plan[a].target \in Id
      /\ pc[a] = "delete" => plan[a].read = plan[a].region

IInv == TypeOK /\ TablesInv /\ IdsInv /\ ParentsInv /\ PlanInv /\ EdgesObeyRules

PlanPoints == {"region", "weigh", "delete"}
Flight == {"block", "lookup", "verify", "commit"}
-----------------------------------------------------------------------------
\* The empty store satisfies the inductive invariant.
LEMMA InitInv == Init => IInv
<1> SUFFICES ASSUME Init PROVE IInv
  OBVIOUS
<1>1. Present = {} /\ edge = {} /\ born = {} /\ issued = {}
  BY DEF Init, Present
<1>2. NoBlock \in Block /\ NoPlan \in Plan
  BY DEF NoBlock, Block, NoPlan, Plan
<1>3. TypeOK
  BY <1>1, <1>2 DEF Init, TypeOK, Present, Control
<1>4. TablesInv /\ EdgesObeyRules
  BY <1>1 DEF TablesInv, EdgesObeyRules
<1>5. IdsInv /\ ParentsInv
  BY <1>1 DEF Init, IdsInv, ParentsInv, InFlight, NoBlock
<1>6. PlanInv
  BY <1>1 DEF Init, PlanInv, NoPlan
<1> QED
  BY <1>3, <1>4, <1>5, <1>6 DEF IInv

\* What IInv asks of an actor a at w with block b when ids have been issued.
Sound(a, w, b, ids) ==
    /\ w \in {"idle", "resolve"} \union Flight
    /\ b \in Block
    /\ w # "idle" => b.step \in Step
    /\ w \in {"lookup", "verify", "commit"} => b.content \in Content
    /\ w \in Flight =>
         /\ b.id \in ids \ born
         /\ \A c \in Actor \ {a} : InFlight(c) => block[c].id # b.id
         /\ Accepts(b.step, b.kinds)
    /\ b.parents \subseteq born
    /\ \A p \in b.parents \intersect Present :
         /\ node[p].step \in b.kinds
         /\ b.gen >= node[p].gen
         /\ (w \in Flight /\ b.step \in Triggers) => b.gen > node[p].gen

\* What a step of create_node other than its commit leaves alone.
BlockFrame ==
    /\ UNCHANGED <<node, edge, plan, born>>
    /\ issued \subseteq issued' /\ issued' \subseteq Id /\ scratch' \subseteq Id

\* A step that only moves one actor's create_node call, to a state that is
\* sound for it, preserves the invariant.
LEMMA BlockStepInv ==
    ASSUME IInv, NEW a \in Actor, NEW w, NEW b,
           Sound(a, w, b, issued'),
           pc' = [pc EXCEPT ![a] = w],
           block' = [block EXCEPT ![a] = b],
           BlockFrame
    PROVE  IInv'
<1> USE DEF Sound, BlockFrame
<1>1. TypeOK'
  BY DEF IInv, TypeOK, Present, Control, Flight
<1>2. TablesInv' /\ EdgesObeyRules'
  BY DEF IInv, TablesInv, EdgesObeyRules, Present
<1>3. /\ pc'[a] = w /\ block'[a] = b
      /\ \A c \in Actor \ {a} : pc'[c] = pc[c] /\ block'[c] = block[c]
  BY DEF IInv, TypeOK
<1>4. IdsInv'
  BY <1>3 DEF IInv, IdsInv, InFlight, Flight
<1>5. ParentsInv'
  BY <1>3 DEF IInv, ParentsInv, InFlight, Flight, Present
<1>6. PlanInv'
  BY <1>3 DEF IInv, PlanInv, Parents, Flight
<1> QED
  BY <1>1, <1>2, <1>4, <1>5, <1>6 DEF IInv

\* The same for a step that only moves one actor's prune call.
LEMMA PlanStepInv ==
    ASSUME IInv, NEW a \in Actor, NEW w \in {"idle"} \union PlanPoints,
           NEW pl \in Plan,
           pc' = [pc EXCEPT ![a] = w],
           plan' = [plan EXCEPT ![a] = pl],
           UNCHANGED <<node, edge, scratch, block, issued, born>>,
           pl.region \union pl.stack \subseteq born,
           pl.read \subseteq pl.region,
           \A n \in pl.read : Parents(n) \subseteq pl.above[n],
           w \in PlanPoints => pl.target \in Id,
           w = "delete" => pl.read = pl.region
    PROVE  IInv'
<1>1. TypeOK'
  BY DEF IInv, TypeOK, Present, Control, PlanPoints
<1>2. TablesInv' /\ EdgesObeyRules'
  BY DEF IInv, TablesInv, EdgesObeyRules, Present
<1>3. /\ pc'[a] = w /\ plan'[a] = pl
      /\ \A c \in Actor \ {a} : pc'[c] = pc[c] /\ plan'[c] = plan[c]
  BY DEF IInv, TypeOK
<1>4. IdsInv'
  BY <1>3 DEF IInv, IdsInv, InFlight, PlanPoints
<1>5. ParentsInv'
  BY <1>3 DEF IInv, ParentsInv, InFlight, PlanPoints, Present
<1>6. PlanInv'
  BY <1>3 DEF IInv, PlanInv, Parents, PlanPoints
<1> QED
  BY <1>1, <1>2, <1>4, <1>5, <1>6 DEF IInv

-----------------------------------------------------------------------------
\* Where an actor is in create_node, its block is sound.
LEMMA SoundNow ==
    ASSUME IInv, NEW a \in Actor, pc[a] \in {"resolve"} \union Flight
    PROVE  Sound(a, pc[a], block[a], issued)
BY DEF IInv, TypeOK, IdsInv, ParentsInv, InFlight, Sound, Flight

\* An idle actor with no block satisfies what the invariant asks of it.
LEMMA NoBlockSound ==
    ASSUME NEW a \in Actor, NEW ids PROVE Sound(a, "idle", NoBlock, ids)
BY DEF Sound, NoBlock, Block, Flight

\* Every step of create_node before its commit preserves the invariant.
LEMMA CreateStepInv ==
    ASSUME IInv, NEW a \in Actor, CreateStep(a), ~Commit(a)
    PROVE  IInv'
<1> DEFINE b == block[a]
<1>1. /\ issued \subseteq Id /\ scratch \subseteq Id
      /\ Present \subseteq born /\ node \in [Present -> Row]
      /\ pc \in [Actor -> Control] /\ block \in [Actor -> Block]
  BY DEF IInv, TypeOK, TablesInv
<1>2. \* leaving the call
      ASSUME EndBlock(a), UNCHANGED <<node, edge, plan, born, issued>>,
             scratch' \subseteq Id
      PROVE  IInv'
  <2>1. /\ pc' = [pc EXCEPT ![a] = "idle"]
        /\ block' = [block EXCEPT ![a] = NoBlock]
    BY <1>2 DEF EndBlock, Goto, InBlock
  <2>2. BlockFrame
    BY <1>1, <1>2 DEF BlockFrame
  <2> QED
    BY <2>1, <2>2, NoBlockSound, BlockStepInv
<1>3. \* moving on inside it
      ASSUME NEW w, NEW c, Sound(a, w, c, issued), Goto(a, w), InBlock(a, c),
             UNCHANGED <<node, edge, plan, born, issued, scratch>>
      PROVE  IInv'
  <2>1. Sound(a, w, c, issued')
    BY <1>3
  <2>2. BlockFrame
    BY <1>1, <1>3 DEF BlockFrame
  <2>3. pc' = [pc EXCEPT ![a] = w] /\ block' = [block EXCEPT ![a] = c]
    BY <1>3 DEF Goto, InBlock
  <2> QED
    BY <2>1, <2>2, <2>3, BlockStepInv
<1>4. CASE \E s \in Step, ps \in SUBSET issued : Call(a, s, ps)
  <2> PICK s \in Step, ps \in SUBSET issued : Call(a, s, ps)
    BY <1>4
  <2> DEFINE c == [NoBlock EXCEPT !.step = s, !.todo = ps]
  <2>1. Sound(a, "resolve", c, issued)
    BY <1>1 DEF NoBlock, Block, Sound, Flight
  <2>2. /\ Goto(a, "resolve") /\ InBlock(a, c)
        /\ UNCHANGED <<node, edge, plan, born, issued, scratch>>
    BY DEF Call, Tables
  <2> HIDE DEF c
  <2> QED
    BY <2>1, <2>2, <1>3
<1>5. CASE \E p \in Id : Resolve(a, p) \/ UnknownParent(a, p)
  <2> PICK p \in Id : Resolve(a, p) \/ UnknownParent(a, p)
    BY <1>5
  <2>1. CASE UnknownParent(a, p)
    BY <1>1, <1>2, <2>1 DEF UnknownParent, Tables
  <2>2. CASE Resolve(a, p)
    <3> DEFINE c == [b EXCEPT !.todo = @ \ {p}, !.parents = @ \union {p},
                              !.kinds = @ \union {node[p].step},
                              !.gen = Deeper(@, node[p].gen)]
    <3>1. /\ pc[a] = "resolve" /\ p \in Present /\ InBlock(a, c)
          /\ UNCHANGED <<node, edge, plan, born, issued, scratch, pc>>
      BY <2>2 DEF Resolve, Tables
    <3>2. Goto(a, "resolve")
      BY <1>1, <3>1 DEF Goto
    <3>3. Sound(a, "resolve", b, issued)
      BY <3>1, SoundNow
    <3>4. /\ node[p].step \in Step /\ node[p].gen \in Nat
          /\ b \in Block /\ b.gen \in Nat
      BY <1>1, <3>1 DEF Row, Block
    <3>5. c \in Block /\ c.step = b.step
      BY <3>4 DEF Block, Deeper
    <3>6. /\ c.parents = b.parents \union {p} /\ c.kinds = b.kinds \union {node[p].step}
          /\ c.gen = Deeper(b.gen, node[p].gen)
      BY <3>4 DEF Block
    <3>7. \A q \in c.parents \intersect Present :
            node[q].step \in c.kinds /\ c.gen >= node[q].gen
      <4> TAKE q \in c.parents \intersect Present
      <4>1. node[q].gen \in Nat
        BY <1>1 DEF Row
      <4>2. CASE q = p
        BY <3>4, <3>6, <4>1, <4>2 DEF Deeper
      <4>3. CASE q # p
        <5>1. node[q].step \in b.kinds /\ b.gen >= node[q].gen
          BY <3>3, <3>6, <4>3 DEF Sound
        <5> QED
          BY <3>4, <3>6, <4>1, <5>1 DEF Deeper
      <4> QED
        BY <4>2, <4>3
    <3>8. Sound(a, "resolve", c, issued)
      BY <1>1, <3>1, <3>3, <3>5, <3>6, <3>7 DEF Sound, Flight
    <3> HIDE DEF c
    <3> QED
      BY <1>3, <3>1, <3>2, <3>8
  <2> QED
    BY <2>1, <2>2
<1>6. CASE Refuse(a)
  BY <1>1, <1>2, <1>6 DEF Refuse, Tables
<1>7. CASE \E n \in Id : Open(a, n)
  <2> PICK n \in Id : Open(a, n)
    BY <1>7
  <2> DEFINE c == [b EXCEPT !.id = n, !.gen = GenerationFor(b.step, b.parents, @)]
  <2>1. /\ pc[a] = "resolve" /\ n \notin issued /\ Accepts(b.step, b.kinds)
        /\ Goto(a, "block") /\ InBlock(a, c)
        /\ UNCHANGED <<node, edge, plan, born>>
        /\ scratch' = scratch \union {n} /\ issued' = issued \union {n}
    BY DEF Open, Tables
  <2>2. Sound(a, "resolve", b, issued)
    BY <2>1, SoundNow
  <2>3. b \in Block /\ b.gen \in Nat
    BY <1>1 DEF Block
  <2>4. /\ c \in Block /\ c.step = b.step /\ c.id = n /\ c.parents = b.parents
        /\ c.kinds = b.kinds /\ c.gen = GenerationFor(b.step, b.parents, b.gen)
    <3>1. GenerationFor(b.step, b.parents, b.gen) \in Nat
      BY <2>3 DEF GenerationFor
    <3> QED
      BY <2>3, <3>1 DEF Block
  <2>5. \A d \in Actor \ {a} : InFlight(d) => block[d].id # n
    <3>1. n \notin issued
      BY <2>1
    <3> QED
      BY <3>1 DEF IInv, IdsInv
  <2>6. \A p \in c.parents \intersect Present :
          /\ node[p].step \in c.kinds
          /\ c.gen >= node[p].gen
          /\ c.step \in Triggers => c.gen > node[p].gen
    <3> TAKE p \in c.parents \intersect Present
    <3>1. node[p].gen \in Nat
      BY <1>1 DEF Row
    <3>2. node[p].step \in b.kinds /\ b.gen >= node[p].gen
      BY <2>2, <2>4 DEF Sound
    <3> QED
      BY <2>3, <2>4, <3>1, <3>2 DEF GenerationFor
  <2>7. n \notin born
    BY <2>1 DEF IInv, TypeOK
  <2> HIDE DEF c
  <2>8. Sound(a, "block", c, issued')
    <3>1. /\ b.step \in Step /\ b.parents \subseteq born
          /\ n \in issued' /\ n \notin born
      BY <2>1, <2>2, <2>7 DEF Sound
    <3> QED
      BY <2>1, <2>4, <2>5, <2>6, <3>1 DEF Sound, Flight
  <2>9. BlockFrame
    BY <1>1, <2>1 DEF BlockFrame
  <2>10. pc' = [pc EXCEPT ![a] = "block"] /\ block' = [block EXCEPT ![a] = c]
    BY <2>1 DEF Goto, InBlock
  <2> QED
    BY <2>8, <2>9, <2>10, BlockStepInv
<1>8. CASE Discard(a)
  BY <1>1, <1>2, <1>8 DEF Discard, Tables
<1>9. \* the steps after the block change neither its id nor what it read
      ASSUME NEW w \in {"lookup", "verify", "commit"}, NEW c \in Block,
             pc[a] \in Flight, c.content \in Content,
             c.step = b.step, c.id = b.id, c.parents = b.parents,
             c.kinds = b.kinds, c.gen = b.gen
      PROVE  Sound(a, w, c, issued)
  <2>1. Sound(a, pc[a], b, issued)
    BY <1>9, SoundNow
  <2> QED
    BY <1>9, <2>1 DEF Sound, Flight
<1>10. CASE \E c \in Content, ok \in BOOLEAN : Finalize(a, c, ok)
  <2> PICK c \in Content, ok \in BOOLEAN : Finalize(a, c, ok)
    BY <1>10
  <2> DEFINE w == IF ok /\ ReuseIdentical THEN "lookup" ELSE "commit"
             d == [b EXCEPT !.content = c, !.healthy = ok]
  <2>1. /\ pc[a] \in Flight /\ Goto(a, w) /\ InBlock(a, d)
        /\ UNCHANGED <<node, edge, plan, born, issued, scratch>>
    BY DEF Finalize, Tables, Flight
  <2>2. /\ d \in Block /\ d.step = b.step /\ d.id = b.id /\ d.parents = b.parents
        /\ d.kinds = b.kinds /\ d.gen = b.gen /\ d.content \in Content
    BY <1>1 DEF Block
  <2>3. w \in {"lookup", "verify", "commit"}
    OBVIOUS
  <2> HIDE DEF w, d
  <2>4. Sound(a, w, d, issued)
    BY <1>9, <2>1, <2>2, <2>3
  <2> QED
    BY <1>3, <2>1, <2>4
<1>11. CASE \E m \in Id : Nominate(a, m)
  <2> PICK m \in Id : Nominate(a, m)
    BY <1>11
  <2> DEFINE d == [b EXCEPT !.cand = m]
  <2>1. /\ pc[a] = "lookup" /\ Goto(a, "verify") /\ InBlock(a, d)
        /\ UNCHANGED <<node, edge, plan, born, issued, scratch>>
    BY DEF Nominate, Tables
  <2>2. b.content \in Content
    BY <2>1, SoundNow DEF Sound, Flight
  <2>3. /\ d \in Block /\ d.step = b.step /\ d.id = b.id /\ d.parents = b.parents
        /\ d.kinds = b.kinds /\ d.gen = b.gen /\ d.content = b.content
    BY <1>1 DEF Block
  <2> HIDE DEF d
  <2>4. Sound(a, "verify", d, issued)
    BY <1>9, <2>1, <2>2, <2>3 DEF Flight
  <2> QED
    BY <1>3, <2>1, <2>4
<1>12. CASE NoTwin(a)
  <2>1. /\ pc[a] = "lookup" /\ Goto(a, "commit") /\ InBlock(a, b)
        /\ UNCHANGED <<node, edge, plan, born, issued, scratch>>
    BY <1>1, <1>12 DEF NoTwin, Tables, InBlock
  <2>2. b.content \in Content /\ b \in Block
    BY <2>1, SoundNow DEF Sound, Flight
  <2>3. Sound(a, "commit", b, issued)
    BY <1>9, <2>1, <2>2 DEF Flight
  <2> QED
    BY <1>3, <2>1, <2>3
<1>13. CASE Rebind(a)
  BY <1>1, <1>2, <1>13 DEF Rebind, Tables
<1>14. CASE Differs(a)
  <2> DEFINE d == [b EXCEPT !.cand = None]
  <2>1. /\ pc[a] = "verify" /\ Goto(a, "commit") /\ InBlock(a, d)
        /\ UNCHANGED <<node, edge, plan, born, issued, scratch>>
    BY <1>14 DEF Differs, Tables
  <2>2. b.content \in Content
    BY <2>1, SoundNow DEF Sound, Flight
  <2>3. /\ d \in Block /\ d.step = b.step /\ d.id = b.id /\ d.parents = b.parents
        /\ d.kinds = b.kinds /\ d.gen = b.gen /\ d.content = b.content
    BY <1>1 DEF Block
  <2> HIDE DEF d
  <2>4. Sound(a, "commit", d, issued)
    BY <1>9, <2>1, <2>2, <2>3 DEF Flight
  <2> QED
    BY <1>3, <2>1, <2>4
<1>15. CASE CommitFails(a)
  BY <1>1, <1>2, <1>15 DEF CommitFails, Tables
<1> QED
  BY <1>4, <1>5, <1>6, <1>7, <1>8, <1>10, <1>11, <1>12, <1>13, <1>14, <1>15
     DEF CreateStep

\* The commit inserts a row under present parents: its edges obey the rules
\* because what the block read of the parents still describes them.
LEMMA CommitInv ==
    ASSUME IInv, NEW a \in Actor, Commit(a)
    PROVE  IInv'
<1> DEFINE b == block[a]
<1>1. /\ pc[a] = "commit" /\ b.id \notin Present /\ b.parents \subseteq Present
      /\ node' = [n \in Present \union {b.id} |-> IF n = b.id THEN RowOf(b) ELSE node[n]]
      /\ edge' = edge \union ({b.id} \X b.parents)
      /\ scratch' = scratch \ {b.id} /\ born' = born \union {b.id}
      /\ pc' = [pc EXCEPT ![a] = "idle"] /\ block' = [block EXCEPT ![a] = NoBlock]
      /\ UNCHANGED <<plan, issued>>
  BY DEF Commit, MayInsert, EndBlock, Goto, InBlock
<1>2. Sound(a, "commit", b, issued)
  BY <1>1, SoundNow DEF Flight
<1>3. /\ b \in Block /\ b.step \in Step /\ b.content \in Content
      /\ b.id \in Id /\ b.id \in issued \ born /\ Accepts(b.step, b.kinds)
      /\ \A c \in Actor \ {a} : InFlight(c) => block[c].id # b.id
  BY <1>2 DEF Sound, Flight, IInv, TypeOK
<1>4. /\ Present' = Present \union {b.id}
      /\ node'[b.id] = RowOf(b)
      /\ \A n \in Present : n # b.id /\ node'[n] = node[n]
  BY <1>1 DEF Present
<1>5. /\ pc'[a] = "idle" /\ block'[a] = NoBlock
      /\ \A c \in Actor \ {a} : pc'[c] = pc[c] /\ block'[c] = block[c]
  BY <1>1 DEF IInv, TypeOK
<1>6. TypeOK'
  <2>1. RowOf(b) \in Row
    BY <1>3 DEF RowOf, Row, Block, HashOf, BlockSummary, Summary
  <2>2. \A n \in Present : node[n] \in Row
    BY DEF IInv, TypeOK
  <2>3. node' \in [Present' -> Row]
    BY <1>1, <1>4, <2>1, <2>2
  <2>4. NoBlock \in Block
    BY DEF NoBlock, Block
  <2>5. edge' \subseteq Id \X Id
    BY <1>1, <1>3 DEF IInv, TypeOK, Block
  <2> QED
    BY <1>1, <1>3, <1>4, <2>3, <2>4, <2>5 DEF IInv, TypeOK, Control
<1>7. TablesInv'
  BY <1>1, <1>4 DEF IInv, TablesInv
<1>8. IdsInv'
  BY <1>1, <1>3, <1>5 DEF IInv, IdsInv, InFlight
<1>9. ParentsInv'
  <2> SUFFICES ASSUME NEW c \in Actor
               PROVE  /\ pc'[c] = "resolve" \/ InFlight(c)' => block'[c].step \in Step
                      /\ pc'[c] \in {"lookup", "verify", "commit"} =>
                           block'[c].content \in Content
                      /\ block'[c].parents \subseteq born'
                      /\ InFlight(c)' => Accepts(block'[c].step, block'[c].kinds)
                      /\ \A p \in block'[c].parents \intersect Present' :
                           /\ node'[p].step \in block'[c].kinds
                           /\ block'[c].gen >= node'[p].gen
                           /\ (InFlight(c)' /\ block'[c].step \in Triggers) =>
                                block'[c].gen > node'[p].gen
    BY DEF ParentsInv
  <2>1. CASE c = a
    BY <1>5, <2>1 DEF NoBlock, InFlight
  <2>2. CASE c # a
    <3>1. block[c].parents \intersect Present' = block[c].parents \intersect Present
      BY <1>3, <1>4 DEF IInv, ParentsInv
    <3> QED
      BY <1>1, <1>4, <1>5, <2>2, <3>1 DEF IInv, ParentsInv, InFlight
  <2> QED
    BY <2>1, <2>2
<1>10. PlanInv'
  <2>1. \A n \in born : Parents(n)' = Parents(n)
    BY <1>1, <1>3 DEF Parents
  <2>2. \A c \in Actor : pc'[c] \in PlanPoints => pc'[c] = pc[c]
    BY <1>5 DEF PlanPoints
  <2> QED
    BY <1>1, <2>1, <2>2 DEF IInv, PlanInv, PlanPoints
<1>11. EdgesObeyRules'
  <2> SUFFICES ASSUME NEW e \in edge'
               PROVE  /\ {e[1], e[2]} \subseteq Present'
                      /\ Accepts(node'[e[1]].step, {node'[e[2]].step})
                      /\ IF node'[e[1]].step \in Triggers
                         THEN node'[e[1]].gen > node'[e[2]].gen
                         ELSE node'[e[1]].gen >= node'[e[2]].gen
    BY DEF EdgesObeyRules
  <2>1. CASE e \in edge
    BY <1>4, <2>1 DEF IInv, TablesInv, EdgesObeyRules
  <2>2. CASE e \in {b.id} \X b.parents
    <3>1. e[1] = b.id /\ e[2] \in b.parents
      BY <2>2
    <3>2. /\ node[e[2]].step \in b.kinds
          /\ b.gen >= node[e[2]].gen
          /\ b.step \in Triggers => b.gen > node[e[2]].gen
      BY <1>1, <1>2, <3>1 DEF Sound, Flight
    <3>3. Accepts(b.step, {node[e[2]].step})
      BY <1>3, <3>2 DEF Accepts
    <3>4. node'[e[1]].step = b.step /\ node'[e[1]].gen = b.gen /\ node'[e[2]] = node[e[2]]
      BY <1>1, <1>4, <3>1 DEF RowOf
    <3> QED
      BY <1>1, <1>4, <3>1, <3>2, <3>3, <3>4
  <2> QED
    BY <1>1, <2>1, <2>2
<1> QED
  BY <1>6, <1>7, <1>8, <1>9, <1>10, <1>11 DEF IInv

\* What a complete plan dooms lies in its region and, its target aside, has
\* no parent outside the doomed.
LEMMA DoomedClosed ==
    ASSUME IInv, NEW a \in Actor, pc[a] = "delete"
    PROVE  /\ Doomed(plan[a]) \subseteq Id
           /\ \A d \in Doomed(plan[a]) \ {plan[a].target} :
                Parents(d) \subseteq Doomed(plan[a])
<1> DEFINE pl == plan[a]
<1>1. Doomed(pl) \subseteq pl.region /\ pl.region \subseteq Id /\ pl.read = pl.region
  BY DEF Doomed, IInv, PlanInv, TypeOK, Plan
<1>2. \A d \in Doomed(pl) \ {pl.target} : pl.above[d] \subseteq Doomed(pl)
  BY DEF Doomed
<1>3. \A d \in pl.region : Parents(d) \subseteq pl.above[d]
  BY <1>1 DEF IInv, PlanInv
<1> QED
  BY <1>1, <1>2, <1>3

\* The delete takes rows with every edge at either end, and nothing an actor
\* remembers becomes wrong of the rows that stay.
LEMMA DeleteInv ==
    ASSUME IInv, NEW a \in Actor, Delete(a)
    PROVE  IInv'
<1> DEFINE D == Doomed(plan[a])
<1>1. /\ pc[a] = "delete"
      /\ node' = [n \in Present \ D |-> node[n]]
      /\ edge' = {e \in edge : e[1] \notin D /\ e[2] \notin D}
      /\ pc' = [pc EXCEPT ![a] = "idle"] /\ plan' = [plan EXCEPT ![a] = NoPlan]
      /\ UNCHANGED <<scratch, block, issued, born>>
  BY DEF Delete, Restrict, Goto
<1> HIDE DEF D
<1>2. Present' = Present \ D /\ \A n \in Present' : node'[n] = node[n]
  BY <1>1 DEF Present
<1>3. /\ pc'[a] = "idle" /\ plan'[a] = NoPlan
      /\ \A c \in Actor \ {a} : pc'[c] = pc[c] /\ plan'[c] = plan[c]
  BY <1>1 DEF IInv, TypeOK
<1>4. TypeOK'
  <2>1. node' \in [Present' -> Row]
    BY <1>1, <1>2 DEF IInv, TypeOK
  <2>2. NoPlan \in Plan
    BY DEF NoPlan, Plan
  <2> QED
    BY <1>1, <1>2, <2>1, <2>2 DEF IInv, TypeOK, Control
<1>5. TablesInv' /\ EdgesObeyRules'
  BY <1>1, <1>2 DEF IInv, TablesInv, EdgesObeyRules
<1>6. IdsInv'
  BY <1>1, <1>3 DEF IInv, IdsInv, InFlight
<1>7. ParentsInv'
  <2>1. \A c \in Actor : InFlight(c)' => InFlight(c)
    BY <1>3 DEF InFlight
  <2>2. \A c \in Actor : pc'[c] # "idle" => pc'[c] = pc[c]
    BY <1>3
  <2> QED
    BY <1>1, <1>2, <2>1, <2>2 DEF IInv, ParentsInv
<1>8. PlanInv'
  <2>1. \A n : Parents(n)' \subseteq Parents(n)
    BY <1>1 DEF Parents
  <2>2. \A c \in Actor \ {a} : pc'[c] = pc[c] /\ plan'[c] = plan[c]
    BY <1>3
  <2> QED
    BY <1>1, <1>3, <2>1, <2>2 DEF IInv, PlanInv, NoPlan
<1> QED
  BY <1>4, <1>5, <1>6, <1>7, <1>8 DEF IInv

\* Planning only reads: what it has read stays a superset of what is there.
LEMMA PlanningInv ==
    ASSUME IInv, NEW a \in Actor, PruneStep(a), ~Delete(a)
    PROVE  IInv'
<1> DEFINE pl == plan[a]
<1>1. /\ pl \in Plan /\ NoPlan \in Plan
      /\ pl.region \union pl.stack \subseteq born /\ pl.read \subseteq pl.region
      /\ \A n \in pl.read : Parents(n) \subseteq pl.above[n]
      /\ pc[a] \in PlanPoints => pl.target \in Id
      /\ born \subseteq Id
  BY DEF IInv, TypeOK, PlanInv, PlanPoints, NoPlan, Plan
<1>2. CASE \E n \in Id : Prune(a, n)
  <2> PICK n \in Id : Prune(a, n)
    BY <1>2
  <2> DEFINE c == [NoPlan EXCEPT !.target = n, !.stack = {n}]
  <2>1. /\ n \in Present /\ pc' = [pc EXCEPT ![a] = "region"]
        /\ plan' = [plan EXCEPT ![a] = c]
        /\ UNCHANGED <<node, edge, scratch, block, issued, born>>
    BY DEF Prune, Goto, Tables
  <2>2. c \in Plan /\ c.target = n /\ c.stack = {n} /\ c.region = {} /\ c.read = {}
    BY DEF NoPlan, Plan
  <2>3. n \in born
    BY <2>1 DEF IInv, TablesInv
  <2> HIDE DEF c
  <2> QED
    BY <2>1, <2>2, <2>3, PlanStepInv DEF PlanPoints
<1>3. CASE \E n \in Id : Descend(a, n)
  <2> PICK n \in Id : Descend(a, n)
    BY <1>3
  <2> DEFINE region == pl.region \union {n}
             stack == (pl.stack \union Children(n)) \ region
             c == [pl EXCEPT !.region = region, !.stack = stack]
             w == IF stack = {} THEN "weigh" ELSE "region"
  <2>1. /\ pc[a] = "region" /\ n \in pl.stack /\ pc' = [pc EXCEPT ![a] = w]
        /\ plan' = [plan EXCEPT ![a] = c]
        /\ UNCHANGED <<node, edge, scratch, block, issued, born>>
    BY DEF Descend, Goto, Tables
  <2>2. region \subseteq born /\ stack \subseteq born
    BY <1>1, <2>1 DEF IInv, TablesInv, Children
  <2>3. w \in {"weigh", "region"}
    OBVIOUS
  <2> HIDE DEF stack, w
  <2>4. /\ c \in Plan /\ c.target = pl.target /\ c.stack = stack
        /\ c.region = region /\ c.read = pl.read /\ c.above = pl.above
    BY <1>1, <2>2 DEF Plan
  <2> HIDE DEF c
  <2> QED
    BY <1>1, <2>1, <2>2, <2>3, <2>4, PlanStepInv DEF PlanPoints
<1>4. CASE \E n \in Id : Weigh(a, n)
  <2> PICK n \in Id : Weigh(a, n)
    BY <1>4
  <2> DEFINE c == [pl EXCEPT !.read = @ \union {n}, !.above[n] = Parents(n)]
             w == IF pl.read \union {n} = pl.region THEN "delete" ELSE "weigh"
  <2>1. /\ pc[a] = "weigh" /\ n \in pl.region /\ pc' = [pc EXCEPT ![a] = w]
        /\ UNCHANGED <<node, edge, scratch, block, issued, born>>
    BY DEF Weigh, Goto, Tables
  <2>2. plan' = [plan EXCEPT ![a] = c]
    BY DEF Weigh
  <2>3. w \in {"delete", "weigh"} /\ (w = "delete" => pl.read \union {n} = pl.region)
    OBVIOUS
  <2>4. Parents(n) \subseteq Id
    BY DEF Parents
  <2>5. /\ c \in Plan /\ c.target = pl.target /\ c.stack = pl.stack
        /\ c.region = pl.region /\ c.read = pl.read \union {n}
        /\ c.above[n] = Parents(n)
        /\ \A m \in Id \ {n} : c.above[m] = pl.above[m]
    BY <1>1, <2>4 DEF Plan
  <2>6. \A m \in c.read : Parents(m) \subseteq c.above[m]
    BY <1>1, <2>5
  <2> HIDE DEF c, w
  <2> QED
    BY <1>1, <2>1, <2>2, <2>3, <2>5, <2>6, PlanStepInv DEF PlanPoints
<1>5. CASE DryRun(a)
  <2>1. /\ pc' = [pc EXCEPT ![a] = "idle"] /\ plan' = [plan EXCEPT ![a] = NoPlan]
        /\ UNCHANGED <<node, edge, scratch, block, issued, born>>
    BY <1>5 DEF DryRun, Goto, Tables
  <2>2. NoPlan.region \union NoPlan.stack = {} /\ NoPlan.read = {}
    BY DEF NoPlan
  <2> QED
    BY <1>1, <2>1, <2>2, PlanStepInv DEF PlanPoints
<1> QED
  BY <1>2, <1>3, <1>4, <1>5 DEF PruneStep

\* The invariant depends on the variables only.
LEMMA StutterInv == IInv /\ UNCHANGED vars => IInv'
BY ZenonT(60) DEF IInv, TypeOK, TablesInv, IdsInv, ParentsInv, PlanInv, EdgesObeyRules,
       InFlight, Present, Parents, vars

-----------------------------------------------------------------------------
\* The inductive invariant holds in every state of every execution.
THEOREM Invariance == Spec => []IInv
<1>1. IInv /\ [Next]_vars => IInv'
  <2> SUFFICES ASSUME IInv, [Next]_vars PROVE IInv'
    OBVIOUS
  <2>1. CASE Next
    <3> PICK a \in Actor : CreateStep(a) \/ PruneStep(a)
      BY <2>1 DEF Next
    <3>1. CASE CreateStep(a)
      BY <3>1, CreateStepInv, CommitInv
    <3>2. CASE PruneStep(a)
      BY <3>2, PlanningInv, DeleteInv
    <3> QED
      BY <3>1, <3>2
  <2> QED
    BY <2>1, StutterInv
<1> QED
  BY InitInv, <1>1, PTL DEF Spec

\* Tables and actors keep their types, whatever the instance.
THEOREM TypeCorrect == Spec => []TypeOK
<1>1. IInv => TypeOK
  BY DEF IInv
<1> QED
  BY Invariance, <1>1, PTL

\* Every edge the store ever holds joins present nodes and obeys the rules and
\* the generations, however many blocks and prunes overlap.
THEOREM RulesAlwaysHold == Spec => []EdgesObeyRules
<1>1. IInv => EdgesObeyRules
  BY DEF IInv
<1> QED
  BY Invariance, <1>1, PTL

-----------------------------------------------------------------------------
\* Every step of the tables is a step of NodeGraph, or stutters.
LEMMA GraphStep ==
    ASSUME IInv, [Next]_vars
    PROVE  [Graph!GraphNext]_<<Present, edge, born>>
<1>1. CASE UNCHANGED <<node, edge, born>>
  BY <1>1 DEF Present
<1>2. ASSUME NEW a \in Actor, Commit(a)
      PROVE  Graph!Add(block[a].id, block[a].parents) /\ block[a].parents \in SUBSET Id
  <2> DEFINE b == block[a]
  <2>1. /\ pc[a] = "commit" /\ b.parents \subseteq Present
        /\ node' = [n \in Present \union {b.id} |-> IF n = b.id THEN RowOf(b) ELSE node[n]]
        /\ edge' = edge \union ({b.id} \X b.parents)
        /\ born' = born \union {b.id}
    BY <1>2 DEF Commit, MayInsert
  <2>2. b.id \in Id \ born
    BY <2>1 DEF IInv, TypeOK, IdsInv, InFlight
  <2>3. Present' = Present \union {b.id}
    BY <2>1 DEF Present
  <2>4. b.parents \in SUBSET Id
    BY DEF IInv, TypeOK, Block
  <2> QED
    BY <2>1, <2>2, <2>3, <2>4 DEF Graph!Add, Present
<1>3. ASSUME NEW a \in Actor, Delete(a)
      PROVE  /\ plan[a].target \in Id /\ Doomed(plan[a]) \in SUBSET Id
             /\ Graph!Remove(plan[a].target, Doomed(plan[a]))
  <2> DEFINE D == Doomed(plan[a])
  <2>1. /\ pc[a] = "delete" /\ node' = [n \in Present \ D |-> node[n]]
        /\ edge' = {e \in edge : e[1] \notin D /\ e[2] \notin D}
        /\ UNCHANGED born
    BY <1>3 DEF Delete, Restrict
  <2>2. /\ D \subseteq Id
        /\ \A d \in D \ {plan[a].target} : Parents(d) \subseteq D
    BY <2>1, DoomedClosed
  <2>3. plan[a].target \in Id
    BY <2>1 DEF IInv, PlanInv
  <2> HIDE DEF D
  <2>4. Present' = Present \ D
    BY <2>1 DEF Present
  <2>5. \A d \in (D \intersect Present) \ {plan[a].target} :
          Graph!ParentsIn(edge, d) \subseteq D
    BY <2>2 DEF Parents, Graph!ParentsIn
  <2> QED
    BY <2>1, <2>2, <2>3, <2>4, <2>5 DEF Graph!Remove, Present, D
<1>4. ASSUME NEW a \in Actor, CreateStep(a), ~Commit(a)
      PROVE  UNCHANGED <<node, edge, born>>
  BY <1>4 DEF CreateStep, Call, Resolve, UnknownParent, Refuse, Open, Discard, Finalize,
              Nominate, NoTwin, Rebind, Differs, CommitFails, Tables
<1>5. ASSUME NEW a \in Actor, PruneStep(a), ~Delete(a)
      PROVE  UNCHANGED <<node, edge, born>>
  BY <1>5 DEF PruneStep, Prune, Descend, Weigh, DryRun, Tables
<1>6. ASSUME NEW a \in Actor, Commit(a) PROVE Graph!GraphNext
  <2>1. block[a].id \in Id
    BY <1>2, <1>6 DEF Graph!Add
  <2> QED
    BY <1>2, <1>6, <2>1 DEF Graph!GraphNext
<1>7. ASSUME NEW a \in Actor, Delete(a) PROVE Graph!GraphNext
  BY <1>3, <1>7 DEF Graph!GraphNext
<1> QED
  BY <1>1, <1>4, <1>5, <1>6, <1>7 DEF Next, vars

\* The store implements the abstract graph: no interleaving of plans, deletes
\* and commits removes a node that a surviving parent supports, or brings one
\* back.
THEOREM Refinement == Spec => RefinesGraph
<1>1. Init => Graph!GraphInit
  BY DEF Init, Graph!GraphInit, Present
<1>2. IInv /\ [Next]_vars => [Graph!GraphNext]_<<Present, edge, born>>
  BY GraphStep
<1>3. [Graph!GraphNext]_<<Present, edge, born>> => [Graph!GraphNext]_Graph!gvars
  BY DEF Graph!gvars, Present
<1> QED
  BY Invariance, <1>1, <1>2, <1>3, PTL DEF Spec, RefinesGraph, Graph!GraphSpec
-----------------------------------------------------------------------------
(* What a plan has read stays true of the nodes that stay.                 *)

\* Of the parents a plan has read of a node, those that are present are still
\* its parents: an edge goes only with one of its ends.
StaysAbove(c) ==
    \A n \in plan[c].read :
      /\ plan[c].above[n] \subseteq born
      /\ n \in Present => plan[c].above[n] \intersect Present \subseteq Parents(n)

PlansStayTrue == \A c \in Actor : StaysAbove(c)

\* No plan has read anything at first.
LEMMA PlansStayTrueInit == Init => PlansStayTrue
BY DEF Init, PlansStayTrue, StaysAbove, NoPlan

\* Every step keeps what the plans have read true: an edge goes with an end.
LEMMA PlansStayTrueStep ==
    ASSUME IInv, PlansStayTrue, [Next]_vars
    PROVE  PlansStayTrue'
<1> SUFFICES ASSUME NEW c \in Actor PROVE StaysAbove(c)'
  BY DEF PlansStayTrue
<1>1. StaysAbove(c)
  BY DEF PlansStayTrue
<1>2. /\ plan[c].read \subseteq plan[c].region /\ plan[c].region \subseteq born
      /\ Present \subseteq born /\ plan[c] \in Plan
  BY DEF IInv, PlanInv, TablesInv, TypeOK
<1>3. CASE UNCHANGED vars
  BY <1>1, <1>3 DEF vars, StaysAbove, Present, Parents
<1>4. ASSUME NEW a \in Actor, CreateStep(a), ~Commit(a) PROVE StaysAbove(c)'
  <2>1. UNCHANGED <<node, edge, born, plan>>
    BY <1>4 DEF CreateStep, Call, Resolve, UnknownParent, Refuse, Open, Discard, Finalize,
                Nominate, NoTwin, Rebind, Differs, CommitFails, Tables
  <2> QED
    BY <1>1, <2>1 DEF StaysAbove, Present, Parents
<1>5. ASSUME NEW a \in Actor, Commit(a) PROVE StaysAbove(c)'
  <2> DEFINE b == block[a]
  <2>1. /\ pc[a] = "commit"
        /\ node' = [n \in Present \union {b.id} |-> IF n = b.id THEN RowOf(b) ELSE node[n]]
        /\ edge' = edge \union ({b.id} \X b.parents)
        /\ born' = born \union {b.id} /\ plan' = plan
    BY <1>5 DEF Commit
  <2>2. b.id \notin born
    BY <2>1 DEF IInv, IdsInv, InFlight
  <2>3. Present' = Present \union {b.id}
    BY <2>1 DEF Present
  <2> HIDE DEF b
  <2> SUFFICES ASSUME NEW n \in plan[c].read
               PROVE  /\ plan[c].above[n] \subseteq born'
                      /\ n \in Present' => plan[c].above[n] \intersect Present' \subseteq Parents(n)'
    BY <2>1 DEF StaysAbove
  <2>4. plan[c].above[n] \subseteq born /\ n \in born
    BY <1>1, <1>2 DEF StaysAbove
  <2>5. n \in Present' => n \in Present
    BY <2>2, <2>3, <2>4
  <2>6. plan[c].above[n] \intersect Present' \subseteq Present
    BY <2>2, <2>3, <2>4
  <2>7. Parents(n) \subseteq Parents(n)'
    BY <2>1 DEF Parents
  <2> QED
    BY <1>1, <2>1, <2>4, <2>5, <2>6, <2>7 DEF StaysAbove
<1>6. ASSUME NEW a \in Actor, Delete(a) PROVE StaysAbove(c)'
  <2> DEFINE D == Doomed(plan[a])
  <2>1. /\ node' = [n \in Present \ D |-> node[n]]
        /\ edge' = {e \in edge : e[1] \notin D /\ e[2] \notin D}
        /\ plan' = [plan EXCEPT ![a] = NoPlan] /\ born' = born
    BY <1>6 DEF Delete, Restrict
  <2> HIDE DEF D
  <2>2. Present' = Present \ D
    BY <2>1 DEF Present
  <2>3. CASE c = a
    BY <2>1, <2>3 DEF StaysAbove, NoPlan, IInv, TypeOK
  <2>4. CASE c # a
    <3>1. plan'[c] = plan[c]
      BY <2>1, <2>4 DEF IInv, TypeOK
    <3>2. \A n \in Present' : Parents(n) \intersect Present' \subseteq Parents(n)'
      BY <2>1, <2>2 DEF Parents
    <3> QED
      BY <1>1, <2>1, <2>2, <3>1, <3>2 DEF StaysAbove
  <2> QED
    BY <2>3, <2>4
<1>7. ASSUME NEW a \in Actor, PruneStep(a), ~Delete(a) PROVE StaysAbove(c)'
  <2>1. UNCHANGED <<node, edge, born>>
    BY <1>7 DEF PruneStep, Prune, Descend, Weigh, DryRun, Tables
  <2>2. Present' = Present /\ \A n : Parents(n)' = Parents(n)
    BY <2>1 DEF Present, Parents
  <2>3. \/ plan'[c].read = {}
        \/ plan'[c].read = plan[c].read /\ plan'[c].above = plan[c].above
        \/ \E n \in Id : Weigh(c, n)
    <3>1. plan \in [Actor -> Plan]
      BY DEF IInv, TypeOK
    <3>2. CASE a # c
      <4>1. plan'[c] = plan[c]
        BY <1>7, <3>1, <3>2 DEF PruneStep, Prune, Descend, Weigh, DryRun
      <4> QED
        BY <4>1
    <3>3. ASSUME NEW n \in Id, Prune(c, n) PROVE plan'[c].read = {}
      BY <3>1, <3>3 DEF Prune, NoPlan
    <3>4. ASSUME NEW n \in Id, Descend(c, n)
          PROVE  plan'[c].read = plan[c].read /\ plan'[c].above = plan[c].above
      BY <3>1, <3>4 DEF Descend, Plan
    <3>5. ASSUME DryRun(c) PROVE plan'[c].read = {}
      BY <3>1, <3>5 DEF DryRun, NoPlan
    <3> QED
      BY <1>7, <3>2, <3>3, <3>4, <3>5 DEF PruneStep
  <2>4. CASE plan'[c].read = {}
    BY <2>4 DEF StaysAbove
  <2>5. CASE plan'[c].read = plan[c].read /\ plan'[c].above = plan[c].above
    BY <1>1, <2>1, <2>2, <2>5 DEF StaysAbove
  <2>6. ASSUME NEW n \in Id, Weigh(c, n) PROVE StaysAbove(c)'
    <3> DEFINE pl == plan[c]
    <3>1. plan \in [Actor -> Plan]
      BY DEF IInv, TypeOK
    <3>2. plan' = [plan EXCEPT ![c] = [pl EXCEPT !.read = pl.read \union {n},
                                                 !.above = [pl.above EXCEPT ![n] = Parents(n)]]]
      BY <3>1, <2>6 DEF Weigh, Plan
    <3>3. pl.above \in [Id -> SUBSET Id]
      BY <1>2 DEF Plan
    <3>4. /\ plan'[c].read = plan[c].read \union {n}
          /\ plan'[c].above[n] = Parents(n)
          /\ \A m \in Id \ {n} : plan'[c].above[m] = plan[c].above[m]
      BY <1>2, <3>1, <3>2, <3>3 DEF Plan
    <3>5. Parents(n) \subseteq born
      BY <1>2 DEF Parents, IInv, TablesInv
    <3>6. plan[c].read \subseteq Id
      BY <1>2 DEF Plan
    <3> QED
      BY <1>1, <2>1, <2>2, <3>4, <3>5, <3>6 DEF StaysAbove
  <2> QED
    BY <2>3, <2>4, <2>5, <2>6
<1> QED
  BY <1>3, <1>4, <1>5, <1>6, <1>7 DEF Next

\* A node of the region whose parents, as read, are all doomed is doomed.
LEMMA DoomedLargest ==
    ASSUME NEW pl, NEW n \in pl.region, pl.above[n] \subseteq Doomed(pl)
    PROVE  n \in Doomed(pl)
<1> DEFINE S == Doomed(pl) \union {n}
<1>1. \A d \in S \ {pl.target} : pl.above[d] \subseteq S
  BY DEF Doomed
<1>2. S \in SUBSET pl.region
  BY DEF Doomed
<1> HIDE DEF S
<1>3. S \subseteq Doomed(pl)
  BY <1>1, <1>2 DEF Doomed
<1> QED
  BY <1>3 DEF S

\* A prune orphans a node only behind its plan's back, whatever else runs.
THEOREM OrphansOnlyByRace == Spec => OrphanedOnlyByRace
<1>1. ASSUME IInv, PlansStayTrue, [Next]_vars PROVE [EveryOrphanBehindPlan]_vars
  <2> SUFFICES ASSUME NEW a \in Actor, NEW n \in Id,
                      plan'[a] # plan[a], pc[a] = "delete",
                      n \in Present \intersect Present', Parents(n) # {},
                      n \in plan[a].region, plan[a].above[n] \subseteq Present
               PROVE  \E p \in Id : <<n, p>> \in edge'
    BY DEF EveryOrphanBehindPlan, OrphansBehindPlan
  <2>1. DryRun(a) \/ Delete(a)
    <3>1. PICK c \in Actor : CreateStep(c) \/ PruneStep(c)
      BY <1>1 DEF Next, vars
    <3>2. plan \in [Actor -> Plan]
      BY <1>1 DEF IInv, TypeOK
    <3>3. ~CreateStep(c)
      <4>1. CreateStep(c) => plan' = plan
        BY DEF CreateStep, Call, Resolve, UnknownParent, Refuse, Open, Discard, Finalize,
               Nominate, NoTwin, Rebind, Differs, Commit, CommitFails
      <4> QED
        BY <4>1
    <3>4. c = a
      BY <3>1, <3>2, <3>3 DEF PruneStep, Prune, Descend, Weigh, DryRun, Delete
    <3> QED
      BY <3>1, <3>3, <3>4 DEF PruneStep, Prune, Descend, Weigh
  <2>2. CASE DryRun(a)
    BY <2>2 DEF DryRun, Tables, Parents
  <2>3. CASE Delete(a)
    <3> DEFINE D == Doomed(plan[a])
    <3>1. /\ node' = [m \in Present \ D |-> node[m]]
          /\ edge' = {e \in edge : e[1] \notin D /\ e[2] \notin D}
      BY <2>3 DEF Delete, Restrict
    <3>2. n \notin D
      BY <3>1 DEF Present
    <3>3. PICK p \in plan[a].above[n] : p \notin D
      BY <3>2, DoomedLargest
    <3> HIDE DEF D
    <3>4. n \in plan[a].read
      BY <1>1 DEF IInv, PlanInv
    <3>5. p \in Parents(n)
      BY <1>1, <3>3, <3>4 DEF PlansStayTrue, StaysAbove
    <3> QED
      BY <3>1, <3>2, <3>3, <3>5 DEF Parents
  <2> QED
    BY <2>1, <2>2, <2>3
<1>2. Spec => []PlansStayTrue
  BY Invariance, PlansStayTrueInit, PlansStayTrueStep, PTL DEF Spec
<1> QED
  BY Invariance, <1>1, <1>2, PTL DEF Spec, OrphanedOnlyByRace
-----------------------------------------------------------------------------
(* No recorded work is lost.                                               *)

\* What an actor has of its block: content only once the block has ended, its
\* scratch as long as it is in flight, and a nominee that was healthy.
WorkOf(a) ==
    /\ pc[a] \notin {"lookup", "verify", "commit"} => block[a].content = None
    /\ pc[a] \in {"lookup", "verify"} => block[a].healthy
    /\ InFlight(a) => block[a].id \in scratch
    /\ pc[a] = "verify" =>
         /\ block[a].cand \in born
         /\ block[a].cand \in Present => node[block[a].cand].healthy

WorkInv ==
    /\ \A a \in Actor : WorkOf(a)
    /\ \A n \in Present : node[n].hash # None => node[n].healthy

\* What a block produced has a summary that is not NULL.
LEMMA SummaryIsHash ==
    ASSUME IInv, NEW a \in Actor, pc[a] \in {"lookup", "verify", "commit"}
    PROVE  BlockSummary(block[a]) \in Summary /\ BlockSummary(block[a]) # None
<1>1. /\ block[a].step \in Step /\ block[a].content \in Content
      /\ block[a].parents \in SUBSET Id
  BY DEF IInv, TypeOK, ParentsInv, InFlight, Block
<1>2. BlockSummary(block[a]) \in Summary
  BY <1>1 DEF BlockSummary, Summary
<1> QED
  BY <1>2, NoHashAssumption

\* A step that keeps the rows there are, and takes no scratch but its own,
\* leaves the work of every other actor as it is.
LEMMA OthersWork ==
    ASSUME IInv, NEW a \in Actor, NEW c \in Actor, c # a, WorkOf(c),
           pc'[c] = pc[c], block'[c] = block[c],
           \/ scratch \subseteq scratch'
           \/ InFlight(a) /\ scratch \ {block[a].id} \subseteq scratch',
           born \subseteq born',
           \A n \in Present' \intersect born : n \in Present /\ node'[n] = node[n]
    PROVE  WorkOf(c)'
<1>1. InFlight(c) => block[c].id \in scratch'
  BY DEF WorkOf, IInv, IdsInv
<1> QED
  BY <1>1 DEF WorkOf, InFlight

\* Every step of create_node keeps work accounted for.
LEMMA CreateStepWork ==
    ASSUME IInv, WorkInv, NEW a \in Actor, CreateStep(a)
    PROVE  WorkInv' /\ EveryBlockKeepsWork
<1> DEFINE b == block[a]
<1>1. /\ pc \in [Actor -> Control] /\ block \in [Actor -> Block]
      /\ b \in Block /\ Present \subseteq born
      /\ \A n \in Present : node[n].hash # None => node[n].healthy
      /\ \A c \in Actor : WorkOf(c)
  BY DEF IInv, TypeOK, TablesInv, WorkInv
<1>2. /\ \A c \in Actor \ {a} : pc'[c] = pc[c] /\ block'[c] = block[c]
      /\ born \subseteq born'
  BY <1>1 DEF CreateStep, Call, Resolve, UnknownParent, Refuse, Open, Discard, Finalize,
       Nominate, NoTwin, Rebind, Differs, Commit, CommitFails, Goto, InBlock, EndBlock
<1>3. \/ scratch \subseteq scratch'
      \/ InFlight(a) /\ scratch \ {b.id} \subseteq scratch'
  BY DEF CreateStep, Call, Resolve, UnknownParent, Refuse, Open, Discard, Finalize,
       Nominate, NoTwin, Rebind, Differs, Commit, CommitFails, InFlight
<1>4. \* only a's own part is left to show
      ASSUME WorkOf(a)', KeepsWork(a),
             \A n \in Present' : node'[n].hash # None => node'[n].healthy,
             \A n \in Present' \intersect born : n \in Present /\ node'[n] = node[n]
      PROVE  WorkInv' /\ EveryBlockKeepsWork
  <2>1. \A c \in Actor \ {a} : WorkOf(c)'
    BY <1>1, <1>2, <1>3, <1>4, OthersWork
  <2>2. \A c \in Actor \ {a} : KeepsWork(c)
    BY <1>2 DEF KeepsWork
  <2> QED
    BY <1>4, <2>1, <2>2 DEF WorkInv, EveryBlockKeepsWork
<1>5. \* steps that leave the tables alone
      ASSUME UNCHANGED node, WorkOf(a)', KeepsWork(a)
      PROVE  WorkInv' /\ EveryBlockKeepsWork
  <2>1. Present' = Present /\ node' = node
    BY <1>5 DEF Present
  <2> QED
    BY <1>1, <1>4, <1>5, <2>1
<1>6. \* leaving the call
      ASSUME EndBlock(a), UNCHANGED node, KeepsWork(a)
      PROVE  WorkInv' /\ EveryBlockKeepsWork
  <2>1. pc'[a] = "idle" /\ block'[a] = NoBlock
    BY <1>1, <1>6 DEF EndBlock, Goto, InBlock
  <2>2. WorkOf(a)'
    BY <2>1 DEF WorkOf, InFlight, NoBlock
  <2> QED
    BY <1>5, <1>6, <2>2
<1>7. pc[a] \notin {"lookup", "verify", "commit"} => KeepsWork(a)
  BY <1>1 DEF WorkOf, KeepsWork
<1>8. CASE \E s \in Step, ps \in SUBSET issued : Call(a, s, ps)
  <2> PICK s \in Step, ps \in SUBSET issued : Call(a, s, ps)
    BY <1>8
  <2>1. /\ pc[a] = "idle" /\ pc'[a] = "resolve" /\ block'[a].content = None
        /\ UNCHANGED node
    BY <1>1 DEF Call, Goto, InBlock, NoBlock, Tables
  <2>2. WorkOf(a)'
    BY <2>1 DEF WorkOf, InFlight
  <2> QED
    BY <1>5, <1>7, <2>1, <2>2
<1>9. CASE \E p \in Id : Resolve(a, p) \/ UnknownParent(a, p)
  <2> PICK p \in Id : Resolve(a, p) \/ UnknownParent(a, p)
    BY <1>9
  <2>1. pc[a] = "resolve" /\ UNCHANGED node
    BY DEF Resolve, UnknownParent, Tables
  <2>2. CASE UnknownParent(a, p)
    BY <1>6, <1>7, <2>1, <2>2 DEF UnknownParent
  <2>3. CASE Resolve(a, p)
    <3>1. pc'[a] = "resolve" /\ block'[a].content = b.content
      BY <1>1, <2>1, <2>3 DEF Resolve, InBlock, Block
    <3>2. WorkOf(a)'
      BY <1>1, <2>1, <3>1 DEF WorkOf, InFlight
    <3> QED
      BY <1>5, <1>7, <2>1, <3>2
  <2> QED
    BY <2>2, <2>3
<1>10. CASE Refuse(a)
  <2>1. pc[a] = "resolve" /\ EndBlock(a) /\ UNCHANGED node
    BY <1>10 DEF Refuse, Tables
  <2> QED
    BY <1>6, <1>7, <2>1
<1>11. CASE \E n \in Id : Open(a, n)
  <2> PICK n \in Id : Open(a, n)
    BY <1>11
  <2>1. /\ pc[a] = "resolve" /\ pc'[a] = "block" /\ UNCHANGED node
        /\ block'[a].content = b.content /\ block'[a].id = n
        /\ scratch' = scratch \union {n}
    BY <1>1 DEF Open, Goto, InBlock, Tables, Block
  <2>2. WorkOf(a)'
    BY <1>1, <2>1 DEF WorkOf, InFlight
  <2> QED
    BY <1>5, <1>7, <2>1, <2>2
<1>12. CASE Discard(a)
  <2>1. pc[a] = "block" /\ EndBlock(a) /\ UNCHANGED node
    BY <1>12 DEF Discard, Tables
  <2> QED
    BY <1>6, <1>7, <2>1
<1>13. CASE \E c \in Content, ok \in BOOLEAN : Finalize(a, c, ok)
  <2> PICK c \in Content, ok \in BOOLEAN : Finalize(a, c, ok)
    BY <1>13
  <2>1. /\ pc[a] = "block" /\ UNCHANGED <<node, scratch>>
        /\ pc'[a] = (IF ok /\ ReuseIdentical THEN "lookup" ELSE "commit")
        /\ block'[a].healthy = ok /\ block'[a].id = b.id
    BY <1>1 DEF Finalize, Goto, InBlock, Tables, Block
  <2>2. WorkOf(a)'
    BY <1>1, <2>1 DEF WorkOf, InFlight
  <2> QED
    BY <1>5, <1>7, <2>1, <2>2
<1>14. \* steps between the block's end and its commit
      ASSUME pc[a] \in {"lookup", "verify"}, pc'[a] \in {"verify", "commit"},
             UNCHANGED <<node, scratch>>, block'[a].content = b.content,
             block'[a].healthy = b.healthy, block'[a].id = b.id,
             pc'[a] = "verify" => /\ block'[a].cand \in Present
                                  /\ node[block'[a].cand].healthy
      PROVE  WorkInv' /\ EveryBlockKeepsWork
  <2>1. WorkOf(a)'
    BY <1>1, <1>2, <1>14 DEF WorkOf, InFlight, Present
  <2>2. KeepsWork(a)
    BY <1>14 DEF KeepsWork
  <2> QED
    BY <1>5, <1>14, <2>1, <2>2
<1>15. CASE \E m \in Id : Nominate(a, m)
  <2> PICK m \in Id : Nominate(a, m)
    BY <1>15
  <2>1. /\ pc[a] = "lookup" /\ pc'[a] = "verify" /\ UNCHANGED <<node, scratch>>
        /\ block'[a].content = b.content /\ block'[a].healthy = b.healthy
        /\ block'[a].id = b.id /\ block'[a].cand = m
    BY <1>1 DEF Nominate, Goto, InBlock, Tables, Block
  <2>2. m \in Present /\ node[m].hash = BlockSummary(b)
    BY DEF Nominate, Nominated
  <2>3. node[m].healthy
    BY <1>1, <2>1, <2>2, SummaryIsHash
  <2> QED
    BY <1>14, <2>1, <2>2, <2>3
<1>16. CASE NoTwin(a)
  <2>1. /\ pc[a] = "lookup" /\ pc'[a] = "commit" /\ UNCHANGED <<node, scratch, block>>
    BY <1>1, <1>16 DEF NoTwin, Goto, Tables
  <2> QED
    BY <1>14, <2>1
<1>17. CASE Rebind(a)
  <2>1. /\ pc[a] = "verify" /\ EndBlock(a) /\ UNCHANGED <<node, edge>>
        /\ b.cand \in Present /\ NodeSummary(b.cand) = BlockSummary(b)
    BY <1>17 DEF Rebind, IsTwin, Tables
  <2>2. node[b.cand].healthy /\ b.healthy
    BY <1>1, <2>1 DEF WorkOf
  <2>3. /\ node[b.cand].step = b.step /\ Parents(b.cand) = b.parents
        /\ node[b.cand].content = b.content
    BY <2>1 DEF NodeSummary, BlockSummary
  <2>4. KeepsWork(a)
    BY <2>1, <2>2, <2>3 DEF KeepsWork, Present, Parents
  <2> QED
    BY <1>6, <2>1, <2>4
<1>18. CASE Differs(a)
  <2>1. /\ pc[a] = "verify" /\ pc'[a] = "commit" /\ UNCHANGED <<node, scratch>>
        /\ block'[a].content = b.content /\ block'[a].healthy = b.healthy
        /\ block'[a].id = b.id
    BY <1>1, <1>18 DEF Differs, Goto, InBlock, Tables, Block
  <2> QED
    BY <1>14, <2>1
<1>19. CASE Commit(a)
  <2>1. /\ pc[a] = "commit" /\ EndBlock(a)
        /\ node' = [n \in Present \union {b.id} |-> IF n = b.id THEN RowOf(b) ELSE node[n]]
    BY <1>19 DEF Commit
  <2>2. pc'[a] = "idle" /\ block'[a] = NoBlock
    BY <1>1, <2>1 DEF EndBlock, Goto, InBlock
  <2>3. WorkOf(a)'
    BY <2>2 DEF WorkOf, InFlight, NoBlock
  <2>4. b.id \notin born
    BY <2>1 DEF IInv, IdsInv, InFlight
  <2> HIDE DEF b
  <2>5. Present' = Present \union {b.id} /\ node'[b.id] = RowOf(b)
    BY <2>1 DEF Present
  <2>6. \A n \in Present' \ {b.id} : n \in Present /\ node'[n] = node[n]
    BY <2>1, <2>5
  <2>7. KeepsWork(a)
    BY <2>5 DEF KeepsWork, b
  <2>8. RowOf(b).hash # None => RowOf(b).healthy
    BY DEF RowOf, HashOf
  <2> QED
    BY <1>1, <1>4, <2>3, <2>4, <2>5, <2>6, <2>7, <2>8
<1>20. CASE CommitFails(a)
  <2>1. pc[a] = "commit" /\ EndBlock(a) /\ UNCHANGED <<node, scratch>>
    BY <1>20 DEF CommitFails, Tables
  <2>2. KeepsWork(a)
    BY <1>1, <2>1 DEF KeepsWork, WorkOf, InFlight
  <2> QED
    BY <1>6, <2>1, <2>2
<1> QED
  BY <1>8, <1>9, <1>10, <1>11, <1>12, <1>13, <1>15, <1>16, <1>17, <1>18, <1>19, <1>20
     DEF CreateStep

\* A prune touches no block and changes no row that stays.
LEMMA PruneStepWork ==
    ASSUME IInv, WorkInv, NEW a \in Actor, PruneStep(a)
    PROVE  WorkInv' /\ EveryBlockKeepsWork
<1>1. /\ pc \in [Actor -> Control] /\ UNCHANGED <<block, scratch, born>>
      /\ pc[a] \in {"idle"} \union PlanPoints
      /\ pc'[a] \in {"idle"} \union PlanPoints
      /\ \A c \in Actor \ {a} : pc'[c] = pc[c]
  BY DEF PruneStep, Prune, Descend, Weigh, DryRun, Delete, Goto, PlanPoints, IInv, TypeOK
<1>2. \A n \in Present' : n \in Present /\ node'[n] = node[n]
  <2>1. CASE Delete(a)
    BY <2>1 DEF Delete, Restrict, Present
  <2>2. CASE ~Delete(a)
    BY <2>2 DEF PruneStep, Prune, Descend, Weigh, DryRun, Tables, Present
  <2> QED
    BY <2>1, <2>2
<1>3. \A c \in Actor : WorkOf(c)'
  <2> TAKE c \in Actor
  <2>1. CASE c = a
    BY <1>1, <2>1 DEF WorkInv, WorkOf, InFlight, PlanPoints
  <2>2. CASE c # a
    BY <1>1, <1>2, <2>2, OthersWork DEF WorkInv
  <2> QED
    BY <2>1, <2>2
<1>4. EveryBlockKeepsWork
  BY <1>1 DEF EveryBlockKeepsWork, KeepsWork
<1> QED
  BY <1>2, <1>3, <1>4 DEF WorkInv

\* Whatever a block left behind is a row, an identical row or still in scratch
\* when its call ends, whichever way the reuse and the commit are raced.
THEOREM WorkIsKept == Spec => NoWorkLost
<1>1. Init => WorkInv
  BY DEF Init, WorkInv, WorkOf, InFlight, NoBlock, Present
<1>2. IInv /\ WorkInv /\ [Next]_vars => WorkInv' /\ [EveryBlockKeepsWork]_vars
  <2> SUFFICES ASSUME IInv, WorkInv, [Next]_vars
               PROVE  WorkInv' /\ [EveryBlockKeepsWork]_vars
    OBVIOUS
  <2>1. CASE Next
    BY <2>1, CreateStepWork, PruneStepWork DEF Next
  <2>2. CASE UNCHANGED vars
    <3>1. Present' = Present
      BY <2>2 DEF vars, Present
    <3> QED
      BY <2>2, <3>1 DEF WorkInv, WorkOf, InFlight, vars
  <2> QED
    BY <2>1, <2>2
<1> QED
  BY Invariance, <1>1, <1>2, PTL DEF Spec, NoWorkLost
-----------------------------------------------------------------------------
(* How many copies a race can add while nothing is pruned.                 *)

\* The rows of a fingerprint, and the actors about to commit another one.
RowsOf(h) == {n \in Present : node[n].hash = h}
Pending(h) ==
    {a \in Actor : pc[a] = "commit" /\ block[a].healthy /\ BlockSummary(block[a]) = h}

\* The fingerprints of contents that equal themselves.
Stable == {h \in Summary : h.content \notin WithNaN}

\* A stored fingerprint is the node's, a nominee has the block's, and rows and
\* pending commits of one fingerprint are together no more than the actors.
HashesTrue ==
    \A n \in Present :
      /\ node[n].healthy => node[n].hash # None
      /\ node[n].hash # None => node[n].hash = NodeSummary(n)
NomineesTrue ==
    \A a \in Actor :
      pc[a] = "verify" =>
        block[a].cand \in Present /\ node[block[a].cand].hash = BlockSummary(block[a])
FewRows(h) ==
    /\ IsFiniteSet(RowsOf(h))
    /\ Cardinality(RowsOf(h)) + Cardinality(Pending(h)) <= Cardinality(Actor)

TwinsInv ==
    (ReuseIdentical /\ born = Present) =>
      HashesTrue /\ NomineesTrue /\ \A h \in Stable : FewRows(h)

\* Fewer pending commits, and no more rows.
LEMMA FewerPending ==
    ASSUME NEW S, IsFiniteSet(S), NEW P, P \subseteq Actor,
           NEW Q, Q \subseteq P, Cardinality(S) + Cardinality(P) <= Cardinality(Actor)
    PROVE  Cardinality(S) + Cardinality(Q) <= Cardinality(Actor)
<1>1. IsFiniteSet(P)
  BY FiniteActorsAssumption, FS_Subset
<1>2. IsFiniteSet(Q) /\ Cardinality(Q) <= Cardinality(P)
  BY <1>1, FS_Subset
<1>3. /\ Cardinality(S) \in Nat /\ Cardinality(P) \in Nat /\ Cardinality(Q) \in Nat
      /\ Cardinality(Actor) \in Nat
  BY <1>1, <1>2, FiniteActorsAssumption, FS_CardinalityType
<1> QED
  BY <1>2, <1>3

\* One row more for one pending commit less.
LEMMA RowForPending ==
    ASSUME NEW S, IsFiniteSet(S), NEW n, NEW P, P \subseteq Actor, NEW a \in P,
           Cardinality(S) + Cardinality(P) <= Cardinality(Actor)
    PROVE  /\ IsFiniteSet(S \union {n})
           /\ Cardinality(S \union {n}) + Cardinality(P \ {a}) <= Cardinality(Actor)
<1>1. IsFiniteSet(P)
  BY FiniteActorsAssumption, FS_Subset
<1>2. IsFiniteSet(P \ {a}) /\ Cardinality(P \ {a}) = Cardinality(P) - 1
  BY <1>1, FS_RemoveElement
<1>3. /\ IsFiniteSet(S \union {n})
      /\ Cardinality(S \union {n}) =
           IF n \in S THEN Cardinality(S) ELSE Cardinality(S) + 1
  BY FS_AddElement
<1>4. /\ Cardinality(S) \in Nat /\ Cardinality(P) \in Nat
      /\ Cardinality(Actor) \in Nat
  BY <1>1, FiniteActorsAssumption, FS_CardinalityType
<1> QED
  BY <1>2, <1>3, <1>4

\* A step of one actor that leaves the tables as they are, and does not make a
\* commit pending, keeps the invariant; nor does one that does, if the
\* fingerprint has no row.
LEMMA TwinsFrame ==
    ASSUME IInv, TwinsInv, NEW a \in Actor, UNCHANGED <<node, edge, born>>,
           \A c \in Actor \ {a} : pc'[c] = pc[c] /\ block'[c] = block[c],
           ReuseIdentical /\ born = Present =>
              /\ pc'[a] = "verify" =>
                   /\ block'[a].cand \in Present
                   /\ node[block'[a].cand].hash = BlockSummary(block[a]')
              /\ (pc'[a] = "commit" /\ block'[a].healthy
                    /\ block'[a].content \notin WithNaN) =>
                   RowsOf(BlockSummary(block[a]')) = {}
    PROVE  TwinsInv'
<1> SUFFICES ASSUME ReuseIdentical, born' = Present'
             PROVE  HashesTrue' /\ NomineesTrue' /\ \A h \in Stable : FewRows(h)'
  BY DEF TwinsInv
<1>1. Present' = Present /\ \A n : Parents(n)' = Parents(n)
  BY DEF Present, Parents
<1>2. HashesTrue /\ NomineesTrue /\ \A h \in Stable : FewRows(h)
  BY <1>1 DEF TwinsInv
<1>3. HashesTrue'
  BY <1>1, <1>2 DEF HashesTrue, NodeSummary
<1>4. NomineesTrue'
  BY <1>1, <1>2 DEF NomineesTrue, BlockSummary
<1>5. ASSUME NEW h \in Stable PROVE FewRows(h)'
  <2>1. RowsOf(h)' = RowsOf(h)
    BY <1>1 DEF RowsOf
  <2>2. \A c \in Pending(h)' : c # a => c \in Pending(h)
    BY DEF Pending, BlockSummary
  <2>3. Pending(h)' \subseteq Actor /\ Pending(h) \subseteq Actor
    BY DEF Pending
  <2>4. IsFiniteSet(RowsOf(h))
        /\ Cardinality(RowsOf(h)) + Cardinality(Pending(h)) <= Cardinality(Actor)
    BY <1>2 DEF FewRows
  <2>5. CASE a \notin Pending(h)'
    <3>1. Pending(h)' \subseteq Pending(h)
      BY <2>2, <2>5
    <3>2. Cardinality(RowsOf(h)) + Cardinality(Pending(h)') <= Cardinality(Actor)
      BY <2>3, <2>4, <3>1, FewerPending
    <3> QED
      BY <2>1, <2>4, <3>2 DEF FewRows
  <2>6. CASE a \in Pending(h)'
    <3>1. RowsOf(h) = {}
      <4>1. /\ pc'[a] = "commit" /\ block'[a].healthy
            /\ BlockSummary(block[a]') = h
        BY <2>6 DEF Pending
      <4>2. block'[a].content \notin WithNaN
        BY <4>1 DEF Stable, BlockSummary
      <4> QED
        BY <1>1, <4>1, <4>2
    <3>2. Cardinality(RowsOf(h)) = 0
      BY <3>1, FS_EmptySet
    <3>3. Cardinality(Pending(h)') <= Cardinality(Actor)
          /\ Cardinality(Pending(h)') \in Nat
      BY <2>3, FiniteActorsAssumption, FS_Subset, FS_CardinalityType
    <3> QED
      BY <2>1, <2>4, <3>2, <3>3 DEF FewRows
  <2> QED
    BY <2>5, <2>6
<1> QED
  BY <1>3, <1>4, <1>5

\* Every step of create_node but its commit keeps it: the only way on to a
\* commit is to have found no row, for a nominee that is still there is a twin;
\* a content with a NaN is none of its concern.
LEMMA CreateStepTwins ==
    ASSUME IInv, TwinsInv, NEW a \in Actor, CreateStep(a), ~Commit(a)
    PROVE  TwinsInv'
<1> DEFINE b == block[a]
<1>1. /\ UNCHANGED <<node, edge, born>>
      /\ \A c \in Actor \ {a} : pc'[c] = pc[c] /\ block'[c] = block[c]
      /\ pc \in [Actor -> Control] /\ block \in [Actor -> Block] /\ b \in Block
  BY DEF CreateStep, Call, Resolve, UnknownParent, Refuse, Open, Discard, Finalize,
       Nominate, NoTwin, Rebind, Differs, CommitFails, Goto, InBlock, EndBlock, Tables,
       IInv, TypeOK
<1>2. ASSUME pc'[a] \notin {"verify", "commit"} PROVE TwinsInv'
  BY <1>1, <1>2, TwinsFrame
<1>3. CASE \E s \in Step, ps \in SUBSET issued : Call(a, s, ps)
  BY <1>1, <1>2, <1>3 DEF Call, Goto
<1>4. CASE \E p \in Id : Resolve(a, p) \/ UnknownParent(a, p)
  BY <1>1, <1>2, <1>4 DEF Resolve, UnknownParent, Goto, EndBlock
<1>5. CASE Refuse(a) \/ Discard(a) \/ Rebind(a) \/ CommitFails(a)
  BY <1>1, <1>2, <1>5 DEF Refuse, Discard, Rebind, CommitFails, Goto, EndBlock
<1>6. CASE \E n \in Id : Open(a, n)
  BY <1>1, <1>2, <1>6 DEF Open, Goto
<1>7. CASE \E c \in Content, ok \in BOOLEAN : Finalize(a, c, ok)
  <2> PICK c \in Content, ok \in BOOLEAN : Finalize(a, c, ok)
    BY <1>7
  <2>1. /\ pc'[a] = (IF ok /\ ReuseIdentical THEN "lookup" ELSE "commit")
        /\ block'[a].healthy = ok
    BY <1>1 DEF Finalize, Goto, InBlock, Block
  <2> QED
    BY <1>1, <2>1, TwinsFrame
<1>8. CASE \E m \in Id : Nominate(a, m)
  <2> PICK m \in Id : Nominate(a, m)
    BY <1>8
  <2>1. /\ pc'[a] = "verify" /\ block'[a].cand = m
        /\ block'[a].step = b.step /\ block'[a].parents = b.parents
        /\ block'[a].content = b.content
    BY <1>1 DEF Nominate, Goto, InBlock, Block
  <2>2. m \in Present /\ node[m].hash = BlockSummary(b)
    BY DEF Nominate, Nominated
  <2>3. BlockSummary(block[a]') = BlockSummary(b)
    BY <2>1 DEF BlockSummary
  <2> QED
    BY <1>1, <2>1, <2>2, <2>3, TwinsFrame
<1>9. CASE NoTwin(a)
  <2>1. pc'[a] = "commit" /\ block' = block /\ Nominated(b) = {}
    BY <1>1, <1>9 DEF NoTwin, Goto
  <2>2. RowsOf(BlockSummary(block[a]')) = {}
    BY <2>1 DEF RowsOf, Nominated
  <2> QED
    BY <1>1, <2>1, <2>2, TwinsFrame
<1>10. CASE Differs(a)
  <2>1. /\ pc[a] = "verify" /\ pc'[a] = "commit" /\ MayDiffer(b)
        /\ block'[a].content = b.content
    BY <1>1, <1>10 DEF Differs, Goto, InBlock, Block
  <2>2. ReuseIdentical /\ born = Present => b.content \in WithNaN
    <3> SUFFICES ASSUME ReuseIdentical, born = Present, b.content \notin WithNaN
                 PROVE  FALSE
      OBVIOUS
    <3>1. b.cand \in Present /\ node[b.cand].hash = BlockSummary(b)
      BY <2>1 DEF TwinsInv, NomineesTrue
    <3>2. BlockSummary(b) # None
      BY <2>1, SummaryIsHash
    <3>3. node[b.cand].hash = NodeSummary(b.cand)
      BY <3>1, <3>2 DEF TwinsInv, HashesTrue
    <3> QED
      BY <2>1, <3>1, <3>3 DEF MayDiffer, IsTwin
  <2> QED
    BY <1>1, <2>1, <2>2, TwinsFrame
<1> QED
  BY <1>3, <1>4, <1>5, <1>6, <1>7, <1>8, <1>9, <1>10 DEF CreateStep

\* A commit turns a pending row into a row.
LEMMA CommitTwins ==
    ASSUME IInv, TwinsInv, NEW a \in Actor, Commit(a)
    PROVE  TwinsInv'
<1> DEFINE b == block[a]
<1>1. /\ pc[a] = "commit"
      /\ node' = [n \in Present \union {b.id} |-> IF n = b.id THEN RowOf(b) ELSE node[n]]
      /\ edge' = edge \union ({b.id} \X b.parents)
      /\ born' = born \union {b.id}
      /\ EndBlock(a)
  BY DEF Commit
<1>2. /\ pc \in [Actor -> Control] /\ block \in [Actor -> Block] /\ b \in Block
      /\ Present \subseteq born /\ \A e \in edge : e[1] \in Present
      /\ b.id \notin born
  BY <1>1 DEF IInv, TypeOK, TablesInv, IdsInv, InFlight
<1>3. /\ pc'[a] = "idle" /\ \A c \in Actor \ {a} : pc'[c] = pc[c] /\ block'[c] = block[c]
  BY <1>1, <1>2 DEF EndBlock, Goto, InBlock
<1> PICK id, row, h0 : id = b.id /\ row = RowOf(b) /\ h0 = BlockSummary(b)
  OBVIOUS
<1>4. /\ row.hash = (IF b.healthy THEN h0 ELSE None) /\ row.healthy = b.healthy
      /\ h0 \in Summary /\ h0 # None
  BY <1>1, SummaryIsHash DEF RowOf, HashOf
<1>5. /\ Present' = Present \union {id} /\ node'[id] = row
      /\ \A n \in Present : node'[n] = node[n]
  BY <1>1, <1>2 DEF Present
<1>6. /\ \A n \in Present : Parents(n)' = Parents(n)
      /\ Parents(id)' = b.parents
  <2>1. b.parents \subseteq Id
    BY <1>2 DEF Block
  <2>2. \A n, p : <<n, p>> \in edge' <=> <<n, p>> \in edge \/ (n = id /\ p \in b.parents)
    BY <1>1
  <2>3. \A p : <<id, p>> \notin edge
    BY <1>2
  <2> QED
    BY <1>2, <2>1, <2>2, <2>3 DEF Parents
<1>7. NodeSummary(id)' = h0
  BY <1>5, <1>6 DEF NodeSummary, BlockSummary, RowOf
<1> SUFFICES ASSUME ReuseIdentical, born' = Present'
             PROVE  HashesTrue' /\ NomineesTrue' /\ \A h \in Stable : FewRows(h)'
  BY DEF TwinsInv
<1>8. born = Present
  BY ZenonT(60), <1>1, <1>2, <1>5
<1>9. HashesTrue /\ NomineesTrue /\ \A h \in Stable : FewRows(h)
  BY <1>8 DEF TwinsInv
<1>10. HashesTrue'
  <2>1. \A n \in Present :
          /\ node'[n].healthy => node'[n].hash # None
          /\ node'[n].hash # None => node'[n].hash = NodeSummary(n)'
    BY <1>5, <1>6, <1>9 DEF HashesTrue, NodeSummary
  <2>2. /\ node'[id].healthy => node'[id].hash # None
        /\ node'[id].hash # None => node'[id].hash = NodeSummary(id)'
    BY <1>4, <1>5, <1>7
  <2> QED
    BY <1>5, <2>1, <2>2 DEF HashesTrue
<1>11. NomineesTrue'
  BY <1>3, <1>5, <1>9 DEF NomineesTrue, BlockSummary
<1>12. ASSUME NEW h \in Stable PROVE FewRows(h)'
  <2>1. FewRows(h) /\ Pending(h) \subseteq Actor
    BY <1>9 DEF Pending
  <2>2. Pending(h)' = Pending(h) \ {a}
    BY <1>3 DEF Pending, BlockSummary
  <2>3. CASE h = row.hash
    <3>1. h = h0 /\ b.healthy
      BY <1>4, <2>3, NoHashAssumption DEF Stable
    <3>2. a \in Pending(h)
      BY <1>1, <3>1 DEF Pending
    <3>3. RowsOf(h)' = RowsOf(h) \union {id}
      BY <1>5, <2>3 DEF RowsOf
    <3>4. /\ IsFiniteSet(RowsOf(h) \union {id})
          /\ Cardinality(RowsOf(h) \union {id}) + Cardinality(Pending(h) \ {a})
               <= Cardinality(Actor)
      <4>1. /\ IsFiniteSet(RowsOf(h))
            /\ Cardinality(RowsOf(h)) + Cardinality(Pending(h)) <= Cardinality(Actor)
        BY <2>1 DEF FewRows
      <4> QED
        BY <2>1, <3>2, <4>1, RowForPending
    <3> QED
      BY <2>2, <3>3, <3>4 DEF FewRows
  <2>4. CASE h # row.hash
    <3>1. RowsOf(h)' = RowsOf(h)
      BY <1>2, <1>5, <2>4 DEF RowsOf
    <3>2. Cardinality(RowsOf(h)) + Cardinality(Pending(h) \ {a}) <= Cardinality(Actor)
      BY <2>1, FewerPending DEF FewRows
    <3> QED
      BY <2>1, <2>2, <3>1, <3>2 DEF FewRows
  <2> QED
    BY <2>3, <2>4
<1> QED
  BY <1>10, <1>11, <1>12

\* A prune that deletes a row ends the time in which nothing was pruned.
LEMMA PruneStepTwins ==
    ASSUME IInv, TwinsInv, NEW a \in Actor, PruneStep(a)
    PROVE  TwinsInv'
<1>1. /\ pc \in [Actor -> Control] /\ UNCHANGED <<block, born>>
      /\ pc'[a] \in {"idle"} \union PlanPoints
      /\ \A c \in Actor \ {a} : pc'[c] = pc[c]
      /\ Present \subseteq born
      /\ \A e \in edge : e[1] \in Present /\ e[2] \in Present
  BY DEF PruneStep, Prune, Descend, Weigh, DryRun, Delete, Goto, PlanPoints, IInv, TypeOK,
       TablesInv
<1>2. pc'[a] \notin {"verify", "commit"}
  BY <1>1 DEF PlanPoints
<1>3. ASSUME UNCHANGED <<node, edge>> PROVE TwinsInv'
  BY <1>1, <1>2, <1>3, TwinsFrame
<1>4. CASE Delete(a)
  <2> DEFINE D == Doomed(plan[a])
  <2>1. /\ node' = [n \in Present \ D |-> node[n]]
        /\ edge' = {e \in edge : e[1] \notin D /\ e[2] \notin D}
    BY <1>4 DEF Delete, Restrict
  <2>2. Present' = Present \ D
    BY <2>1 DEF Present
  <2>3. CASE born' = Present'
    <3>1. Present \ D = Present
      BY <1>1, <2>2, <2>3
    <3>2. node \in [Present -> Row]
      BY DEF IInv, TypeOK
    <3>3. node' = node
      BY <2>1, <3>1, <3>2
    <3>4. edge' = edge
      BY <1>1, <2>1, <3>1
    <3> QED
      BY <1>3, <3>3, <3>4
  <2>4. CASE born' # Present'
    BY <2>4 DEF TwinsInv
  <2> QED
    BY <2>3, <2>4
<1>5. CASE ~Delete(a)
  BY <1>3, <1>5 DEF PruneStep, Prune, Descend, Weigh, DryRun, Tables
<1> QED
  BY <1>4, <1>5

\* While nothing is pruned, however blocks of one content race, there are no
\* more copies than actors, unless the content holds a NaN.
THEOREM CopiesBounded == Spec => []TwinsBounded
<1>1. ASSUME Init PROVE TwinsInv
  <2>1. Present = {} /\ \A a \in Actor : pc[a] = "idle"
    BY <1>1 DEF Init, Present
  <2>2. \A h : RowsOf(h) = {} /\ Pending(h) = {}
    BY <2>1 DEF RowsOf, Pending
  <2>3. /\ IsFiniteSet({}) /\ Cardinality({}) = 0
        /\ Cardinality({}) + Cardinality({}) <= Cardinality(Actor)
    <3>1. Cardinality(Actor) \in Nat
      BY FiniteActorsAssumption, FS_CardinalityType
    <3> QED
      BY <3>1, FS_EmptySet
  <2>4. \A h : FewRows(h)
    BY <2>2, <2>3 DEF FewRows
  <2> QED
    BY <2>1, <2>4 DEF TwinsInv, HashesTrue, NomineesTrue
<1>2. IInv /\ TwinsInv /\ [Next]_vars => TwinsInv'
  <2> SUFFICES ASSUME IInv, TwinsInv, [Next]_vars PROVE TwinsInv'
    OBVIOUS
  <2>1. CASE Next
    BY <2>1, CreateStepTwins, CommitTwins, PruneStepTwins DEF Next
  <2>2. CASE UNCHANGED vars
    <3>1. /\ Present' = Present /\ \A n : Parents(n)' = Parents(n)
          /\ \A h : RowsOf(h)' = RowsOf(h) /\ Pending(h)' = Pending(h)
      BY <2>2 DEF vars, Present, Parents, RowsOf, Pending, BlockSummary
    <3> QED
      BY <2>2, <3>1 DEF TwinsInv, HashesTrue, NomineesTrue, FewRows, NodeSummary,
           BlockSummary, vars
  <2> QED
    BY <2>1, <2>2
<1>3. ASSUME IInv, TwinsInv PROVE TwinsBounded
  <2> SUFFICES ASSUME ReuseIdentical, born = Present, NEW n \in Present, node[n].healthy,
                      node[n].content \notin WithNaN
               PROVE  Cardinality(RowsOf(node[n].hash)) <= Cardinality(Actor)
    BY DEF TwinsBounded, RowsOf
  <2>1. node[n].hash \in Summary \union {None}
    BY <1>3 DEF IInv, TypeOK, Row
  <2>2. CASE node[n].hash \in Summary
    <3> DEFINE h == node[n].hash
    <3>1. IsFiniteSet(RowsOf(h)) /\ Pending(h) \subseteq Actor
          /\ Cardinality(RowsOf(h)) + Cardinality(Pending(h)) <= Cardinality(Actor)
      <4>1. h = NodeSummary(n)
        BY <1>3, <2>2, NoHashAssumption DEF TwinsInv, HashesTrue
      <4>2. h \in Stable
        BY <2>2, <4>1 DEF Stable, NodeSummary
      <4> QED
        BY <1>3, <4>2 DEF TwinsInv, FewRows, Pending
    <3>2. Cardinality(RowsOf(h)) \in Nat /\ Cardinality(Pending(h)) \in Nat
          /\ Cardinality(Actor) \in Nat
      BY <3>1, FiniteActorsAssumption, FS_Subset, FS_CardinalityType
    <3> QED
      BY <3>1, <3>2
  <2>3. node[n].hash # None
    BY <1>3 DEF TwinsInv, HashesTrue
  <2> QED
    BY <2>1, <2>2, <2>3
<1> QED
  BY Invariance, <1>1, <1>2, <1>3, PTL DEF Spec
=============================================================================
