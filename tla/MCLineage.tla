----------------------------- MODULE MCLineage -----------------------------
(***************************************************************************)
(* Small stores for TLC: step "root" may start a lineage, "next" needs a   *)
(* parent and triggers a generation.                                       *)
(***************************************************************************)
EXTENDS Lineage, TLC

CONSTANTS StepRoot, StepNext

MCRules == StepNext :> {StepRoot, StepNext} @@ StepRoot :> {None}
MCTriggers == {StepNext}
MCSteps == {StepRoot, StepNext}

\* Ids are interchangeable, and so are actors.
Interchangeable == Permutations(Id) \union Permutations(Actor)

HasNaN ==
    \/ \E n \in Present : node[n].content \in WithNaN
    \/ \E a \in Actor : block[a].content \in WithNaN

\* A fourth id is used by one actor at a time, in a store without a NaN.
FourthAlone == Cardinality(issued) > 3 =>
    Cardinality({a \in Actor : pc[a] # "idle"}) <= 1 /\ ~HasNaN

\* Only create_node: nobody prunes.
CreateOnly == Init /\ [][\E a \in Actor : CreateStep(a)]_vars
=============================================================================
