----------------------------- MODULE NodeGraph -----------------------------
(***************************************************************************)
(* What ancestree's database promises about the lineage graph, with no     *)
(* processes, blocks or plans: a node arrives whole, under parents that    *)
(* are there; nodes leave only as the target of a prune together with      *)
(* descendants none of whose parents stays behind; and a node that left    *)
(* never comes back ("There is no undo", docs/caveats.md).                 *)
(* Lineage.tla is shown to implement this module.                          *)
(***************************************************************************)
CONSTANTS Id

VARIABLES
    present,  \* the ids that have a row in the table node
    link,     \* the table edge: pairs <<child, parent>>
    ever      \* the ids that had a row at some time

gvars == <<present, link, ever>>

ParentsIn(E, n) == {p \in Id : <<n, p>> \in E}

GraphInit ==
    /\ present = {}
    /\ link = {}
    /\ ever = {}

\* A node joins the graph under parents that are all in it.
Add(n, ps) ==
    /\ n \in Id \ ever
    /\ ps \subseteq present
    /\ present' = present \union {n}
    /\ link' = link \union ({n} \X ps)
    /\ ever' = ever \union {n}

\* A prune of t takes t and nodes that keep no parent, without saying how they
\* descend from t: an edge in between may have gone in another prune. Ids that
\* are already gone may be named too.
Remove(t, D) ==
    /\ D \subseteq Id
    /\ \A d \in (D \intersect present) \ {t} : ParentsIn(link, d) \subseteq D
    /\ present' = present \ D
    /\ link' = {e \in link : e[1] \notin D /\ e[2] \notin D}
    /\ UNCHANGED ever

GraphNext ==
    \/ \E n \in Id, ps \in SUBSET Id : Add(n, ps)
    \/ \E t \in Id, D \in SUBSET Id : Remove(t, D)

GraphSpec == GraphInit /\ [][GraphNext]_gvars
=============================================================================
