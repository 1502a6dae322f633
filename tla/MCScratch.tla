----------------------------- MODULE MCScratch -----------------------------
(***************************************************************************)
(* Few sessions and ids for TLC.                                           *)
(***************************************************************************)
EXTENDS Scratch, FiniteSets, TLC

Interchangeable == Permutations(Id) \union Permutations(Session)

\* The fourth process comes in while there is one id only.
CrowdOnOne ==
    Cardinality({s \in Session : at[s].pc # "off"}) <= 3 \/ Cardinality(Issued) <= 1
=============================================================================
