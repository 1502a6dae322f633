----------------------------- MODULE MCQueries -----------------------------
(***************************************************************************)
(* Small stores, entries that are easily confused and a handful of filters *)
(* for TLC.                                                                *)
(***************************************************************************)
EXTENDS Queries, TLC

V(is, of) == [is |-> is, of |-> of]
Auto(key, v) == [key |-> key, value |-> v, data_type |-> "auto", searchable |-> TRUE]
As(type, key, v) == [Auto(key, v) EXCEPT !.data_type = type]
Shy(key, v) == [Auto(key, v) EXCEPT !.searchable = FALSE]

\* Node 1 overwrites True with a numpy 1, and its second try fails; node 2
\* has True; node 3 the float 1.0. Integers are exact up to 2, so that 4
\* and 5 share a double. The rest is there to be passed over.
MCCalls ==
    1 :> <<Auto("k", V("bool", 1)), Auto("k", V("scalar", 1)), Auto("k", V("opaque", 1)),
           Auto("big", V("int", 5)), Auto("node_id", V("int", 1)),
           As("image", "file", V("path", 1))>>
    @@ 2 :> <<Auto("k", V("bool", 1)), Auto("big", V("nan", 4)),
              Auto("file", V("url", 1)), As("json", "k", V("text", 1))>>
    @@ 3 :> <<Auto("k", V("float", 1)), As("link", "k", V("opaque", 1)),
              As("code", "k", V("float", 1)), Auto("big", V("int", 4)),
              Auto("file", V("text", 1))>>
    @@ 4 :> <<Auto("k", V("numeral", 1)), Shy("k", V("int", 1)),
              Auto("file", V("frame", 1)), Auto("big", V("list", 1))>>

Key(key, v) == {[key |-> key, value |-> v]}
F(equal, parents, call) == [equal |-> equal, parents |-> parents, call |-> call]

MCFilters ==
    {F({}, {}, "none"), F(Key("k", V("int", 1)), {}, "liked"), F({}, {{}}, "none"),
     F(Key("k", V("bool", 1)), {{1}}, "none"), F({}, {{1, 2}}, "none"),
     F({}, {}, "missing"), F(Key("k", V("scalar", 1)), {}, "none"),
     F(Key("big", V("int", 5)), {}, "none"), F(Key("file", V("text", 1)), {}, "none")}

\* With a fourth node, one change during a request that walks the graph.
Focus ==
    \/ Cardinality(ever) <= 3
    \/ seen.changes <= 1 /\ q.op \in {"none", "lineage", "page"}
=============================================================================
