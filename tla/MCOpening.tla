----------------------------- MODULE MCOpening -----------------------------
\* Three processes at a root of any kind, with a list and a flag to ask for.
EXTENDS Opening, TLC

CONSTANTS Usual     \* the value no caller has to ask for

MCDefault == [x \in Setting |-> Usual]
\* Nothing; empty rules and the usual flag; other rules; another flag.
MCRequest == {[x \in Setting |-> None], MCDefault} \union
    {[y \in Setting |-> IF y = x THEN v ELSE None] :
        x \in Setting, v \in Value \ {Usual}}

MCStamp == -1..2
Interchangeable == Permutations(Process)
=============================================================================
