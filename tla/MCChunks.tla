------------------------------ MODULE MCChunks ------------------------------
(***************************************************************************)
(* A small pool for TLC: of three large chunks x, y and z that resemble    *)
(* each other, y pays as a delta against x and z against y, z never        *)
(* against x; s is too small for a delta.                                  *)
(***************************************************************************)
EXTENDS Chunks, TLC

CONSTANTS x, y, z, s

MCData == {x, y, z, s}
MCLarge == {x, y, z}
MCSimilar == {p \in MCLarge \X MCLarge : p[1] # p[2]}
MCWins == {<<x, y>>, <<y, x>>, <<y, z>>, <<z, y>>}
MCPayload == {<<>>, <<x, y>>, <<z, y>>, <<s>>}

\* Nodes and paths are interchangeable.
Interchangeable == Permutations(Node) \union Permutations(Path)
=============================================================================
