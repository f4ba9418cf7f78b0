--------------------------- MODULE MCRenderTargets ---------------------------
(* RenderTargets for TLC: surfaces and pixels are alike, and the call of a   *)
(* step is no part of what its successors depend on.                         *)
EXTENDS RenderTargets, TLC

MCPrograms == {Id} \union {{Application, i} : i \in Id}
Alike == Permutations(Id) \union Permutations(Pixel) \union Permutations(Plane)
Apart == <<r, classic, uses, phase>>
=============================================================================
