------------------------------- MODULE MCMesh -------------------------------
(* Mesh for TLC: three nodes in a triangle or in a line. *)
EXTENDS Mesh, TLC

CONSTANTS a, b, c

Triangle == {{a, b}, {b, c}, {a, c}}
Line == {{a, b}, {b, c}}
Pair == {{a, b}}
Both == {<<a, b>>, <<b, a>>}
Symmetry == Permutations(Node)
=============================================================================
