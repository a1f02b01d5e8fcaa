---------------------------- MODULE MCNodeGraph ----------------------------
(* Model-checking instance of NodeGraph. *)
EXTENDS NodeGraph, TLC

CONSTANTS m, n, x, y

NodeSymmetry == Permutations({m, n}) \union Permutations({x, y})
=============================================================================
