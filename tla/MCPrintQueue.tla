---------------------------- MODULE MCPrintQueue ----------------------------
(* Small instances of PrintQueue for TLC. *)
EXTENDS PrintQueue, TLC

CONSTANTS j1, j2, p1, p2, c1, c2

Symmetry == Permutations({p1, p2}) \cup Permutations({c1, c2})
=============================================================================
