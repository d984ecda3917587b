--------------------------- MODULE MCLocalDeploy ---------------------------
(* Values for LocalDeploy: two boards of one name, on two paths.           *)
EXTENDS LocalDeploy, TLC

CONSTANTS m1, m2, p1, p2

MCUids  == {m1, m2}
MCPaths == {p1, p2}

Namesakes == [u \in MCUids |-> "zapit"]

(* Sound for invariants: no definition tells two boards, or two paths,     *)
(* apart.                                                                  *)
Symmetry == Permutations(MCUids) \cup Permutations(MCPaths)
=============================================================================
