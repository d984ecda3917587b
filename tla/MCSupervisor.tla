---------------------------- MODULE MCSupervisor ----------------------------
(* Supervisor, with --base-port 10: ports 10, 12, ... name the pairs.      *)
EXTENDS Supervisor, TLC

Symmetry == Permutations(Uids)
=============================================================================
