----------------------------- MODULE MCRegistry -----------------------------
(* Values for Registry. With the processes p1 and p2 sharing the file,     *)
(* p2 is the one that may be run with --clear.                             *)
EXTENDS Registry, TLC

(* Sound for invariants: micro:bits are told apart by nothing but their    *)
(* enums.                                                                  *)
Symmetry == Permutations(Uids)
=============================================================================
