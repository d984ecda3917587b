-------------------------- MODULE MCBoardSessions --------------------------
(* Values for BoardSessions: two Board objects, either of one micro:bit    *)
(* that leaves and comes back, or of two micro:bits of one daemon.         *)
EXTENDS BoardSessions, TLC

CONSTANTS u1, u2, b1, b2

MCUids   == {u1, u2}
MCBoards == {b1, b2}

Replugged == [b \in MCBoards |-> u1]
SideBySide == (b1 :> u1) @@ (b2 :> u2)

(* Sound for invariants when both boards are of one micro:bit: no          *)
(* definition tells two of these values apart.                             *)
Symmetry == Permutations(Serials) \cup Permutations(Flashes) \cup Permutations(MCBoards)
=============================================================================
