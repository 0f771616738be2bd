--------------------------- MODULE MCSpawnSlots ---------------------------
(* A small instance of SpawnSlots: three spawns, a setting that moves      *)
(* between unlimited, one and two.                                         *)
EXTENDS SpawnSlots

CONSTANTS j1, j2, j3

MCSpawns == {j1, j2, j3}
MCLimits == {-1, 1, 2}
=============================================================================
