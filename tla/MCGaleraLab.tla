----------------------------- MODULE MCGaleraLab -----------------------------
(* A small Galera laboratory for TLC. *)
EXTENDS GaleraLab

CONSTANTS g1, g2, g3, g4

MCOrder == <<g1, g2, g3, g4>>
MCThree == <<g1, g2, g3>>
=============================================================================
