--------------------------- MODULE MCOrderPipeline ---------------------------
(* Small instances of OrderPipeline for TLC. *)
EXTENDS OrderPipeline, TLC

MCSymmetry == Permutations(Keys)
=============================================================================
