---------------------------- MODULE MCWatchedPipeline ----------------------------
(* The order pipeline, and the oracle of the simulator that watches it from outside, *)
(* checked in one run: a behaviour exercises one of the two.                         *)
EXTENDS MCOrderPipeline, SimAudit

MCWatchedSymmetry == MCSymmetry \cup Permutations(Workers)

MCNext ==
    \/ SimInit /\ Next /\ UNCHANGED simVars
    \/ Init /\ SimNext /\ UNCHANGED vars

MCInit == Init /\ SimInit

MCSpec == MCInit /\ [][MCNext]_<<vars, simVars>>
=============================================================================
