------------------------------ MODULE MCRedisHa ------------------------------
(* The replicated Redis laboratory, whose nodes, Sentinels and keys are alike, and the *)
(* root controller above all labs: a behaviour exercises one of the two.               *)
EXTENDS RedisHa, LabControl, TLC

MCSymmetry == Permutations(Redis) \cup Permutations(Sentinels) \cup Permutations(Keys)

MCSelected == [a |-> <<"redis", "mvp">>, b |-> <<"redis">>]
MCPlan == <<"down", "up">>

VARIABLE played

MCInit == Init /\ CtlInit /\ played \in {"redis", "control"}

MCNext ==
    /\ \/ played = "redis" /\ Next /\ UNCHANGED ctlVars
       \/ played = "control" /\ CtlNext /\ UNCHANGED vars
    /\ UNCHANGED played

MCSpec == MCInit /\ [][MCNext]_<<vars, ctlVars, played>>
=============================================================================
