------------------------------ MODULE MCBrokers ------------------------------
(* The Kafka laboratory, the experiments on the Redis perf server and the Redis sandbox, *)
(* checked in one run: a behaviour exercises one of them.  Experiments start two          *)
(* processes of any scenario; validations a third, for a scenario whose host command was *)
(* killed and that outlives another one into a run of validate.                           *)
EXTENDS KafkaLab, RedisOps, RedisSandbox, TLC

MCSuite == <<"fragmentation", "eviction">>
MCSymmetry == Permutations(Zks)

VARIABLE played

FewRuns == runs[MaxRuns].at = Nowhere
SuiteOnly ==
    /\ \A r \in Runs : runs[r].name \in {Nowhere, MCSuite[1], MCSuite[2]}
    /\ host.op \in {Nowhere, "run", "validate"}

MCInit ==
    /\ Init /\ OpsInit /\ SandInit
    /\ played \in {"kafka", "experiments", "validations", "sandbox"}

MCNext ==
    /\ \/ played = "kafka" /\ Next /\ UNCHANGED <<opsVars, sandVars>>
       \/ played = "experiments" /\ OpsNext /\ FewRuns' /\ UNCHANGED <<vars, sandVars>>
       \/ played = "validations" /\ OpsNext /\ SuiteOnly' /\ UNCHANGED <<vars, sandVars>>
       \/ played = "sandbox" /\ SandNext /\ UNCHANGED <<vars, opsVars>>
    /\ UNCHANGED played

MCSpec == MCInit /\ [][MCNext]_<<vars, opsVars, sandVars, played>>

(* The tools on the Redis servers: the reports of the perf experiments give their own outcome,  *)
(* the cache fill reported as single-flight asks its origin once, and the sandbox keeps its data. *)
RedisToolsAreSound == OpsReportsAreHonest /\ SingleFlight /\ SandboxIsSound
=============================================================================
