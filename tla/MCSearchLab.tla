----------------------------- MODULE MCSearchLab -----------------------------
(* Instances of SearchLab for TLC. *)
EXTENDS SearchLab, TLC

(* One scenario of each kind: the others take the same steps. *)
MCScenarios ==
    {"master-failover", "too-many-replicas", "allocation-disabled", "allocation-filter", "write-block", "drain-node"}
        \cup Scenarios9
=============================================================================
