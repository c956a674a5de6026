------------------------------- MODULE MCGalera -------------------------------
(* The life cycle of the cluster and the data commands, checked in one run: a behaviour *)
(* exercises one of the two, the data commands on a cluster that is up.                  *)
EXTENDS MCGaleraLab, GaleraData

MCEffort == [commands |-> 3, failures |-> 2]

MCNext ==
    \/ DataInit /\ Next /\ UNCHANGED dataVars
    \/ Init /\ AllReady /\ count = MinNodes /\ DataNext /\ UNCHANGED vars

MCInit == Init /\ DataInit

MCSpec == MCInit /\ [][MCNext]_<<vars, dataVars>>

(* A scenario is reported as passed, and a load as measured, only when it was. *)
ReportsAreTrue == PassedIsTrue /\ MeasurementsAreHonest
=============================================================================
