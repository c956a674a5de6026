----------------------------- MODULE MCMvpControl -----------------------------
(* The instance of MvpControl that TLC checks (its constants are in the cfg). *)
EXTENDS MvpControl
=============================================================================
