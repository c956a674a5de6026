--------------------------- MODULE MCTransactionLab ---------------------------
(* An instance of TransactionLab in which one of the clients only asks for refunds. *)
EXTENDS TransactionLab

CONSTANT Refunder

MCNext ==
    /\ Next
    /\ job'[Refunder] # job[Refunder] => job'[Refunder].kind = "refund"
    /\ resubmits'[Refunder] = 0

(* Nothing was bought, so there is nothing to refund. *)
MCNothingToRefund ==
    /\ pc[Refunder] = "idle" /\ \A c \in Clients \ {Refunder} : pc[c] = "done"
    /\ UNCHANGED vars

(* Fairness of TransactionLab's FairSpec. *)
MCSpec ==
    /\ Init /\ [][MCNext \/ MCNothingToRefund]_vars
    /\ WF_vars(OrphanEnds) /\ \A c \in Clients : WF_vars(Step(c))
=============================================================================
