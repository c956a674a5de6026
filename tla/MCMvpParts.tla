------------------------------ MODULE MCMvpParts ------------------------------
(* The message recovery lab, the cached copy of an order, the processes of the     *)
(* storefront and the acceptance suite, checked in one run: a behaviour exercises   *)
(* one of the four.                                                                 *)
EXTENDS MessageLab, OrderCache, MvpService, Acceptance, TLC

MCSymmetry == Permutations(Orders)

VARIABLE played

MCInit ==
    /\ MessageInit /\ CacheInit /\ SvcInit /\ AccInit
    /\ played \in {"messages", "cache", "service", "acceptance"}

MCNext ==
    /\ \/ played = "messages" /\ MessageNext /\ UNCHANGED <<cacheVars, svcVars, accVars>>
       \/ played = "cache" /\ CacheNext /\ UNCHANGED <<messageVars, svcVars, accVars>>
       \/ played = "service" /\ SvcNext /\ UNCHANGED <<messageVars, cacheVars, accVars>>
       \/ played = "acceptance" /\ AccNext /\ UNCHANGED <<messageVars, cacheVars, svcVars>>
    /\ UNCHANGED played

MCSpec == MCInit /\ [][MCNext]_<<messageVars, cacheVars, svcVars, accVars, played>>
=============================================================================
