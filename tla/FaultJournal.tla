----------------------------- MODULE FaultJournal -----------------------------
(***************************************************************************)
(* What every fault tool of the laboratories promises about the system it  *)
(* breaks: a record is on disk before the first change, changes happen     *)
(* only while the record is there, and the record goes only when nothing   *)
(* but tolerated remains of the changes.                                   *)
(*                                                                         *)
(* open     a recovery record exists                                       *)
(* effects  parts of the system that differ from what the tool found       *)
(***************************************************************************)
EXTENDS Integers

CONSTANTS Effects,      \* parts a tool can change
          Residual      \* parts a restoration may leave changed

VARIABLES open, effects

vars == <<open, effects>>

Init == open = FALSE /\ effects \subseteq Residual

Open == ~ open /\ open' = TRUE /\ effects' \in SUBSET Residual

Change == open /\ effects' \in SUBSET Effects /\ UNCHANGED open

(* Left-overs of an earlier restoration may still change. *)
Settle == ~ open /\ effects' \in SUBSET Residual /\ UNCHANGED open

Close == open /\ open' = FALSE /\ effects' \in SUBSET Residual

Next == Open \/ Change \/ Settle \/ Close

Spec == Init /\ [][Next]_vars

(* Nothing beyond the tolerated remains unless a record says so. *)
NothingUnrecorded == open \/ effects \subseteq Residual
=============================================================================
