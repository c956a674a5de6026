------------------------------ MODULE MessageLab ------------------------------
(***************************************************************************)
(* The message recovery lab of src/mvp-lab/mvp_app: process_record under   *)
(* its strict and quarantine policies (message_safety.py), the transport   *)
(* (message_runtime.py) and the drill that loads a topic with healthy and  *)
(* poisoned records, quarantines the latter in a dead-letter topic and     *)
(* repairs them from SQL (message_drill.py).  The scoped Redis keys expire *)
(* by themselves and are left out.                                         *)
(*                                                                         *)
(* sql       current version of each fixture order                         *)
(* source    the study topic; committed the group's offset on it           *)
(* es        documents of the study index, order -> [version, body]        *)
(* dlq       the dead-letter topic; late: its produce requests given up by  *)
(*           the client that the broker may still append                   *)
(* pc        consumer: "closed", "decode", "project", "quarantine",        *)
(*           "commit"; policy of this consume() call, position its offset  *)
(* phase     of the drill: "load", "repair", "repaired"; todo the dlq ids  *)
(*           still to be repaired                                          *)
(* faults    failures so far                                               *)
(***************************************************************************)
EXTENDS Integers, Sequences, FiniteSets, SequencesExt

CONSTANTS Orders,       \* fixture orders
          MaxVersion,   \* bound: versions of an order
          MaxLoad,      \* bound: records the drill loads
          MaxFaults     \* bound: failures at any boundary

ASSUME MessageAssumption == MaxVersion \in Nat \ {0} /\ MaxLoad \in Nat /\ MaxFaults \in Nat

VARIABLES sql, source, committed, es, dlq, late, pc, policy, position, phase, todo, faults

drill == <<sql, source, phase, todo>>
consumer == <<pc, policy, position>>
messageVars == <<drill, committed, es, dlq, late, consumer, faults>>

(***************************************************************************)
(* What a record holds besides its order and version: what SQL committed,  *)
(* an unsupported schema or foreign key, a field the mapping rejects, or   *)
(* another content for a committed version.                                *)
(***************************************************************************)
Bodies == {"true", "schema", "mapping", "collision"}
Record == [order : Orders, version : 1..MaxVersion, body : Bodies]

Document(r) == [version |-> r.version, body |-> r.body]

(* A quarantined record; its offset in the source topic is its dlq_id. *)
quarantine_record(offset) == [id |-> offset, record |-> source[offset + 1]]

MessageInit ==
    /\ sql = [o \in Orders |-> 1]
    /\ source = <<>> /\ committed = 0
    /\ es = <<>> /\ dlq = <<>> /\ late = {}
    /\ pc = "closed" /\ policy = "strict" /\ position = 0
    /\ phase = "load" /\ todo = {}
    /\ faults = 0

-----------------------------------------------------------------------------
(* Runner: loading the topic. *)

Update(o) ==
    /\ phase = "load"
    /\ sql[o] < MaxVersion
    /\ sql' = [sql EXCEPT ![o] = @ + 1]
    /\ UNCHANGED <<source, phase, todo, committed, es, dlq, late, consumer, faults>>

Send(r) ==
    /\ phase = "load"
    /\ Len(source) < MaxLoad
    /\ source' = Append(source, r)
    /\ UNCHANGED <<sql, phase, todo, committed, es, dlq, late, consumer, faults>>

(* Any committed version, in any order, any number of times. *)
SendTrue(o, v) == v <= sql[o] /\ Send([order |-> o, version |-> v, body |-> "true"])

(* A collision is a corrupted copy of a record already on the topic. *)
SendPoison(o, v, body) ==
    /\ v <= sql[o] /\ body # "true"
    /\ body = "collision" => [order |-> o, version |-> v, body |-> "true"] \in ToSet(source)
    /\ Send([order |-> o, version |-> v, body |-> body])

-----------------------------------------------------------------------------
(* Runner.consume and process_record. *)

Current == source[position + 1]

Goto(label) == pc' = label /\ UNCHANGED <<policy, position>>

(* reader.close(): nothing is committed on the way out. *)
Close == pc' = "closed" /\ policy' = "strict" /\ position' = 0

Fault == faults < MaxFaults /\ faults' = faults + 1

(* reader() resumes at the committed offset; a count of messages is to come. *)
Open(p) ==
    /\ pc = "closed"
    /\ committed < Len(source)
    /\ pc' = "decode" /\ policy' = p /\ position' = committed
    /\ UNCHANGED <<drill, committed, es, dlq, late, faults>>

(* A permanent reason: strict raises PoisonBlocked, quarantine goes on. *)
Poisoned == IF policy = "strict" THEN Close ELSE Goto("quarantine")

Decode ==
    /\ pc = "decode"
    /\ IF Current.body = "schema" THEN Poisoned ELSE Goto("project")
    /\ UNCHANGED <<drill, committed, es, dlq, late, faults>>

(* What search.index answers: it writes, ignores, or refuses the record for good. *)
Rejects(r) ==
    \/ r.body = "mapping"
    \/ r.order \in DOMAIN es /\ es[r.order].version = r.version /\ es[r.order] # Document(r)

Accepts(r) == ~ Rejects(r) /\ (r.order \in DOMAIN es => es[r.order].version < r.version)

Store(r) == es' = [o \in DOMAIN es \cup {r.order} |-> IF o = r.order THEN Document(r) ELSE es[o]]

Project ==
    /\ pc = "project"
    /\ \/ Rejects(Current) /\ Poisoned /\ UNCHANGED es
       \/ Accepts(Current) /\ Store(Current) /\ Goto("commit")
       \/ ~ Rejects(Current) /\ ~ Accepts(Current) /\ Goto("commit") /\ UNCHANGED es
    /\ UNCHANGED <<drill, committed, dlq, late, faults>>

(* Altered: the acknowledgement is not awaited and the record lost. *)
QuarantineUnacknowledged ==
    /\ pc = "quarantine"
    /\ Goto("commit")
    /\ UNCHANGED <<drill, committed, es, dlq, late, faults>>

(* publish to the dead-letter topic returns only on the broker's acknowledgement. *)
Quarantine ==
    /\ pc = "quarantine"
    /\ dlq' = Append(dlq, quarantine_record(position))
    /\ Goto("commit")
    /\ UNCHANGED <<drill, committed, es, late, faults>>

(* acknowledge, then the next message or the end of this call. *)
Commit ==
    /\ pc = "commit"
    /\ committed' = position + 1
    /\ \/ /\ position + 1 < Len(source)
          /\ pc' = "decode" /\ position' = position + 1 /\ UNCHANGED policy
       \/ Close
    /\ UNCHANGED <<drill, es, dlq, late, faults>>

(***************************************************************************)
(* Any other error is raised: a timeout, an injected boundary, an unknown  *)
(* outcome of the write, the quarantine or the commit that was under way.  *)
(***************************************************************************)
Fails ==
    /\ Fault
    /\ pc # "closed"
    /\ Close
    /\ \/ UNCHANGED <<committed, es, dlq, late>>
       \/ /\ pc = "project" /\ Accepts(Current) /\ Store(Current)
          /\ UNCHANGED <<committed, dlq, late>>
       \/ /\ pc = "quarantine" /\ dlq' = Append(dlq, quarantine_record(position))
          /\ UNCHANGED <<committed, es, late>>
       \/ /\ pc = "quarantine" /\ late' = late \cup {quarantine_record(position)}
          /\ UNCHANGED <<committed, es, dlq>>
       \/ /\ pc = "commit" /\ committed' = position + 1
          /\ UNCHANGED <<es, dlq, late>>
    /\ UNCHANGED drill

LateArrival ==
    /\ \E d \in late : dlq' = Append(dlq, d) /\ late' = late \ {d}
    /\ UNCHANGED <<drill, committed, es, consumer, faults>>

-----------------------------------------------------------------------------
(* Runner.repair: once everything is consumed, each distinct dlq_id is *)
(* answered by an event made from the current SQL row.                 *)

RepairRead ==
    /\ phase = "load" /\ pc = "closed"
    /\ committed = Len(source)
    /\ todo' = {d.id : d \in ToSet(dlq)}
    /\ phase' = "repair"
    /\ UNCHANGED <<sql, source, committed, es, dlq, late, consumer, faults>>

(* Altered: the quarantined version is replayed. *)
replay_event(d) == [d.record EXCEPT !.body = "true"]

repair_event(d) == [order |-> d.record.order, version |-> sql[d.record.order], body |-> "true"]

RepairSend ==
    /\ phase = "repair"
    /\ \E d \in ToSet(dlq) :
          /\ d.id \in todo
          /\ source' = Append(source, repair_event(d))
          /\ todo' = todo \ {d.id}
    /\ UNCHANGED <<sql, phase, committed, es, dlq, late, consumer, faults>>

RepairDone ==
    /\ phase = "repair"
    /\ todo = {}
    /\ phase' = "repaired"
    /\ UNCHANGED <<sql, source, todo, committed, es, dlq, late, consumer, faults>>

MessageNext ==
    \/ \E o \in Orders :
          \/ Update(o)
          \/ \E v \in 1..MaxVersion :
                SendTrue(o, v) \/ \E body \in Bodies : SendPoison(o, v, body)
    \/ \E p \in {"strict", "quarantine"} : Open(p)
    \/ Decode \/ Project \/ Quarantine \/ Commit \/ Fails \/ LateArrival
    \/ RepairRead \/ RepairSend \/ RepairDone

MessageSpec == MessageInit /\ [][MessageNext]_messageVars

-----------------------------------------------------------------------------
(* Every variable has its type. *)
MessageTypeOK ==
    /\ sql \in [Orders -> 1..MaxVersion]
    /\ source \in Seq(Record)
    /\ committed \in 0..Len(source)
    /\ DOMAIN es \subseteq Orders
    /\ es \in [DOMAIN es -> [version : 1..MaxVersion, body : Bodies]]
    /\ dlq \in Seq([id : Nat, record : Record])
    /\ late \subseteq [id : Nat, record : Record]
    /\ pc \in {"closed", "decode", "project", "quarantine", "commit"}
    /\ policy \in {"strict", "quarantine"}
    /\ position \in 0..Len(source)
    /\ pc # "closed" => position < Len(source)
    /\ phase \in {"load", "repair", "repaired"}
    /\ todo \subseteq Nat
    /\ faults \in 0..MaxFaults

Quarantined(offset) == quarantine_record(offset) \in ToSet(dlq)

(* The index shows the record, or something newer. *)
Shown(r) ==
    /\ r.order \in DOMAIN es
    /\ es[r.order].version > r.version \/ es[r.order] = Document(r)

(***************************************************************************)
(* process_record publishes the quarantine, or writes the index, THEN      *)
(* commits: every record below the offset is shown or in the dead-letter   *)
(* topic, through every failure between the calls.                         *)
(***************************************************************************)
NothingSkipped ==
    \A i \in 0..(committed - 1) : Shown(source[i + 1]) \/ Quarantined(i)

(***************************************************************************)
(* Only poison is quarantined, never a healthy record because something    *)
(* failed (permanent_reason), and all copies under one dlq_id are equal.   *)
(***************************************************************************)
OnlyPoisonQuarantined ==
    \A d \in ToSet(dlq) \cup late :
        /\ d = quarantine_record(d.id)
        /\ d.record.body # "true"

(* The dead-letter topic takes exactly what the consumer may leave behind. *)
DeadLettersAreExact == NothingSkipped /\ OnlyPoisonQuarantined

(***************************************************************************)
(* A corrupted copy never becomes the document ("Same-version conflict     *)
(* overwrote the document" never happens), whatever is replayed.           *)
(***************************************************************************)
NoCorruptDocument == \A o \in DOMAIN es : es[o].body = "true" /\ es[o].version <= sql[o]

(***************************************************************************)
(* After the repair every quarantined order is searchable as SQL has it,   *)
(* once the repair events are consumed; a dlq_id quarantined twice is      *)
(* repaired once.                                                          *)
(***************************************************************************)
RepairedMatchesSql ==
    phase = "repaired" /\ committed = Len(source) =>
        /\ \A d \in ToSet(dlq) : d.record.order \in DOMAIN es
                                 /\ es[d.record.order].version = sql[d.record.order]
        /\ Len(source) <= MaxLoad + Cardinality({d.id : d \in ToSet(dlq)})

(* The index never holds a corrupted copy, and the repair makes it what SQL has. *)
RepairIsExact == NoCorruptDocument /\ RepairedMatchesSql

(* No record is lost or replaced on its way to the index or to the dead letters. *)
MessagesAreExact == DeadLettersAreExact /\ RepairIsExact
=============================================================================
