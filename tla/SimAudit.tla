------------------------------- MODULE SimAudit -------------------------------
(***************************************************************************)
(* The workload of the fault simulator and the oracle that judges the      *)
(* store by it (src/mvp-lab/tools/simulation.py: HTTP, Runner, inspect_intent). *)
(* Workflows race, their answers get lost and the server may serve a       *)
(* request after the client gave it up; the oracle must neither accuse a    *)
(* store that kept its promises nor pass one that broke them.              *)
(*                                                                         *)
(* Key 0 is the fixture order the workflows share, key n the order of the  *)
(* n-th planned operation; a key determines the payload.                   *)
(*                                                                         *)
(* store    the orders table by idempotency key: id, statuses by version   *)
(* shown    what the search index shows of each key                        *)
(* forgot   the store has forgotten a commit (the fault to be detected)    *)
(* astray   requests on their way whose client has given up                *)
(* intent   Runner.intents                                                 *)
(* flow     the workflow each worker thread runs                           *)
(* lane     the HTTP calls of a worker; a race makes two at once           *)
(* plan     the schedule: next operation, admitted and skipped             *)
(* contract Runner.contract_errors                                         *)
(* audit    the rounds of converge                                         *)
(***************************************************************************)
EXTENDS Integers, Sequences, FiniteSets

CONSTANTS Workers,     \* plan.workers: worker threads, and HTTP calls at a time
          OpKinds,     \* the kinds of operations the plan draws from
          MaxOps,      \* bound: planned operations
          MaxLost      \* bound: answers lost, calls and inspections failed

ASSUME SimAssumption ==
    /\ OpKinds \subseteq {"create", "retry", "race", "update", "read"}
    /\ MaxOps \in Nat /\ MaxLost \in Nat

VARIABLES store, shown, forgot, astray, intent, flow, lane, plan, contract, audit, spent

simStore == <<store, shown, forgot, astray>>
simVars == <<simStore, intent, flow, lane, plan, contract, audit, spent>>

Places == 0..MaxOps
Sides == {1, 2}
NextStatus == [created |-> "paid", paid |-> "shipped"]
MayBecome(old, new) == <<old, new>> \in
    {<<"created", "paid">>, <<"created", "cancelled">>, <<"paid", "shipped">>, <<"paid", "cancelled">>}

Absent == [id |-> 0, hist |-> <<>>]
Unshown == [id |-> 0, version |-> 0]
NoIntent == [known |-> FALSE, ids |-> {}, acks |-> <<>>, tried |-> {}]
NoFlow == [n |-> 0, kind |-> "none", step |-> "none", left |-> 0]
NoCall == [at |-> "idle"]
Lost == [code |-> 0, id |-> 0, version |-> 0, status |-> "none"]
NotAuditing == [at |-> "none", key |-> 0, sql |-> Absent, ok |-> TRUE, streak |-> 0, wrong |-> {}, verdict |-> "none"]

(* f with k bound to v. *)
With(f, k, v) == [x \in DOMAIN f \cup {k} |-> IF x = k THEN v ELSE f[x]]

(* What an answer shows of an order. *)
Image(code, row) == [code |-> code, id |-> row.id, version |-> Len(row.hist), status |-> row.hist[Len(row.hist)]]
Seen(row) == [id |-> row.id, version |-> Len(row.hist)]

-----------------------------------------------------------------------------
(* The server. *)

Created(row) == IF row.hist = <<>> THEN [id |-> row.id + 1, hist |-> <<"created">>] ELSE row

Updatable(row, req) ==
    /\ row.hist # <<>> /\ row.id = req.id /\ Len(row.hist) = req.version
    /\ MayBecome(row.hist[Len(row.hist)], req.status)

(* The row a request leaves, and its answer. *)
Effect(row, req) ==
    CASE req.op = "create" -> Created(row)
      [] req.op = "update" /\ Updatable(row, req) -> [row EXCEPT !.hist = Append(@, req.status)]
      [] OTHER -> row

Outcome(row, req) ==
    CASE req.op = "create" -> Image(IF row.hist = <<>> THEN 201 ELSE 200, Created(row))
      [] req.op = "update" ->
            IF Updatable(row, req) THEN Image(200, Effect(row, req))
            ELSE [Lost EXCEPT !.code = IF row.hist = <<>> \/ row.id # req.id THEN 404 ELSE 409]
      [] OTHER -> IF row.hist = <<>> THEN [Lost EXCEPT !.code = 200] ELSE Image(200, row)

(* A request is served, in time or after its client has gone. *)
ServeCall(w, s) ==
    /\ lane[w][s].at = "sent"
    /\ LET req == lane[w][s].req IN
       /\ store' = [store EXCEPT ![req.key] = Effect(@, req)]
       /\ lane' = [lane EXCEPT ![w][s] = [at |-> "answered", req |-> req, answer |-> Outcome(store[req.key], req)]]
    /\ UNCHANGED <<shown, forgot, astray, intent, flow, plan, contract, audit, spent>>

ServeAstray(req) ==
    /\ req \in astray
    /\ astray' = astray \ {req}
    /\ store' = [store EXCEPT ![req.key] = Effect(@, req)]
    /\ UNCHANGED <<shown, forgot, intent, flow, lane, plan, contract, audit, spent>>

(* The projection reaches an order. *)
ProjectKey(k) ==
    /\ store[k].hist # <<>> /\ shown[k] # Seen(store[k])
    /\ store[k].id = shown[k].id => Len(store[k].hist) > shown[k].version
    /\ shown' = [shown EXCEPT ![k] = Seen(store[k])]
    /\ UNCHANGED <<store, forgot, astray, intent, flow, lane, plan, contract, audit, spent>>

(* The fault the oracle is there for: committed versions of an order are gone. *)
Forget(k) ==
    /\ ~ forgot /\ audit.at = "none" /\ store[k].hist # <<>>
    /\ \E n \in 0..Len(store[k].hist) - 1 : store' = [store EXCEPT ![k].hist = SubSeq(@, 1, n)]
    /\ forgot' = TRUE
    /\ UNCHANGED <<shown, astray, intent, flow, lane, plan, contract, audit, spent>>

-----------------------------------------------------------------------------
(* The client of one HTTP call. *)

Create(k) == [op |-> "create", key |-> k, id |-> 0, version |-> 0, status |-> "created"]
Source(k) == [op |-> "source", key |-> k, id |-> 0, version |-> 0, status |-> "none"]
UpdateCall(k, order, status) ==
    [op |-> "update", key |-> k, id |-> order.id, version |-> order.version, status |-> status]

Read(k) == [op |-> "read", key |-> k, id |-> 0, version |-> 0, status |-> "none"]

Queued(req) == [at |-> "queued", req |-> req]

(* Altered: an update is noted when it has succeeded. *)
NotedLate(i, req) == [i EXCEPT !.known = TRUE]

(* register and the note of an attempted update, both made before the call. *)
Noted(i, req) ==
    [i EXCEPT !.known = TRUE,
              !.tried = IF req.op = "update" THEN @ \cup {<<req.version + 1, req.status>>} ELSE @]

NotedAll(i, reqs) == IF reqs = {} THEN i ELSE
    [Noted(i, CHOOSE r \in reqs : TRUE) EXCEPT !.tried = UNION {Noted(i, r).tried : r \in reqs}]

(* HTTP.call: one of the slots, or none in time. *)
SendCall(w, s) ==
    /\ lane[w][s].at = "queued"
    /\ Cardinality({p \in Workers \X Sides : lane[p[1]][p[2]].at \in {"sent", "answered"}}) < Cardinality(Workers)
    /\ lane' = [lane EXCEPT ![w][s].at = "sent"]
    /\ UNCHANGED <<simStore, intent, flow, plan, contract, audit, spent>>

(* acknowledge: what an answer with an order adds to the intent, and what it gives away. *)
HasOrder(req, a) == a.code \in {200, 201} /\ (req.op \in {"create", "update"})
Remembered(i, a) ==
    [i EXCEPT !.ids = @ \cup {a.id}, !.acks = With(@, a.version, [id |-> a.id, status |-> a.status])]
Alarms(i, a) ==
    {c \in {"same_key_multiple_order_ids", "same_version_different_content"} :
        \/ c = "same_key_multiple_order_ids" /\ Cardinality(i.ids \cup {a.id}) > 1
        \/ c = "same_version_different_content" /\ a.version \in DOMAIN i.acks
             /\ i.acks[a.version] # [id |-> a.id, status |-> a.status]}

(* The calls a worker makes next, given the answer to the one of its side s. *)
Calls(w, s, a) ==
    LET f == flow[w] IN
    CASE f.kind = "retry" /\ f.left > 1 -> <<Queued(Create(0)), NoCall>>
      [] f.kind = "race" /\ f.step = "create" /\ a.code \in {200, 201} ->
            <<Queued(UpdateCall(f.n, a, "paid")), Queued(UpdateCall(f.n, a, "cancelled"))>>
      [] f.kind = "race" /\ f.step = "race" -> [lane[w] EXCEPT ![s] = [at |-> "ended", code |-> a.code]]
      [] f.kind = "update" /\ f.step = "source" /\ a.code = 200 /\ a.id # 0 ->
            <<Queued(IF a.status \in DOMAIN NextStatus THEN UpdateCall(0, a, NextStatus[a.status]) ELSE Read(0)), NoCall>>
      [] OTHER -> <<NoCall, NoCall>>

Advance(f, calls) ==
    IF calls = <<NoCall, NoCall>> THEN NoFlow
    ELSE [f EXCEPT !.left = @ - 1,
                   !.step = CASE f.kind = "race" -> "race" [] f.kind = "update" -> "change" [] OTHER -> @]

(* A call has ended with answer a: acknowledge it and go on with the workflow. *)
CallEnded(w, s, a) ==
    LET req   == lane[w][s].req
        i     == intent[req.key]
        calls == Calls(w, s, a)
        made  == {t \in Sides : calls[t].at = "queued" /\ calls[t] # lane[w][t]}
        told  == IF HasOrder(req, a) THEN Remembered(i, a) ELSE i
    IN /\ intent' = [intent EXCEPT ![req.key] = NotedAll(told, {calls[t].req : t \in made})]
       /\ contract' = contract \cup (IF HasOrder(req, a) THEN Alarms(i, a) ELSE {})
       /\ lane' = [lane EXCEPT ![w] = calls]
       /\ flow' = [flow EXCEPT ![w] = Advance(@, calls)]

Receive(w, s) ==
    /\ lane[w][s].at = "answered"
    /\ CallEnded(w, s, lane[w][s].answer)
    /\ UNCHANGED <<simStore, plan, audit, spent>>

(* No slot in time, a timeout or an error: status 0, whatever the server did or will do. *)
GiveUp(w, s) ==
    /\ lane[w][s].at \in {"queued", "sent", "answered"}
    /\ spent < MaxLost
    /\ spent' = spent + 1
    /\ astray' = IF lane[w][s].at = "sent" THEN astray \cup {lane[w][s].req} ELSE astray
    /\ CallEnded(w, s, Lost)
    /\ UNCHANGED <<store, shown, forgot, plan, audit>>

(* _workflow, race: both futures have ended. *)
RaceAlarms(codes) ==
    {c \in {"two_winners_same_expected_version", "invalid_race_result"} :
        \/ c = "two_winners_same_expected_version" /\ codes = <<200, 200>>
        \/ c = "invalid_race_result" /\ codes = <<409, 409>>}

RaceEnds(w) ==
    /\ \A s \in Sides : lane[w][s].at = "ended"
    /\ contract' = contract \cup RaceAlarms(<<lane[w][1].code, lane[w][2].code>>)
    /\ lane' = [lane EXCEPT ![w] = <<NoCall, NoCall>>]
    /\ flow' = [flow EXCEPT ![w] = NoFlow]
    /\ UNCHANGED <<simStore, intent, plan, audit, spent>>

-----------------------------------------------------------------------------
(* schedule: a free worker takes the next operation, or it is skipped. *)

FirstCall(kind, n) ==
    CASE kind \in {"create", "race"} -> Create(n)
      [] kind = "retry"  -> Create(0)
      [] kind = "update" -> Source(0)
      [] kind = "read"   -> Read(0)

Admit(w, kind) ==
    LET req == FirstCall(kind, plan.op) IN
    /\ audit.at = "none" /\ plan.op <= MaxOps /\ flow[w] = NoFlow
    /\ flow' = [flow EXCEPT ![w] = [n |-> plan.op, kind |-> kind, step |-> req.op, left |-> 3]]
    /\ lane' = [lane EXCEPT ![w] = <<Queued(req), NoCall>>]
    /\ intent' = [intent EXCEPT ![req.key] = Noted(@, req)]
    /\ plan' = [plan EXCEPT !.op = @ + 1, !.admitted = @ + 1]
    /\ UNCHANGED <<simStore, contract, audit, spent>>

(* No free worker, or the scheduler is late. *)
SkipOp ==
    /\ audit.at = "none" /\ plan.op <= MaxOps
    /\ plan' = [plan EXCEPT !.op = @ + 1, !.skipped = @ + 1]
    /\ UNCHANGED <<simStore, intent, flow, lane, contract, audit, spent>>

(* The time of the run is over, or it was cancelled: the rest is skipped. *)
EndOfTime ==
    /\ audit.at = "none" /\ plan.op <= MaxOps
    /\ plan' = [plan EXCEPT !.op = MaxOps + 1, !.skipped = @ + MaxOps - plan.op + 1]
    /\ UNCHANGED <<simStore, intent, flow, lane, contract, audit, spent>>

-----------------------------------------------------------------------------
(* audit and converge: every registered order is looked up and compared, in rounds. *)

StartAudit ==
    /\ audit.at = "none" /\ plan.op > MaxOps /\ \A w \in Workers : flow[w] = NoFlow
    /\ audit' = [audit EXCEPT !.at = "lookup"]
    /\ UNCHANGED <<simStore, intent, flow, lane, plan, contract, spent>>

Remaining == {k \in Places : k >= audit.key /\ intent[k].known}
AuditedKey == CHOOSE k \in Remaining : \A j \in Remaining : k <= j

(* inspect_intent: what the row of the key says against the acknowledged versions. *)
Latest(acks) == CHOOSE v \in DOMAIN acks : \A u \in DOMAIN acks : u <= v
SourceErrors(i, row) ==
    LET n == Len(row.hist)
        v == Latest(i.acks)
    IN {e \in {"identity", "version_missing", "content", "unexpected_version"} :
          \/ e = "identity" /\ i.ids # {} /\ i.ids # {row.id}
          \/ /\ i.acks # <<>>
             /\ \/ e = "version_missing" /\ n < v
                \/ e = "content" /\ n = v /\ i.acks[v] # [id |-> row.id, status |-> row.hist[n]]
                \/ e = "unexpected_version" /\ n > v /\ <<n, row.hist[n]>> \notin i.tried}

AuditRow(ok, wrong) ==
    audit' = [audit EXCEPT !.at = "lookup", !.key = AuditedKey + 1, !.sql = Absent,
                           !.ok = @ /\ ok, !.wrong = @ \cup wrong]

AuditLookup ==
    /\ audit.at = "lookup" /\ Remaining # {}
    /\ LET i == intent[AuditedKey]
           row == store[AuditedKey]
       IN \/ row.hist = <<>> /\ i.acks = <<>> /\ AuditRow(TRUE, {})
          \/ row.hist = <<>> /\ i.acks # <<>> /\ AuditRow(FALSE, {"acknowledged_missing"})
          \/ /\ row.hist # <<>>
             /\ audit' = [audit EXCEPT !.at = "inspect", !.sql = row, !.wrong = @ \cup SourceErrors(i, row)]
    /\ UNCHANGED <<simStore, intent, flow, lane, plan, contract, spent>>

(* The cached copy may be current, missing, stale or unreadable. *)
AuditInspect(cache) ==
    /\ audit.at = "inspect"
    /\ LET k == AuditedKey
           row == audit.sql
       IN AuditRow(/\ SourceErrors(intent[k], row) = {}
                   /\ store[k] = row
                   /\ shown[k] = Seen(row)
                   /\ cache \in {"match", "missing"}, {})
    /\ UNCHANGED <<simStore, intent, flow, lane, plan, contract, spent>>

(* Either request fails: unresolved. *)
AuditFails ==
    /\ audit.at \in {"lookup", "inspect"} /\ Remaining # {}
    /\ spent < MaxLost
    /\ spent' = spent + 1
    /\ AuditRow(FALSE, {})
    /\ UNCHANGED <<simStore, intent, flow, lane, plan, contract>>

(* run, after converge: the accounting of the plan. *)
Conclude(verdict) ==
    /\ audit' = [audit EXCEPT !.at = "done", !.verdict = verdict]
    /\ contract' = contract \cup {c \in {"planned_workflow_accounting_mismatch", "no_workload_observed"} :
          \/ c = "planned_workflow_accounting_mismatch" /\ plan.admitted + plan.skipped # MaxOps
          \/ c = "no_workload_observed" /\ plan.admitted = 0}

RoundEnds ==
    /\ audit.at = "lookup" /\ Remaining = {}
    /\ LET good == audit.ok /\ \E k \in Places : intent[k].acks # <<>>
           streak == IF good THEN audit.streak + 1 ELSE 0
       IN \/ streak >= 2 /\ Conclude("consistent")
          \/ /\ streak < 2
             /\ audit' = [audit EXCEPT !.key = 0, !.ok = TRUE, !.streak = streak]
             /\ UNCHANGED contract
    /\ UNCHANGED <<simStore, intent, flow, lane, plan, spent>>

Deadline ==
    /\ audit.at \in {"lookup", "inspect"}
    /\ Conclude("deadline_exceeded")
    /\ UNCHANGED <<simStore, intent, flow, lane, plan, spent>>

-----------------------------------------------------------------------------
(* run: the fixture was created and its baseline comparison has converged. *)
SimInit ==
    LET first == [id |-> 1, hist |-> <<"created">>] IN
    /\ store = [k \in Places |-> IF k = 0 THEN first ELSE Absent]
    /\ shown = [k \in Places |-> IF k = 0 THEN Seen(first) ELSE Unshown]
    /\ forgot = FALSE /\ astray = {}
    /\ intent = [k \in Places |-> IF k = 0 THEN Remembered([NoIntent EXCEPT !.known = TRUE], Image(201, first))
                                  ELSE NoIntent]
    /\ flow = [w \in Workers |-> NoFlow]
    /\ lane = [w \in Workers |-> <<NoCall, NoCall>>]
    /\ plan = [op |-> 1, admitted |-> 0, skipped |-> 0]
    /\ contract = {} /\ audit = NotAuditing /\ spent = 0

SimNext ==
    \/ \E w \in Workers, kind \in OpKinds : Admit(w, kind)
    \/ \E w \in Workers, s \in Sides : SendCall(w, s) \/ ServeCall(w, s) \/ Receive(w, s) \/ GiveUp(w, s)
    \/ \E w \in Workers : RaceEnds(w)
    \/ \E req \in astray : ServeAstray(req)
    \/ \E k \in Places : ProjectKey(k) \/ Forget(k)
    \/ SkipOp \/ EndOfTime
    \/ \E cache \in {"match", "missing", "mismatch", "unknown"} : AuditInspect(cache)
    \/ StartAudit \/ AuditLookup \/ AuditFails \/ RoundEnds \/ Deadline

SimSpec == SimInit /\ [][SimNext]_simVars

-----------------------------------------------------------------------------
(***************************************************************************)
(* A store that forgot nothing is never accused: whatever answers were     *)
(* lost and however late requests were served, no contract error is noted  *)
(* and no audit row finds the source wrong.                                *)
(***************************************************************************)
NoFalseAlarm ==
    ~ forgot => contract \subseteq {"no_workload_observed"} /\ audit.wrong = {}

(***************************************************************************)
(* A consistent verdict can be believed: every version any client was told *)
(* of is in the store, unchanged and under the same id, and was searchable *)
(* when the audit looked, even when the store forgot commits during the run. *)
(***************************************************************************)
PassIsDeserved ==
    audit.verdict = "consistent" /\ contract = {} =>
        \A k \in Places : \A v \in DOMAIN intent[k].acks :
            /\ v <= Len(store[k].hist)
            /\ intent[k].acks[v] = [id |-> store[k].id, status |-> store[k].hist[v]]
            /\ shown[k].id = store[k].id /\ shown[k].version >= v

(* The simulator judges the store neither too harshly nor too mildly. *)
OracleIsExact == NoFalseAlarm /\ PassIsDeserved
=============================================================================
