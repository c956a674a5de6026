------------------------------- MODULE RedisOps -------------------------------
(***************************************************************************)
(* The operations experiments of the Redis laboratory: ops/common.py       *)
(* (Guard, its recovery journal, reports), ops/scenarios.py, ops/proxy.py, *)
(* and the host commands of scripts/ops_manage.py.  A scenario runs in the *)
(* runner container: killing the host command frees the host's lock and    *)
(* leaves the scenario running.                                            *)
(*                                                                         *)
(* perf     the perf server: run id, settings, the settings it has without *)
(*          experiments (own), the runs whose keys it holds, and of those  *)
(*          the ones in its RDB file (dump)                                *)
(* kept     recovery.json;  runs: processes in the runner, by report       *)
(* latest   latest.json;  proxy: the delay rule of the fault proxy         *)
(* cage     the perf container and its CPU quota, with its journal         *)
(* link     backlog size of the HA master, with its journal                *)
(* host     the host command that holds the mutation lock, and the verdict *)
(*          of its report when it has written one                          *)
(***************************************************************************)
EXTENDS Integers, Sequences, FiniteSets

CONSTANTS MaxRuns,      \* bound: processes started in the runner
          Scenarios,    \* scenarios the operator runs
          Suite,        \* scenarios validate runs, in order
          MaxOpsSpent   \* bound: failed calls, kills, restarts and settings of the operator

(* SCENARIOS: the names `run` accepts. *)
Named == {"bigkey", "fragmentation", "eviction", "connections", "slow-consumer", "persistence", "latency",
          "cache-stampede", "stream-pending"}

(* Only named scenarios are run, and validate runs at least one. *)
ASSUME OpsAssumption ==
    MaxRuns \in Nat /\ MaxOpsSpent \in Nat /\ Scenarios \subseteq Named /\ Suite \in Seq(Named) /\ Suite # <<>>

VARIABLES perf, kept, runs, latest, proxy, cage, link, host, ops

opsVars == <<perf, kept, runs, latest, proxy, cage, link, host, ops>>

Nowhere == "absent"
Runs == 1..MaxRuns
Statuses == {"PASS", "FAIL", "BLOCKED", "NOT_REPRODUCED"}

(* CONFIG_ALLOW: the settings that scenarios change. *)
Settings == {"slowlog", "activedefrag", "defrag-limits", "maxmemory", "policy", "maxclients", "buffers", "save", "appendonly"}

-----------------------------------------------------------------------------
(* What each scenario does to the server, call by call, and the verdicts it may reach. *)

Set(settings) == [do |-> "set", of |-> settings]
Populate == [do |-> "write", of |-> {}]
Bgsave == [do |-> "save", of |-> {}]
Delay(d) == [do |-> "proxy", of |-> {d}]
Verdicts(statuses) == [do |-> "verdict", of |-> statuses]
Observed == Verdicts({"PASS", "NOT_REPRODUCED"})

Bigkey == <<Set({"slowlog"}), Populate, Observed>>
Fragmentation ==
    <<Set({"activedefrag"}), Populate, Set({"activedefrag", "defrag-limits"}), Verdicts({"PASS", "NOT_REPRODUCED", "BLOCKED"})>>
Eviction == <<Set({"maxmemory", "policy"}), Populate, Set({"policy"}), Populate, Observed>>
Connections == <<Set({"maxclients"}), Observed>>
SlowConsumer == <<Set({"buffers"}), Observed>>
Persistence == <<Set({"save", "appendonly"}), Populate, Bgsave, Observed>>
Latency == <<Delay("none"), Delay("slow"), Delay("none"), Verdicts({"PASS", "NOT_REPRODUCED", "FAIL"})>>
Stampede == <<Populate, Verdicts({"PASS", "NOT_REPRODUCED", "FAIL"})>>
StreamPending == <<Populate, Verdicts({"PASS", "FAIL"})>>

ScriptOf(name) ==
    CASE name = "bigkey" -> Bigkey           [] name = "fragmentation" -> Fragmentation
      [] name = "eviction" -> Eviction       [] name = "connections" -> Connections
      [] name = "slow-consumer" -> SlowConsumer [] name = "persistence" -> Persistence
      [] name = "latency" -> Latency         [] name = "cache-stampede" -> Stampede
      [] name = "stream-pending" -> StreamPending [] OTHER -> <<>>

-----------------------------------------------------------------------------
Unsaved == "unsaved"
Nothing == [s \in Settings |-> Unsaved]
Defaults == [s \in Settings |-> "default"]
NoJournal == [server |-> 0, run |-> 0, config |-> Nothing]
NoRun == [at |-> Nowhere, name |-> Nowhere, left |-> <<>>, conn |-> 0, status |-> "FAIL", report |-> Nowhere]
NoHost == [op |-> Nowhere, at |-> Nowhere, run |-> 0, prev |-> 0, rows |-> <<>>, failed |-> FALSE, verdict |-> Nowhere]

OpsInit ==
    /\ perf = [id |-> 1, cfg |-> Defaults, own |-> Defaults, keys |-> {}, dump |-> {}]
    /\ kept = NoJournal /\ runs = [r \in Runs |-> NoRun] /\ latest = 0 /\ proxy = "none"
    /\ cage = [id |-> 1, cpu |-> "own", kept |-> 0]
    /\ link = [backlog |-> "own", kept |-> FALSE]
    /\ host = NoHost
    /\ ops = 0

Spends == ops < MaxOpsSpent /\ ops' = ops + 1
NoCost == UNCHANGED ops
Lab == <<cage, link, host>>

Active(r) == runs[r].at \notin {Nowhere, "done", "dead"}
Locked == {r \in Runs : runs[r].at \in {"body", "set", "config", "cleanup", "unlink"}}
Goes(r, at) == runs' = [runs EXCEPT ![r].at = at]

(* Of a process that has ended its report remains. *)
Left(r, at, report) == [NoRun EXCEPT !.at = at, !.name = runs[r].name, !.report = report]

(* A process in the runner: a scenario opens its report first, recover has only an exit code. *)
Launch(r, name) ==
    /\ runs[r].at = Nowhere /\ \A q \in 1..(r - 1) : runs[q].at # Nowhere
    /\ runs' = [runs EXCEPT ![r] = [NoRun EXCEPT !.at = "enter", !.name = name, !.left = ScriptOf(name),
                                    !.conn = perf.id, !.report = IF name = "recover" THEN Nowhere ELSE "RUNNING"]]
    /\ latest' = IF name = "recover" THEN latest ELSE r

-----------------------------------------------------------------------------
(* Guard and recover_journal. *)

(* One process at a time holds scenario.lock; a journal left behind blocks every scenario. *)
Guards(r) ==
    /\ runs[r].at = "enter"
    /\ CASE Locked # {} \/ (runs[r].name # "recover" /\ kept # NoJournal) ->
              runs' = [runs EXCEPT ![r].at = "finish", ![r].status = "BLOCKED"] /\ UNCHANGED kept
         [] OTHER -> IF runs[r].name = "recover"
              THEN /\ runs' = [runs EXCEPT ![r].at = IF kept = NoJournal THEN "finish" ELSE "config", ![r].status = "PASS"]
                   /\ UNCHANGED kept
              ELSE Goes(r, "body") /\ kept' = [NoJournal EXCEPT !.server = perf.id, !.run = r]
    /\ UNCHANGED <<perf, latest, proxy, Lab>> /\ NoCost

Connected(r) == runs[r].conn = perf.id
Does(r, what) == runs[r].at = "body" /\ Connected(r) /\ Head(runs[r].left).do = what

(* Altered: the value found by the second change of a setting replaces the first. *)
OriginalsAgain(saved, settings) == [s \in Settings |-> IF s \in settings THEN perf.cfg[s] ELSE saved[s]]

Originals(saved, settings) ==
    [s \in Settings |-> IF s \in settings /\ saved[s] = Unsaved THEN perf.cfg[s] ELSE saved[s]]

(* configure: what is there is read and saved before anything is set. *)
SaveOriginals(r) ==
    /\ Does(r, "set")
    /\ Goes(r, "set") /\ kept' = [kept EXCEPT !.config = Originals(@, Head(runs[r].left).of)]
    /\ UNCHANGED <<perf, latest, proxy, Lab>> /\ NoCost

(* CONFIG SET takes all its settings or none; fragmentation goes on when the server refuses. *)
ConfigSet(r) ==
    /\ runs[r].at = "set" /\ Connected(r)
    /\ LET settings == Head(runs[r].left).of
           done == runs' = [runs EXCEPT ![r].at = "body", ![r].left = Tail(@)]
       IN  \/ /\ perf' = [perf EXCEPT !.cfg = [s \in Settings |-> IF s \in settings THEN "lab" ELSE @[s]]]
              /\ \/ done /\ NoCost
                 \/ Spends /\ runs' = [runs EXCEPT ![r].at = "config", ![r].status = "FAIL"]
           \/ runs[r].name = "fragmentation" /\ Len(runs[r].left) = 2 /\ done /\ Spends /\ UNCHANGED perf
    /\ UNCHANGED <<kept, latest, proxy, Lab>>

Populates(r) ==
    /\ Does(r, "write") /\ perf' = [perf EXCEPT !.keys = @ \cup {r}]
    /\ runs' = [runs EXCEPT ![r].left = Tail(@)] /\ UNCHANGED <<kept, latest, proxy, Lab>> /\ NoCost

(* The marker and the status are checked; the file stays. *)
Saves(r) ==
    /\ Does(r, "save") /\ perf' = [perf EXCEPT !.dump = perf.keys]
    /\ runs' = [runs EXCEPT ![r].left = Tail(@)] /\ UNCHANGED <<kept, latest, proxy, Lab>> /\ NoCost

ProxyRule(r) ==
    /\ Does(r, "proxy") /\ proxy' \in Head(runs[r].left).of
    /\ runs' = [runs EXCEPT ![r].left = Tail(@)] /\ UNCHANGED <<perf, kept, latest, Lab>> /\ NoCost

Judges(r) ==
    /\ Does(r, "verdict")
    /\ \E v \in Head(runs[r].left).of : runs' = [runs EXCEPT ![r].status = v, ![r].at = "config"]
    /\ UNCHANGED <<perf, kept, latest, proxy, Lab>> /\ NoCost

(* A command fails, the alarm rings, or the server has restarted under the connection; *)
(* latency turns its delay off on the way out.                                         *)
Raises(r) ==
    /\ runs[r].at \in {"enter", "body", "set"} /\ IF Connected(r) THEN Spends ELSE NoCost
    /\ runs' = [runs EXCEPT ![r].at = IF @ = "enter" THEN "finish" ELSE "config", ![r].status = "FAIL", ![r].conn = perf.id]
    /\ proxy' \in IF runs[r].name = "latency" /\ runs[r].at = "body" THEN {proxy, "none"} ELSE {proxy}
    /\ UNCHANGED <<perf, kept, latest, Lab>>

(* The settings go back only to the server they were read from: a restarted one has its own. *)
RestoreConfig(r) ==
    /\ runs[r].at = "config" /\ Connected(r) /\ Goes(r, "cleanup")
    /\ perf' = IF kept.server # perf.id THEN perf
               ELSE [perf EXCEPT !.cfg = [s \in Settings |-> IF kept.config[s] = Unsaved THEN @[s] ELSE kept.config[s]]]
    /\ UNCHANGED <<kept, latest, proxy, Lab>> /\ NoCost

CleanupKeys(r) ==
    /\ runs[r].at = "cleanup" /\ Connected(r) /\ Goes(r, "unlink")
    /\ perf' = [perf EXCEPT !.keys = @ \ {kept.run}] /\ UNCHANGED <<kept, latest, proxy, Lab>> /\ NoCost

UnlinkJournal(r) ==
    /\ runs[r].at = "unlink" /\ kept' = NoJournal /\ Goes(r, "finish")
    /\ UNCHANGED <<perf, latest, proxy, Lab>> /\ NoCost

(* A recovery that fails keeps the journal, and no scenario passes with it. *)
RecoveryFails(r) ==
    /\ runs[r].at \in {"config", "cleanup"} /\ IF Connected(r) THEN Spends ELSE NoCost
    /\ runs' = [runs EXCEPT ![r].at = "finish", ![r].status = "FAIL", ![r].conn = perf.id]
    /\ UNCHANGED <<perf, kept, latest, proxy, Lab>>

(* finish: the report, then latest.json; recover resets the proxy instead. *)
Finishes(r) ==
    /\ runs[r].at = "finish"
    /\ IF runs[r].name = "recover"
          THEN proxy' = "none" /\ UNCHANGED latest ELSE latest' = r /\ UNCHANGED proxy
    /\ runs' = [runs EXCEPT ![r] = Left(r, "done", runs[r].status)]
    /\ UNCHANGED <<perf, kept, Lab>> /\ NoCost

Killed(r) == Active(r) /\ runs' = [runs EXCEPT ![r] = Left(r, "dead", @.report)] /\ Spends /\ UNCHANGED <<perf, kept, latest, proxy, Lab>>

(* The rule of the proxy ends by itself. *)
ProxyExpires == proxy # "none" /\ proxy' = "none" /\ UNCHANGED <<perf, kept, runs, latest, Lab>> /\ NoCost

(* perf-start.sh: a restarted server has its own settings and the keys of its RDB file. *)
Fresh1(dump) == [id |-> perf.id + 1, cfg |-> Defaults, own |-> Defaults, keys |-> dump, dump |-> dump]
Restarts ==
    /\ Spends /\ perf' = Fresh1(perf.dump)
    /\ UNCHANGED <<kept, runs, latest, proxy, Lab>>

(* ./ops.sh cli: the operator's own settings, outside experiments. *)
OperatorSets(s) ==
    /\ Spends /\ kept = NoJournal
    /\ perf' = [perf EXCEPT !.cfg[s] = "operator", !.own[s] = "operator"]
    /\ UNCHANGED <<kept, runs, latest, proxy, Lab>>

-----------------------------------------------------------------------------
(* Host commands, one at a time under the mutation lock. *)

Proc == <<perf, kept, latest, proxy>>
HostAt(op, at) == host.op = op /\ host.at = at
Takes(op, at) == host = NoHost /\ host' = [NoHost EXCEPT !.op = op, !.at = at]
Moves(at) == host' = [host EXCEPT !.at = at]
Reports(verdict) == host' = [host EXCEPT !.at = "told", !.verdict = verdict]

HostKilled == host # NoHost /\ host' = NoHost /\ Spends /\ UNCHANGED <<Proc, runs, cage, link>>

HostRuns(r, name) ==
    /\ host = NoHost /\ Launch(r, name) /\ host' = [NoHost EXCEPT !.op = "run", !.at = "wait", !.run = r]
    /\ UNCHANGED <<perf, kept, proxy, cage, link>> /\ NoCost

Ended(r) == runs[r].at \in {"done", "dead"}
HostDone ==
    /\ (host.op \in {"run", "recover"} /\ host.at = "wait" /\ Ended(host.run)) \/ host.at = "told"
    /\ host' = NoHost
    /\ UNCHANGED <<Proc, runs, cage, link>> /\ NoCost

(* restore_cpu: nothing is applied to a container that has replaced the recorded one. *)
RestoreCpu ==
    cage' = CASE cage.kept = 0 -> cage
             [] cage.kept # cage.id -> [cage EXCEPT !.kept = 0]
             [] OTHER -> [cage EXCEPT !.cpu = "own", !.kept = 0]

RestoreReplication == link' = [backlog |-> IF link.kept THEN "own" ELSE link.backlog, kept |-> FALSE]

(* recover: the CPU quota, the replication exercise, then the journal of the runner. *)
OpsRecovers == (kept # NoJournal \/ cage.kept # 0 \/ link.kept) /\ Takes("recover", "cpu")
                /\ UNCHANGED <<Proc, runs, cage, link>> /\ NoCost
HostRecovers ==
    /\ host.op = "recover" /\ UNCHANGED <<perf, kept, proxy>> /\ NoCost
    /\ \/ host.at = "cpu" /\ RestoreCpu /\ Moves("link") /\ UNCHANGED <<runs, latest, link>>
       \/ host.at = "link" /\ RestoreReplication /\ Moves("runner") /\ UNCHANGED <<runs, latest, cage>>
       \/ /\ host.at = "runner" /\ \E r \in Runs : Launch(r, "recover") /\ host' = [host EXCEPT !.at = "wait", !.run = r]
          /\ UNCHANGED <<cage, link>>

(* cpu: baseline load, record, quota, load again; the quota goes back whatever happened. *)
BeginCpu ==
    /\ Takes("cpu", IF cage.kept # 0 THEN "refused" ELSE "record")
    /\ UNCHANGED <<Proc, runs, cage, link>> /\ NoCost
CpuSteps ==
    /\ host.op = "cpu" /\ UNCHANGED <<Proc, runs, link>>
    /\ \/ host.at = "refused" /\ Reports("FAIL") /\ UNCHANGED cage /\ NoCost
       \/ host.at = "record" /\ cage' = [cage EXCEPT !.kept = cage.id] /\ Moves("limit") /\ NoCost
       \/ /\ host.at = "limit"
          /\ \/ cage' = [cage EXCEPT !.cpu = "limited"] /\ Moves("restore") /\ NoCost
             \/ cage' \in {cage, [cage EXCEPT !.cpu = "limited"]} /\ Spends
                /\ host' = [host EXCEPT !.at = "restore", !.failed = TRUE]
       \/ /\ host.at = "restore"
          /\ \/ RestoreCpu /\ NoCost
                /\ \E v \in IF host.failed THEN {"BLOCKED", "FAIL"} ELSE {"PASS", "NOT_REPRODUCED"} : Reports(v)
             \/ UNCHANGED cage /\ Spends /\ Reports("FAIL")

(* replication: a smaller backlog on the master, one replica stopped, load, resynchronisation; *)
(* a journal found at the start is restored too, and the exercise fails.                      *)
BeginReplication ==
    /\ host = NoHost /\ host' = [NoHost EXCEPT !.op = "replication", !.at = IF link.kept THEN "restore" ELSE "record", !.failed = link.kept]
    /\ UNCHANGED <<Proc, runs, cage, link>> /\ NoCost
ReplicationSteps ==
    /\ host.op = "replication" /\ UNCHANGED <<Proc, runs, cage>>
    /\ \/ host.at = "record" /\ link' = [link EXCEPT !.kept = TRUE] /\ Moves("shrink") /\ NoCost
       \/ /\ host.at = "shrink" /\ link' = [link EXCEPT !.backlog = "small"]
          /\ \/ Moves("restore") /\ NoCost
             \/ Spends /\ host' = [host EXCEPT !.at = "restore", !.failed = TRUE]
       \/ /\ host.at = "restore"
          /\ \/ RestoreReplication /\ NoCost
                /\ \E v \in IF host.failed THEN {"FAIL"} ELSE {"PASS", "NOT_REPRODUCED"} : Reports(v)
             \/ UNCHANGED link /\ Spends /\ Reports("FAIL")

(* down restores all three and gives up when the runner cannot; reset restores the HA nodes *)
(* and removes the volumes.  The containers are those the next up creates.                  *)
OpsDown(op) == Takes(op, "link") /\ Spends /\ UNCHANGED <<Proc, runs, cage, link>>
Stopped == [r \in Runs |-> IF Active(r) THEN Left(r, "dead", runs[r].report) ELSE runs[r]]
DownSteps ==
    /\ host.op \in {"down", "reset"} /\ NoCost
    /\ \/ /\ host.at = "link" /\ RestoreReplication /\ Moves(IF host.op = "down" THEN "cpu" ELSE "compose")
          /\ UNCHANGED <<Proc, runs, cage>>
       \/ HostAt("down", "cpu") /\ RestoreCpu /\ Moves("runner") /\ UNCHANGED <<Proc, runs, link>>
       \/ /\ HostAt("down", "runner") /\ \E r \in Runs : Launch(r, "recover") /\ host' = [host EXCEPT !.at = "wait", !.run = r]
          /\ UNCHANGED <<perf, kept, proxy, cage, link>>
       \/ /\ HostAt("down", "wait") /\ Ended(host.run) /\ UNCHANGED <<Proc, runs, cage, link>>
          /\ IF runs[host.run].at = "done" /\ runs[host.run].report = "PASS" THEN Moves("compose") ELSE host' = NoHost
       \/ /\ host.at = "compose" /\ runs' = Stopped /\ proxy' = "none" /\ UNCHANGED link
          /\ latest' = IF host.op = "down" THEN latest ELSE 0
          /\ cage' = [cage EXCEPT !.id = @ + 1, !.cpu = "own"]
          /\ IF host.op = "down" THEN host' = NoHost /\ perf' = Fresh1(perf.dump) /\ UNCHANGED kept
             ELSE Moves("forget") /\ perf' = Fresh1({}) /\ kept' = NoJournal
       \/ /\ HostAt("reset", "forget") /\ cage' = [cage EXCEPT !.kept = 0] /\ host' = NoHost
          /\ UNCHANGED <<Proc, runs, link>>

(* validate: each scenario of the suite in turn, believed when the latest report is not the one *)
(* of before, is of that scenario and agrees with the exit code.                                *)
BeginValidate ==
    /\ Takes("validate", "next")
    /\ UNCHANGED <<Proc, runs, cage, link>> /\ NoCost
ValidateRuns(r) ==
    /\ HostAt("validate", "next") /\ Launch(r, Suite[Len(host.rows) + 1])
    /\ host' = [host EXCEPT !.at = "wait", !.run = r, !.prev = latest]
    /\ UNCHANGED <<perf, kept, proxy, cage, link>> /\ NoCost

OwnReport ==
    /\ latest # host.prev /\ runs[latest].name = runs[host.run].name
    /\ runs[latest].report = runs[host.run].report

Overall(rows) ==
    LET states == {rows[i].status : i \in DOMAIN rows}
    IN  CASE states = {"PASS"} -> "PASS" [] "BLOCKED" \in states -> "BLOCKED" [] OTHER -> "NOT_REPRODUCED"

ValidateReads ==
    /\ HostAt("validate", "wait") /\ Ended(host.run) /\ UNCHANGED <<Proc, runs, cage, link>> /\ NoCost
    /\ LET row == [run |-> latest, by |-> host.run, status |-> runs[latest].report]
           rows == Append(host.rows, row)
       IN  IF ~ OwnReport \/ row.status \notin Statuses \/ row.status = "FAIL" THEN Reports("FAIL")
           ELSE host' = [host EXCEPT !.at = IF Len(rows) < Len(Suite) THEN "next" ELSE "export", !.rows = rows]
ValidateEnds ==
    /\ HostAt("validate", "export") /\ Reports(Overall(host.rows))
    /\ UNCHANGED <<Proc, runs, cage, link>> /\ NoCost

-----------------------------------------------------------------------------
RunnerStep ==
    \E r \in Runs : \/ Guards(r) \/ SaveOriginals(r) \/ ConfigSet(r) \/ Populates(r) \/ Saves(r) \/ ProxyRule(r) \/ Judges(r) \/ Raises(r)
                    \/ RestoreConfig(r) \/ CleanupKeys(r) \/ UnlinkJournal(r) \/ RecoveryFails(r) \/ Finishes(r) \/ Killed(r)
PerfStep == ProxyExpires \/ Restarts \/ (\E s \in Settings : OperatorSets(s))
HostStep ==
    \/ HostKilled \/ HostDone \/ OpsRecovers \/ HostRecovers \/ BeginCpu \/ CpuSteps \/ BeginReplication \/ ReplicationSteps
    \/ (\E op \in {"down", "reset"} : OpsDown(op)) \/ DownSteps \/ BeginValidate \/ ValidateReads \/ ValidateEnds
    \/ (\E r \in Runs : ValidateRuns(r) \/ \E name \in Scenarios : HostRuns(r, name))

OpsNext == RunnerStep \/ PerfStep \/ HostStep
OpsSpec == OpsInit /\ [][OpsNext]_opsVars

-----------------------------------------------------------------------------
Altered == {s \in Settings : perf.cfg[s] # perf.own[s]} \cup {k \in {"keys"} : ~ perf.keys \subseteq perf.dump}

PerfJournal ==
    INSTANCE FaultJournal WITH
        open <- kept # NoJournal, effects <- Altered, Effects <- Settings \cup {"keys"}, Residual <- {}
CpuJournal ==
    INSTANCE FaultJournal WITH
        open <- cage.kept # 0, effects <- {c \in {"limited"} : cage.cpu = c}, Effects <- {"limited"}, Residual <- {}
LinkJournal ==
    INSTANCE FaultJournal WITH
        open <- link.kept, effects <- {c \in {"small"} : link.backlog = c}, Effects <- {"small"}, Residual <- {}

(* recovery.json, ops-cpu-recovery.json and ops-replication-recovery.json keep the promise of   *)
(* FaultJournal: no setting, key, quota or backlog of an experiment is left without its record, *)
(* whatever is killed or restarted, and what is restored is what the experiment found.  Only    *)
(* the RDB file of the persistence scenario brings its keys back to a restarted server.         *)
OpsJournalSpec ==
    [][/\ PerfJournal!Next \/ UNCHANGED <<kept # NoJournal, Altered>>
       /\ CpuJournal!Next \/ UNCHANGED <<cage.kept # 0, cage.cpu>>
       /\ LinkJournal!Next \/ UNCHANGED <<link.kept, link.backlog>>]_opsVars

(* A row of validate's report gives the outcome of the process that validate started for that   *)
(* scenario of the suite, even when a scenario whose host command was killed ends in between    *)
(* and leaves latest.json to itself (the row may then name that other run of the same scenario, *)
(* never another status); and a report of PASS - of a scenario, of cpu, of replication - is     *)
(* written only when its changes are gone.                                                      *)
OpsReportsAreHonest ==
    /\ \A i \in DOMAIN host.rows :
          LET row == host.rows[i]
          IN  /\ runs[row.by].name = Suite[i] /\ runs[row.by].report = row.status
              /\ runs[row.run].name = Suite[i]
    /\ \A r \in Runs : runs[r].at = "finish" /\ runs[r].status = "PASS" => kept.run # r /\ (r \in perf.keys => r \in perf.dump)
    /\ host.op = "cpu" /\ host.verdict = "PASS" => cage.kept = 0 /\ cage.cpu = "own"
    /\ host.op = "replication" /\ host.verdict = "PASS" => ~ link.kept /\ link.backlog = "own"
=============================================================================
