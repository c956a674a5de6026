----------------------------- MODULE RedisSandbox -----------------------------
(***************************************************************************)
(* The sandbox node of the Redis laboratory: the out-of-memory and RDB     *)
(* faults and their recovery, and the restore of a backup of the HA master *)
(* into it (scripts/manage.py, client/client.py); and the single-flight    *)
(* cache fill of ops/scenarios.py.  One command runs at a time and may     *)
(* stop between any two steps; the server may stop at any time.            *)
(*                                                                         *)
(* sand     the server: up, its data, memory limit, append-only setting,   *)
(*          append-only file being written anew, last BGSAVE failed        *)
(* disk     redis.conf, append-only file, dump.rdb, and the fault's files  *)
(* act      the command running;  restored: a restore has reported PASS    *)
(* flight   a cache key, its lock, and the clients that want the value     *)
(***************************************************************************)
EXTENDS Integers, FiniteSets

CONSTANTS Clients,      \* clients that miss the cache together
          MaxActs,      \* bound: commands
          MaxStops      \* bound: interrupted commands and stopped servers

VARIABLES sand, disk, act, restored, flight, done

sandVars == <<sand, disk, act, restored, flight, done>>

Unset == "unset"

ASSUME SandboxAssumption == Clients # {} /\ Unset \notin Clients

(* What a server or a file holds: whose keys, the limit the record of sandbox-oom saved, its filler. *)
Data(of) == [of |-> of, saved |-> Unset, fill |-> FALSE]
NoFile == Data("none")
Directory == Data("directory")
NoAct == [op |-> Unset, at |-> Unset, keep |-> Unset]
NoFlight == [value |-> FALSE, lock |-> Unset, calls |-> 0, at |-> [c \in Clients |-> "get"]]

SandInit ==
    /\ sand = [up |-> TRUE, data |-> Data("sandbox"), limit |-> "own", aof |-> TRUE, anew |-> FALSE, failed |-> FALSE]
    /\ disk = [aof |-> TRUE, log |-> Data("sandbox"), dump |-> NoFile, pre |-> NoFile, mark |-> FALSE]
    /\ act = NoAct /\ restored = FALSE /\ flight = NoFlight /\ done = [acts |-> 0, stops |-> 0]

-----------------------------------------------------------------------------
(* Redis: a write is in the append-only file, when there is one. *)
Holds(data) ==
    /\ sand' = [sand EXCEPT !.data = data]
    /\ disk' = IF sand.aof /\ ~ sand.anew THEN [disk EXCEPT !.log = data] ELSE disk

(* What a server that starts now would load. *)
Loads == CASE disk.aof -> IF disk.log = NoFile THEN Data("nobody") ELSE disk.log
           [] OTHER -> IF disk.dump \in {NoFile, Directory} THEN Data("nobody") ELSE disk.dump

Starts ==
    /\ sand' = [up |-> TRUE, data |-> Loads, limit |-> "own", aof |-> disk.aof, anew |-> FALSE, failed |-> FALSE]
    /\ disk' = IF disk.aof THEN [disk EXCEPT !.log = Loads] ELSE disk

(* BGSAVE fails on a directory; writes are refused from then on. *)
Saved == IF disk.dump = Directory THEN sand' = [sand EXCEPT !.failed = TRUE] /\ UNCHANGED disk
         ELSE sand' = [sand EXCEPT !.failed = FALSE] /\ disk' = [disk EXCEPT !.dump = sand.data]

Stops == done.stops < MaxStops /\ done' = [done EXCEPT !.stops = @ + 1]
Quiet == UNCHANGED <<restored, flight, done>>

(* The container is not restarted by itself: the command fails, the next one starts it. *)
ServerStops == sand.up /\ Stops /\ act' = NoAct /\ sand' = [sand EXCEPT !.up = FALSE] /\ UNCHANGED <<disk, restored, flight>>
ScheduledSave == sand.up /\ Saved /\ UNCHANGED act /\ Quiet
Interrupted == act # NoAct /\ Stops /\ act' = NoAct /\ UNCHANGED <<sand, disk, restored, flight>>

(* A command; sandbox-up starts a stopped container first. *)
Act(op, at) ==
    /\ act = NoAct /\ done.acts < MaxActs /\ done' = [done EXCEPT !.acts = @ + 1]
    /\ act' = [NoAct EXCEPT !.op = op, !.at = at] /\ UNCHANGED <<restored, flight>>
    /\ IF sand.up THEN UNCHANGED <<sand, disk>> ELSE Starts
From(op, at, next) == act.op = op /\ act.at = at /\ act' = (IF next = Unset THEN NoAct ELSE [act EXCEPT !.at = next]) /\ Quiet
SandOnly(new) == sand' = new /\ UNCHANGED disk
DiskOnly(new) == disk' = new /\ UNCHANGED sand

-----------------------------------------------------------------------------
(* sandbox-oom: the limit in force is saved as a key of the sandbox before it is lowered. *)
BeginOom == Act("oom", "record") /\ sand.data.saved = Unset
OomRecord == From("oom", "record", "limit") /\ ~ sand.failed /\ Holds([sand.data EXCEPT !.saved = sand.limit])
OomLimit == From("oom", "limit", "fill") /\ SandOnly([sand EXCEPT !.limit = "low"])
OomFill == From("oom", "fill", Unset) /\ ~ sand.failed /\ Holds([sand.data EXCEPT !.fill = TRUE])

(* sandbox-persistence: a directory in place of dump.rdb. *)
BeginRdb == Act("rdb", "mark") /\ ~ disk.mark
RdbMark == From("rdb", "mark", "move") /\ DiskOnly([disk EXCEPT !.mark = TRUE])
RdbMove ==
    /\ From("rdb", "move", "block")
    /\ DiskOnly(IF disk.dump = NoFile THEN disk ELSE [disk EXCEPT !.pre = disk.dump, !.dump = NoFile])
RdbBlock == From("rdb", "block", "save") /\ disk.dump = NoFile /\ DiskOnly([disk EXCEPT !.dump = Directory])
RdbSave == From("rdb", "save", Unset) /\ Saved

(* sandbox-recover: the file first, or no write would be accepted; then memory; the mark last. *)
BeginSandRecover == Act("recover", IF disk.mark THEN "unblock" ELSE "await")
RecUnblock == From("recover", "unblock", "back") /\ DiskOnly(IF disk.dump = Directory THEN [disk EXCEPT !.dump = NoFile] ELSE disk)
RecBack == From("recover", "back", "save") /\ DiskOnly(IF disk.pre = NoFile THEN disk ELSE [disk EXCEPT !.dump = disk.pre, !.pre = NoFile])
RecSave == From("recover", "save", "await") /\ Saved
RecAwait ==
    /\ act.op = "recover" /\ act.at = "await" /\ ~ sand.failed /\ Quiet /\ UNCHANGED <<sand, disk>>
    /\ act' = [act EXCEPT !.at = IF sand.data.saved = Unset THEN "unmark" ELSE "fill", !.keep = sand.data.saved]
RecFill == From("recover", "fill", "forget") /\ Holds([sand.data EXCEPT !.fill = FALSE])
RecForget == From("recover", "forget", "limit") /\ Holds([sand.data EXCEPT !.saved = Unset])
RecLimit == From("recover", "limit", "unmark") /\ SandOnly([sand EXCEPT !.limit = act.keep])

RecUnmark == From("recover", "unmark", Unset) /\ ~ sand.failed /\ DiskOnly([disk EXCEPT !.mark = FALSE])

-----------------------------------------------------------------------------
(* restore: checked and staged first, then the sandbox is wiped. *)
BeginRestore1 ==
    /\ act = NoAct /\ done.acts < MaxActs /\ done' = [done EXCEPT !.acts = @ + 1]
    /\ act' = [NoAct EXCEPT !.op = "restore", !.at = "stop"] /\ restored' = FALSE /\ UNCHANGED flight
    /\ IF sand.up THEN UNCHANGED <<sand, disk>> ELSE Starts
RestoreStop == From("restore", "stop", "wipe") /\ SandOnly([sand EXCEPT !.up = FALSE])
RestoreEmpty == From("restore", "wipe", "copy") /\ DiskOnly([disk EXCEPT !.log = NoFile, !.dump = NoFile])
RestoreCopy == From("restore", "copy", "conf") /\ DiskOnly([disk EXCEPT !.dump = Data("backup")])

(* The configuration that is next loaded must read dump.rdb and not an empty append-only file. *)
RestoreConf == From("restore", "conf", "clear") /\ DiskOnly([disk EXCEPT !.aof = FALSE])
RestoreClear == From("restore", "clear", "start") /\ DiskOnly([disk EXCEPT !.mark = FALSE, !.pre = NoFile])
RestoreStart == From("restore", "start", "check") /\ Starts

(* The marker of the backup. *)
RestoreCheck ==
    /\ act.op = "restore" /\ act.at = "check" /\ Quiet /\ UNCHANGED <<sand, disk>>
    /\ act' = IF sand.data.of = "backup" THEN [act EXCEPT !.at = "log"] ELSE NoAct

(* CONFIG SET appendonly yes starts a rewrite; the file counts when the rewrite has ended. *)
RestoreLog == From("restore", "log", "await") /\ SandOnly(IF sand.aof THEN sand ELSE [sand EXCEPT !.aof = TRUE, !.anew = TRUE])
RewriteEnds ==
    /\ sand.up /\ sand.anew /\ UNCHANGED act /\ Quiet
    /\ sand' = [sand EXCEPT !.anew = FALSE] /\ disk' = [disk EXCEPT !.log = sand.data]

RestoreAwait == From("restore", "await", "persist") /\ ~ sand.anew /\ UNCHANGED <<sand, disk>>
RestorePersist ==
    /\ act.op = "restore" /\ act.at = "persist" /\ act' = NoAct /\ UNCHANGED <<sand, flight, done>>
    /\ disk' = [disk EXCEPT !.aof = sand.aof] /\ restored' = TRUE

-----------------------------------------------------------------------------
(* cache_stampede with singleflight: GET; SET lock NX; GET again; origin; SET; release. *)
Flies(c, at, next, new) ==
    /\ flight.at[c] = at /\ flight' = [new EXCEPT !.at[c] = next] /\ UNCHANGED <<sand, disk, act, restored, done>>
FlightGet(c) == Flies(c, "get", IF flight.value THEN "done" ELSE "lock", flight)
FlightLock(c) ==
    IF flight.lock = Unset THEN Flies(c, "lock", "again", [flight EXCEPT !.lock = c]) ELSE Flies(c, "lock", "get", flight)

(* Altered: the owner of the lock does not look again. *)
FlightAgainBlind(c) == Flies(c, "again", "origin", flight)

FlightAgain(c) == Flies(c, "again", IF flight.value THEN "release" ELSE "origin", flight)
FlightOrigin(c) == Flies(c, "origin", "put", [flight EXCEPT !.calls = @ + 1])
FlightPut(c) == Flies(c, "put", "release", [flight EXCEPT !.value = TRUE])
FlightRelease(c) == Flies(c, "release", "done", [flight EXCEPT !.lock = IF @ = c THEN Unset ELSE @])

-----------------------------------------------------------------------------
Faulty == BeginOom \/ OomRecord \/ OomLimit \/ OomFill \/ BeginRdb \/ RdbMark \/ RdbMove \/ RdbBlock \/ RdbSave
SandRecovers ==
    \/ BeginSandRecover \/ RecUnblock \/ RecBack \/ RecSave \/ RecAwait \/ RecFill \/ RecForget \/ RecLimit \/ RecUnmark
Restores ==
    \/ BeginRestore1 \/ RestoreStop \/ RestoreEmpty \/ RestoreCopy \/ RestoreConf \/ RestoreClear \/ RestoreStart
    \/ RestoreCheck \/ RestoreLog \/ RewriteEnds \/ RestoreAwait \/ RestorePersist
Flight ==
    /\ act = NoAct /\ done.acts = 0 /\ done.stops = 0 /\ disk.dump = NoFile
    /\ \E c \in Clients : FlightGet(c) \/ FlightLock(c) \/ FlightAgain(c) \/ FlightOrigin(c) \/ FlightPut(c) \/ FlightRelease(c)
SandStep == flight = NoFlight /\ (ServerStops \/ ScheduledSave \/ Interrupted \/ Faulty \/ SandRecovers \/ Restores)

SandNext == SandStep \/ Flight
SandSpec == SandInit /\ [][SandNext]_sandVars

-----------------------------------------------------------------------------
RdbFault == {e \in {"directory", "moved", "refusing"} :
               \/ e = "directory" /\ disk.dump = Directory
               \/ e = "moved" /\ disk.pre # NoFile
               \/ e = "refusing" /\ sand.failed /\ sand.up}
OomFault == {e \in {"limit", "fill"} : (e = "limit" /\ sand.limit # "own") \/ (e = "fill" /\ sand.data.fill)}

Rdb == INSTANCE FaultJournal WITH
           open <- disk.mark, effects <- RdbFault, Effects <- {"directory", "moved", "refusing"}, Residual <- {}
Oom == INSTANCE FaultJournal WITH
           open <- sand.data.saved # Unset, effects <- OomFault, Effects <- {"limit", "fill"}, Residual <- {"limit"}

(* Nothing of a sandbox fault is left without its mark or record - only the memory limit, which *)
(* sandbox-recover resets after it has deleted the record - and from the moment a restore has   *)
(* checked its marker, whatever stops or restarts the sandbox, it comes back with the backup.   *)
SandboxIsSound ==
    /\ Rdb!NothingUnrecorded /\ Oom!NothingUnrecorded
    /\ restored \/ (act.op = "restore" /\ act.at \in {"log", "await", "persist"}) => Loads.of = "backup"

(* Clients that miss the cache together ask the origin once: the owner of the lock looks again *)
(* before it does.                                                                              *)
SingleFlight == flight.calls <= 1 /\ ((\A c \in Clients : flight.at[c] = "done") => flight.calls = 1)
=============================================================================
