------------------------------ MODULE MvpService ------------------------------
(***************************************************************************)
(* The two processes of the storefront as their operator sees them: the    *)
(* HTTP service (mvp_app/api.py, http_policy.py), one thread and one slot   *)
(* per accepted connection, one set of clients per request; and the worker's *)
(* health receipt (mvp_app/worker_health.py), written by its two loops and   *)
(* read by the container's health check.                                     *)
(*                                                                           *)
(* conn     per connection: at which step of its life, the request it sends, *)
(*          whether its clients are open, its status, whether SQL has a write *)
(* slots    free slots of the bounded semaphore                              *)
(* now      the monotonic clock; good: the last success of each loop         *)
(* worker   the worker process: identity, loop threads, rows in memory,      *)
(*          and whether a save has failed since the last one that succeeded *)
(* receipt  the file /tmp/db-lab-worker-health.json                          *)
(***************************************************************************)
EXTENDS Integers, FiniteSets

CONSTANTS Conns,        \* connections that arrive
          MaxSlots,     \* max_connections
          MaxAge,       \* MAX_AGE in ticks of a second
          MaxNow,       \* bound: the clock
          MaxStarts     \* bound: starts of the worker

ASSUME ServiceAssumption ==
    /\ IsFiniteSet(Conns)
    /\ MaxSlots \in Nat \ {0} /\ MaxAge \in Nat /\ MaxNow \in Nat /\ MaxStarts \in Nat

VARIABLES conn, slots, now, worker, receipt, good

httpVars == <<conn, slots>>
workVars == <<now, worker, receipt, good>>
svcVars == <<httpVars, workVars>>

-----------------------------------------------------------------------------
(* Requests, by what the policy and the routes tell apart. *)
BadHost == "bad host"
BadOrigin == "bad origin"
BadBody == {"bad length", "bad json"}
BadFields == "unexpected field"
Writes == BadBody \cup {BadOrigin, BadFields, "write"}
Reads == {BadHost, "bad query", "asset", "read", "diagnostics", "no route"}
Requests == Writes \cup Reads

(* Held by a connection: from the acquire to the release. *)
Holding == {"thread", "policy", "open", "route", "reply", "finish"}

LocalHost(req) == IF req = BadHost THEN {400, 403} ELSE {}
JsonLength(req) == IF req = "bad length" THEN {400, 413, 415} ELSE {}
DecodeJson(req) == IF req = "bad json" THEN {400} ELSE {}

(* The refusals of handle_api before any client is opened, in the order of the code. *)
Policy(req) ==
    LocalHost(req) \cup (IF req = BadOrigin THEN {403} ELSE {}) \cup JsonLength(req) \cup DecodeJson(req)
      \cup (IF req = "bad query" THEN {400} ELSE {})
StaticFile == {200, 404}

(* The answers of route: fields first, then the store behind backend, which makes 503 of an error. *)
BodyFields(req) == req # BadFields
Backend(answers) == answers \cup {503}
Diagnostics == {200}
Route(req) ==
    CASE req = "no route" -> {404}
      [] req = "diagnostics" -> Diagnostics
      [] ~ BodyFields(req) -> {400}
      [] req = "write" -> Backend({200, 201, 400, 404, 409, 500})
      [] OTHER -> Backend({200, 400, 404, 500})

Moves(c, from, to) == conn[c].at = from /\ conn' = [conn EXCEPT ![c] = to] /\ UNCHANGED workVars
Arriving == [at |-> "backlog", req |-> "read", app |-> FALSE, status |-> 0, wrote |-> FALSE]
Closed == [Arriving EXCEPT !.at = "closed"]
AtNow(c, to) == [conn[c] EXCEPT !.at = to]

(* process_request: a slot, or 503 from the accepting thread itself. *)
Accept(c) ==
    /\ slots > 0 /\ slots' = slots - 1
    /\ \E req \in Requests : Moves(c, "backlog", [AtNow(c, "thread") EXCEPT !.req = req])
Overloaded(c) == slots = 0 /\ Moves(c, "backlog", Closed) /\ UNCHANGED slots

Starts(c) == Moves(c, "thread", AtNow(c, "policy")) /\ UNCHANGED slots

(* Altered: the slot of a thread that could not be started is kept. *)
StartFailsKeeping(c) == Moves(c, "thread", Closed) /\ UNCHANGED slots

StartFails(c) == Moves(c, "thread", Closed) /\ slots' = slots + 1

(* handle_api: policy, static files, clients, route. *)
Vet(c) ==
    /\ UNCHANGED slots
    /\ LET req == conn[c].req
           refusals == IF req = "asset" THEN StaticFile ELSE Policy(req)
       IN IF refusals = {} THEN Moves(c, "policy", AtNow(c, "open"))
          ELSE \E code \in refusals : Moves(c, "policy", [AtNow(c, "reply") EXCEPT !.status = code])
Connect(c) ==
    /\ UNCHANGED slots
    /\ \/ Moves(c, "open", [AtNow(c, "route") EXCEPT !.app = TRUE])
       \/ Moves(c, "open", [AtNow(c, "reply") EXCEPT !.status = 500])
Serve(c) ==
    /\ UNCHANGED slots
    /\ \E code \in Route(conn[c].req), wrote \in BOOLEAN :
          /\ wrote => conn[c].req = "write" /\ code \notin {400, 404, 409}
          /\ code \in {200, 201} /\ conn[c].req = "write" => wrote
          /\ Moves(c, "route", [AtNow(c, "reply") EXCEPT !.status = code, !.wrote = wrote])

(* The answer, or a peer that is gone. *)
Reply(c) == Moves(c, "reply", AtNow(c, "finish")) /\ UNCHANGED slots

(* The peer is gone, or silent for ten seconds, while the request is read. *)
Disconnects(c) == Moves(c, "policy", AtNow(c, "finish")) /\ UNCHANGED slots

(* finally: the clients, then the slot. *)
CloseClients(c) == conn[c].app /\ Moves(c, "finish", [conn[c] EXCEPT !.app = FALSE]) /\ UNCHANGED slots
Release(c) == ~ conn[c].app /\ Moves(c, "finish", Closed) /\ slots' = slots + 1

ConnStep(c) ==
    \/ Accept(c) \/ Overloaded(c) \/ Starts(c) \/ StartFails(c) \/ Vet(c) \/ Disconnects(c)
    \/ Connect(c) \/ Serve(c) \/ Reply(c) \/ CloseClients(c) \/ Release(c)

-----------------------------------------------------------------------------
Loops == {"relay", "consumer"}
Never == -1
NoRow == [ok |-> FALSE, last |-> Never]
NoReceipt == [start |-> Never, rows |-> [l \in Loops |-> NoRow]]
Dead == [start |-> 0, runs |-> [l \in Loops |-> "ended"], rows |-> NoReceipt.rows, wrote |-> Never, stop |-> FALSE, spoiled |-> FALSE,
         born |-> 0]

SvcInit ==
    /\ conn = [c \in Conns |-> Arriving]
    /\ slots = MaxSlots
    /\ now = 0 /\ worker = Dead /\ receipt = NoReceipt /\ good = [l \in Loops |-> Never]

HttpSame == UNCHANGED httpVars

(* _save: the file is replaced in one step, or an error is raised and it stays. *)
Save(new) == receipt' = [start |-> new.start, rows |-> new.rows] /\ worker' = [new EXCEPT !.wrote = now, !.spoiled = FALSE]

(* WorkerHealth.__init__: the identity of the new process, and no loop has succeeded. *)
WorkerStarts ==
    /\ worker.start = 0 /\ worker.born < MaxStarts
    /\ good' = [l \in Loops |-> Never] /\ UNCHANGED now /\ HttpSame
    /\ Save([start |-> worker.born + 1, runs |-> [l \in Loops |-> "run"], rows |-> NoReceipt.rows,
             wrote |-> Never, stop |-> FALSE, spoiled |-> FALSE, born |-> worker.born + 1])

Marked(l, ok) == [worker EXCEPT !.rows[l] = [ok |-> ok, last |-> IF ok THEN now ELSE @.last]]

(* mark: transitions are saved at once, the rest at most once a second. *)
MustSave(l, ok) == worker.rows[l].ok # ok \/ now - worker.wrote >= 1

(* A mark, after which the loop is at `next`; at `raised` when the save failed. *)
Mark(l, ok, next, raised) ==
    /\ UNCHANGED now /\ HttpSame
    /\ LET marked == Marked(l, ok)
       IN IF MustSave(l, ok)
          THEN \/ Save([marked EXCEPT !.runs[l] = next])
               \/ worker' = [marked EXCEPT !.runs[l] = raised, !.spoiled = TRUE] /\ UNCHANGED receipt
          ELSE worker' = [marked EXCEPT !.runs[l] = next] /\ UNCHANGED receipt

Running(l) == worker.start # 0 /\ worker.runs[l] = "run"

(* A pass of relay_loop, or an event projected and committed by consume_loop. *)
PassSucceeds(l) == Running(l) /\ Mark(l, TRUE, "run", "failed") /\ good' = [good EXCEPT ![l] = now]

(* idle_consumer_ready: TRUE for the expected assignment and an answered offset query. *)
IdleProbe ==
    /\ Running("consumer")
    /\ \E ready \in BOOLEAN :
          Mark("consumer", ready, "run", "failed") /\ good' = IF ready THEN [good EXCEPT !["consumer"] = now] ELSE good
PassFails(l) == Running(l) /\ worker' = [worker EXCEPT !.runs[l] = "failed"] /\ UNCHANGED <<now, receipt, good>> /\ HttpSame

(* The handler marks the failure; an error there ends the thread. *)
MarksFailure(l) == worker.start # 0 /\ worker.runs[l] = "failed" /\ Mark(l, FALSE, "run", "dead") /\ UNCHANGED good

(* SIGTERM: loops end, the consumer marks itself down; main closes the receipt and exits. *)
Signal ==
    /\ worker.start # 0 /\ worker' = [worker EXCEPT !.stop = TRUE]
    /\ UNCHANGED <<now, receipt, good>> /\ HttpSame
LoopEnds(l) ==
    /\ Running(l) /\ worker.stop /\ UNCHANGED good
    /\ IF l = "consumer" THEN Mark(l, FALSE, "ended", "dead")
       ELSE worker' = [worker EXCEPT !.runs[l] = "ended"] /\ UNCHANGED <<now, receipt>> /\ HttpSame
WorkerCloses ==
    /\ worker.start # 0 /\ \A l \in Loops : worker.runs[l] \in {"ended", "dead"}
    /\ worker.stop \/ \A l \in Loops : worker.runs[l] = "dead"
    /\ receipt' \in {receipt, [receipt EXCEPT !.rows = [l \in Loops |-> [worker.rows[l] EXCEPT !.ok = FALSE]]]}
    /\ worker' = [Dead EXCEPT !.born = worker.born] /\ UNCHANGED <<now, good>> /\ HttpSame
WorkerKilled == worker.start # 0 /\ worker' = [Dead EXCEPT !.born = worker.born] /\ UNCHANGED <<now, receipt, good>> /\ HttpSame
SecondPasses == now < MaxNow /\ now' = now + 1 /\ UNCHANGED <<worker, receipt, good>> /\ HttpSame

WorkStep ==
    \/ WorkerStarts \/ (\E l \in Loops : PassSucceeds(l) \/ PassFails(l) \/ MarksFailure(l) \/ LoopEnds(l))
    \/ IdleProbe \/ Signal \/ WorkerCloses \/ WorkerKilled \/ SecondPasses

(* The two processes share nothing: one of them moves while the other is as it was initially. *)
SvcNext ==
    \/ worker = Dead /\ now = 0 /\ \E c \in Conns : ConnStep(c)
    \/ (\A c \in Conns : conn[c].at = "backlog") /\ WorkStep
SvcSpec == SvcInit /\ [][SvcNext]_svcVars

-----------------------------------------------------------------------------
(* is_ready: the process that wrote the receipt runs, and both of its loops are recent successes. *)
Ready ==
    /\ worker.start # 0 /\ receipt.start = worker.start
    /\ \A l \in Loops : receipt.rows[l].ok /\ now - receipt.rows[l].last <= MaxAge

(***************************************************************************)
(* Every way a connection can end gives its slot back exactly once, and     *)
(* only after its clients are closed; and a request that a policy refuses    *)
(* has opened no client and written nothing.                                 *)
(***************************************************************************)
SlotsAreExact == slots + Cardinality({c \in Conns : conn[c].at \in Holding}) = MaxSlots
ClientsAreClosed == \A c \in Conns : conn[c].app => conn[c].at \in Holding
RefusedTouchesNothing ==
    \A c \in Conns : Policy(conn[c].req) # {} => ~ conn[c].app /\ ~ conn[c].wrote /\ conn[c].status \notin {200, 201}

(***************************************************************************)
(* The health check never says ready on the word of an earlier process, nor *)
(* of a loop whose last success is older than MaxAge; and a failure a loop   *)
(* reported shows at once, unless the file could not be written.             *)
(***************************************************************************)
ReadyIsRecent ==
    Ready => \A l \in Loops :
                /\ good[l] # Never /\ now - good[l] <= MaxAge
                /\ worker.rows[l].ok \/ worker.spoiled

(* The API gives back what it takes, and the worker is ready only when it works. *)
ServiceIsSound == SlotsAreExact /\ ClientsAreClosed /\ RefusedTouchesNothing /\ ReadyIsRecent
=============================================================================
