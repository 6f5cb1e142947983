---------------------------- MODULE Replication -----------------------------
(***************************************************************************)
(* Replication of one partition: the PRODUCE handler of runner.rs, which   *)
(* appends under the broker lock and then, with the lock released, sends   *)
(* REPLICATE to one follower after the other (replication.rs), and the     *)
(* follower's apply_replica (broker.rs). Handlers run concurrently, one    *)
(* per client connection; every REPLICATE has a connection of its own, so  *)
(* they arrive in any order, and one that timed out may still be applied.  *)
(*                                                                         *)
(* Who believes to be the leader comes from Leadership.tla, which the      *)
(* control plane implements. A record is the number of the request that    *)
(* produced it. A log is its sequence of records: record i has offset i-1  *)
(* (retention is the subject of PartitionStore.tla and is left out).       *)
(***************************************************************************)
EXTENDS Leadership, FiniteSets

CONSTANTS
    ReplicaList,   \* the replica list, in the order of the cluster file
    CreatedOn,     \* brokers on which CREATE_TOPIC was run for the topic
    MinInsync,     \* min_insync_replicas
    MaxRequests,   \* bound: produce requests
    MaxElections,  \* bound: leader epochs
    MaxCrashes     \* bound: crashes

Request == 1 .. MaxRequests

ASSUME ReplicationAssumption ==
    /\ IsFiniteSet(Broker)
    /\ ReplicaList \in Seq(Broker)
    /\ Replica = {ReplicaList[i] : i \in 1 .. Len(ReplicaList)}
    /\ \A i, j \in 1 .. Len(ReplicaList) : i # j => ReplicaList[i] # ReplicaList[j]
    /\ CreatedOn \subseteq Broker
    /\ MinInsync \in Nat
    /\ MaxRequests \in Nat
    /\ MaxElections \in Nat
    /\ MaxCrashes \in Nat

VARIABLES
    up,          \* up[b]: b's process runs
    log,         \* log[b]: PartitionLog of b, in memory
    file,        \* file[b]: records in b's log file
    registered,  \* brokers whose data directory lists the topic
    handler,     \* handler[v]: the task serving produce request v
    calls,       \* REPLICATE requests on their way
    answers,     \* R_PRODUCE responses sent
    crashes      \* crashes so far

replicaVars == <<log, file, registered>>
vars == <<leadershipVars, up, replicaVars, handler, calls, answers, crashes>>

-----------------------------------------------------------------------------
Status  == {"new", "loop", "waiting", "answered", "lost"}
Handler == [status : Status, at : Broker, offset : Nat, pos : Nat \ {0}, acks : Nat]
Call    == [to : Broker, offset : Nat, record : Request]
Answer  == [record : Request, at : Broker, offset : Nat, acks : Nat]

Fresh == [status |-> "new", at |-> Controller, offset |-> 0, pos |-> 1, acks |-> 0]

Init ==
    /\ LInit
    /\ up = [b \in Broker |-> TRUE]
    /\ log = [b \in Broker |-> <<>>]
    /\ file = [b \in Broker |-> <<>>]
    /\ registered = CreatedOn
    /\ handler = [v \in Request |-> Fresh]
    /\ calls = {}
    /\ answers = {}
    /\ crashes = 0

(* Mutant of AppendRecord: the record never reaches the log file. *)
AppendUnsaved(b, v) ==
    /\ log' = [log EXCEPT ![b] = Append(@, v)]
    /\ UNCHANGED file

(* Appending to the log and to its file, under the broker lock. *)
AppendRecord(b, v) ==
    /\ log' = [log EXCEPT ![b] = Append(@, v)]
    /\ file' = [file EXCEPT ![b] = Append(@, v)]

(* The locked part of PRODUCE, at a broker that believes to lead; append_log *)
(* registers the topic. Any other broker answers R_NOT_LEADER and changes    *)
(* nothing.                                                                  *)
append_log(b, v) ==
    /\ up[b]
    /\ belief[b].leader = b
    /\ handler[v].status = "new"
    /\ \A w \in 1 .. v - 1 : handler[w].status # "new"
    /\ AppendRecord(b, v)
    /\ registered' = registered \cup {b}
    /\ handler' = [handler EXCEPT ![v] =
          [status |-> "loop", at |-> b, offset |-> Len(log[b]), pos |-> 1, acks |-> 0]]
    /\ UNCHANGED <<leadershipVars, up, calls, answers, crashes>>

-----------------------------------------------------------------------------
(* replicate_to_followers: the loop over the replica list. *)
InLoop(v) ==
    /\ handler[v].status = "loop"
    /\ handler[v].pos <= Len(ReplicaList)

Target(v) == ReplicaList[handler[v].pos]

(* Mutant of Advance: a failed call takes an acknowledgement back. *)
AdvanceUncounting(v, ok) ==
    handler' = [handler EXCEPT ![v].status = "loop", ![v].pos = @ + 1,
                               ![v].acks = IF ok THEN @ + 1 ELSE @ - 1]

(* The next iteration, with one more acknowledgement when the call was ok. *)
Advance(v, ok) ==
    handler' = [handler EXCEPT ![v].status = "loop", ![v].pos = @ + 1,
                               ![v].acks = IF ok THEN @ + 1 ELSE @]

CountSelf(v) ==
    /\ InLoop(v)
    /\ Target(v) = handler[v].at
    /\ Advance(v, TRUE)
    /\ UNCHANGED <<leadershipVars, up, replicaVars, calls, answers, crashes>>

(* send_replicate: connect and write the request, then wait. *)
send_replicate(v) ==
    /\ InLoop(v)
    /\ Target(v) # handler[v].at
    /\ up[Target(v)]
    /\ calls' = calls \cup {[to |-> Target(v), offset |-> handler[v].offset, record |-> v]}
    /\ handler' = [handler EXCEPT ![v].status = "waiting"]
    /\ UNCHANGED <<leadershipVars, up, replicaVars, answers, crashes>>

(* The connection fails, or its timeout of two seconds expires. *)
ConnectFails(v) ==
    /\ InLoop(v)
    /\ Target(v) # handler[v].at
    /\ Advance(v, FALSE)
    /\ UNCHANGED <<leadershipVars, up, replicaVars, calls, answers, crashes>>

(* Mutant of ResponseTimeout: only a dead follower ends the wait. *)
TimeoutIfDown(v) ==
    /\ handler[v].status = "waiting"
    /\ ~ up[Target(v)]
    /\ Advance(v, FALSE)
    /\ UNCHANGED <<leadershipVars, up, replicaVars, calls, answers, crashes>>

(* The two seconds for the answer expire; the request may still arrive. *)
ResponseTimeout(v) ==
    /\ handler[v].status = "waiting"
    /\ Advance(v, FALSE)
    /\ UNCHANGED <<leadershipVars, up, replicaVars, calls, answers, crashes>>

(* The loop is over: R_PRODUCE is sent, whatever the number of acks. *)
Respond(v) ==
    /\ handler[v].status = "loop"
    /\ handler[v].pos > Len(ReplicaList)
    /\ handler' = [handler EXCEPT ![v].status = "answered"]
    /\ answers' = answers \cup {[record |-> v, at |-> handler[v].at,
                                 offset |-> handler[v].offset, acks |-> handler[v].acks]}
    /\ UNCHANGED <<leadershipVars, up, replicaVars, calls, crashes>>

-----------------------------------------------------------------------------
(* Mutants of IsNext: the gap check, or the duplicate check, is dropped. *)
NoGapCheck(m) == m.offset >= Len(log[m.to])

NoDuplicateCheck(m) == m.offset <= Len(log[m.to])

(* Mutant of Accepts: a gap is answered with 0, like success. *)
AcceptsGaps(m) == TRUE

(* The follower's apply_replica: an offset below the end of its log is      *)
(* accepted unseen, one beyond it is refused, the next one is appended. The *)
(* topic is not registered. Its answer reaches the handler if that still    *)
(* waits for it and the connection holds.                                   *)
IsNext(m) == m.offset = Len(log[m.to])

Accepts(m) == m.offset <= Len(log[m.to])

WaitsFor(m) ==
    /\ handler[m.record].status = "waiting"
    /\ Target(m.record) = m.to

apply_replica(m) ==
    /\ m \in calls
    /\ up[m.to]
    /\ calls' = calls \ {m}
    /\ IF IsNext(m)
       THEN AppendRecord(m.to, m.record)
       ELSE UNCHANGED <<log, file>>
    /\ \/ WaitsFor(m) /\ Advance(m.record, Accepts(m))
       \/ UNCHANGED handler
    /\ UNCHANGED <<leadershipVars, up, registered, answers, crashes>>

-----------------------------------------------------------------------------
(* The process dies: its handlers and the requests it had not read are lost, *)
(* requests it had sent are not.                                             *)
Crash(b) ==
    /\ up[b]
    /\ crashes < MaxCrashes
    /\ up' = [up EXCEPT ![b] = FALSE]
    /\ crashes' = crashes + 1
    /\ calls' = {m \in calls : m.to # b}
    /\ handler' = [v \in Request |->
          IF handler[v].at = b /\ handler[v].status \in {"loop", "waiting"}
          THEN [handler[v] EXCEPT !.status = "lost"]
          ELSE handler[v]]
    /\ UNCHANGED <<leadershipVars, replicaVars, answers>>

(* Broker::open and load_logs: only the logs of registered topics are read. *)
Restart(b) ==
    /\ ~ up[b]
    /\ up' = [up EXCEPT ![b] = TRUE]
    /\ log' = [log EXCEPT ![b] = IF b \in registered THEN file[b] ELSE <<>>]
    /\ UNCHANGED <<leadershipVars, file, registered, handler, calls, answers, crashes>>

(* The control plane, of which running brokers take part. *)
ElectLeader(r) ==
    /\ up[Controller]
    /\ Current < MaxElections
    /\ Elect(r)
    /\ UNCHANGED <<up, replicaVars, handler, calls, answers, crashes>>

LearnLeader(b) ==
    /\ up[b]
    /\ Learn(b)
    /\ UNCHANGED <<up, replicaVars, handler, calls, answers, crashes>>

HandlerStep(v) ==
    \/ CountSelf(v) \/ send_replicate(v) \/ ConnectFails(v)
    \/ ResponseTimeout(v) \/ Respond(v)

Next ==
    \/ \E b \in Broker, v \in Request : append_log(b, v)
    \/ \E v \in Request : HandlerStep(v)
    \/ \E m \in calls : apply_replica(m)
    \/ \E b \in Broker : Crash(b) \/ Restart(b) \/ LearnLeader(b)
    \/ \E r \in Replica : ElectLeader(r)

Spec == Init /\ [][Next]_vars

-----------------------------------------------------------------------------
(* Fairness: tokio runs every ready task, both timeouts expire, and a        *)
(* request that reached a running broker is served. Clients, crashes and     *)
(* elections are not forced.                                                 *)
Fairness ==
    /\ \A v \in Request : WF_vars(HandlerStep(v))
    /\ \A b \in Broker : WF_vars(\E m \in calls : m.to = b /\ apply_replica(m))

FairSpec == Spec /\ Fairness

-----------------------------------------------------------------------------
TypeOK ==
    /\ elected \in Seq(Replica)
    /\ belief \in [Broker -> Assignment]
    /\ up \in [Broker -> BOOLEAN]
    /\ log \in [Broker -> Seq(Request)]
    /\ file \in [Broker -> Seq(Request)]
    /\ registered \in SUBSET Broker
    /\ handler \in [Request -> Handler]
    /\ calls \in SUBSET Call
    /\ answers \in SUBSET Answer
    /\ crashes \in Nat

Holds(l, offset, v) == offset + 1 \in 1 .. Len(l) /\ l[offset + 1] = v

(* A record has one offset: wherever it is stored it is at the offset its    *)
(* producer was told, and so at most once in each log, through stale         *)
(* leaders, failovers, late REPLICATEs and restarts (append_log,             *)
(* apply_replica, load_logs), where the topic was created on every broker.   *)
RecordHasOneOffset ==
    \A b \in Broker : \A i \in 1 .. Len(log[b]) : handler[log[b][i]].offset = i - 1

(* The broker that answered R_PRODUCE keeps the record at that offset, also  *)
(* after it is deposed and after it restarts.                                *)
AnsweredIsKept ==
    \A a \in answers : Holds(log[a.at], a.offset, a.record)

(* Until the first failover, whatever order REPLICATEs arrive in and however *)
(* many of them are lost, every replica holds a prefix of the leader's log.  *)
FollowersArePrefixes ==
    Current = 1 =>
        \A b \in Broker :
            /\ Len(log[b]) <= Len(log[SeedLeader])
            /\ \A i \in 1 .. Len(log[b]) : log[b][i] = log[SeedLeader][i]

(* Until the first failover, an acknowledgement counted by                   *)
(* replicate_to_followers is a copy: apply_replica never answers 0 for a     *)
(* record the follower does not hold.                                        *)
AcksAreCopies ==
    Current = 1 =>
        \A a \in answers :
            Cardinality({b \in Broker : Holds(log[b], a.offset, a.record)}) >= a.acks

(* Every produce request is answered, or its broker crashed: no follower,    *)
(* slow, dead or diverged, blocks the handler for ever.                      *)
ProduceAnswered ==
    \A v \in Request :
        handler[v].status \in {"loop", "waiting"} ~> handler[v].status \in {"answered", "lost"}

-----------------------------------------------------------------------------
(* What the documentation says and the code does not do. *)

(* docs/protocol.md on DMQ_ACKS=all: "Ack only when `min_insync_replicas`    *)
(* followers replicate" (runner.rs answers whatever the number of acks).     *)
AckedByMinInsync == \A a \in answers : a.acks >= MinInsync

(* docs/roadmap.md: "Survive a broker failure without data loss"; a record   *)
(* acknowledged by min_insync_replicas brokers is in the log of whichever    *)
(* leader the controller elects.                                             *)
InsyncRecordsSurvive ==
    \A a \in answers :
        a.acks >= MinInsync => Holds(log[elected[Current]], a.offset, a.record)
=============================================================================
