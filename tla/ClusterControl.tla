--------------------------- MODULE ClusterControl ---------------------------
(***************************************************************************)
(* The control plane: the embedded controller's heartbeats and failover    *)
(* (dmq-core cluster_state.rs, broker.rs), the background task by which    *)
(* every other broker heartbeats and copies the controller's metadata      *)
(* (runner.rs), and the cluster_state.dat file each broker restarts from.  *)
(*                                                                         *)
(* Times are kept as ages: age[b] is now_ms() minus the controller's       *)
(* last-seen time of b, capped just above the timeout, since the code only *)
(* ever asks whether that difference exceeds the timeout.                  *)
(***************************************************************************)
EXTENDS Integers, Sequences, FiniteSets

CONSTANTS
    Broker,            \* broker ids of the cluster file
    Controller,        \* lowest id, or DMQ_CONTROLLER_ID
    Partition,         \* topic-partitions of the cluster file
    Replicas,          \* Replicas[p]: replica list of p, in file order
    SeedLeader,        \* SeedLeader[p]: leader of p in the cluster file
    HeartbeatTimeout,  \* heartbeat_timeout_ms, in clock ticks
    Timely,            \* no heartbeat of a running broker is late
    DiskFaults,        \* storing cluster_state.dat may fail
    Crashable,         \* brokers that may crash
    MaxCrashes,        \* bound: crashes of one broker
    Started,           \* brokers running in the initial state
    MaxEpoch           \* bound: leader epochs

ASSUME ClusterAssumption ==
    /\ Controller \in Broker
    /\ Replicas \in [Partition -> Seq(Broker)]
    /\ SeedLeader \in [Partition -> Broker]
    /\ \A p \in Partition :
          \E i \in 1 .. Len(Replicas[p]) : Replicas[p][i] = SeedLeader[p]
    /\ HeartbeatTimeout \in Nat
    /\ Timely \in BOOLEAN
    /\ DiskFaults \in BOOLEAN
    /\ Crashable \subseteq Broker
    /\ MaxCrashes \in Nat
    /\ Controller \in Started /\ Started \subseteq Broker
    /\ MaxEpoch \in Nat

VARIABLES
    up,       \* up[b]: b's process runs
    state,    \* state[b]: Broker.cluster_state.assignments of b
    view,     \* view[b][p]: leader of p in Broker.cluster, which b acts on
    disk,     \* disk[b]: the assignments in b's cluster_state.dat
    torn,     \* brokers whose cluster_state.dat does not decode
    age,      \* age of the controller's broker_last_seen_ms entries
    diskAge,  \* the same for the entries in the controller's file
    task,     \* task[b]: where b's run_cluster_background stands
    reply,    \* reply[b]: R_GET_CLUSTER read by b and not applied yet
    beats,    \* BROKER_HEARTBEAT requests on their way, by sender
    late,     \* the same, of a sender that crashed after sending
    crashes,  \* crashes[b]: crashes of b so far
    elected   \* history: elected[p][e] is the leader of p in epoch e

metadata == <<state, view, disk, torn, elected>>
times    == <<age, diskAge>>
network  == <<task, reply, beats, late>>
faults   == <<up, crashes>>
vars     == <<metadata, times, network, faults>>

-----------------------------------------------------------------------------
LiveAssignment == [leader : Broker, epoch : Nat]
Assignments    == [Partition -> LiveAssignment]
Age            == 0 .. HeartbeatTimeout + 1
TaskStep       == {"idle", "heartbeat", "fetch", "apply"}

(* ClusterState::from_seed *)
from_seed == [p \in Partition |-> [leader |-> SeedLeader[p], epoch |-> 1]]

Leaders(asg) == [p \in Partition |-> asg[p].leader]

ReplicaSet(p) == {Replicas[p][i] : i \in 1 .. Len(Replicas[p])}

(* Mutant of broker_alive: the timeout is off by one. *)
alive_strictly(ages, b) == ages[b] < HeartbeatTimeout

broker_alive(ages, b) == ages[b] <= HeartbeatTimeout

(* Indices of the replica list that failover may promote. *)
Candidates(p, leader, ages) ==
    {i \in 1 .. Len(Replicas[p]) :
        Replicas[p][i] # leader /\ broker_alive(ages, Replicas[p][i])}

(* Partitions whose leader is dead while another replica is alive. *)
Failing(asg, ages) ==
    {p \in Partition :
        /\ ~ broker_alive(ages, asg[p].leader)
        /\ Candidates(p, asg[p].leader, ages) # {}}

(* Mutant of Promoted: the position of the replica is taken for its id. *)
PromotedPosition(p, leader, ages) ==
    LET C == Candidates(p, leader, ages)
    IN  (CHOOSE i \in C : \A j \in C : i <= j) - 1

Promoted(p, leader, ages) ==
    LET C == Candidates(p, leader, ages)
    IN  Replicas[p][CHOOSE i \in C : \A j \in C : i <= j]

(* Mutant of failover_dead_leaders: the new leader keeps the old epoch. *)
failover_same_epoch(asg, ages) ==
    [p \in Partition |->
        IF p \in Failing(asg, ages)
        THEN [asg[p] EXCEPT !.leader = Promoted(p, asg[p].leader, ages)]
        ELSE asg[p]]

failover_dead_leaders(asg, ages) ==
    [p \in Partition |->
        IF p \in Failing(asg, ages)
        THEN [leader |-> Promoted(p, asg[p].leader, ages),
              epoch  |-> asg[p].epoch + 1]
        ELSE asg[p]]

(* How the history of elections grows when the controller fails over. *)
Elections(asg, ages) ==
    [p \in Partition |->
        IF p \in Failing(asg, ages)
        THEN Append(elected[p], Promoted(p, asg[p].leader, ages))
        ELSE elected[p]]

-----------------------------------------------------------------------------
(* Every broker bootstraps from the same cluster file; some brokers may not *)
(* have been started yet when the controller bootstraps.                    *)
Init ==
    /\ up = [b \in Broker |-> b \in Started]
    /\ state = [b \in Broker |-> from_seed]
    /\ view = [b \in Broker |-> Leaders(from_seed)]
    /\ disk = [b \in Broker |-> from_seed]
    /\ torn = {}
    /\ age = [b \in Broker |-> 0]
    /\ diskAge = [b \in Broker |-> 0]
    /\ task = [b \in Broker |-> "idle"]
    /\ reply = [b \in Broker |-> from_seed]
    /\ beats = {}
    /\ late = {}
    /\ crashes = [b \in Broker |-> 0]
    /\ elected = [p \in Partition |-> <<SeedLeader[p]>>]

(* Ages past the timeout are all alike. *)
Older(ages) == [b \in Broker |-> IF ages[b] > HeartbeatTimeout
                                 THEN ages[b] ELSE ages[b] + 1]

(* One tick of the wall clock. In a timely cluster a running broker gets a *)
(* heartbeat through before its age can reach the timeout.                 *)
Tick ==
    /\ Timely /\ up[Controller]
          => \A b \in Broker : up[b] => age[b] < HeartbeatTimeout
    /\ age' = Older(age)
    /\ diskAge' = Older(diskAge)
    /\ UNCHANGED <<metadata, network, faults>>

-----------------------------------------------------------------------------
(* Mutant of Stored: the view is synchronised and nothing is written. *)
SyncedOnly(asg, ages) ==
    /\ view' = [view EXCEPT ![Controller] = Leaders(asg)]
    /\ UNCHANGED <<disk, torn, diskAge>>

(* Mutant of StoreFailed: the view is synchronised although storing failed. *)
SyncedAfterFailure ==
    /\ DiskFaults
    /\ torn' \in {torn, torn \cup {Controller}}
    /\ view' = [view EXCEPT ![Controller] = Leaders(state'[Controller])]
    /\ UNCHANGED <<disk, diskAge>>

(* Controller.  Both handlers end with ClusterState::store, which writes the *)
(* file (Stored), and sync_cluster_view; when the store fails (StoreFailed)  *)
(* they return early, with the new assignments in memory, the view old and   *)
(* the file old or truncated.                                                *)
Stored(asg, ages) ==
    /\ disk' = [disk EXCEPT ![Controller] = asg]
    /\ torn' = torn \ {Controller}
    /\ diskAge' = ages
    /\ view' = [view EXCEPT ![Controller] = Leaders(asg)]

StoreFailed ==
    /\ DiskFaults
    /\ torn' \in {torn, torn \cup {Controller}}
    /\ UNCHANGED <<disk, diskAge, view>>

FailOver(asg, ages) ==
    /\ \A p \in Partition : asg[p].epoch <= MaxEpoch
    /\ state' = [state EXCEPT ![Controller] = asg]
    /\ age' = ages
    /\ elected' = Elections(state[Controller], ages)

(* handle_broker_heartbeat: record the sender, fail over, always store. *)
handle_broker_heartbeat(b) ==
    LET ages == [age EXCEPT ![b] = 0]
        asg  == failover_dead_leaders(state[Controller], ages)
    IN  /\ up[Controller]
        /\ FailOver(asg, ages)
        /\ \/ Stored(asg, ages)
           \/ StoreFailed
        /\ UNCHANGED <<task, reply, faults>>

DeliverHeartbeat(b) ==
    /\ b \in beats
    /\ beats' = beats \ {b}
    /\ handle_broker_heartbeat(b)
    /\ UNCHANGED late

DeliverLateHeartbeat(b) ==
    /\ b \in late
    /\ late' = late \ {b}
    /\ handle_broker_heartbeat(b)
    /\ UNCHANGED beats

(* controller_tick and run_failover_at: record itself, fail over, and store *)
(* only when some assignment changed.                                       *)
controller_tick ==
    LET ages == [age EXCEPT ![Controller] = 0]
        asg  == failover_dead_leaders(state[Controller], ages)
    IN  /\ up[Controller]
        /\ FailOver(asg, ages)
        /\ \/ asg = state[Controller] /\ UNCHANGED <<disk, torn, diskAge, view>>
           \/ asg # state[Controller] /\ Stored(asg, ages)
           \/ asg # state[Controller] /\ StoreFailed
        /\ UNCHANGED <<network, faults>>

-----------------------------------------------------------------------------
(* run_cluster_background of a broker that is not the controller: send a    *)
(* heartbeat, then fetch the controller's metadata, then apply it; an error *)
(* in one part is logged and the loop goes on.                              *)
Background(b, from, to) ==
    /\ b # Controller
    /\ up[b]
    /\ task[b] = from
    /\ task' = [task EXCEPT ![b] = to]
    /\ UNCHANGED <<times, faults, late>>

send_broker_heartbeat(b) ==
    /\ up[Controller]
    /\ Background(b, "idle", "heartbeat")
    /\ beats' = beats \cup {b}
    /\ UNCHANGED <<metadata, reply>>

(* The controller is unreachable, or the request is lost with its socket. *)
HeartbeatFails(b) ==
    /\ \E from \in {"idle", "heartbeat"} : Background(b, from, "fetch")
    /\ beats' = beats \ {b}
    /\ UNCHANGED <<metadata, reply>>

HeartbeatAnswered(b) ==
    /\ b \notin beats
    /\ Background(b, "heartbeat", "fetch")
    /\ UNCHANGED <<metadata, reply, beats>>

(* Mutant of FetchCluster: GET_CLUSTER is answered from the view, which has *)
(* no epochs.                                                               *)
FetchView(b) ==
    /\ up[Controller]
    /\ Background(b, "fetch", "apply")
    /\ reply' = [reply EXCEPT ![b] =
          [p \in Partition |-> [leader |-> view[Controller][p], epoch |-> 1]]]
    /\ UNCHANGED <<metadata, beats>>

(* GET_CLUSTER is answered from cluster_state, under the broker lock. *)
FetchCluster(b) ==
    /\ up[Controller]
    /\ Background(b, "fetch", "apply")
    /\ reply' = [reply EXCEPT ![b] = state[Controller]]
    /\ UNCHANGED <<metadata, beats>>

FetchFails(b) ==
    /\ Background(b, "fetch", "idle")
    /\ UNCHANGED <<metadata, reply, beats>>

(* Mutant of apply_cluster_state: without the final sync_cluster_view. *)
apply_without_sync(b) ==
    /\ Background(b, "apply", "idle")
    /\ reply' = [reply EXCEPT ![b] = from_seed]
    /\ disk' = [disk EXCEPT ![b] = reply[b]]
    /\ torn' = torn \ {b}
    /\ state' = [state EXCEPT ![b] = reply[b]]
    /\ UNCHANGED <<view, elected, beats>>

(* apply_cluster_state: store first, so that a failed store changes nothing *)
(* in memory.                                                               *)
apply_cluster_state(b) ==
    /\ Background(b, "apply", "idle")
    /\ reply' = [reply EXCEPT ![b] = from_seed]
    /\ \/ /\ disk' = [disk EXCEPT ![b] = reply[b]]
          /\ torn' = torn \ {b}
          /\ state' = [state EXCEPT ![b] = reply[b]]
          /\ view' = [view EXCEPT ![b] = Leaders(reply[b])]
       \/ /\ DiskFaults
          /\ torn' \in {torn, torn \cup {b}}
          /\ UNCHANGED <<disk, state, view>>
    /\ UNCHANGED <<elected, beats>>

-----------------------------------------------------------------------------
(* The process dies: its sockets and tasks are gone, its file stays. A      *)
(* request it had sent may still be delivered; requests to a dead           *)
(* controller are not.                                                      *)
Crash(b) ==
    /\ b \in Crashable
    /\ up[b]
    /\ crashes[b] < MaxCrashes
    /\ up' = [up EXCEPT ![b] = FALSE]
    /\ crashes' = [crashes EXCEPT ![b] = @ + 1]
    /\ task' = [task EXCEPT ![b] = "idle"]
    /\ reply' = [reply EXCEPT ![b] = from_seed]
    /\ IF b = Controller
       THEN beats' = {} /\ late' = {}
       ELSE beats' = beats \ {b} /\ late' = late \cup (beats \cap {b})
    /\ UNCHANGED <<metadata, times>>

(* Broker::open: loads cluster_state.dat, and fails when it does not decode. *)
Restart(b) ==
    /\ ~ up[b]
    /\ b \notin torn
    /\ up' = [up EXCEPT ![b] = TRUE]
    /\ state' = [state EXCEPT ![b] = disk[b]]
    /\ view' = [view EXCEPT ![b] = Leaders(disk[b])]
    /\ age' = IF b = Controller THEN diskAge ELSE age
    /\ UNCHANGED <<disk, torn, elected, diskAge, network, crashes>>

Next ==
    \/ Tick
    \/ controller_tick
    \/ \E b \in Broker :
          \/ DeliverHeartbeat(b)
          \/ DeliverLateHeartbeat(b)
          \/ send_broker_heartbeat(b)
          \/ HeartbeatFails(b)
          \/ HeartbeatAnswered(b)
          \/ FetchCluster(b)
          \/ FetchFails(b)
          \/ apply_cluster_state(b)
          \/ Crash(b)
          \/ Restart(b)

Spec == Init /\ [][Next]_vars

-----------------------------------------------------------------------------
(* Fairness.  The tokio scheduler runs every ready task and the background   *)
(* loop retries for ever; that a connection attempted again and again        *)
(* succeeds again and again is an assumption on the network.                 *)
BackgroundStep(b) ==
    \/ send_broker_heartbeat(b) \/ HeartbeatFails(b) \/ HeartbeatAnswered(b)
    \/ FetchCluster(b) \/ FetchFails(b) \/ apply_cluster_state(b)

Fairness ==
    /\ WF_vars(Tick)
    /\ WF_vars(controller_tick)
    /\ \A b \in Broker \ {Controller} :
          /\ WF_vars(BackgroundStep(b))
          /\ WF_vars(DeliverLateHeartbeat(b))
          /\ SF_vars(send_broker_heartbeat(b))
          /\ SF_vars(DeliverHeartbeat(b))
          /\ SF_vars(FetchCluster(b))

FairSpec == Spec /\ Fairness

-----------------------------------------------------------------------------
TypeOK ==
    /\ up \in [Broker -> BOOLEAN]
    /\ state \in [Broker -> Assignments]
    /\ view \in [Broker -> [Partition -> Broker]]
    /\ disk \in [Broker -> Assignments]
    /\ torn \in SUBSET Broker
    /\ age \in [Broker -> Age]
    /\ diskAge \in [Broker -> Age]
    /\ task \in [Broker -> TaskStep]
    /\ reply \in [Broker -> Assignments]
    /\ beats \in SUBSET Broker
    /\ late \in SUBSET Broker
    /\ crashes \in [Broker -> Nat]
    /\ elected \in [Partition -> Seq(Broker)]

(* Every copy of the metadata, wherever it is: in a broker's memory, in its  *)
(* file, or in an answer of the controller that is still to be applied.      *)
Copies == {state[b] : b \in Broker} \cup {disk[b] : b \in Broker}
             \cup {reply[b] : b \in Broker}

(* An epoch identifies its leader: two copies of the metadata, however old,  *)
(* that show the same leader epoch for a partition show the same leader      *)
(* (cluster_state.rs failover_dead_leaders, broker.rs apply_cluster_state).  *)
EpochHasOneLeader ==
    \A x, y \in Copies : \A p \in Partition :
        x[p].epoch = y[p].epoch => x[p].leader = y[p].leader

(* A broker never goes back to an older leader: neither a late GET_CLUSTER   *)
(* answer, nor a crash and restart, lowers the epoch it knows, although      *)
(* apply_cluster_state does not compare epochs.                              *)
EpochsNeverRegress ==
    [][\A b \in Broker, p \in Partition :
          state'[b][p].epoch >= state[b][p].epoch]_vars

(* A broker acts only on leadership that is in its file: a store that fails  *)
(* never leaves it acting on assignments a restart would forget (store comes *)
(* before sync_cluster_view and before the assignment to cluster_state).     *)
ActsOnStoredLeaders ==
    \A b \in Broker \ torn : view[b] = Leaders(disk[b])

(* In a timely cluster a leader is deposed only if it crashed, or had not    *)
(* been started: no interleaving of ticks, heartbeats and failover checks    *)
(* demotes a leader that kept running.                                       *)
OnlyFailedLeadersDeposed ==
    \A p \in Partition : \A e \in 1 .. Len(elected[p]) - 1 :
        \/ crashes[elected[p][e]] > 0
        \/ elected[p][e] \notin Started

(* Once crashes stop, every running broker ends up routing each partition to *)
(* the same, running, leader (runner.rs run_cluster_background).             *)
LeadersRecover ==
    <>[](\A b, c \in Broker, p \in Partition :
            up[b] /\ up[c] => up[view[b][p]] /\ view[b][p] = view[c][p])

-----------------------------------------------------------------------------
(* The control plane implements Leadership.tla for every partition, as long  *)
(* as cluster_state.dat can be written. The formula is the conjunction of    *)
(* L(p)!LSpec over the partitions, with the quantifier moved inward.         *)
L(p) == INSTANCE Leadership WITH
            Replica    <- ReplicaSet(p),
            SeedLeader <- SeedLeader[p],
            elected    <- elected[p],
            belief     <- [b \in Broker |-> state[b][p]]

ImplementsLeadership ==
    /\ \A p \in Partition : L(p)!LInit
    /\ [][\A p \in Partition : [L(p)!LNext]_(L(p)!leadershipVars)]_vars
=============================================================================
