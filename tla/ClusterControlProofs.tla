------------------------ MODULE ClusterControlProofs ------------------------
(***************************************************************************)
(* Proofs about ClusterControl.tla, for every set of brokers, partitions   *)
(* and replica lists, every timeout and every bound.                       *)
(***************************************************************************)
EXTENDS ClusterControl, OrderFacts, TLAPS

-----------------------------------------------------------------------------
(* failover_dead_leaders promotes a replica of the partition other than the *)
(* dead leader.                                                             *)
LEMMA PromotedIsReplica ==
    ASSUME NEW p \in Partition, NEW leader, NEW ages,
           Candidates(p, leader, ages) # {}
    PROVE  /\ Promoted(p, leader, ages) \in ReplicaSet(p)
           /\ Promoted(p, leader, ages) \in Broker
           /\ Promoted(p, leader, ages) # leader
<1> DEFINE C == Candidates(p, leader, ages)
<1>1. Replicas[p] \in Seq(Broker)
  BY ClusterAssumption
<1>2. C \in SUBSET Nat /\ \A i \in C : i \in 1 .. Len(Replicas[p]) /\ Replicas[p][i] # leader
  BY <1>1 DEF Candidates
<1>3. \E i \in C : \A j \in C : i <= j
  BY <1>2, NatMin
<1>4. PICK i \in C : Promoted(p, leader, ages) = Replicas[p][i]
  BY <1>3 DEF Promoted
<1> QED
  BY <1>1, <1>2, <1>4 DEF ReplicaSet

LEMMA FailoverType ==
    ASSUME NEW asg \in Assignments, NEW ages
    PROVE  failover_dead_leaders(asg, ages) \in Assignments
<1>1. ASSUME NEW p \in Failing(asg, ages)
      PROVE  Promoted(p, asg[p].leader, ages) \in Broker
  BY PromotedIsReplica DEF Failing
<1> QED
  BY <1>1 DEF failover_dead_leaders, Assignments, LiveAssignment, Failing

LEMMA ElectionsType ==
    ASSUME NEW asg \in Assignments, NEW ages, elected \in [Partition -> Seq(Broker)]
    PROVE  Elections(asg, ages) \in [Partition -> Seq(Broker)]
<1>1. ASSUME NEW p \in Failing(asg, ages)
      PROVE  Promoted(p, asg[p].leader, ages) \in Broker
  BY PromotedIsReplica DEF Failing
<1>2. ASSUME NEW p \in Failing(asg, ages)
      PROVE  Append(elected[p], Promoted(p, asg[p].leader, ages)) \in Seq(Broker)
  <2>1. elected[p] \in Seq(Broker)
    BY DEF Failing
  <2> QED
    BY <1>1, <2>1
<1> QED
  BY <1>2 DEF Elections

LEMMA SeedType == from_seed \in Assignments
BY ClusterAssumption DEF from_seed, Assignments, LiveAssignment

LEMMA LeadersType ==
    ASSUME NEW asg \in Assignments
    PROVE  Leaders(asg) \in [Partition -> Broker]
BY DEF Leaders, Assignments, LiveAssignment

-----------------------------------------------------------------------------
LEMMA HeartbeatType ==
    ASSUME TypeOK, NEW b \in Broker, handle_broker_heartbeat(b),
           beats' \in SUBSET Broker, late' \in SUBSET Broker
    PROVE  TypeOK'
<1> DEFINE ages == [age EXCEPT ![b] = 0]
           asg  == failover_dead_leaders(state[Controller], ages)
<1> USE ClusterAssumption
<1>1. state[Controller] \in Assignments
  BY DEF TypeOK
<1>2. ages \in [Broker -> Age]
  BY DEF TypeOK, Age
<1>3. asg \in Assignments /\ Leaders(asg) \in [Partition -> Broker]
  BY <1>1, FailoverType, LeadersType
<1>4. Elections(state[Controller], ages) \in [Partition -> Seq(Broker)]
  BY <1>1, ElectionsType DEF TypeOK
<1> HIDE DEF ages, asg
<1>5. /\ FailOver(asg, ages)
      /\ Stored(asg, ages) \/ StoreFailed
      /\ UNCHANGED <<task, reply, faults>>
  BY DEF handle_broker_heartbeat, ages, asg
<1>6. torn' \in SUBSET Broker
  BY <1>5 DEF TypeOK, Stored, StoreFailed
<1>7. /\ disk' \in [Broker -> Assignments]
      /\ diskAge' \in [Broker -> Age]
      /\ view' \in [Broker -> [Partition -> Broker]]
  <2>1. CASE Stored(asg, ages)
    <3>1. disk' \in [Broker -> Assignments] /\ diskAge' \in [Broker -> Age]
      BY <1>2, <1>3, <2>1 DEF TypeOK, Stored
    <3>2. view' \in [Broker -> [Partition -> Broker]]
      BY <1>3, <2>1 DEF TypeOK, Stored
    <3> QED
      BY <3>1, <3>2
  <2>2. CASE UNCHANGED <<disk, diskAge, view>>
    BY <2>2 DEF TypeOK
  <2> QED
    BY <1>5, <2>1, <2>2 DEF StoreFailed
<1> QED
  BY <1>2, <1>3, <1>4, <1>5, <1>6, <1>7 DEF TypeOK, FailOver, faults

LEMMA TickType ==
    ASSUME TypeOK, controller_tick
    PROVE  TypeOK'
<1> DEFINE ages == [age EXCEPT ![Controller] = 0]
           asg  == failover_dead_leaders(state[Controller], ages)
<1> USE ClusterAssumption
<1>1. state[Controller] \in Assignments
  BY DEF TypeOK
<1>2. ages \in [Broker -> Age]
  BY DEF TypeOK, Age
<1>3. asg \in Assignments /\ Leaders(asg) \in [Partition -> Broker]
  BY <1>1, FailoverType, LeadersType
<1>4. Elections(state[Controller], ages) \in [Partition -> Seq(Broker)]
  BY <1>1, ElectionsType DEF TypeOK
<1> HIDE DEF ages, asg
<1>5. /\ FailOver(asg, ages)
      /\ \/ UNCHANGED <<disk, torn, diskAge, view>>
         \/ Stored(asg, ages)
         \/ StoreFailed
      /\ UNCHANGED <<network, faults>>
  BY DEF controller_tick, ages, asg
<1>6. torn' \in SUBSET Broker
  BY <1>5 DEF TypeOK, Stored, StoreFailed
<1>7. /\ disk' \in [Broker -> Assignments]
      /\ diskAge' \in [Broker -> Age]
      /\ view' \in [Broker -> [Partition -> Broker]]
  <2>1. CASE Stored(asg, ages)
    <3>1. disk' \in [Broker -> Assignments] /\ diskAge' \in [Broker -> Age]
      BY <1>2, <1>3, <2>1 DEF TypeOK, Stored
    <3>2. view' \in [Broker -> [Partition -> Broker]]
      BY <1>3, <2>1 DEF TypeOK, Stored
    <3> QED
      BY <3>1, <3>2
  <2>2. CASE UNCHANGED <<disk, diskAge, view>>
    BY <2>2 DEF TypeOK
  <2> QED
    BY <1>5, <2>1, <2>2 DEF StoreFailed
<1> QED
  BY <1>2, <1>3, <1>4, <1>5, <1>6, <1>7 DEF TypeOK, FailOver, faults, network

LEMMA BackgroundType ==
    ASSUME TypeOK, NEW b \in Broker, BackgroundStep(b)
    PROVE  TypeOK'
<1> USE ClusterAssumption, SeedType DEF Background, metadata, times, faults, TaskStep
<1>1. CASE send_broker_heartbeat(b)
  BY <1>1 DEF TypeOK, send_broker_heartbeat
<1>2. CASE HeartbeatFails(b)
  BY <1>2 DEF TypeOK, HeartbeatFails
<1>3. CASE HeartbeatAnswered(b)
  BY <1>3 DEF TypeOK, HeartbeatAnswered
<1>4. CASE FetchCluster(b)
  BY <1>4 DEF TypeOK, FetchCluster
<1>5. CASE FetchFails(b)
  BY <1>5 DEF TypeOK, FetchFails
<1>6. CASE apply_cluster_state(b)
  <2>1. reply[b] \in Assignments /\ Leaders(reply[b]) \in [Partition -> Broker]
    BY LeadersType DEF TypeOK
  <2>2. torn' \in SUBSET Broker
    BY <1>6 DEF TypeOK, apply_cluster_state
  <2>3. /\ disk' \in [Broker -> Assignments]
        /\ state' \in [Broker -> Assignments]
        /\ view' \in [Broker -> [Partition -> Broker]]
    <3>1. CASE UNCHANGED <<disk, state, view>>
      BY <3>1 DEF TypeOK
    <3>2. CASE /\ disk' = [disk EXCEPT ![b] = reply[b]]
               /\ state' = [state EXCEPT ![b] = reply[b]]
               /\ view' = [view EXCEPT ![b] = Leaders(reply[b])]
      <4>1. disk' \in [Broker -> Assignments] /\ state' \in [Broker -> Assignments]
        BY <2>1, <3>2 DEF TypeOK
      <4>2. view' \in [Broker -> [Partition -> Broker]]
        BY <2>1, <3>2 DEF TypeOK
      <4> QED
        BY <4>1, <4>2
    <3> QED
      BY <1>6, <3>1, <3>2 DEF apply_cluster_state
  <2> QED
    BY <1>6, <2>2, <2>3 DEF TypeOK, apply_cluster_state
<1> QED
  BY <1>1, <1>2, <1>3, <1>4, <1>5, <1>6 DEF BackgroundStep

(* Type correctness: whatever the interleaving of heartbeats, metadata      *)
(* copies, failed stores, crashes and restarts, the control plane's state   *)
(* keeps its types; in particular failover always ends in a broker.         *)
THEOREM TypeCorrect == Spec => []TypeOK
<1>1. Init => TypeOK
  <2> SUFFICES ASSUME Init PROVE TypeOK
    OBVIOUS
  <2>1. from_seed \in Assignments /\ Leaders(from_seed) \in [Partition -> Broker]
    BY SeedType, LeadersType
  <2>2. \A p \in Partition : <<SeedLeader[p]>> \in Seq(Broker)
    BY ClusterAssumption
  <2> QED
    BY <2>1, <2>2, ClusterAssumption DEF Init, TypeOK, Age, TaskStep
<1>2. TypeOK /\ [Next]_vars => TypeOK'
  <2> SUFFICES ASSUME TypeOK, [Next]_vars PROVE TypeOK'
    OBVIOUS
  <2>1. CASE Tick
    BY <2>1, ClusterAssumption DEF TypeOK, Tick, Older, Age, metadata, network, faults
  <2>2. CASE controller_tick
    BY <2>2, TickType
  <2>3. ASSUME NEW b \in Broker, DeliverHeartbeat(b) PROVE TypeOK'
    BY <2>3, HeartbeatType DEF DeliverHeartbeat, TypeOK
  <2>4. ASSUME NEW b \in Broker, DeliverLateHeartbeat(b) PROVE TypeOK'
    BY <2>4, HeartbeatType DEF DeliverLateHeartbeat, TypeOK
  <2>5. ASSUME NEW b \in Broker, BackgroundStep(b) PROVE TypeOK'
    BY <2>5, BackgroundType
  <2>6. ASSUME NEW b \in Broker, Crash(b) PROVE TypeOK'
    BY <2>6, SeedType DEF TypeOK, Crash, TaskStep, metadata, times
  <2>7. ASSUME NEW b \in Broker, Restart(b) PROVE TypeOK'
    <3>1. disk[b] \in Assignments /\ Leaders(disk[b]) \in [Partition -> Broker]
      BY LeadersType DEF TypeOK
    <3> QED
      BY <2>7, <3>1 DEF TypeOK, Restart, network
  <2>8. CASE UNCHANGED vars
    BY <2>8 DEF TypeOK, vars, metadata, times, network, faults
  <2> QED
    BY <2>1, <2>2, <2>3, <2>4, <2>5, <2>6, <2>7, <2>8 DEF Next, BackgroundStep
<1> QED
  BY <1>1, <1>2, PTL DEF Spec
-----------------------------------------------------------------------------
(* The inductive invariant behind the leadership properties, which needs    *)
(* that stores succeed. EpochHasOneLeader alone is not inductive: that a    *)
(* new epoch is fresh follows only because the controller's epoch is the    *)
(* largest anywhere, a restart preserves it only because the file equals    *)
(* the memory, and an applied answer is no older than what it overwrites.   *)
ShowsElection(x, p) ==
    /\ x[p].epoch \in 1 .. Len(elected[p])
    /\ x[p].leader = elected[p][x[p].epoch]

FileIsMemory == \A b \in Broker : disk[b] = state[b]

ControllerIsCurrent ==
    \A p \in Partition :
        /\ Len(elected[p]) = state[Controller][p].epoch
        /\ elected[p][1] = SeedLeader[p]

CopiesShowElections ==
    \A b \in Broker, p \in Partition :
        ShowsElection(state[b], p) /\ ShowsElection(reply[b], p)

AnswersAreFresh ==
    \A b \in Broker \ {Controller}, p \in Partition :
        task[b] = "apply" => reply[b][p].epoch >= state[b][p].epoch

MetadataInv ==
    /\ FileIsMemory
    /\ ControllerIsCurrent
    /\ CopiesShowElections
    /\ AnswersAreFresh

(* The effect of a controller handler on the metadata: each partition keeps *)
(* its leader or gets a new one under the next epoch.                       *)
Keeps(p) ==
    /\ elected'[p] = elected[p]
    /\ state'[Controller][p] = state[Controller][p]

Elects(p) ==
    \E r \in ReplicaSet(p) \ {elected[p][Len(elected[p])]} :
        /\ r \in Broker
        /\ elected'[p] = Append(elected[p], r)
        /\ state'[Controller][p] = [leader |-> r, epoch |-> Len(elected[p]) + 1]

ControllerStep ==
    /\ \A p \in Partition : Keeps(p) \/ Elects(p)
    /\ \A b \in Broker \ {Controller} : state'[b] = state[b] /\ disk'[b] = disk[b]
    /\ disk'[Controller] = state'[Controller]
    /\ UNCHANGED <<task, reply>>

LEMMA FailOverElects ==
    ASSUME TypeOK, MetadataInv, NEW ages,
           FailOver(failover_dead_leaders(state[Controller], ages), ages)
    PROVE  /\ \A p \in Partition : Keeps(p) \/ Elects(p)
           /\ \A b \in Broker \ {Controller} : state'[b] = state[b]
<1> DEFINE cur == state[Controller]
           asg == failover_dead_leaders(cur, ages)
<1>1. Controller \in Broker /\ cur \in Assignments
  BY ClusterAssumption DEF TypeOK
<1>2. state' = [state EXCEPT ![Controller] = asg]
  BY DEF FailOver
<1>3. state'[Controller] = asg /\ \A b \in Broker \ {Controller} : state'[b] = state[b]
  BY <1>1, <1>2 DEF TypeOK
<1>4. elected' = Elections(cur, ages)
  BY DEF FailOver
<1>5. ASSUME NEW p \in Partition, p \notin Failing(cur, ages) PROVE Keeps(p)
  BY <1>3, <1>4, <1>5 DEF Keeps, Elections, failover_dead_leaders
<1>6. ASSUME NEW p \in Partition, p \in Failing(cur, ages) PROVE Elects(p)
  <2> DEFINE r == Promoted(p, cur[p].leader, ages)
  <2>1. r \in ReplicaSet(p) /\ r \in Broker /\ r # cur[p].leader
    BY <1>6, PromotedIsReplica DEF Failing
  <2>2. Len(elected[p]) = cur[p].epoch /\ elected[p][Len(elected[p])] = cur[p].leader
    BY <1>1 DEF MetadataInv, ControllerIsCurrent, CopiesShowElections, ShowsElection
  <2>3. asg[p] = [leader |-> r, epoch |-> cur[p].epoch + 1]
    BY <1>6 DEF failover_dead_leaders
  <2>4. elected'[p] = Append(elected[p], r)
    BY <1>4, <1>6 DEF Elections
  <2> HIDE DEF r, asg
  <2> QED
    BY <1>3, <2>1, <2>2, <2>3, <2>4 DEF Elects
<1> QED
  BY <1>3, <1>5, <1>6

LEMMA ControllerSteps ==
    ASSUME TypeOK, MetadataInv, DiskFaults = FALSE,
           controller_tick \/ \E b \in Broker : handle_broker_heartbeat(b)
    PROVE  ControllerStep
<1>1. PICK ages : LET asg == failover_dead_leaders(state[Controller], ages)
                  IN  /\ FailOver(asg, ages)
                      /\ \/ Stored(asg, ages)
                         \/ asg = state[Controller] /\ UNCHANGED disk
                      /\ UNCHANGED <<task, reply>>
  <2>1. CASE controller_tick
    BY <2>1 DEF controller_tick, StoreFailed, network
  <2>2. ASSUME NEW b \in Broker, handle_broker_heartbeat(b)
        PROVE  LET ages == [age EXCEPT ![b] = 0]
                   asg  == failover_dead_leaders(state[Controller], ages)
               IN  FailOver(asg, ages) /\ Stored(asg, ages) /\ UNCHANGED <<task, reply>>
    BY <2>2 DEF handle_broker_heartbeat, StoreFailed
  <2> QED
    BY <2>1, <2>2
<1> DEFINE asg == failover_dead_leaders(state[Controller], ages)
<1>2. /\ \A p \in Partition : Keeps(p) \/ Elects(p)
      /\ \A b \in Broker \ {Controller} : state'[b] = state[b]
  BY <1>1, FailOverElects
<1>3. Controller \in Broker /\ state'[Controller] = asg
  BY <1>1, ClusterAssumption DEF FailOver, TypeOK
<1> HIDE DEF asg
<1>4. disk'[Controller] = state'[Controller]
  <2>1. CASE Stored(asg, ages)
    BY <2>1, <1>3 DEF Stored, TypeOK
  <2>2. CASE asg = state[Controller] /\ UNCHANGED disk
    BY <2>2, <1>3 DEF MetadataInv, FileIsMemory
  <2> QED
    BY <1>1, <2>1, <2>2 DEF asg
<1>5. \A b \in Broker \ {Controller} : disk'[b] = disk[b]
  BY <1>1 DEF Stored, TypeOK
<1> QED
  BY <1>1, <1>2, <1>4, <1>5 DEF ControllerStep

(* What was an election stays one: the history only grows. *)
LEMMA ElectionsStay ==
    ASSUME TypeOK, NEW p \in Partition, Keeps(p) \/ Elects(p), NEW x \in Assignments,
           ShowsElection(x, p)
    PROVE  ShowsElection(x, p)'
<1>1. elected[p] \in Seq(Broker)
  BY DEF TypeOK
<1>2. CASE Keeps(p)
  BY <1>2 DEF Keeps, ShowsElection
<1>3. CASE Elects(p)
  <2>1. PICK r \in Broker : elected'[p] = Append(elected[p], r)
    BY <1>3 DEF Elects
  <2>2. /\ Len(elected'[p]) = Len(elected[p]) + 1
        /\ \A e \in 1 .. Len(elected[p]) : elected'[p][e] = elected[p][e]
    BY <1>1, <2>1
  <2>3. Len(elected[p]) \in Nat
    BY <1>1
  <2> QED
    BY <2>2, <2>3 DEF ShowsElection
<1> QED
  BY <1>2, <1>3

LEMMA ControllerStepInv ==
    ASSUME TypeOK, TypeOK', MetadataInv, ControllerStep
    PROVE  MetadataInv'
<1> USE ClusterAssumption
<1>1. FileIsMemory'
  BY DEF MetadataInv, FileIsMemory, ControllerStep
<1>2. ASSUME NEW p \in Partition
      PROVE  /\ Len(elected'[p]) = state'[Controller][p].epoch
             /\ elected'[p][1] = SeedLeader[p]
             /\ ShowsElection(state[Controller], p)'
  <2>1. /\ elected[p] \in Seq(Broker)
        /\ Len(elected[p]) = state[Controller][p].epoch
        /\ elected[p][1] = SeedLeader[p]
        /\ ShowsElection(state[Controller], p)
    BY DEF TypeOK, MetadataInv, ControllerIsCurrent, CopiesShowElections
  <2>2. CASE Keeps(p)
    BY <2>1, <2>2 DEF Keeps, ShowsElection
  <2>3. CASE Elects(p)
    <3>1. PICK r \in Broker :
             /\ elected'[p] = Append(elected[p], r)
             /\ state'[Controller][p] = [leader |-> r, epoch |-> Len(elected[p]) + 1]
      BY <2>3 DEF Elects
    <3>2. Len(elected[p]) >= 1
      BY <2>1 DEF ShowsElection
    <3>3. /\ Len(elected'[p]) = Len(elected[p]) + 1
          /\ elected'[p][Len(elected[p]) + 1] = r
          /\ elected'[p][1] = elected[p][1]
      BY <2>1, <3>1, <3>2
    <3>4. Len(elected[p]) \in Nat
      BY <2>1
    <3> QED
      BY <2>1, <3>1, <3>3, <3>4 DEF ShowsElection
  <2> QED
    BY <2>2, <2>3 DEF ControllerStep
<1>3. ControllerIsCurrent'
  BY <1>2 DEF ControllerIsCurrent
<1>4. CopiesShowElections'
  <2>1. ASSUME NEW b \in Broker, NEW p \in Partition
        PROVE  ShowsElection(state[b], p)' /\ ShowsElection(reply[b], p)'
    <3>1. Keeps(p) \/ Elects(p)
      BY DEF ControllerStep
    <3>2. reply[b] \in Assignments /\ state[b] \in Assignments
      BY DEF TypeOK
    <3>3. ShowsElection(state[b], p) /\ ShowsElection(reply[b], p)
      BY DEF MetadataInv, CopiesShowElections
    <3>4. reply' = reply
      BY DEF ControllerStep
    <3>5. ShowsElection(reply[b], p)'
      <4> DEFINE x == reply[b]
      <4>1. x' = x
        BY <3>4
      <4>2. x[p].epoch \in 1 .. Len(elected'[p]) /\ x[p].leader = elected'[p][x[p].epoch]
        BY <3>1, <3>2, <3>3, ElectionsStay DEF ShowsElection
      <4> QED
        BY <4>1, <4>2 DEF ShowsElection
    <3>6. CASE b = Controller
      BY <3>5, <3>6, <1>2
    <3>7. CASE b # Controller
      <4>1. state'[b] = state[b]
        BY <3>7 DEF ControllerStep
      <4>2. /\ state[b][p].epoch \in 1 .. Len(elected'[p])
            /\ state[b][p].leader = elected'[p][state[b][p].epoch]
        BY <3>1, <3>2, <3>3, ElectionsStay DEF ShowsElection
      <4> QED
        BY <3>5, <4>1, <4>2 DEF ShowsElection
    <3> QED
      BY <3>6, <3>7
  <2> QED
    BY <2>1 DEF CopiesShowElections
<1>5. AnswersAreFresh'
  BY DEF MetadataInv, AnswersAreFresh, ControllerStep
<1> QED
  BY <1>1, <1>3, <1>4, <1>5 DEF MetadataInv

(* The other steps: no election happens, and a broker's copy is replaced    *)
(* only by an answer it has read or by its own file.                        *)
OtherStep ==
    /\ UNCHANGED elected
    /\ \/ \A b \in Broker : state'[b] = state[b] /\ disk'[b] = disk[b]
       \/ \E c \in Broker \ {Controller} :
             /\ task[c] = "apply" /\ task'[c] # "apply"
             /\ state'[c] = reply[c] /\ disk'[c] = reply[c]
             /\ \A b \in Broker \ {c} : state'[b] = state[b] /\ disk'[b] = disk[b]
    /\ \A b \in Broker :
          \/ reply'[b] = reply[b] /\ (task'[b] = "apply" => task[b] = "apply")
          \/ reply'[b] = from_seed /\ task'[b] # "apply"
          \/ /\ reply'[b] = state[Controller]
             /\ state'[b] = state[b]

LEMMA OtherSteps ==
    ASSUME TypeOK, MetadataInv, DiskFaults = FALSE,
           \/ Tick \/ UNCHANGED vars
           \/ \E b \in Broker : BackgroundStep(b) \/ Crash(b) \/ Restart(b)
    PROVE  OtherStep
<1> USE DEF metadata, times, network, faults
<1>1. CASE Tick
  BY <1>1 DEF Tick, OtherStep
<1>2. CASE UNCHANGED vars
  BY <1>2 DEF vars, OtherStep
<1>3. ASSUME NEW b \in Broker, Crash(b) PROVE OtherStep
  BY <1>3 DEF Crash, OtherStep, TypeOK
<1>4. ASSUME NEW b \in Broker, Restart(b) PROVE OtherStep
  <2>1. disk[b] = state[b]
    BY DEF MetadataInv, FileIsMemory
  <2> QED
    BY <1>4, <2>1 DEF Restart, OtherStep, TypeOK
<1>5. ASSUME NEW b \in Broker, BackgroundStep(b) PROVE OtherStep
  <2> USE DEF Background, OtherStep, TypeOK
  <2>1. CASE send_broker_heartbeat(b)
    BY <2>1 DEF send_broker_heartbeat
  <2>2. CASE HeartbeatFails(b)
    BY <2>2 DEF HeartbeatFails
  <2>3. CASE HeartbeatAnswered(b)
    BY <2>3 DEF HeartbeatAnswered
  <2>4. CASE FetchCluster(b)
    BY <2>4 DEF FetchCluster
  <2>5. CASE FetchFails(b)
    BY <2>5 DEF FetchFails
  <2>6. CASE apply_cluster_state(b)
    <3>1. /\ task[b] = "apply" /\ task' = [task EXCEPT ![b] = "idle"]
          /\ b \in Broker \ {Controller}
          /\ reply' = [reply EXCEPT ![b] = from_seed]
          /\ disk' = [disk EXCEPT ![b] = reply[b]] /\ state' = [state EXCEPT ![b] = reply[b]]
          /\ elected' = elected
      BY <2>6 DEF apply_cluster_state
    <3>2. /\ task'[b] = "idle" /\ reply'[b] = from_seed
          /\ state'[b] = reply[b] /\ disk'[b] = reply[b]
          /\ \A c \in Broker \ {b} : /\ state'[c] = state[c] /\ disk'[c] = disk[c]
                                     /\ reply'[c] = reply[c] /\ task'[c] = task[c]
      BY <3>1
    <3> QED
      BY <3>1, <3>2
  <2> QED
    BY <1>5, <2>1, <2>2, <2>3, <2>4, <2>5, <2>6 DEF BackgroundStep
<1> QED
  BY <1>1, <1>2, <1>3, <1>4, <1>5

LEMMA OtherStepInv ==
    ASSUME TypeOK, TypeOK', MetadataInv, OtherStep
    PROVE  MetadataInv'
<1> USE ClusterAssumption
<1>1. FileIsMemory'
  BY DEF MetadataInv, FileIsMemory, OtherStep
<1>2. state'[Controller] = state[Controller]
  BY DEF OtherStep
<1>3. ControllerIsCurrent'
  BY <1>2 DEF MetadataInv, ControllerIsCurrent, OtherStep
<1>4. ASSUME NEW b \in Broker, NEW p \in Partition
      PROVE  ShowsElection(state[b], p)' /\ ShowsElection(reply[b], p)'
  <2>1. /\ ShowsElection(state[b], p) /\ ShowsElection(reply[b], p)
        /\ ShowsElection(state[Controller], p)
    BY DEF MetadataInv, CopiesShowElections
  <2>2. elected' = elected
    BY DEF OtherStep
  <2>3. /\ from_seed[p].epoch \in 1 .. Len(elected[p])
        /\ from_seed[p].leader = elected[p][from_seed[p].epoch]
    <3>1. Len(elected[p]) \in Nat
      BY DEF TypeOK
    <3>2. 1 \in 1 .. Len(elected[p])
      BY <2>1, <3>1 DEF ShowsElection
    <3>3. from_seed[p].epoch = 1 /\ from_seed[p].leader = elected[p][1]
      BY DEF from_seed, MetadataInv, ControllerIsCurrent
    <3> QED
      BY <3>2, <3>3
  <2>4. ShowsElection(state[b], p)'
    BY <2>1, <2>2 DEF OtherStep, ShowsElection
  <2>5. ShowsElection(reply[b], p)'
    BY <2>1, <2>2, <2>3 DEF OtherStep, ShowsElection
  <2> QED
    BY <2>4, <2>5
<1>5. AnswersAreFresh'
  <2> SUFFICES ASSUME NEW b \in Broker \ {Controller}, NEW p \in Partition, task'[b] = "apply"
               PROVE  reply'[b][p].epoch >= state'[b][p].epoch
    BY DEF AnswersAreFresh
  <2>1. state'[b] = state[b]
    BY DEF OtherStep
  <2>2. CASE reply'[b] = reply[b] /\ task[b] = "apply"
    BY <2>1, <2>2 DEF MetadataInv, AnswersAreFresh
  <2>3. CASE reply'[b] = state[Controller]
    <3>1. /\ state[b][p].epoch \in 1 .. Len(elected[p])
          /\ state[Controller][p].epoch = Len(elected[p])
          /\ Len(elected[p]) \in Nat
      BY DEF MetadataInv, CopiesShowElections, ControllerIsCurrent, ShowsElection, TypeOK
    <3> QED
      BY <2>1, <2>3, <3>1
  <2> QED
    BY <2>2, <2>3 DEF OtherStep
<1> QED
  BY <1>1, <1>3, <1>4, <1>5 DEF MetadataInv, CopiesShowElections

LEMMA InitInv == Init => MetadataInv
<1> SUFFICES ASSUME Init PROVE MetadataInv
  OBVIOUS
<1> USE ClusterAssumption DEF Init, from_seed
<1>1. FileIsMemory /\ AnswersAreFresh
  BY DEF FileIsMemory, AnswersAreFresh
<1>2. ASSUME NEW p \in Partition
      PROVE  Len(elected[p]) = 1 /\ elected[p][1] = SeedLeader[p]
  OBVIOUS
<1>3. ControllerIsCurrent /\ CopiesShowElections
  BY <1>2 DEF ControllerIsCurrent, CopiesShowElections, ShowsElection
<1> QED
  BY <1>1, <1>3 DEF MetadataInv

LEMMA StepKinds ==
    ASSUME TypeOK, MetadataInv, DiskFaults = FALSE, [Next]_vars
    PROVE  ControllerStep \/ OtherStep
<1>1. \/ controller_tick
      \/ \E b \in Broker : handle_broker_heartbeat(b)
      \/ Tick \/ UNCHANGED vars
      \/ \E b \in Broker : BackgroundStep(b) \/ Crash(b) \/ Restart(b)
  BY DEF Next, BackgroundStep, DeliverHeartbeat, DeliverLateHeartbeat
<1> QED
  BY <1>1, ControllerSteps, OtherSteps

(* With stores that succeed, every copy of the metadata always shows a real *)
(* election and the controller shows the latest one.                        *)
THEOREM MetadataCorrect ==
    ASSUME DiskFaults = FALSE
    PROVE  Spec => []MetadataInv
<1>1. TypeOK /\ TypeOK' /\ MetadataInv /\ [Next]_vars => MetadataInv'
  BY StepKinds, ControllerStepInv, OtherStepInv
<1> QED
  BY <1>1, InitInv, TypeCorrect, PTL DEF Spec

(* For every cluster whose metadata file can be written: an epoch identifies *)
(* its leader across all copies, whatever crashes, restarts, delays and      *)
(* failovers happen.                                                         *)
THEOREM EpochHasOneLeaderCorrect ==
    ASSUME DiskFaults = FALSE
    PROVE  Spec => []EpochHasOneLeader
<1>1. MetadataInv => EpochHasOneLeader
  <2> SUFFICES ASSUME MetadataInv, NEW x \in Copies, NEW y \in Copies, NEW p \in Partition,
                      x[p].epoch = y[p].epoch
               PROVE  x[p].leader = y[p].leader
    BY DEF EpochHasOneLeader
  <2>1. ShowsElection(x, p) /\ ShowsElection(y, p)
    BY DEF Copies, MetadataInv, CopiesShowElections, FileIsMemory
  <2> QED
    BY <2>1 DEF ShowsElection
<1> QED
  BY <1>1, MetadataCorrect, PTL

(* For every such cluster: no broker's epoch ever goes back, through late    *)
(* answers and restarts.                                                     *)
THEOREM EpochsNeverRegressCorrect ==
    ASSUME DiskFaults = FALSE
    PROVE  Spec => EpochsNeverRegress
<1> DEFINE Monotone == \A b \in Broker, p \in Partition :
                          state'[b][p].epoch >= state[b][p].epoch
<1>1. ASSUME TypeOK, MetadataInv, [Next]_vars PROVE Monotone
  <2> SUFFICES ASSUME NEW b \in Broker, NEW p \in Partition
               PROVE  state'[b][p].epoch >= state[b][p].epoch
    OBVIOUS
  <2>1. state[b][p].epoch \in Nat
    BY <1>1 DEF TypeOK, Assignments, LiveAssignment
  <2>2. CASE OtherStep
    <3>1. \/ state'[b] = state[b]
          \/ b # Controller /\ task[b] = "apply" /\ state'[b] = reply[b]
      BY <2>2 DEF OtherStep
    <3> QED
      BY <1>1, <2>1, <3>1 DEF MetadataInv, AnswersAreFresh
  <2>3. CASE ControllerStep
    <3>1. CASE b # Controller
      BY <2>1, <2>3, <3>1 DEF ControllerStep
    <3>2. CASE b = Controller
      <4>1. Len(elected[p]) = state[b][p].epoch
        BY <1>1, <3>2 DEF MetadataInv, ControllerIsCurrent
      <4>2. CASE Keeps(p)
        BY <2>1, <3>2, <4>2 DEF Keeps
      <4>3. CASE Elects(p)
        <5>1. state'[b][p].epoch = Len(elected[p]) + 1
          BY <3>2, <4>3 DEF Elects
        <5> QED
          BY <2>1, <4>1, <5>1
      <4> QED
        BY <2>3, <4>2, <4>3 DEF ControllerStep
    <3> QED
      BY <3>1, <3>2
  <2> QED
    BY <1>1, <2>2, <2>3, StepKinds
<1> HIDE DEF Monotone
<1>2. TypeOK /\ MetadataInv /\ [Next]_vars => [Monotone]_vars
  BY <1>1
<1>3. Spec => [][Monotone]_vars
  BY <1>2, TypeCorrect, MetadataCorrect, PTL DEF Spec
<1> QED
  BY <1>3 DEF EpochsNeverRegress, Monotone

-----------------------------------------------------------------------------
(* The refinement: with stores that succeed, the control plane implements   *)
(* Leadership.tla for every partition.                                      *)
LEMMA RefinesInit == Init => \A p \in Partition : L(p)!LInit
<1> SUFFICES ASSUME Init, NEW p \in Partition PROVE L(p)!LInit
  OBVIOUS
<1> QED
  BY DEF Init, from_seed, L!LInit

LEMMA RefinesElection ==
    ASSUME TypeOK, MetadataInv, ControllerStep, NEW p \in Partition
    PROVE  [L(p)!LNext]_(L(p)!leadershipVars)
<1>1. CASE Keeps(p)
  <2>1. \A b \in Broker : state'[b][p] = state[b][p]
    BY <1>1 DEF Keeps, ControllerStep
  <2> QED
    BY <1>1, <2>1 DEF Keeps, L!leadershipVars
<1>2. CASE Elects(p)
  <2>1. PICK r \in ReplicaSet(p) \ {elected[p][Len(elected[p])]} :
           /\ elected'[p] = Append(elected[p], r)
           /\ state'[Controller][p] = [leader |-> r, epoch |-> Len(elected[p]) + 1]
    BY <1>2 DEF Elects
  <2>2. [b \in Broker |-> state'[b][p]]
           = [[b \in Broker |-> state[b][p]] EXCEPT
                 ![Controller] = [leader |-> r, epoch |-> Len(elected[p]) + 1]]
    BY <2>1 DEF ControllerStep
  <2>3. L(p)!Elect(r)
    BY <2>1, <2>2 DEF L!Elect, L!Current
  <2> QED
    BY <2>1, <2>3 DEF L!LNext
<1> QED
  BY <1>1, <1>2 DEF ControllerStep

LEMMA RefinesLearning ==
    ASSUME TypeOK, MetadataInv, OtherStep, NEW p \in Partition
    PROVE  [L(p)!LNext]_(L(p)!leadershipVars)
<1>1. elected'[p] = elected[p]
  BY DEF OtherStep
<1>2. CASE \A b \in Broker : state'[b] = state[b]
  BY <1>1, <1>2 DEF L!leadershipVars
<1>3. CASE \E c \in Broker \ {Controller} :
              /\ task[c] = "apply" /\ state'[c] = reply[c]
              /\ \A b \in Broker \ {c} : state'[b] = state[b]
  <2>1. PICK c \in Broker \ {Controller} :
              /\ task[c] = "apply" /\ state'[c] = reply[c]
              /\ \A b \in Broker \ {c} : state'[b] = state[b]
    BY <1>3
  <2> DEFINE e == reply[c][p].epoch
             belief == [b \in Broker |-> state[b][p]]
  <2>2. reply[c][p] \in LiveAssignment /\ state[c][p] \in LiveAssignment
    BY DEF TypeOK, Assignments
  <2>3. e \in 1 .. Len(elected[p]) /\ reply[c][p].leader = elected[p][e] /\ e >= state[c][p].epoch
    BY <2>1 DEF MetadataInv, CopiesShowElections, ShowsElection, AnswersAreFresh
  <2>4. e \in belief[c].epoch .. Len(elected[p])
    BY <2>2, <2>3 DEF LiveAssignment
  <2>5. reply[c][p] = [leader |-> elected[p][e], epoch |-> e]
    BY <2>2, <2>3 DEF LiveAssignment
  <2>6. [b \in Broker |-> state'[b][p]]
           = [belief EXCEPT ![c] = [leader |-> elected[p][e], epoch |-> e]]
    BY <2>1, <2>5
  <2> HIDE DEF e
  <2>7. L(p)!Learn(c)
    BY <1>1, <2>4, <2>6 DEF L!Learn, L!Current, L!Election
  <2> QED
    BY <2>7 DEF L!LNext
<1> QED
  BY <1>2, <1>3 DEF OtherStep

(* For every cluster whose metadata file can be written: the control plane, *)
(* with its heartbeats, answers, files, crashes and restarts, implements    *)
(* Leadership.tla for each of its partitions.                               *)
THEOREM LeadershipImplemented ==
    ASSUME DiskFaults = FALSE
    PROVE  Spec => ImplementsLeadership
<1> DEFINE Refines == \A p \in Partition : [L(p)!LNext]_(L(p)!leadershipVars)
           RefinesAtStart == \A p \in Partition : L(p)!LInit
<1>1. ASSUME TypeOK, MetadataInv, [Next]_vars PROVE Refines
  BY <1>1, StepKinds, RefinesElection, RefinesLearning
<1>2. Init => RefinesAtStart
  BY RefinesInit
<1> HIDE DEF Refines, RefinesAtStart
<1>3. TypeOK /\ MetadataInv /\ [Next]_vars => [Refines]_vars
  BY <1>1
<1>4. Spec => RefinesAtStart /\ [][Refines]_vars
  BY <1>2, <1>3, TypeCorrect, MetadataCorrect, PTL DEF Spec
<1> QED
  BY <1>4 DEF ImplementsLeadership, Refines, RefinesAtStart

-----------------------------------------------------------------------------
(* For every cluster, and with stores that may fail or tear the file: what  *)
(* a broker acts on is what its file says. The property is inductive        *)
(* relative to the types.                                                   *)
THEOREM ActsOnStoredLeadersCorrect == Spec => []ActsOnStoredLeaders
<1>1. Init => ActsOnStoredLeaders
  BY DEF Init, ActsOnStoredLeaders
<1>2. TypeOK /\ ActsOnStoredLeaders /\ [Next]_vars => ActsOnStoredLeaders'
  <2> SUFFICES ASSUME TypeOK, ActsOnStoredLeaders, [Next]_vars
               PROVE  ActsOnStoredLeaders'
    OBVIOUS
  <2> USE ClusterAssumption
  <2>1. ASSUME NEW asg, NEW ages, Stored(asg, ages) PROVE ActsOnStoredLeaders'
    BY <2>1 DEF TypeOK, Stored, ActsOnStoredLeaders
  <2>2. CASE StoreFailed
    BY <2>2 DEF StoreFailed, ActsOnStoredLeaders
  <2>3. CASE UNCHANGED <<disk, torn, view>>
    BY <2>3 DEF ActsOnStoredLeaders
  <2>4. CASE controller_tick
    BY <2>1, <2>2, <2>3, <2>4 DEF controller_tick
  <2>5. ASSUME NEW b \in Broker, DeliverHeartbeat(b) \/ DeliverLateHeartbeat(b)
        PROVE  ActsOnStoredLeaders'
    BY <2>1, <2>2, <2>5 DEF DeliverHeartbeat, DeliverLateHeartbeat, handle_broker_heartbeat
  <2>6. ASSUME NEW b \in Broker, apply_cluster_state(b) PROVE ActsOnStoredLeaders'
    <3>1. CASE UNCHANGED <<disk, view>> /\ torn \subseteq torn'
      BY <3>1 DEF ActsOnStoredLeaders
    <3>2. CASE /\ disk' = [disk EXCEPT ![b] = reply[b]]
               /\ torn' = torn \ {b}
               /\ view' = [view EXCEPT ![b] = Leaders(reply[b])]
      BY <3>2 DEF TypeOK, ActsOnStoredLeaders
    <3> QED
      BY <2>6, <3>1, <3>2 DEF apply_cluster_state
  <2>7. ASSUME NEW b \in Broker, Restart(b) PROVE ActsOnStoredLeaders'
    BY <2>7 DEF TypeOK, Restart, ActsOnStoredLeaders
  <2>8. ASSUME NEW b \in Broker, BackgroundStep(b) \/ Crash(b), ~ apply_cluster_state(b)
        PROVE  UNCHANGED <<disk, torn, view>>
    BY <2>8 DEF BackgroundStep, Crash, send_broker_heartbeat, HeartbeatFails,
                HeartbeatAnswered, FetchCluster, FetchFails, metadata
  <2>9. CASE Tick \/ UNCHANGED vars
    BY <2>3, <2>9 DEF Tick, vars, metadata
  <2> QED
    BY <2>3, <2>4, <2>5, <2>6, <2>7, <2>8, <2>9 DEF Next, BackgroundStep
<1> QED
  BY <1>1, <1>2, TypeCorrect, PTL DEF Spec

-----------------------------------------------------------------------------
(* Why no running leader is deposed in a timely cluster: the controller     *)
(* does not crash, so that it never takes ages from a file (Restart); it    *)
(* has heard of every broker that kept running within the timeout; and the  *)
(* leader a failover examines is the last elected one.                      *)
TimelyInv ==
    /\ up[Controller]
    /\ \A b \in Started : crashes[b] = 0 => up[b] /\ broker_alive(age, b)
    /\ \A p \in Partition :
          Len(elected[p]) > 0 /\ elected[p][Len(elected[p])] = state[Controller][p].leader

LEMMA FailOverTimely ==
    ASSUME TypeOK, TimelyInv, OnlyFailedLeadersDeposed, NEW b \in Broker, UNCHANGED faults,
           NEW ages, ages = [age EXCEPT ![b] = 0],
           FailOver(failover_dead_leaders(state[Controller], ages), ages)
    PROVE  TimelyInv' /\ OnlyFailedLeadersDeposed'
<1> USE ClusterAssumption
<1> DEFINE asg == failover_dead_leaders(state[Controller], ages)
<1>1. /\ ages \in [Broker -> Age]
      /\ \A c \in Started : crashes[c] = 0 => broker_alive(ages, c)
  BY DEF TypeOK, TimelyInv, broker_alive, Age
<1>2. /\ state' = [state EXCEPT ![Controller] = asg]
      /\ age' = ages
      /\ elected' = Elections(state[Controller], ages)
      /\ up' = up /\ crashes' = crashes
  BY DEF FailOver, faults
<1>3. ASSUME NEW p \in Partition
      PROVE  /\ Len(elected'[p]) > 0
             /\ elected'[p][Len(elected'[p])] = state'[Controller][p].leader
             /\ \A e \in 1 .. Len(elected'[p]) - 1 :
                   crashes[elected'[p][e]] > 0 \/ elected'[p][e] \notin Started
  <2>1. state'[Controller][p] = asg[p]
    BY <1>2 DEF TypeOK
  <2>2. elected[p] \in Seq(Broker) /\ state[Controller][p].leader \in Broker
    BY DEF TypeOK, Assignments, LiveAssignment
  <2>3. /\ Len(elected[p]) > 0
        /\ elected[p][Len(elected[p])] = state[Controller][p].leader
        /\ \A e \in 1 .. Len(elected[p]) - 1 :
              crashes[elected[p][e]] > 0 \/ elected[p][e] \notin Started
    BY DEF TimelyInv, OnlyFailedLeadersDeposed
  <2>4. CASE p \notin Failing(state[Controller], ages)
    <3>1. elected'[p] = elected[p] /\ asg[p] = state[Controller][p]
      BY <1>2, <2>4 DEF Elections, failover_dead_leaders
    <3> QED
      BY <2>1, <2>3, <3>1
  <2>5. CASE p \in Failing(state[Controller], ages)
    <3> DEFINE new == Promoted(p, state[Controller][p].leader, ages)
    <3>1. elected'[p] = Append(elected[p], new) /\ asg[p].leader = new
      BY <1>2, <2>5 DEF Elections, failover_dead_leaders
    <3> HIDE DEF asg, new
    <3>2. /\ Len(elected'[p]) = Len(elected[p]) + 1
          /\ elected'[p][Len(elected'[p])] = new
          /\ \A e \in 1 .. Len(elected[p]) : elected'[p][e] = elected[p][e]
      BY <2>2, <3>1
    <3>3. ~ broker_alive(ages, state[Controller][p].leader)
      BY <2>5 DEF Failing
    <3>4. LET leader == elected[p][Len(elected[p])]
          IN  crashes[leader] > 0 \/ leader \notin Started
      <4>1. PICK leader \in Broker : leader = state[Controller][p].leader
        BY <2>2
      <4>2. crashes[leader] \in Nat
        BY DEF TypeOK
      <4>3. ~ (leader \in Started /\ crashes[leader] = 0)
        BY <1>1, <3>3, <4>1
      <4> QED
        BY <2>3, <4>1, <4>2, <4>3
    <3>5. Len(elected'[p]) > 0 /\ elected'[p][Len(elected'[p])] = asg[p].leader
      BY <2>2, <3>1, <3>2
    <3>6. ASSUME NEW e \in 1 .. Len(elected'[p]) - 1
          PROVE  crashes[elected'[p][e]] > 0 \/ elected'[p][e] \notin Started
      <4>1. e \in 1 .. Len(elected[p]) /\ elected'[p][e] = elected[p][e]
        BY <2>2, <3>2
      <4>2. e = Len(elected[p]) \/ e \in 1 .. Len(elected[p]) - 1
        BY <2>2, <4>1
      <4> QED
        BY <2>3, <3>4, <4>1, <4>2
    <3> QED
      BY <2>1, <3>1, <3>5, <3>6
  <2> QED
    BY <2>4, <2>5
<1> QED
  BY <1>1, <1>2, <1>3 DEF TimelyInv, OnlyFailedLeadersDeposed

(* OnlyFailedLeadersDeposed, for any cluster and timeout, and also when     *)
(* stores fail: as long as heartbeats arrive in time and the controller     *)
(* keeps running, failover_dead_leaders deposes only leaders that crashed   *)
(* or were not started.                                                     *)
THEOREM OnlyFailedLeadersDeposedCorrect ==
    ASSUME Timely, Controller \notin Crashable
    PROVE  Spec => []OnlyFailedLeadersDeposed
<1> DEFINE Inv == TimelyInv /\ OnlyFailedLeadersDeposed
<1> USE ClusterAssumption
<1>1. Init => Inv
  <2> SUFFICES ASSUME Init PROVE Inv
    OBVIOUS
  <2>1. \A p \in Partition :
           /\ elected[p] = <<SeedLeader[p]>>
           /\ state[Controller][p].leader = SeedLeader[p]
    BY DEF Init, from_seed
  <2>2. up[Controller] /\ \A b \in Started : up[b] /\ broker_alive(age, b)
    <3>1. \A b \in Broker : up[b] = (b \in Started) /\ age[b] = 0
      BY DEF Init
    <3>2. \A b \in Started : b \in Broker
      OBVIOUS
    <3>3. HeartbeatTimeout >= 0
      OBVIOUS
    <3> QED
      BY <3>1, <3>2, <3>3 DEF broker_alive
  <2>3. ASSUME NEW p \in Partition
        PROVE  Len(elected[p]) = 1 /\ elected[p][1] = SeedLeader[p]
    <3>1. PICK leader : leader = SeedLeader[p]
      OBVIOUS
    <3>2. elected[p] = <<leader>>
      BY <2>1, <3>1
    <3> QED
      BY <3>1, <3>2
  <2>4. \A p \in Partition : 1 .. Len(elected[p]) - 1 = {}
    <3>1. 1 .. 1 - 1 = {}
      OBVIOUS
    <3> QED
      BY <2>3, <3>1
  <2>5. OnlyFailedLeadersDeposed
    BY <2>4 DEF OnlyFailedLeadersDeposed
  <2>6. TimelyInv
    BY <2>1, <2>2, <2>3 DEF TimelyInv
  <2> QED
    BY <2>5, <2>6
<1>2. TypeOK /\ Inv /\ [Next]_vars => Inv'
  <2> SUFFICES ASSUME TypeOK, TimelyInv, OnlyFailedLeadersDeposed, [Next]_vars PROVE Inv'
    OBVIOUS
  <2>1. CASE controller_tick
    BY <2>1, FailOverTimely DEF controller_tick
  <2>2. ASSUME NEW b \in Broker, DeliverHeartbeat(b) \/ DeliverLateHeartbeat(b) PROVE Inv'
    BY <2>2, FailOverTimely DEF DeliverHeartbeat, DeliverLateHeartbeat, handle_broker_heartbeat
  <2>3. CASE Tick
    <3>1. /\ \A b \in Broker : up[b] => age[b] < HeartbeatTimeout
          /\ age' = Older(age)
          /\ UNCHANGED <<state, elected, up, crashes>>
      BY <2>3 DEF Tick, TimelyInv, metadata, faults
    <3>2. \A b \in Broker : up[b] => broker_alive(age', b)
      BY <3>1 DEF TypeOK, Age, Older, broker_alive
    <3> QED
      BY <3>1, <3>2 DEF TimelyInv, OnlyFailedLeadersDeposed
  <2>4. ASSUME NEW b \in Broker, Crash(b) PROVE Inv'
    <3>1. /\ b # Controller
          /\ up' = [up EXCEPT ![b] = FALSE]
          /\ crashes' = [crashes EXCEPT ![b] = @ + 1]
          /\ UNCHANGED <<state, elected, age>>
      BY <2>4 DEF Crash, metadata, times
    <3>2. \A c \in Broker : /\ crashes'[c] = 0 => c # b
                            /\ c # b => up'[c] = up[c] /\ crashes'[c] = crashes[c]
                            /\ crashes[c] > 0 => crashes'[c] > 0
      <4>1. /\ up \in [Broker -> BOOLEAN] /\ crashes \in [Broker -> Nat]
        BY DEF TypeOK
      <4>2. crashes'[b] = crashes[b] + 1 /\ crashes[b] \in Nat
        BY <3>1, <4>1
      <4>3. \A c \in Broker : c # b => up'[c] = up[c] /\ crashes'[c] = crashes[c]
        BY <3>1, <4>1
      <4> QED
        BY <4>2, <4>3
    <3>3. \A p \in Partition : \A e \in 1 .. Len(elected[p]) - 1 : elected[p][e] \in Broker
      BY DEF TypeOK
    <3> QED
      BY <3>1, <3>2, <3>3 DEF TimelyInv, OnlyFailedLeadersDeposed, broker_alive
  <2>5. ASSUME NEW b \in Broker, Restart(b) PROVE Inv'
    <3>1. /\ b # Controller
          /\ up' = [up EXCEPT ![b] = TRUE]
          /\ state' = [state EXCEPT ![b] = disk[b]]
          /\ UNCHANGED <<elected, age, crashes>>
      BY <2>5 DEF Restart, TimelyInv
    <3> QED
      BY <3>1 DEF TypeOK, TimelyInv, OnlyFailedLeadersDeposed, broker_alive
  <2>6. ASSUME NEW b \in Broker, apply_cluster_state(b) PROVE Inv'
    <3>1. /\ state'[Controller] = state[Controller]
          /\ UNCHANGED <<elected, age, up, crashes>>
      BY <2>6 DEF TypeOK, apply_cluster_state, Background, times, faults
    <3> QED
      BY <3>1 DEF TimelyInv, OnlyFailedLeadersDeposed, broker_alive
  <2>7. ASSUME NEW b \in Broker, BackgroundStep(b), ~ apply_cluster_state(b)
        PROVE  UNCHANGED <<metadata, times, faults>>
    BY <2>7 DEF BackgroundStep, send_broker_heartbeat, HeartbeatFails, HeartbeatAnswered,
                FetchCluster, FetchFails, Background
  <2>8. CASE UNCHANGED <<metadata, times, faults>>
    BY <2>8 DEF TimelyInv, OnlyFailedLeadersDeposed, broker_alive, metadata, times, faults
  <2>9. CASE UNCHANGED vars
    BY <2>8, <2>9 DEF vars
  <2> QED
    BY <2>1, <2>2, <2>3, <2>4, <2>5, <2>6, <2>7, <2>8, <2>9 DEF Next, BackgroundStep
<1> QED
  BY <1>1, <1>2, TypeCorrect, PTL DEF Spec
=============================================================================
