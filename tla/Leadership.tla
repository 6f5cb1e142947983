----------------------------- MODULE Leadership -----------------------------
(***************************************************************************)
(* What the control plane of custom-dmq promises about one partition: an   *)
(* abstract specification with no heartbeats, disks or messages.           *)
(*                                                                         *)
(* The controller elects leaders one after the other and numbers them with *)
(* leader epochs 1, 2, 3, ...; a broker believes in some leader that was   *)
(* really elected, and what it learns is never older than what it knew.    *)
(* ClusterControl.tla implements this specification for every partition,   *)
(* and Replication.tla runs on top of it.                                  *)
(***************************************************************************)
EXTENDS Integers, Sequences

CONSTANTS
    Broker,      \* broker ids of the cluster file
    Controller,  \* the broker running the embedded controller
    Replica,     \* brokers in the partition's replica list
    SeedLeader   \* leader named by the cluster file

ASSUME LeadershipAssumption ==
    /\ Controller \in Broker
    /\ Replica \subseteq Broker
    /\ SeedLeader \in Replica

VARIABLES
    elected,  \* elected[e] is the leader of epoch e
    belief    \* belief[b]: the LiveAssignment broker b acts on

leadershipVars == <<elected, belief>>

-----------------------------------------------------------------------------
(* LiveAssignment without its constant fields (topic, partition, replicas) *)
Assignment == [leader : Broker, epoch : Nat \ {0}]

Election(e) == [leader |-> elected[e], epoch |-> e]

Current == Len(elected)

LInit ==
    /\ elected = <<SeedLeader>>
    /\ belief = [b \in Broker |-> [leader |-> SeedLeader, epoch |-> 1]]

(* The controller moves the partition to another replica, under the next  *)
(* epoch, and believes it at once.                                        *)
Elect(r) ==
    /\ r \in Replica \ {elected[Current]}
    /\ elected' = Append(elected, r)
    /\ belief' = [belief EXCEPT ![Controller] = [leader |-> r, epoch |-> Current + 1]]

(* Broker b learns of an election, not necessarily of the latest one. *)
Learn(b) ==
    /\ b # Controller
    /\ \E e \in belief[b].epoch .. Current :
          belief' = [belief EXCEPT ![b] = Election(e)]
    /\ UNCHANGED elected

LNext ==
    \/ \E r \in Replica : Elect(r)
    \/ \E b \in Broker : Learn(b)

LSpec == LInit /\ [][LNext]_leadershipVars
=============================================================================
