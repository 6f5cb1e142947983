-------------------------- MODULE MCClusterControl --------------------------
(* Instances of ClusterControl.tla for TLC: three brokers, replica lists   *)
(* rotated as in config/cluster.example.toml.                              *)
EXTENDS ClusterControl

Brokers == 1 .. 3

\* The cluster file's partitions 1 and 0: led by broker 2 and by broker 1.
OnePartition    == {1}
TwoPartitions   == {0, 1}
RotatedReplicas == [p \in Partition |-> IF p = 1 THEN <<2, 3, 1>> ELSE <<1, 2, 3>>]
RotatedLeaders  == [p \in Partition |-> IF p = 1 THEN 2 ELSE 1]
=============================================================================
