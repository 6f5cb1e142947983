--------------------------- MODULE MCReplication ----------------------------
(* Instances of Replication.tla for TLC: the three brokers and the replica *)
(* list of partition 0 in config/cluster.example.toml.                     *)
EXTENDS Replication

Brokers  == 1 .. 3
InOrder  == <<1, 2, 3>>
=============================================================================
