------------------------------ MODULE MCTopics ------------------------------
(* Values for the constants of Topics. *)
EXTENDS Topics

MCOffset    == {1}
MCPartition == {0, 1}
MCRequested == {[partitions |-> 2, max |-> 0]}
=============================================================================
