------------------------- MODULE MCGroupCoordinator -------------------------
(* Instances of GroupCoordinator.tla for TLC. *)
EXTENDS GroupCoordinator

OneTopic        == [c \in Client |-> 1]
ThreePartitions == [t \in Topic |-> 3]
=============================================================================
