----------------------------- MODULE MmapQueue ------------------------------
(***************************************************************************)
(* The ring of mmap_queue.rs.  Positions count messages, where the code    *)
(* counts bytes in steps of MAX_MSG_SIZE.  Everything is in mapped files:  *)
(* a message is written to its slot before the tail moves, so that a crash *)
(* leaves the ring before or after an operation.                           *)
(***************************************************************************)
EXTENDS Integers, Sequences

CONSTANT QUEUE_CAPACITY   \* slots of a ring

ASSUME CapacityAssumption == QUEUE_CAPACITY \in Nat \ {0}

Slots == 0 .. QUEUE_CAPACITY - 1

Ring(messages) == [head : Slots, tail : Slots, slots : [Slots -> messages]]

(* open: the files of a new queue are all zero. *)
EmptyRing(zero) == [head |-> 0, tail |-> 0, slots |-> [s \in Slots |-> zero]]

(* Mutant of Advanced: the ring wraps one slot late. *)
AdvancedLate(position) == (position + 1) % (QUEUE_CAPACITY + 1)

Advanced(position) == (position + 1) % QUEUE_CAPACITY

(* Nothing stops an append to a ring of QUEUE_CAPACITY - 1 messages: its    *)
(* tail then meets its head, and the ring is empty.                         *)
append(ring, message) ==
    [ring EXCEPT !.slots[ring.tail] = message, !.tail = Advanced(ring.tail)]

is_empty(ring) == ring.head = ring.tail

front(ring)     == ring.slots[ring.head]
pop_front(ring) == [ring EXCEPT !.head = Advanced(ring.head)]

live_len(ring) ==
    IF ring.tail >= ring.head THEN ring.tail - ring.head
    ELSE QUEUE_CAPACITY - ring.head + ring.tail

(* The messages in the ring, oldest first. *)
Contents(ring) ==
    [i \in 1 .. live_len(ring) |-> ring.slots[(ring.head + i - 1) % QUEUE_CAPACITY]]
=============================================================================
