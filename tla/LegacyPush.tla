----------------------------- MODULE LegacyPush -----------------------------
(***************************************************************************)
(* The legacy push path of one topic (DMQ_LEGACY_DIALBACK and              *)
(* DMQ_LEGACY_PUSH on): producers and consumers register, the broker dials *)
(* them back, PCM payloads fan out to one queue of every group, or wait in *)
(* the staging queue, and one task per consumer pops and sends them.       *)
(* topic.rs, cgroup.rs, partition.rs, broker.rs and the tasks of runner.rs.*)
(*                                                                         *)
(* Messages are numbered in the order in which the broker takes them.      *)
(* The partition log that produce_pcm also appends to is PartitionStore's. *)
(* A client whose connection ends exits; it may come back as a new one.    *)
(***************************************************************************)
EXTENDS MmapQueue, FiniteSets, Functions

CONSTANTS
    Group, Producer, Consumer,
    MaxMessages,     \* bound: messages produced
    MaxPartitions,   \* bound: partitions of a group
    MaxFailures,     \* bound: failing registrations
    MaxFaults        \* bound: crashes and deaths of consumers

ASSUME PushAssumption ==
    /\ {MaxMessages, MaxPartitions, MaxFailures, MaxFaults} \subseteq Nat
    /\ MaxPartitions >= 1   \* a group has a first partition

VARIABLES
    up,           \* the broker runs
    groups,       \* Topic.cgroups: id, number of partitions, consumer_count
    disk,         \* topic groups file, partition count files
    rings,        \* the mapped queues
    producer,     \* the connection of each producer
    task,         \* dial-back task of each consumer: state, queue, message being sent,
                  \* and (history) how many messages the queue had given before
    running,      \* consumers that run
    received,     \* history: what a consumer got
    taken,        \* history: what was popped from a ring
    owed,         \* history: the groups there were when a message was produced
    acked,        \* history: messages whose producer was answered
    overflows,    \* history: appends to a full ring
    interrupted,  \* history: crashes inside produce_pcm
    failures,
    faults

vars == <<up, groups, disk, rings, producer, task, running, received, taken, owed,
          acked, overflows, interrupted, failures, faults>>

histories == <<received, taken, owed, acked, overflows, interrupted>>

-----------------------------------------------------------------------------
Message == 1 .. MaxMessages
Staging == <<"staging", 0>>
Queues  == {Staging} \cup (Group \X (1 .. MaxPartitions))

NoTask   == [state |-> "none", queue |-> Staging, message |-> 0, from |-> 0]
TaskOver == [NoTask EXCEPT !.state = "over"]

Produced == Len(owed)
Ids(list) == [i \in DOMAIN list |-> list[i].id]
Exists(g) == \E i \in DOMAIN groups : groups[i].id = g

(* The partition with the fewest messages, the first of them. *)
smallest_partition_index(group) ==
    LET len(k) == live_len(rings[<<group.id, k>>])
    IN  CHOOSE k \in 1 .. group.partitions :
            \A j \in 1 .. group.partitions : len(k) < len(j) \/ (len(k) = len(j) /\ k <= j)

(* What produce_pcm does to the queues, one write after the other: the      *)
(* staging queue is emptied into the first group, then each group gets the  *)
(* message.                                                                 *)
Push(queue, message) == [op |-> "push", queue |-> queue, message |-> message]
Pull(queue)          == [op |-> "pull", queue |-> queue]
TargetOf(group)      == <<group.id, smallest_partition_index(group)>>

Drain ==
    LET staged == Contents(rings[Staging])
    IN  [i \in 1 .. 2 * Len(staged) |->
            IF i % 2 = 1 THEN Pull(Staging) ELSE Push(TargetOf(groups[1]), staged[i \div 2])]

FanOut(message) == [i \in DOMAIN groups |-> Push(TargetOf(groups[i]), message)]

(* Mutants of Writes: the new message is queued before the staged ones, or  *)
(* only the first group gets it.                                            *)
WritesDrainLast(message) ==
    IF groups = <<>> THEN <<Push(Staging, message)>> ELSE FanOut(message) \o Drain

WritesFirstGroup(message) ==
    IF groups = <<>> THEN <<Push(Staging, message)>>
    ELSE Drain \o <<FanOut(message)[1]>>

Writes(message) ==
    IF groups = <<>> THEN <<Push(Staging, message)>> ELSE Drain \o FanOut(message)

Written(queues, write) ==
    [queues EXCEPT ![write.queue] =
        IF write.op = "push" THEN append(@, write.message) ELSE pop_front(@)]

(* The queues after the first n of these writes. *)
After(writes, n) ==
    LET after[i \in 0 .. n] == IF i = 0 THEN rings ELSE Written(after[i - 1], writes[i])
    IN  after[n]

(* Rings that a produce_pcm makes look empty. *)
Overflowing(message) ==
    {q \in Queues : \E i \in DOMAIN Writes(message) :
        LET write == Writes(message)[i]
            ring  == After(Writes(message), i - 1)[q]
        IN  /\ write.op = "push" /\ write.queue = q
            /\ live_len(ring) = QUEUE_CAPACITY - 1}

-----------------------------------------------------------------------------
(* P_REG, and the connection the broker's task then makes to the producer.  *)
At(state) == [state |-> state, message |-> 0]

register_producer(p) ==
    /\ up
    /\ producer[p] = At("new")
    /\ producer' = [producer EXCEPT ![p] = At("connected")]
    /\ UNCHANGED <<up, groups, disk, rings, task, running, histories, failures, faults>>

(* PCM of a producer: produce_pcm under the broker's lock, then R_PCM.      *)
produce_pcm(p) ==
    /\ up
    /\ producer[p] = At("connected")
    /\ Produced < MaxMessages
    /\ rings' = After(Writes(Produced + 1), Len(Writes(Produced + 1)))
    /\ overflows' = overflows + Cardinality(Overflowing(Produced + 1))
    /\ owed' = Append(owed, Range(Ids(groups)))
    /\ producer' = [producer EXCEPT ![p] = [state |-> "answering", message |-> Produced + 1]]
    /\ UNCHANGED <<up, groups, disk, task, running, received, taken, acked, interrupted,
                   failures, faults>>

(* A producer sends nothing more before its answer. *)
Answer(p) ==
    /\ up
    /\ producer[p].state = "answering"
    /\ acked' = acked \cup {producer[p].message}
    /\ producer' = [producer EXCEPT ![p] = At("connected")]
    /\ UNCHANGED <<up, groups, disk, rings, task, running, received, taken, owed,
                   overflows, interrupted, failures, faults>>

-----------------------------------------------------------------------------
(* find_or_create_group: with the group of this id, new without consumers.  *)
WithGroup(g) ==
    IF Exists(g) THEN groups
    ELSE Append(groups, [id |-> g, partitions |-> 1, consumers |-> 0])

(* Mutant of Joined: the count of consumers is compared too late. *)
JoinedShared(group) ==
    [group EXCEPT !.consumers = @ + 1,
                  !.partitions = IF @ < group.consumers THEN @ + 1 ELSE @]

(* assign_partition: one partition per consumer that ever registered. *)
Joined(group) ==
    [group EXCEPT !.consumers = @ + 1,
                  !.partitions = IF @ < group.consumers + 1 THEN @ + 1 ELSE @]

(* register_consumer (C_REG): the group, then a partition of its own; the   *)
(* files of new groups and of grown groups are written.                     *)
register_consumer(c, g) ==
    /\ up
    /\ task[c] = NoTask
    /\ LET found  == WithGroup(g)
           i      == CHOOSE k \in DOMAIN found : found[k].id = g
           joined == Joined(found[i])
       IN  /\ joined.partitions <= MaxPartitions
           /\ groups' = [found EXCEPT ![i] = joined]
           /\ disk' = [groups |-> IF Exists(g) THEN disk.groups ELSE Ids(found),
                       count  |-> IF Exists(g) /\ joined.partitions = found[i].partitions
                                  THEN disk.count
                                  ELSE [disk.count EXCEPT ![g] = joined.partitions]]
           /\ LET queue == <<g, joined.partitions>>
              IN  task' = [task EXCEPT ![c] = [state |-> "dialing", queue |-> queue,
                                               message |-> 0, from |-> Len(taken[queue])]]
    /\ running' = running \cup {c}
    /\ UNCHANGED <<up, rings, producer, histories, failures, faults>>

(* One of its writes fails: the client gets no answer, and memory and files *)
(* keep what was done before.  A crash inside register_consumer is such a   *)
(* failure and then a crash.                                                *)
RegisterFails(g) ==
    /\ up
    /\ failures < MaxFailures
    /\ LET found  == WithGroup(g)
           i      == CHOOSE k \in DOMAIN found : found[k].id = g
           joined == Joined(found[i])
           first  == [disk EXCEPT !.count[g] = 1]
           listed == [first EXCEPT !.groups = Ids(found)]
       IN  \/ /\ ~ Exists(g)                       \* the first partition count is not stored,
              /\ UNCHANGED <<groups, disk>>
           \/ /\ ~ Exists(g)                       \* the queue is not opened,
              /\ disk' = first
              /\ UNCHANGED groups
           \/ /\ ~ Exists(g)                       \* the list of groups is not stored,
              /\ disk' = first
              /\ groups' = found
           \/ /\ joined.partitions > found[i].partitions   \* a further queue not opened,
              /\ groups' = [found EXCEPT ![i].consumers = @ + 1]
              /\ disk' = IF Exists(g) THEN disk ELSE listed
           \/ /\ joined.partitions > found[i].partitions   \* or its count not stored
              /\ joined.partitions <= MaxPartitions
              /\ groups' = [found EXCEPT ![i] = joined]
              /\ disk' = IF Exists(g) THEN disk ELSE listed
    /\ failures' = failures + 1
    /\ UNCHANGED <<up, rings, producer, task, running, histories, faults>>

-----------------------------------------------------------------------------
(* dial_back_to_consumer and run_consumer_ready_and_send. *)
Goes(c, state) ==
    task' = [task EXCEPT ![c] = IF state = "over" THEN TaskOver
                                ELSE [@ EXCEPT !.state = state, !.message = 0]]

dial_back_to_consumer(c) ==
    /\ task[c].state = "dialing"
    /\ Goes(c, IF c \in running THEN "reading" ELSE "over")
    /\ UNCHANGED <<up, groups, disk, rings, producer, running, histories, failures, faults>>

(* R_PCM: a consumer sends it at first and when it has got a message.       *)
ReadReady(c) ==
    /\ task[c].state = "reading"
    /\ Goes(c, IF c \in running THEN "popping" ELSE "over")
    /\ UNCHANGED <<up, groups, disk, rings, producer, running, histories, failures, faults>>

(* Mutant of Pop: the task ends when it finds the queue empty. *)
PopOnce(c) ==
    /\ task[c].state = "popping"
    /\ LET queue == task[c].queue IN
       IF is_empty(rings[queue])
       THEN task' = [task EXCEPT ![c].state = "over"] /\ UNCHANGED <<rings, taken>>
       ELSE /\ task' = [task EXCEPT ![c].state = "writing", ![c].message = front(rings[queue])]
            /\ rings' = [rings EXCEPT ![queue] = pop_front(@)]
            /\ taken' = [taken EXCEPT ![queue] = Append(@, front(rings[queue]))]
    /\ UNCHANGED <<up, groups, disk, producer, running, received, owed, acked, overflows,
                   interrupted, failures, faults>>

(* The pop happens under the lock, whether or not the consumer still runs.  *)
Pop(c) ==
    /\ task[c].state = "popping"
    /\ LET queue == task[c].queue IN
       /\ ~ is_empty(rings[queue])
       /\ task' = [task EXCEPT ![c].state = "writing", ![c].message = front(rings[queue])]
       /\ rings' = [rings EXCEPT ![queue] = pop_front(@)]
       /\ taken' = [taken EXCEPT ![queue] = Append(@, front(rings[queue]))]
    /\ UNCHANGED <<up, groups, disk, producer, running, received, owed, acked, overflows,
                   interrupted, failures, faults>>

(* The PCM reaches the consumer's receive_loop, or is lost with it. *)
Write(c) ==
    /\ task[c].state = "writing"
    /\ Goes(c, IF c \in running THEN "reading" ELSE "over")
    /\ received' = IF c \in running
                   THEN [received EXCEPT ![c] = Append(@, task[c].message)] ELSE received
    /\ UNCHANGED <<up, groups, disk, rings, producer, running, taken, owed, acked, overflows,
                   interrupted, failures, faults>>

Die(c) ==
    /\ c \in running
    /\ faults < MaxFaults
    /\ faults' = faults + 1
    /\ running' = running \ {c}
    /\ UNCHANGED <<up, groups, disk, rings, producer, task, histories, failures>>

-----------------------------------------------------------------------------
(* The broker dies, and with it its tasks and connections. *)
Ended ==
    /\ up' = FALSE
    /\ faults < MaxFaults
    /\ faults' = faults + 1
    /\ groups' = <<>>
    /\ running' = {}
    /\ task' = [c \in Consumer |->
                   IF task[c] = NoTask THEN NoTask ELSE TaskOver]
    /\ producer' = [p \in Producer |->
                       IF producer[p] = At("new") THEN producer[p] ELSE At("over")]

Crash ==
    /\ up
    /\ Ended
    /\ UNCHANGED <<disk, rings, histories, failures>>

CrashDuringProduce(p) ==
    /\ up
    /\ producer[p] = At("connected")
    /\ Produced < MaxMessages
    /\ LET writes == Writes(Produced + 1)
       IN  \E n \in 0 .. Len(writes) - 1 : rings' = After(writes, n)
    /\ owed' = Append(owed, {})
    /\ overflows' = overflows + Cardinality(Overflowing(Produced + 1))
    /\ interrupted' = interrupted + 1
    /\ Ended
    /\ UNCHANGED <<disk, received, taken, acked, failures>>

(* ConsumerGroup::load *)
Loaded(g) ==
    LET count == IF disk.count[g] = 0 THEN 1 ELSE disk.count[g]
    IN  [id |-> g, partitions |-> count, consumers |-> count]

Restart ==
    /\ ~ up
    /\ up' = TRUE
    /\ groups' = [i \in DOMAIN disk.groups |-> Loaded(disk.groups[i])]
    /\ UNCHANGED <<disk, rings, producer, task, running, histories, failures, faults>>

Init ==
    /\ up = TRUE
    /\ groups = <<>>
    /\ disk = [groups |-> <<>>, count |-> [g \in Group |-> 0]]
    /\ rings = [q \in Queues |-> EmptyRing(0)]
    /\ producer = [p \in Producer |-> At("new")]
    /\ task = [c \in Consumer |-> NoTask]
    /\ running = {}
    /\ received = [c \in Consumer |-> <<>>]
    /\ taken = [q \in Queues |-> <<>>]
    /\ owed = <<>>
    /\ acked = {}
    /\ overflows = 0
    /\ interrupted = 0
    /\ failures = 0
    /\ faults = 0

ConsumerStep(c) ==
    dial_back_to_consumer(c) \/ ReadReady(c) \/ Pop(c) \/ Write(c)

Next ==
    \/ \E p \in Producer : register_producer(p) \/ produce_pcm(p)
                           \/ Answer(p) \/ CrashDuringProduce(p)
    \/ \E c \in Consumer : ConsumerStep(c) \/ Die(c) \/ \E g \in Group : register_consumer(c, g)
    \/ \E g \in Group : RegisterFails(g)
    \/ Crash
    \/ Restart

Spec == Init /\ [][Next]_vars

(* The tasks of the broker are scheduled, and consumers read what arrives.  *)
FairSpec == Spec /\ \A c \in Consumer : WF_vars(ConsumerStep(c))

-----------------------------------------------------------------------------
TypeOK ==
    /\ up \in BOOLEAN
    /\ rings \in [Queues -> Ring({0} \cup Message)]
    /\ \A i \in DOMAIN groups :
          /\ groups[i].id \in Group
          /\ groups[i].partitions \in 1 .. MaxPartitions
          /\ groups[i].consumers \in Nat
    /\ disk.count \in [Group -> 0 .. MaxPartitions]
    /\ \A c \in Consumer :
          task[c] \in {NoTask, TaskOver} \/ task[c].queue \in Queues \ {Staging}
    /\ running \subseteq Consumer
    /\ acked \subseteq 1 .. Produced
    /\ Produced <= MaxMessages

(* Two consumers whose tasks still run never pop from the same queue,       *)
(* whatever failed or was reloaded before they registered.                  *)
QueueHasOneTask ==
    \A c, d \in Consumer :
        /\ c # d
        /\ {task[c], task[d]} \cap {NoTask, TaskOver} = {}
        => task[c].queue # task[d].queue

(* A group gets a message at most once, and each of its queues gives out    *)
(* messages in the order they were produced in, staged ones included.       *)
TakenInOrder ==
    /\ \A q \in Queues : \A i, j \in DOMAIN taken[q] : i < j => taken[q][i] < taken[q][j]
    /\ \A g \in Group : \A j, k \in 1 .. MaxPartitions :
          j # k => Range(taken[<<g, j>>]) \cap Range(taken[<<g, k>>]) = {}

(* An answered message is in a queue of every group there was, or was taken *)
(* from one; without groups it is staged or was given to one.  What a crash *)
(* inside produce_pcm loses is one staged message, what an append to a full *)
(* ring loses is the ring.                                                  *)
Kept(m, g) ==
    \E k \in 1 .. MaxPartitions :
        m \in Range(Contents(rings[<<g, k>>])) \cup Range(taken[<<g, k>>])

Missing ==
    {m \in acked :
        IF owed[m] # {} THEN \E g \in owed[m] : ~ Kept(m, g)
        ELSE m \notin Range(Contents(rings[Staging])) /\ \A g \in Group : ~ Kept(m, g)}

AnsweredIsQueued == Cardinality(Missing) <= interrupted + QUEUE_CAPACITY * overflows

(* As long as a consumer stays connected its queue is emptied, and the      *)
(* consumer gets every message that is taken from it, in that order,        *)
(* whatever happens to other consumers.                                     *)
Delivered(c) ==
    LET queue == task[c].queue
    IN  /\ is_empty(rings[queue])
        /\ received[c] = SubSeq(taken[queue], task[c].from + 1, Len(taken[queue]))

QueuedIsDelivered == \A c \in Consumer : []<>(c \in running => Delivered(c))
=============================================================================
