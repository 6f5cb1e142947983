# custom-dmq: TLA+ verification project

This directory holds TLA+ models of custom-dmq, the TLC configurations that
model-check them, and TLAPS proofs of their main safety properties. The models
are translated from the Rust sources (`crates/`), read with the tests and the
documents in `docs/`. `PROJECT.json` is the machine-readable index: which
definition models which lines, which run checks what, which mutated definition
each property catches, and which hazards of the code the properties are for.

## 1. The system

custom-dmq is a message queue: one append-only log per topic-partition, pull
fetch, replication with leader failover run by an embedded controller, a
consumer group coordinator, idempotent producers, and an older push path over
memory-mapped queues. One process is one broker. Every connection is a tokio
task; all of them share one `Broker` behind one async mutex, so a handler is
atomic from `lock().await` to the end of the guard and nowhere else.

### Inventory

| Component | State it keeps | Operations | Interacts with | Hard behaviour |
|---|---|---|---|---|
| Controller and cluster metadata (`cluster_state.rs`, `broker.rs`, `runner.rs run_cluster_background`) | `cluster_state` (leaders, epochs, last-seen times), `cluster` (the view the handlers use), `cluster_state.dat` | heartbeat, controller tick, failover, GET_CLUSTER, apply | every broker polls the controller; PRODUCE and FETCH read the view | old answers applied late, crash between store and use, failing stores, timeouts |
| Replication (`replication.rs`, PRODUCE in `runner.rs`, `apply_replica`) | the logs and files of all replicas, handlers in flight | append, REPLICATE per follower, apply | leadership view, partition logs | lock released between append and replication, late and lost REPLICATEs, stale leaders |
| Group coordinator (`coordinator.rs`, `broker.rs`) | members with generation, partitions, last-seen time | JOIN_GROUP, GROUP_HEARTBEAT, expiry, rebalance | clients; nothing on disk | expiry inside other members' heartbeats, id reuse, lost answers, restart |
| Partition log (`partition_log.rs`, `log_store.rs`) | records, base and next offset; log file | append, retention, fetch, reload | produce, replication, fetch | crash inside an append, failing writes, eviction |
| Idempotent produce (`idempotency.rs`, `metadata.rs`) | last sequence and offset per producer, in memory and in a file | resolve, record | partition log | retries after lost answers and after restarts |
| Fetch and the pull consumer (`fetch_log`, FETCH in `runner.rs`, `consumer_fetch.rs`) | the consumer's next offset, FETCHes that wait | FETCH with long polling, loop | partition log | eviction between two fetches, broker crash, deadline against a late record |
| Topics, committed offsets, lag (`broker.rs`, `metadata.rs`, `topic_config.rs`) | topic list, configurations, offsets per group and partition, each in memory and in a file | CREATE_TOPIC, creation by produce, COMMIT_OFFSET, GET_LAG, DESCRIBE_TOPIC, LIST_TOPICS | logs | crash or failure between two files, state that is not reloaded |
| Legacy push (`topic.rs`, `cgroup.rs`, `mmap_queue.rs`, dial-back tasks) | staging queue, one ring per consumer of a group, group and count files | P_REG, C_REG, PCM, R_PCM | partition log | full rings, a consumer lost after the pop, crash in a fan-out, restart |
| Sessions (`runner.rs`, `client.rs`, `protocol.rs`, `auth.rs`, `acl.rs`) | version, format, principal of a connection | handshake, gates, dispatch | everything | pipelined requests, two frame formats, broken connections |
| Codecs (`message.rs`, `fetch_batch.rs`, `cluster_state.rs`) | none | encode, decode | sessions, `cluster_state.dat` | field positions, lengths at their limits |
| Fsync policy, TLS, metrics, stress harness | small or none | | | counters shared by several files |

What makes each modelled component correct:

- **Control plane**: an epoch names one leader; nobody goes back to an older
  leader; what a broker acts on survives its restart; leaders that keep
  running keep leading; after failures everyone agrees on a live leader.
- **Replication**: a record has one offset everywhere; an answered record
  stays with the broker that answered; followers hold prefixes of the leader's
  log and acknowledgements are copies (until the first failover); every
  request is answered.
- **Coordinator**: every partition has an owner; a membership has one holder;
  punctual members stay, dead ones go.
- **Store**: memory is what a restart reads; an answer and a read are final;
  sequence numbers are stored in order; a reader misses only evicted records.
- **Topics**: the broker never opens without an acknowledged topic; no offset
  is given out twice; lag is never understated; a FETCH is answered, and empty
  only at its deadline and if its last look found nothing.
- **Push**: a queue has one reader; a group gets a message once and in order;
  an answered message is in a queue until it is taken; a connected consumer
  gets what is in its queue.
- **Sessions and codecs**: what one side dispatches or reads is what the other
  side sent, matched and complete, on any mixture of formats and any break of
  the connection; operations run for the principal that authenticated; nobody
  waits for ever.

## 2. Modules

| Module | Models |
|---|---|
| `Leadership.tla` | the abstract promise of the control plane for one partition: leaders elected one after the other under epochs 1, 2, ..., and brokers that learn of elections, never backwards |
| `ClusterControl.tla` | the control plane in detail; implements `Leadership` for every partition |
| `Replication.tla` | replication of one partition, on top of `Leadership` (EXTENDS): the composition of the data plane with what the control plane promises |
| `GroupCoordinator.tla` | the consumer group coordinator and its clients |
| `PartitionStore.tla` | one partition on one broker: log, file, retention, idempotent produce, fetch |
| `Topics.tla` | a topic on one broker: configuration and list, logs as offsets, long-polling FETCH, COMMIT_OFFSET, GET_LAG, and the files behind them |
| `MmapQueue.tla` | the ring of `mmap_queue.rs` (operators) |
| `LegacyPush.tla` | the push path over such rings (EXTENDS `MmapQueue`): registrations, fan-out, staging, dial-back tasks |
| `Wire.tla`, `Payloads.tla` | messages, frames, and the structured data in answers and files, encoded and decoded byte by byte (operators) |
| `Session.tla` | one connection over those bytes (EXTENDS `Payloads`): the broker's loop and gates, a client, and a network that breaks |
| `ClusterControlProofs.tla`, `ReplicationProofs.tla`, `GroupCoordinatorProofs.tla`, `PartitionStoreProofs.tla`, `TopicsProofs.tla`, `LegacyPushProofs.tla`, `SessionProofs.tla` | theorems and proofs about the module each extends |
| `OrderFacts.tla` | two lemmas on the naturals that these proofs share |
| `MCClusterControl.tla`, `MCReplication.tla`, `MCGroupCoordinator.tla`, `MCTopics.tla`, `MCSession.tla` | values for the constants of the runs |

Operators whose comment starts with "Mutant of" are plausible bugs. They are
part of no specification; `PROJECT.json` pairs each checked property with one
of them that TLC catches with it.

### State and actions against the code

**ClusterControl.** `state[b]` is `Broker.cluster_state.assignments`,
`view[b]` the leaders in `Broker.cluster` (rebuilt by `sync_cluster_view`),
`disk[b]` and `torn` the file `cluster_state.dat`. The controller's
`broker_last_seen_ms` is kept as ages (`age`, and `diskAge` for the copy in the
file), capped one above the timeout because the code only compares the
difference with the timeout. `controller_tick` and `handle_broker_heartbeat`
are one action each: record, fail over, store, synchronise the view. They
differ as the code does: a heartbeat always stores, a tick only when an
assignment changed. `task`, `reply` and `beats` are the steps of
`run_cluster_background` on the other brokers, which holds no lock between
sending a heartbeat, reading R_GET_CLUSTER and applying it. A heartbeat that
was sent just before its sender crashed can still be delivered (`late`).
`Started` allows brokers that are not running yet when the controller
bootstraps.

**Replication.** A handler appends under the lock if its broker believes to
lead (`append_log`), then visits the replica list one by one
(`CountSelf`, `send_replicate`, `ConnectFails`, `ResponseTimeout`) and answers
(`Respond`) whatever the number of acknowledgements, as the code does. Calls
are a set: each has its own connection, so they arrive in any order, or after
the sender gave up, or never. `apply_replica` is the follower's handler. A
restart reloads the file only if the broker lists the topic (`registered`),
which `apply_replica` does not see to.

**GroupCoordinator.** `groups` is the coordinator, `client` what each consumer
was last told. `join_group` and `group_heartbeat` are whole handlers, expiry
and rebalance included; either answer may be lost. The group client is not in
the repository (only tests use these requests): it is modelled from the
protocol. `rebalance_pending` is left out, since it is always cleared before
the lock is released.

**PartitionStore.** `produce_idempotent` is the whole handler: resolve, the
topic list when the topic is new, the log in memory, the record in the file,
the entry in memory and in its file. `CrashDuringProduce` leaves the files
after some of the writes; `ProduceFails` is an error return at one of them,
with memory already changed as the code leaves it. `log_meta` files are written
and never read, so they are left out. A message is its producer and sequence
number. `Batches` allows any cut of a batch, as `max_bytes` does. Its consumer
loop is that of a client whose FETCHes are all answered; over v1 the broker
closes the connection after the first (section 5).

**Topics.** `exists`, `config`, `logs` and `committed` are the broker's maps
for one topic; `disk` holds the list of topics, the configuration, the number
of whole records in each log file, the logs that end inside a record (`cut`)
and the offset files. `create_topic` writes the configuration, inserts it, and
has `topic_mut` insert and list the topic; `append_log` lists the topic if it is
new, appends in memory and then to the file. The list is one file for all
topics: `OtherTopic` is the `topic_mut` of another one, which truncates and
rewrites it with whatever topics are in memory. `CreateFails`, `ProduceFails`,
`AppendFails`, `OtherTopicFails` and `CommitFails` return at one of the writes
with memory as the code leaves it, and the actions `CrashDuring...` die there. A
file that is truncated first can be left torn. A torn list, and a torn
configuration or a cut log of a listed topic, keep the broker from opening
(`Opens`). `failed` remembers that a list with the topic in it could not be
stored, `lost` the partitions with a record in memory that did not reach the
file. A round of FETCH is two steps as in the code: `Poll` looks into the log
under the lock, `Check` at the clock after releasing it, and anything may come
between them. `left` counts the ticks to the deadline, and `seen` remembers
whether a record was there before the last look.

**MmapQueue and LegacyPush.** Positions of a ring count messages. A message is
in its slot before the tail is written, and memory and file change together,
so that a crash falls between ring operations. `produce_pcm` is a list of ring
writes (`Writes`): pull from staging, push to the first group, then push to
every group. `CrashDuringProduce` stops after any of them. The partition of a
group is chosen before the drain, as in the code. `register_consumer` creates
the group, assigns a partition and starts the task; `RegisterFails` returns at
one of its steps. `task` is the loop of `run_consumer_ready_and_send`:
read R_PCM, pop under the lock, write; a consumer may die at any of these
points, and its task finds out when it reads or writes.

**Session, Wire, Payloads.** `toBroker` and `toClient` are the bytes under way.
`Serve` is one round of `handle_broker_connection`: read a frame, dispatch,
write the answer, go on or stop. `dispatch_message` applies the gates in the
order of the code and then lets the operation give any answer its arm can
give, with data from small sets (what the operations do is the subject of the
other modules). `Continues` is the rule that only handshakes and negotiated v2
keep a connection open. The client sends the requests of a script in any mixture
of v1 and v2, without waiting for answers. `Break` loses the connection and any
tail of the bytes under way. `env` holds the settings of the process;
`env.token = <<>>` stands for DMQ_AUTH_TOKEN not being set. The encoders and
decoders work on sequences of bytes as the code does, positions and lengths
included. `RequestMessage`, `AnswerMessage`, `ClusterStates` and `DataTypes` are
the types of the structs; numbers stay below 2^31, the bound of TLC's integers,
so the upper bytes of a u64 are zero.

## 3. Runs

| Run | Checks | Bounds |
|---|---|---|
| `cluster_safety` | type invariant, one leader per epoch, epochs never regress, `Leadership` is implemented; arbitrary delays | 3 brokers, 1 partition, brokers 1 (controller) and 2 (leader) may crash once, epochs to 3 |
| `cluster_faults` | a broker acts only on stored leadership, with stores that fail or truncate the file | the same, controller may crash, epochs to 2 |
| `cluster_timely` | only failed leaders are deposed; leaders recover (liveness) | no late heartbeats, leader 2 may crash |
| `replication_safety` | offsets, answers, prefixes, acknowledgements; every request is answered (liveness) | 3 brokers, 2 requests, 2 epochs, 2 crashes |
| `group_membership` | assignment, fencing, punctual members stay, dead members leave (liveness) | 2 clients, 3 partitions, 4 joins, 1 restart, timeout of 1 tick |
| `store_crashes` | the store's properties, with crashes inside operations and a failing write | 2 producers, 3 sequence numbers, 4 appends, 2 retained records, 2 crashes, 1 failure |
| `topic_files` | the broker never opens without a created topic, offsets are not answered twice, lag is not understated, empty answers come at the deadline and after a look that found nothing; every FETCH is answered (liveness) | 2 partitions, 1 group, 1 fetcher, 2 records per log file, retention 1 or 2, waits of up to 1 tick, offset 1 fetched and committed, 2 faults (crashes or failing writes) |
| `push_queues` | one task per queue, order, nothing lost but what section 5 names; delivery to connected consumers (liveness) | 2 groups, 2 consumers, 1 producer, rings of 3 slots, 3 messages, 1 crash or death, 1 failing registration |
| `session_frames` | requests, answers and metadata arrive intact, principals; every request is settled (liveness) | scripts of up to 3 requests, each kind of request alone and behind a handshake, 2 settings |

Three more runs expect a violation, each of something the documentation or a
comment says: `replication_loss`, `group_overlap` and `topic_commits`. The
findings in `PROJECT.json` quote the lines.

**Why the bounds are enough.** Three brokers and one partition give a
controller that does not lead, a leader and a spare replica: every role in
failover, and the replica list is scanned past a dead candidate. Two epochs
beyond the first allow a leader to be deposed twice and an answer to be two
elections old. Timeout 1 gives the three ages that matter (fresh, at the
timeout, beyond). Two requests are enough for reordered REPLICATEs, a gap and a
late duplicate; two crashes for a follower and a leader. Two retained records
of four appended give eviction before and after a restart. Joins are four so
that both clients can lose an answer and come back. Two faults in `Topics` are
an interrupted operation and a crash later on, and two records in a file allow
one before a failed write and one after it; a wait of one tick gives a FETCH a
round before its deadline and one at it, and offset 1 is beyond the first
record and not beyond the second; a requested retention of 0
becomes 1, so that a created topic evicts with its second record, and both
partition ids occur with a configured count of 1 and of 2. A ring of three
slots holds two messages and overflows with the third, so that three messages
wrap it, overflow it, or are staged and drained in order. The requests of `Session` have distinct
values, wider than a byte, in all fields, so that a field read from a wrong
place shows; payloads put a PRODUCE frame at 254, 255 and over 255 bytes, and
R_FETCH at and above the limit of v1. The theorems below need none of these
bounds.

**Deadlock** is checked except where the system may stop: in the store and
topic runs the last crash may leave a file the broker refuses to open, in
`push_queues` and `session_frames` clients end and connections close.

**Fairness.** `ClusterControl`: the clock and the controller's tick go on, and
each background loop goes on (tokio runs every ready task; the loop retries for
ever). Sending, delivering and fetching are strongly fair: the code retries
for ever, and that a connection tried again and again succeeds again and again
is an assumption on the network. `Replication`: handlers go on because both
waits of `send_replicate` have a timeout, and a running broker serves what it
has received. `GroupCoordinator`: time passes, and a living member heartbeats
until it gets an answer. `Topics`: time passes, and the task of a waiting
FETCH wakes from its sleep, gets the lock and looks at the clock. `LegacyPush`: the task of a consumer goes on (a poll of an empty
queue is repeated for ever). `Session`: the broker's task and the client read
what has arrived; a broken connection is noticed. Crashes, elections, joins,
requests and broken connections are never forced.

## 4. Proofs

The proof modules are checked by TLAPS without any assumption beyond the named
ASSUMEs of the models, which TLC evaluates in the runs, and the hypotheses
named below, which stand in the theorems. They hold for any number of brokers,
partitions, replicas, requests, members, groups, producers, crashes and epochs,
any retention and any capacity of a ring. The ASSUMEs say of which kind the
constants are; beyond that, `StoreAssumption` has finitely many producers
(copies are counted per producer), `PushAssumption` allows a group at least
one partition (`cgroup.rs` starts it with one), and `SessionAssumption` gives
requests and answer data the types of the code's structs, with host names of at
most 255 bytes (longer ones are cut by `ClusterState::encode`), at most 65535
last-seen times (their count is a u16) and fewer than 2^23 requests on one
connection (so that the correlation ids of the model's client stay numbers).

**ClusterControlProofs.** `TypeCorrect` is direct. `EpochHasOneLeader` is not
inductive: a restart can bring back any file and a late answer any old state.
`MetadataInv` says what all copies have in common: each is a past election of
the history `elected`, the controller's memory and file are the latest one, and
on another broker file and memory agree and are no newer than the controller,
while an answer still to be applied is no older than what the broker knows.
That ordering is what makes the missing epoch comparison in
`apply_cluster_state` harmless. From it follow
`EpochHasOneLeaderCorrect`, `EpochsNeverRegressCorrect` and
`LeadershipImplemented` (initial states map to initial states, a controller
step to `Elect` or a stutter, an apply to `Learn`). These four assume
`DiskFaults = FALSE`. `ActsOnStoredLeadersCorrect` holds with failing stores
too, and so does `OnlyFailedLeadersDeposedCorrect`, which assumes `Timely` (no
heartbeat is late) and a controller that does not crash; section 5 says why.
Its `TimelyInv`: the controller has heard of every broker that kept running
within the timeout, and the leader a failover examines is the last elected one.

**ReplicationProofs.** `TypeCorrect` holds whichever brokers list the topic;
the rest assumes that all of them do (`CreatedOn = Broker`), without which
a follower forgets its log (section 5). `ReplicaInv` consists of
`StorageInv` (logs equal files), `RecordInv` (every record in a log, a call or
an answer is at the offset its handler took), `OriginInv` (every record a
handler took is still in its own broker's log at that offset) and `LeaderInv`
(beliefs are elections; before the first failover only the seed leader has appended). It gives
`RecordHasOneOffsetCorrect`, `AnsweredIsKeptCorrect` and
`FollowersArePrefixesCorrect`. `AcksAreCopiesCorrect` adds that a handler at
position k has counted only brokers before k that hold its record
(`PositionInv`, `AckInv`), with the library's facts on cardinality.

**GroupCoordinatorProofs.** `CoreInv` (types, and every partition owned) is
inductive once it also counts: a group has at most as many members as there
were joins, and its generation plus its members at most twice as many, so that
the ids `next_member_id` finds stay in range. The main lemma is on
`range_assign`: the ranges it computes, taken in the order of the members,
cover all partitions. `OneClientPerMember` needs `GenerationInv`: until a
restart no client knows a generation the group has not reached, and no two
clients of a topic know the same one. `HeartbeatsKeepMembership` needs
`SessionInv` (the coordinator never counts a punctual client as longer silent
than it was) and the hypothesis `OneTopicPerGroup`, without which it is false
(section 5).

**PartitionStoreProofs.** `TypeInv` holds whatever fails and contains
`LogIsContiguous`. `SoundInv` holds while no write failed: memory is the window
of the file that retention keeps (`FilesInv`), the file holds what entries,
answers and readers know of it (`EntriesHold`, `AnswerInv`, `SeenInv`), the last
record of a producer is that of its entry or the one after it, and every record
stored twice was once without an entry (`CopiesCounted`). The crash between the
record and its entry is why the plain property is not inductive.
`MemoryIsReloadable` needs what `load_partition_log` computes for a file of any
length: a record at a time, it computes the window of the records read so far.

**TopicsProofs.** `TopicInv` has a part for each pair of pieces of state that can
come apart. `ListInv`: while no store of a list with the topic failed, the list
is that of memory or torn, and without a listed topic nothing is stored for it.
`OffsetInv`: for the partitions that the configuration in memory or on disk
covers, memory is never behind the log file, and a partition that lost no record
goes on where its file ends, with every answered offset in the file (`Kept`,
`InFile`). `CommitInv`: a committed offset is the last one asked for, or 0.
`CreatedInv`: an answered CREATE_TOPIC is in memory, its configuration is in its
file, and the list has the topic or is torn; a rewrite for another topic keeps
this because it writes the topics in memory. `FetchInv`: a record that was there
for a polling FETCH is there when it looks, so that a FETCH between a look that
found nothing and the clock has seen none. The theorems hold for failing writes
of all files; what they except is in the properties.

**LegacyPushProofs.** `BaseInv` has types, the registry with its files
(`RegistryInv`) and `OwnersInv` (a running task reads a partition of a known
group that has consumers, and no other task reads it), which gives
`QueueHasOneTask`. `OrderInv` says that the rings and what was taken from them
are sorted and disjoint, with staged messages younger than queued ones; it is
shown for the rings after every single write of `produce_pcm`, because a crash
may stop there. `LossInv` is `AnsweredIsQueued` with the messages whose answer is
still under way counted in. Its step is an argument on one produce: a ring
overflows at most once, an overflow loses at most the slots of its ring, and
whatever else leaves the staging queue is in a group's queue, except the one
message between a pull and its push when a crash falls there.

**SessionProofs.** `PrincipalInv` ties the session to the requests dispatched so
far: handshaken if one of them was a good handshake, and with the principal of
the last such. `RunsForItsPrincipalCorrect` leaves bytes uninterpreted, so that
it holds for whatever arrives.

The other three theorems are about the bytes, and their lemmas climb from one
level of the code to the next:

1. `Get` reads at a position what `Put` wrote there, whatever surrounds it;
2. each decoder of `message.rs` returns what its encoder was given, and
   `parse_frame` finds the decoder by the type byte (`RequestsSurvive`,
   `AnswersSurvive`);
3. `read_frame` and `read_message` find the frame that `write_frame` wrote at
   the front of a stream, with the number of bytes it takes, and on a proper
   prefix of it they wait: a cut frame is never misread;
4. `Aligned` describes a stream: the bytes under way are those of the writes not
   read yet, all of them or, once the connection broke, as far as they go.
   Writing, reading and cutting keep a stream aligned.

The invariants say this of the two directions. `SentInv`: what the client sent is
well typed and from its script. `ArrivesInv`: dispatched requests equal the sent
ones up to the first that does not fit its frame, and until that one is read the
stream to the broker is aligned with the rest. `AnswersInv` is the same for
answers and the stream to the client, together with what keeps the two sides in
step: while the connection is open every dispatched request has been answered,
and the i-th answer carries the id and the format of the i-th request dispatched.
The properties are not inductive without the alignment, and the alignment not
without the exception for frames that do not fit: after one of those the streams
may hold anything (section 5), and the proofs only use that bytes are bytes.
`ArrivesAsSentCorrect` and the first two parts of `AnswersMatchCorrect` follow.

The data in answers are lists of items of differing lengths. `ReadItems`, started
behind the count, reaches each item where `FlattenSeq` put it; this is shown for a
list of any length by induction on a set (`NatSet`), and once for each kind of
item, because an operator cannot be a parameter of a lemma here. With the bound
that a fitting frame puts on every list in it, the counts do not wrap, and the last part of
`AnswersMatchCorrect` and `ClusterMetadataSurvivesCorrect` follow; the latter
also for the layout of `cluster_state.dat`.

`ArrivesInv` and `AnswersInv` quantify over all sets and all positions, which TLC
cannot evaluate; the run checks the properties they imply.

**Recursion.** The library's induction theorems cannot be instantiated here.
Where a proof needs what a recursive function computes (`load_partition_log`,
the rings after n writes, `ReadItems`), it takes a least counterexample instead, by `NatMin`
of `OrderFacts`, and refutes it with the function's one-step equation.

**Only model-checked**: liveness (`LeadersRecover`, `ProduceAnswered`,
`DeadMembersLeave`, `FetchAnswered`, `QueuedIsDelivered`,
`EveryRequestSettled`), which this prover cannot do. Every safety property of a
passing run is stated by a theorem.

## 5. Deviations met while modelling

With a run (see the findings): a record acknowledged by
`min_insync_replicas` can be missing on the next leader (`replication_loss`); a
join gives the new member partitions of others (`group_overlap`); committed
offsets are written and not read back after a restart (`topic_commits`).

Shown by a configuration that is not kept as a run:

- a restarted controller deposes leaders that never failed:
  `OnlyFailedLeadersDeposed` with the constants of `ClusterTimely.cfg` and
  `Crashable = {1}`;
- `DMQ_ACKS=all` answers without enough acknowledgements: `AckedByMinInsync`
  with `ReplicationSafety.cfg`;
- a follower that only ever got REPLICATEs forgets the topic over a restart:
  `RecordHasOneOffset` with `ReplicationSafety.cfg` and `CreatedOn = {}`;
- a crash inside idempotent produce stores a retry twice: `NoDuplicates` with
  `StoreCrashes.cfg`;
- a crash inside an append, or while the topic list is rewritten for some other
  topic, leaves a file that keeps a broker with acknowledged topics from
  opening: `BrokerReopens` with `TopicCommits.cfg`. `CreatedTopicSurvives`
  therefore says that the broker never opens without the topic, not that it
  opens.

Seen in the models and left without a run of their own:

- only the configured controller fails over, so the partitions it leads stay
  with it when it dies (`runner.rs` 602-634; `docs/runbook.md` 54);
- a failed store leaves new epochs visible to GET_CLUSTER that a restart
  forgets and gives out again (`broker.rs` 223-237); this is why
  `EpochHasOneLeader` is claimed for `DiskFaults = FALSE`;
- REPLICATE carries no epoch, so a follower stores records of a deposed leader,
  and a follower that missed a record refuses all later ones for ever
  (`broker.rs` 503-541; `docs/architecture.md` 35, `docs/protocol.md` 67);
- `group_heartbeat` finds a group by its id alone, so a group id used on two
  topics loses members (`broker.rs` 294-313); `HeartbeatsKeepMembership` is
  claimed for one topic;
- after an expiry the remaining members are never told their new partitions
  (`coordinator.rs` 110-120);
- after a failed write the offsets in the log file no longer follow one another
  (`broker.rs` 464-475), and a file cut inside a record or during a rewrite
  keeps `Broker::open` from starting (`log_store.rs` 95-99). The store's
  durability properties are claimed while no write failed, and `Restart` is
  disabled for torn files. A broker that goes on appending behind a torn record
  and is restarted then misreads the file; that is outside the model, and so is
  a write cut inside one `write_all`;
- a v1 request of 255 bytes starts with the marker of v2, and longer frames
  wrap (`protocol.rs` 76, `message.rs` 857). `Receive` reads a v1 answer as the
  command-line clients do (`message::read_message`), which take 255 bytes;
  `ClientStream::read_message` reads it with `read_frame` and refuses those
  (`client.rs` 67-70). `ArrivesAsSent`, `AnswersMatch`
  and `EveryRequestSettled` are claimed for frames that fit. Answers that do
  not: R_FETCH of several records, R_GET_CLUSTER of a larger cluster
  (`sync_cluster_state_from_controller` uses v1), and PRODUCE near the limits
  `dmq-stress` and `limits.rs` allow;
- a v1 connection is closed after one answer (`runner.rs` 211-220), though
  `consumer_fetch.rs` and `producer_direct.rs` go on using theirs;
- `admin cluster` decodes another layout than a cluster broker sends
  (`admin.rs` 157); an R_ERROR without a code panics its reader
  (`message.rs` 621-745);
- a direct producer numbers its records from 0 whenever it starts, under
  producer id 1 by default: after one record, the first record of the next
  start is answered with the old offset and not stored (`producer_direct.rs`
  27-50, `idempotency.rs` 37);
- a full ring looks empty, and its messages are lost (`mmap_queue.rs` 96).
  `AnsweredIsQueued` counts these losses, and one staged message per crash
  inside a drain;
- staged messages wait for the next produce, and go to the first group only
  (`broker.rs` 721-723); a consumer that comes back gets a new partition while
  messages are still routed to its old one (`cgroup.rs` 41-59); the task of a
  dead consumer takes one more message from its queue (`broker.rs` 872-888);
- PCM is appended without asking who leads, and is not replicated
  (`broker.rs` 705);
- a failed store of the topic list is not repeated, so that a restart forgets
  the topic (`broker.rs` 432-443): `OffsetsNeverReissued` and
  `LagNeverUnderstated` are claimed while no such store failed. After a failing
  write of a record (`broker.rs` 474) the file is renumbered when it is loaded
  (`log_store.rs` 100-103), so that offsets of that partition are answered
  again: `OffsetsNeverReissued` excepts it (`lost`). A record appended after the
  last look of a FETCH and before it reads the clock is not in its answer
  (`runner.rs` 319-333), also when the deadline was still to come at the append.
  An interrupted
  CREATE_TOPIC leaves a configuration that a topic created by produce takes up
  at the next restart, or a torn file that keeps the broker from opening;
  partition ids beyond the configured count are accepted and forgotten
  (`broker.rs` 395-410); a FETCH before CREATE_TOPIC fixes the default
  retention of its log until a restart (`broker.rs` 445-450).

Simplifications a reader should know of:

- `Replication` appends to log and file together: the failing file writes of
  `append_log` and `apply_replica` (`broker.rs` 474, 538) are in
  `PartitionStore` and `Topics`, for one broker;
- `Topics.Opens` looks at the topic list and at the configuration and logs of
  the topic. Torn idempotency, consumer group and count files and the files of
  other topics keep the broker from opening as well. Records appended behind a
  cut one, and writes cut inside one `write_all`, are left out there too;
- ages in `ClusterControl` and `GroupCoordinator` stop growing one tick past
  the timeout, since the code only compares them with it;
- tokens are taken as valid UTF-8: `principal_from_token` replaces invalid
  bytes (`auth.rs` 31), so two such tokens may name one principal.

## 6. Plan

Done: the models of all components that keep state across requests
(`Leadership`, `ClusterControl`, `Replication`, `GroupCoordinator`,
`PartitionStore`, `Topics`, `MmapQueue`, `LegacyPush`, `Wire`, `Payloads`,
`Session`), and proofs of all their safety properties. To come: idempotent
produce across a failover, which is the composition of `PartitionStore` and
`Replication`.

## 7. Not modelled

- The fsync policy. What is written and not synced is lost with the machine,
  not with the process; the models lose processes. A model of power failures
  would have to lose any suffix of unsynced writes of every file.
- The stress harness, metrics, request logging, command line parsing and
  printing: they change nothing another component reads.
- TLS and lz4: libraries. Batches are taken as uncompressed.
- Parsing of settings and of the TOML cluster file (`cluster.rs`): inputs of
  the models.
- Clock steps (`now_ms` is wall-clock time): ages only grow.
- Idempotency entries after a failover: they are not replicated, so a retry at
  the new leader is refused or appended again. `PartitionStore` has one broker
  and `Replication` plain produce.
- The cut of messages longer than MAX_MSG_SIZE by a ring: PCM frames are v1 and
  carry less.
