------------------------------- MODULE Topics -------------------------------
(***************************************************************************)
(* A topic of one broker: its configuration and the list of topics, the    *)
(* logs of its partitions, long-polling FETCH, COMMIT_OFFSET and GET_LAG.  *)
(* broker.rs, metadata.rs, topic_config.rs and the Fetch arm of            *)
(* dispatch_message.                                                       *)
(*                                                                         *)
(* A log is its first and next offset and its retention; what records hold *)
(* is PartitionStore's subject.  A file that is truncated and written anew *)
(* may be left "torn" by a failure or a crash, a log file may end inside a *)
(* record; a broker that finds the topic list, or the configuration or a   *)
(* log of a listed topic, in such a state does not open.  The list is one  *)
(* file for all topics of the broker and is rewritten for every new one.   *)
(***************************************************************************)
EXTENDS Integers, Sequences, FiniteSetsExt

CONSTANTS
    Partition, Group, Fetcher,
    Requested,          \* configurations CREATE_TOPIC asks for
    Offset,             \* offsets clients fetch from and commit
    DefaultMaxRecords,  \* retention of topics nobody configured
    MaxOffset,          \* bound: records appended to a partition
    MaxWait,            \* bound: ticks a FETCH may wait
    MaxFaults           \* bound: crashes and failing writes

ASSUME TopicsAssumption ==
    /\ Partition \subseteq Nat /\ 0 \in Partition
    /\ Requested \subseteq [partitions : Nat, max : Nat]
    /\ DefaultMaxRecords \in Nat \ {0}
    /\ Offset \cup {MaxOffset, MaxWait, MaxFaults} \subseteq Nat

VARIABLES
    up,         \* the broker runs
    exists,     \* topics has the topic
    config,     \* topic_configs
    logs,       \* logs
    committed,  \* committed_offsets
    disk,       \* topic list, configuration, log and offset files; cut: the
                \* partitions whose log file ends inside a record
    fetch,      \* the FETCH a fetcher waits for
    answer,     \* history: the last answer to a fetcher
    created,    \* history: the configuration of an answered CREATE_TOPIC
    issued,     \* history: offsets answered to producers, per partition
    asked,      \* history: the last COMMIT_OFFSET handled
    failed,     \* history: storing the list with the topic in it failed
    lost,       \* history: partitions whose file lost a record that is in logs
    faults

memory    == <<exists, config, logs, committed>>
histories == <<answer, created, issued, asked, failed, lost>>
vars      == <<up, memory, disk, fetch, histories, faults>>

-----------------------------------------------------------------------------
None  == [is |-> "none"]    \* no file; for the list also one without the topic
Torn  == [is |-> "torn"]
Whole == [is |-> "whole"]   \* the list of topics, with the topic in it
Value(v) == [is |-> "value", of |-> v]

AtLeast1(n) == IF n = 0 THEN 1 ELSE n

(* TopicConfig::new and default_for *)
TopicConfig(request) ==
    [partitions |-> AtLeast1(request.partitions), max |-> AtLeast1(request.max)]

default_for == [partitions |-> 1, max |-> DefaultMaxRecords]

topic_config(c) == IF c = None THEN default_for ELSE c.of

(* A log of n records under a retention, and no log. *)
LogOf(n, max) ==
    Value([base |-> IF n > max THEN n - max ELSE 0, next |-> n, max |-> max])

(* ensure_log_with_config: an existing log keeps the retention it has. *)
ensure_log(l, c, p) ==
    [l EXCEPT ![p] = IF @ = None THEN LogOf(0, topic_config(c).max) ELSE @]

next_offset(p) == IF logs[p] = None THEN 0 ELSE logs[p].of.next

(* append and enforce_retention *)
Appended(l, p) ==
    LET log == l[p].of IN
    [l EXCEPT ![p] = Value([base |-> Max({log.base, log.next + 1 - log.max}),
                            next |-> log.next + 1, max |-> log.max])]

-----------------------------------------------------------------------------
(* topic_mut: a topic nobody created has the default configuration, in      *)
(* memory only; then the list of topics is stored.                          *)
topic_mut(c) ==
    /\ exists' = TRUE
    /\ config' = IF c = None /\ ~ exists THEN Value(default_for) ELSE c

(* Mutant of persist_topics: only the topic that is new is written. *)
persist_new_topic(d, known) ==
    [d EXCEPT !.topics = IF known /\ ~ exists THEN Whole ELSE None]

(* The list is written anew from the topics in memory. *)
persist_topics(d, known) == [d EXCEPT !.topics = IF known THEN Whole ELSE None]

Listed == IF exists THEN disk ELSE persist_topics(disk, TRUE)

Configured(cfg) == [disk EXCEPT !.config = Value(cfg)]

(* CREATE_TOPIC: the configuration file, the list of topics, the logs. *)
create_topic(request) ==
    /\ up
    /\ ~ exists
    /\ LET cfg == TopicConfig(request) IN
       /\ topic_mut(Value(cfg))
       /\ logs' = [p \in Partition |->
                      IF p < cfg.partitions THEN ensure_log(logs, Value(cfg), p)[p] ELSE logs[p]]
       /\ disk' = persist_topics(Configured(cfg), TRUE)
       /\ created' = Value(cfg)
    /\ UNCHANGED <<up, committed, fetch, answer, issued, asked, failed, lost, faults>>

(* PRODUCE to any partition id: append_log up to the file.  The record is   *)
(* in memory, and FETCH finds it, whether it reaches the file or not.       *)
AppendInMemory(p) ==
    /\ up
    /\ disk.log[p] < MaxOffset
    /\ topic_mut(config)
    /\ logs' = Appended(ensure_log(ensure_log(logs, config', 0), config', p), p)
    /\ fetch' = [f \in Fetcher |->
                    IF fetch[f].state = "polling" /\ fetch[f].p = p
                       /\ fetch[f].offset <= next_offset(p)
                    THEN [fetch[f] EXCEPT !.seen = TRUE] ELSE fetch[f]]
    /\ UNCHANGED <<up, committed, answer, created, asked, failed>>

(* append_record: the record is whole in the file, or cut. *)
WithRecord(d, p) == [d EXCEPT !.log[p] = @ + 1]
WithCut(d, p)    == [d EXCEPT !.cut = @ \cup {p}]

append_log(p) ==
    /\ AppendInMemory(p)
    /\ disk' = WithRecord(Listed, p)
    /\ issued' = [issued EXCEPT ![p] = Append(@, next_offset(p))]
    /\ UNCHANGED <<lost, faults>>

(* append_record fails before, inside or after the record (its offsets in   *)
(* log_meta): nothing is taken back in memory, and no offset is answered.   *)
AppendFails(p) ==
    /\ AppendInMemory(p)
    /\ faults < MaxFaults
    /\ faults' = faults + 1
    /\ \/ /\ disk' \in {Listed, WithCut(Listed, p)}
          /\ lost' = lost \cup {p}
       \/ /\ disk' = WithRecord(Listed, p)
          /\ UNCHANGED lost
    /\ UNCHANGED issued

-----------------------------------------------------------------------------
(* FETCH: the answer waits for records until max_wait_ms have passed.  A    *)
(* round looks into the log under the broker's lock, and at the clock when  *)
(* the lock is released.                                                    *)
Available(p, offset) ==
    /\ logs[p] # None
    /\ Max({offset, logs[p].of.base}) < logs[p].of.next

Idle == [state |-> "idle", p |-> 0, offset |-> 0, left |-> 0, seen |-> FALSE]

(* seen: there was a record for it at some time before its last look. *)
Fetch(f, p, offset, wait) ==
    /\ up
    /\ fetch[f].state = "idle"
    /\ fetch' = [fetch EXCEPT ![f] = [state |-> "polling", p |-> p, offset |-> offset,
                                      left |-> wait, seen |-> Available(p, offset)]]
    /\ answer' = [answer EXCEPT ![f] = None]
    /\ UNCHANGED <<up, memory, disk, created, issued, asked, failed, lost, faults>>

(* Mutant of Found: the deadline is looked at before the records. *)
FoundInTime(f) ==
    IF Available(fetch[f].p, fetch[f].offset) /\ fetch[f].left > 0 THEN "records" ELSE "empty"

Found(f) == IF Available(fetch[f].p, fetch[f].offset) THEN "records" ELSE "empty"

(* The look: fetch_log, which creates the log if there is none. *)
Poll(f) ==
    /\ up
    /\ fetch[f].state = "polling"
    /\ logs' = ensure_log(logs, config, fetch[f].p)
    /\ fetch' = [fetch EXCEPT ![f] = [@ EXCEPT !.state = Found(f)]]
    /\ UNCHANGED <<up, exists, config, committed, disk, histories, faults>>

(* The clock: records, or an empty batch at the deadline, are answered.     *)
(* Otherwise the task sleeps, and a new round begins.                       *)
Check(f) ==
    /\ fetch[f].state \in {"records", "empty"}
    /\ \/ /\ fetch[f].state = "records" \/ fetch[f].left = 0
          /\ answer' = [answer EXCEPT ![f] = Value([found |-> fetch[f].state,
                            seen |-> fetch[f].seen, left |-> fetch[f].left])]
          /\ fetch' = [fetch EXCEPT ![f] = Idle]
       \/ /\ fetch[f].state = "empty" /\ fetch[f].left > 0
          /\ fetch' = [fetch EXCEPT ![f] = [@ EXCEPT !.state = "polling",
                            !.seen = Available(fetch[f].p, fetch[f].offset)]]
          /\ UNCHANGED answer
    /\ UNCHANGED <<up, memory, disk, created, issued, asked, failed, lost, faults>>

(* Mutant of Later: a FETCH gets its wait anew at every round. *)
LaterAnew(ticks) == ticks

Later(ticks) == IF ticks = 0 THEN 0 ELSE ticks - 1

Tick ==
    /\ \E f \in Fetcher : fetch[f].left > 0
    /\ fetch' = [f \in Fetcher |-> [fetch[f] EXCEPT !.left = Later(@)]]
    /\ UNCHANGED <<up, memory, disk, histories, faults>>

-----------------------------------------------------------------------------
(* COMMIT_OFFSET: any offset, into memory and then the offset file. *)
OffsetFile(g, p, left) == [disk EXCEPT !.offset = [@ EXCEPT ![<<g, p>>] = left]]

commit_offset(g, p, offset) ==
    /\ up
    /\ committed' = [committed EXCEPT ![<<g, p>>] = offset]
    /\ disk' = OffsetFile(g, p, Value(offset))
    /\ asked' = [asked EXCEPT ![<<g, p>>] = offset]
    /\ UNCHANGED <<up, exists, config, logs, fetch, answer, created, issued, failed, lost, faults>>

CommitFails(g, p, offset) ==
    /\ up
    /\ faults < MaxFaults
    /\ faults' = faults + 1
    /\ committed' = [committed EXCEPT ![<<g, p>>] = offset]
    /\ disk' \in {disk, OffsetFile(g, p, Torn)}
    /\ asked' = [asked EXCEPT ![<<g, p>>] = offset]
    /\ UNCHANGED <<up, exists, config, logs, fetch, answer, created, issued, failed, lost>>

(* Mutant of committed_offset: a group that has not committed is at the end. *)
committed_or_end(g, p) == IF committed[<<g, p>>] = 0 THEN next_offset(p) ELSE committed[<<g, p>>]

committed_offset(g, p) == committed[<<g, p>>]

(* GET_LAG *)
get_lag(g, p) == Max({0, next_offset(p) - committed_offset(g, p)})

-----------------------------------------------------------------------------
(* What the files may hold when storing the configuration or the list of    *)
(* topics is interrupted, by a failing write or a crash.                    *)
ConfigInterrupted == {disk, [disk EXCEPT !.config = Torn]}
ListInterrupted(d, known) == {d, [d EXCEPT !.topics = Torn], persist_topics(d, known)}

(* One of the writes of create_topic fails; topic_mut has the topic in      *)
(* memory before its list is stored.                                        *)
CreateFails(request) ==
    /\ up
    /\ ~ exists
    /\ faults < MaxFaults
    /\ faults' = faults + 1
    /\ LET cfg == TopicConfig(request) IN
       \/ /\ disk' \in ConfigInterrupted
          /\ UNCHANGED <<exists, config, failed>>
       \/ /\ disk' = Configured(cfg)         \* the staging queue cannot be opened
          /\ config' = Value(cfg)
          /\ UNCHANGED <<exists, failed>>
       \/ /\ disk' \in ListInterrupted(Configured(cfg), TRUE)
          /\ topic_mut(Value(cfg))
          /\ failed' = TRUE
    /\ UNCHANGED <<up, logs, committed, fetch, answer, created, issued, asked, lost>>

ProduceFails ==
    /\ up
    /\ ~ exists
    /\ faults < MaxFaults
    /\ faults' = faults + 1
    /\ topic_mut(config)
    /\ disk' \in ListInterrupted(disk, TRUE)
    /\ failed' = TRUE
    /\ UNCHANGED <<up, logs, committed, fetch, answer, created, issued, asked, lost>>

(* topic_mut of another topic: the list is stored again, or storing it      *)
(* fails.                                                                   *)
OtherTopic ==
    /\ up
    /\ disk' = persist_topics(disk, exists)
    /\ UNCHANGED <<up, memory, fetch, histories, faults>>

OtherTopicFails ==
    /\ up
    /\ faults < MaxFaults
    /\ faults' = faults + 1
    /\ disk' \in ListInterrupted(disk, exists)
    /\ UNCHANGED <<up, memory, fetch, histories>>

-----------------------------------------------------------------------------
(* The broker dies, also inside an operation. *)
CrashLeaving(disks) ==
    /\ up
    /\ faults < MaxFaults
    /\ faults' = faults + 1
    /\ up' = FALSE
    /\ disk' \in disks
    /\ exists' = FALSE
    /\ config' = None
    /\ logs' = [p \in Partition |-> None]
    /\ committed' = [gp \in Group \X Partition |-> 0]
    /\ fetch' = [f \in Fetcher |-> Idle]
    /\ UNCHANGED histories

Crash == CrashLeaving({disk})

CrashDuringCreate(request) ==
    /\ ~ exists
    /\ CrashLeaving(ConfigInterrupted \cup ListInterrupted(Configured(TopicConfig(request)), TRUE))

CrashDuringProduce(p) ==
    /\ disk.log[p] < MaxOffset
    /\ CrashLeaving({Listed, WithCut(Listed, p), WithRecord(Listed, p)}
                    \cup (IF exists THEN {} ELSE ListInterrupted(disk, TRUE)))

CrashDuringOtherTopic == CrashLeaving(ListInterrupted(disk, exists))

(* open_with_cluster_and_id: the list, the configurations of listed topics, *)
(* and the logs of as many partitions as these say must be whole.  So must  *)
(* the idempotency and group files, which are not of this module.  Writes   *)
(* are cut between two calls of write_all; what reading makes of records    *)
(* behind a cut one is left out.                                            *)
Opens ==
    \/ disk.topics = None
    \/ /\ disk.topics = Whole
       /\ disk.config # Torn
       /\ \A p \in disk.cut : p >= topic_config(disk.config).partitions

(* Mutant of Loaded: logs are read from partition 1 on. *)
LoadedFromOne(p) ==
    IF disk.topics = None \/ p >= topic_config(disk.config).partitions \/ p = 0 THEN None
    ELSE LogOf(disk.log[p], topic_config(disk.config).max)

Loaded(p) ==
    IF disk.topics = None \/ p >= topic_config(disk.config).partitions THEN None
    ELSE LogOf(disk.log[p], topic_config(disk.config).max)

(* No committed offset is read. *)
Restart ==
    /\ ~ up
    /\ Opens
    /\ up' = TRUE
    /\ exists' = (disk.topics # None)
    /\ config' = IF disk.topics = None THEN None ELSE disk.config
    /\ logs' = [p \in Partition |-> Loaded(p)]
    /\ UNCHANGED <<committed, disk, fetch, histories, faults>>

-----------------------------------------------------------------------------
Init ==
    /\ up = TRUE
    /\ exists = FALSE
    /\ config = None
    /\ logs = [p \in Partition |-> None]
    /\ committed = [gp \in Group \X Partition |-> 0]
    /\ disk = [topics |-> None, config |-> None, log |-> [p \in Partition |-> 0],
               cut |-> {}, offset |-> [gp \in Group \X Partition |-> None]]
    /\ fetch = [f \in Fetcher |-> Idle]
    /\ answer = [f \in Fetcher |-> None]
    /\ created = None
    /\ issued = [p \in Partition |-> <<>>]
    /\ asked = [gp \in Group \X Partition |-> 0]
    /\ failed = FALSE
    /\ lost = {}
    /\ faults = 0

Next ==
    \/ \E request \in Requested :
          create_topic(request) \/ CreateFails(request) \/ CrashDuringCreate(request)
    \/ \E p \in Partition : append_log(p) \/ AppendFails(p) \/ CrashDuringProduce(p)
    \/ ProduceFails
    \/ OtherTopic \/ OtherTopicFails \/ CrashDuringOtherTopic
    \/ \E f \in Fetcher :
          \/ Poll(f)
          \/ Check(f)
          \/ \E p \in Partition, offset \in Offset, wait \in 0 .. MaxWait :
                Fetch(f, p, offset, wait)
    \/ \E g \in Group, p \in Partition, offset \in Offset :
          commit_offset(g, p, offset) \/ CommitFails(g, p, offset)
    \/ Tick
    \/ Crash
    \/ Restart

Spec == Init /\ [][Next]_vars

(* Time passes, and the task of a waiting FETCH gets the lock and runs on.  *)
FairSpec ==
    Spec /\ WF_vars(Tick) /\ \A f \in Fetcher : WF_vars(Poll(f)) /\ WF_vars(Check(f))

-----------------------------------------------------------------------------
(* A topic whose CREATE_TOPIC was answered with 0 is there with that        *)
(* configuration whenever the broker runs.  While it does not, the files    *)
(* hold the configuration, and a list that has the topic or is torn: no     *)
(* crash or failure, also in the requests of other topics, lets the broker  *)
(* open without it.                                                         *)
CreatedTopicSurvives ==
    created # None =>
        /\ up => exists /\ config = created
        /\ ~ up => disk.topics # None /\ disk.config = created

(* A broker that answered a CREATE_TOPIC can be started again after a       *)
(* crash.                                                                   *)
BrokerReopens == created # None /\ ~ up => Opens

(* Unless storing the topic list failed, or a record that did not reach the *)
(* file, a partition within the configured count answers every produce with *)
(* a greater offset than all before, across restarts, changes of the        *)
(* configuration and failures in other partitions and topics.               *)
OffsetsNeverReissued ==
    ~ failed =>
        \A p \in Partition \ lost : p < topic_config(config).partitions =>
            \A i, j \in DOMAIN issued[p] : i < j => issued[p][i] < issued[p][j]

(* GET_LAG never shows a group closer to the end than it is: to the records *)
(* in the file, and from the last COMMIT_OFFSET it made.  After a restart   *)
(* it shows the whole log as lag.                                           *)
LagNeverUnderstated ==
    up /\ exists /\ ~ failed =>
        \A g \in Group, p \in Partition : p < topic_config(config).partitions =>
            get_lag(g, p) >= disk.log[p] - asked[<<g, p>>]

(* An empty answer to FETCH is given at the deadline only, and means that   *)
(* there was no record for it from the request until its last look into the *)
(* log.                                                                     *)
FetchSeesRecords ==
    \A f \in Fetcher :
        answer[f] # None /\ answer[f].of.found = "empty" =>
            ~ answer[f].of.seen /\ answer[f].of.left = 0

(* Every FETCH is answered, unless the broker dies. *)
FetchAnswered ==
    \A f \in Fetcher : fetch[f].state # "idle" ~> fetch[f].state = "idle"

(* A group whose last COMMIT_OFFSET is in the offset file is shown by       *)
(* GET_LAG at that offset, also after a restart.                            *)
CommitsSurvive ==
    up => \A g \in Group, p \in Partition :
              disk.offset[<<g, p>>] = Value(asked[<<g, p>>]) => committed_offset(g, p) = asked[<<g, p>>]
=============================================================================
