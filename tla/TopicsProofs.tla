---------------------------- MODULE TopicsProofs ----------------------------
(***************************************************************************)
(* Proofs about Topics.tla, for any partitions, groups, fetchers, requests *)
(* and retention, and without any of the bounds.                           *)
(***************************************************************************)
EXTENDS Topics, TLAPS

-----------------------------------------------------------------------------
Optional(S) == {None} \cup {Value(v) : v \in S}
File(S)     == Optional(S) \cup {Torn}

Config  == [partitions : Nat \ {0}, max : Nat \ {0}]
Log     == [base : Nat, next : Nat, max : Nat \ {0}]
Request == [state : {"idle", "polling", "records", "empty"}, p : Partition, offset : Nat, left : Nat,
            seen : BOOLEAN]
Answer  == [found : {"records", "empty"}, seen : BOOLEAN, left : Nat]

MemoryType ==
    /\ up \in BOOLEAN
    /\ exists \in BOOLEAN
    /\ config \in Optional(Config)
    /\ logs \in [Partition -> Optional(Log)]
    /\ committed \in [Group \X Partition -> Nat]

Files == [topics : {None, Torn, Whole}, config : File(Config), log : [Partition -> Nat],
          cut : SUBSET Partition, offset : [Group \X Partition -> File(Nat)]]

DiskType == disk \in Files

HistoryType ==
    /\ fetch \in [Fetcher -> Request]
    /\ answer \in [Fetcher -> Optional(Answer)]
    /\ created \in Optional(Config)
    /\ issued \in [Partition -> Seq(Nat)]
    /\ asked \in [Group \X Partition -> Nat]
    /\ failed \in BOOLEAN
    /\ lost \subseteq Partition
    /\ faults \in Nat

TypeOK == MemoryType /\ DiskType /\ HistoryType

(* The partitions that the configuration in memory or the one in the file   *)
(* covers are read back by a restart.                                       *)
Count(c) == IF c.is = "value" THEN c.of.partitions ELSE 1

Covered(p) == p = 0 \/ p < Count(config) \/ p < Count(disk.config)

NothingStored ==
    \A p \in Partition : disk.log[p] = 0 /\ issued[p] = <<>> /\ next_offset(p) = 0

(* The list has the topic just when the broker knows it, or is torn, unless *)
(* storing it failed.  A topic that the broker does not know, or will not   *)
(* know when it opens, has no records.                                      *)
ListInv ==
    ~ failed =>
        /\ up => disk.topics \in {IF exists THEN Whole ELSE None, Torn}
        /\ (IF up THEN ~ exists ELSE disk.topics = None) => NothingStored

(* A partition goes on where its file ends, unless a record was lost: then  *)
(* memory is ahead of the file until the next restart.                      *)
Increasing(s) == \A i, j \in DOMAIN s : i < j => s[i] < s[j]

InFile(p) ==
    /\ up => next_offset(p) = disk.log[p]
    /\ \A i \in DOMAIN issued[p] : issued[p][i] < disk.log[p]
    /\ Increasing(issued[p])

Kept(p) ==
    /\ up => next_offset(p) >= disk.log[p]
    /\ p \notin lost => InFile(p)

OffsetInv == ~ failed => \A p \in Partition : Covered(p) => Kept(p)

(* A group's committed offset is the last one it asked for, or 0 since a    *)
(* restart.                                                                 *)
CommitInv ==
    \A gp \in Group \X Partition : committed[gp] \in {0, asked[gp]}

(* A configured topic whose creation was answered is stored. *)
CreatedInv ==
    created # None =>
        /\ disk.config = created
        /\ disk.topics \in {Whole, Torn}
        /\ up => exists /\ config = created

LogsInv == \A p \in Partition : logs[p] # None => logs[p].of.base <= logs[p].of.next

(* A record that was there for a FETCH still is when it looks. *)
FetchInv ==
    /\ ~ up => \A f \in Fetcher : fetch[f].state = "idle"
    /\ \A f \in Fetcher :
          fetch[f].state = "polling" /\ fetch[f].seen =>
              Available(fetch[f].p, fetch[f].offset)
    /\ \A f \in Fetcher : fetch[f].state = "empty" => ~ fetch[f].seen
    /\ FetchSeesRecords

TopicInv == ListInv /\ OffsetInv /\ CommitInv /\ CreatedInv /\ LogsInv /\ FetchInv

-----------------------------------------------------------------------------
(* The larger of two integers. *)
LEMMA MaxOfTwo ==
    ASSUME NEW a \in Int, NEW b \in Int
    PROVE  Max({a, b}) = IF a >= b THEN a ELSE b
<1>1. \E x \in {a, b} : \A y \in {a, b} : x >= y
  OBVIOUS
<1>2. Max({a, b}) \in {a, b} /\ \A y \in {a, b} : Max({a, b}) >= y
  BY <1>1 DEF Max
<1> QED
  BY <1>2

LEMMA ConfigTypes ==
    /\ default_for \in Config
    /\ \A request \in Requested : TopicConfig(request) \in Config
    /\ \A c \in Optional(Config) : topic_config(c) \in Config
BY TopicsAssumption DEF default_for, TopicConfig, AtLeast1, topic_config, Config, Optional,
   None, Value

LEMMA LogOfType ==
    ASSUME NEW n \in Nat, NEW max \in Nat \ {0}
    PROVE  /\ LogOf(n, max) \in Optional(Log)
           /\ LogOf(n, max) # None
           /\ LogOf(n, max).of.base <= LogOf(n, max).of.next
           /\ LogOf(n, max).of.next = n
BY DEF LogOf, Optional, Log, None, Value

(* ensure_log makes an empty log where there is none, and keeps the others. *)
LEMMA EnsureLog ==
    ASSUME NEW l \in [Partition -> Optional(Log)], NEW c \in Optional(Config),
           NEW p \in Partition
    PROVE  /\ ensure_log(l, c, p) \in [Partition -> Optional(Log)]
           /\ \A q \in Partition : q # p => ensure_log(l, c, p)[q] = l[q]
           /\ ensure_log(l, c, p)[p] # None
           /\ l[p] # None => ensure_log(l, c, p)[p] = l[p]
           /\ l[p] = None => /\ ensure_log(l, c, p)[p].of.next = 0
                             /\ ensure_log(l, c, p)[p].of.base = 0
<1>1. topic_config(c).max \in Nat \ {0}
  BY ConfigTypes DEF Config
<1>2. /\ LogOf(0, topic_config(c).max) \in Optional(Log)
      /\ LogOf(0, topic_config(c).max) # None
      /\ LogOf(0, topic_config(c).max).of.next = 0
      /\ LogOf(0, topic_config(c).max).of.base = 0
  BY <1>1, LogOfType DEF LogOf, Value
<1> QED
  BY <1>2 DEF ensure_log

(* append moves next_offset by one, and retention leaves the new record. *)
LEMMA AppendedLog ==
    ASSUME NEW l \in [Partition -> Optional(Log)], NEW p \in Partition, l[p] # None
    PROVE  /\ Appended(l, p) \in [Partition -> Optional(Log)]
           /\ \A q \in Partition : q # p => Appended(l, p)[q] = l[q]
           /\ Appended(l, p)[p] # None
           /\ Appended(l, p)[p].of.next = l[p].of.next + 1
           /\ l[p].of.base <= l[p].of.next =>
                 Appended(l, p)[p].of.base <= l[p].of.next
<1> DEFINE log == l[p].of
<1>1. log \in Log
  BY DEF Optional, Value, None
<1>2. log.base \in Nat /\ log.next \in Nat /\ log.max \in Nat \ {0}
  BY <1>1 DEF Log
<1>3. Max({log.base, log.next + 1 - log.max}) =
         IF log.base >= log.next + 1 - log.max THEN log.base ELSE log.next + 1 - log.max
  BY <1>2, MaxOfTwo
<1> DEFINE new == [base |-> Max({log.base, log.next + 1 - log.max}), next |-> log.next + 1,
                   max |-> log.max]
<1>4. /\ new \in Log
      /\ new.next = log.next + 1
      /\ new.base = Max({log.base, log.next + 1 - log.max})
  BY <1>1, <1>2, <1>3 DEF Log
<1>5. Appended(l, p) = [l EXCEPT ![p] = Value(new)]
  BY DEF Appended
<1>6. Value(new) \in Optional(Log) /\ Value(new) # None /\ Value(new).of = new
  BY <1>4 DEF Optional, Value, None
<1> HIDE DEF new
<1> QED
  BY <1>2, <1>3, <1>4, <1>5, <1>6

-----------------------------------------------------------------------------
(* Type correctness. *)
LEMMA TopicMutType ==
    ASSUME NEW c \in Optional(Config), topic_mut(c), exists \in BOOLEAN
    PROVE  exists' \in BOOLEAN /\ config' \in Optional(Config)
BY ConfigTypes DEF topic_mut, Optional

(* The files that a write changes, and what it leaves of them. *)
LEMMA TopicsChanged ==
    ASSUME NEW d \in Files, NEW t \in {None, Torn, Whole},
           NEW e, e = [d EXCEPT !.topics = t]
    PROVE  e \in Files /\ e.topics = t /\ e.config = d.config /\ e.log = d.log
BY DEF Files

LEMMA ConfigChanged ==
    ASSUME NEW d \in Files, NEW c \in File(Config),
           NEW e, e = [d EXCEPT !.config = c]
    PROVE  e \in Files /\ e.topics = d.topics /\ e.config = c /\ e.log = d.log
BY DEF Files

LEMMA CutChanged ==
    ASSUME NEW d \in Files, NEW p \in Partition,
           NEW e, e = WithCut(d, p)
    PROVE  e \in Files /\ e.topics = d.topics /\ e.config = d.config /\ e.log = d.log
<1>1. d.cut \cup {p} \in SUBSET Partition
  BY DEF Files
<1> QED
  BY <1>1 DEF Files, WithCut

LEMMA RecordChanged ==
    ASSUME NEW d \in Files, NEW p \in Partition,
           NEW e, e = WithRecord(d, p)
    PROVE  /\ e \in Files /\ e.topics = d.topics /\ e.config = d.config
           /\ e.log = [d.log EXCEPT ![p] = @ + 1]
<1> DEFINE longer == [d.log EXCEPT ![p] = @ + 1]
<1>1. longer \in [Partition -> Nat]
  BY DEF Files
<1>2. e = [d EXCEPT !.log = longer]
  BY DEF WithRecord
<1> HIDE DEF longer
<1>3. e \in Files /\ e.topics = d.topics /\ e.config = d.config /\ e.log = longer
  BY <1>1, <1>2 DEF Files
<1> QED
  BY <1>3 DEF longer

(* Storing the list touches nothing else, finished or not. *)
LEMMA ListStored ==
    ASSUME NEW d \in Files, NEW known \in BOOLEAN
    PROVE  /\ persist_topics(d, known) \in ListInterrupted(d, known)
           /\ persist_topics(d, known).topics = IF known THEN Whole ELSE None
           /\ \A e \in ListInterrupted(d, known) :
                 /\ e \in Files
                 /\ e.topics \in {d.topics, Torn, IF known THEN Whole ELSE None}
                 /\ e.config = d.config
                 /\ e.log = d.log
<1> DEFINE t == IF known THEN Whole ELSE None
<1>1. t \in {None, Torn, Whole} /\ Torn \in {None, Torn, Whole}
  OBVIOUS
<1>2. persist_topics(d, known) = [d EXCEPT !.topics = t]
  BY DEF persist_topics
<1> HIDE DEF t
<1>3. ASSUME NEW e, e \in {d, [d EXCEPT !.topics = Torn], [d EXCEPT !.topics = t]}
      PROVE  e \in Files /\ e.topics \in {d.topics, Torn, t} /\ e.config = d.config /\ e.log = d.log
  BY <1>1, <1>3, TopicsChanged
<1>4. persist_topics(d, known).topics = t
  BY <1>1, <1>2, TopicsChanged
<1> QED
  BY <1>2, <1>3, <1>4 DEF ListInterrupted, t

LEMMA DiskTypes ==
    ASSUME DiskType
    PROVE  /\ Listed \in Files
           /\ Listed.topics = IF exists THEN disk.topics ELSE Whole
           /\ Listed.config = disk.config
           /\ Listed.log = disk.log
           /\ \A cfg \in Config :
                 /\ Configured(cfg) \in Files
                 /\ Configured(cfg).topics = disk.topics
                 /\ Configured(cfg).config = Value(cfg)
                 /\ Configured(cfg).log = disk.log
           /\ \A d \in ConfigInterrupted :
                 d \in Files /\ d.topics = disk.topics /\ d.log = disk.log
<1>0. disk \in Files
  BY DEF DiskType
<1>1. /\ Listed \in Files
      /\ Listed.topics = IF exists THEN disk.topics ELSE Whole
      /\ Listed.config = disk.config
      /\ Listed.log = disk.log
  BY <1>0, ListStored DEF Listed
<1>2. Torn \in File(Config)
  BY DEF File
<1>3. ASSUME NEW cfg \in Config
      PROVE  /\ Configured(cfg) \in Files
             /\ Configured(cfg).topics = disk.topics
             /\ Configured(cfg).config = Value(cfg)
             /\ Configured(cfg).log = disk.log
  <2>1. Value(cfg) \in File(Config)
    BY DEF File, Optional
  <2> QED
    BY <1>0, <2>1, ConfigChanged DEF Configured
<1>4. ASSUME NEW d \in ConfigInterrupted
      PROVE  d \in Files /\ d.topics = disk.topics /\ d.log = disk.log
  <2>1. CASE d = [disk EXCEPT !.config = Torn]
    BY <1>0, <1>2, <2>1, ConfigChanged
  <2> QED
    BY <1>0, <2>1 DEF ConfigInterrupted
<1> QED
  BY <1>1, <1>3, <1>4

LEMMA CreateType ==
    ASSUME TypeOK, NEW request \in Requested, create_topic(request)
    PROVE  TypeOK'
<1> DEFINE cfg == TopicConfig(request)
<1>1. cfg \in Config /\ Value(cfg) \in Optional(Config) /\ Value(cfg) \in File(Config)
  BY ConfigTypes DEF Optional, File
<1> HIDE DEF cfg
<1>2. exists' \in BOOLEAN /\ config' \in Optional(Config)
  BY <1>1, TopicMutType DEF TypeOK, MemoryType, create_topic, cfg
<1>3. logs' \in [Partition -> Optional(Log)]
  <2>1. logs' = [p \in Partition |->
                    IF p < cfg.partitions THEN ensure_log(logs, Value(cfg), p)[p] ELSE logs[p]]
    BY DEF create_topic, cfg
  <2>2. ASSUME NEW p \in Partition
        PROVE  ensure_log(logs, Value(cfg), p)[p] \in Optional(Log)
    BY <1>1, EnsureLog DEF TypeOK, MemoryType
  <2> QED
    BY <2>1, <2>2 DEF TypeOK, MemoryType
<1>4. DiskType'
  <2>1. disk' = persist_topics(Configured(cfg), TRUE)
    BY DEF create_topic, cfg
  <2> QED
    BY <1>1, <2>1, DiskTypes, ListStored DEF TypeOK, DiskType
<1>5. /\ created' = Value(cfg)
      /\ UNCHANGED <<up, committed, fetch, answer, issued, asked, failed, lost, faults>>
  BY DEF create_topic, cfg
<1> QED
  BY <1>1, <1>2, <1>3, <1>4, <1>5 DEF TypeOK, MemoryType, HistoryType

(* The logs that append_log leaves, also when its write fails. *)
LEMMA AppendLogs ==
    ASSUME TypeOK, NEW p \in Partition, AppendInMemory(p)
    PROVE  /\ config' \in Optional(Config)
           /\ logs' \in [Partition -> Optional(Log)]
           /\ logs'[p] # None
           /\ logs'[p].of.next = next_offset(p) + 1
           /\ next_offset(p) \in Nat
           /\ \A q \in Partition : logs[q] # None /\ q # p => logs'[q] = logs[q]
           /\ \A q \in Partition : logs[q] = None /\ q # p =>
                 logs'[q] = None \/ (logs'[q].of.next = 0 /\ logs'[q].of.base = 0)
           /\ LogsInv => logs'[p].of.base <= next_offset(p)
<1> DEFINE first  == ensure_log(logs, config', 0)
           second == ensure_log(first, config', p)
<1>1. config' \in Optional(Config) /\ 0 \in Partition
  BY TopicMutType, TopicsAssumption DEF TypeOK, MemoryType, AppendInMemory
<1>2. logs' = Appended(second, p)
  BY DEF AppendInMemory
<1> HIDE DEF first, second
<1>3. /\ first \in [Partition -> Optional(Log)]
      /\ \A q \in Partition : logs[q] # None => first[q] = logs[q]
      /\ \A q \in Partition : logs[q] = None =>
            first[q] = None \/ (first[q].of.next = 0 /\ first[q].of.base = 0)
  <2>1. logs \in [Partition -> Optional(Log)]
    BY DEF TypeOK, MemoryType
  <2>2. /\ first \in [Partition -> Optional(Log)]
        /\ \A q \in Partition : q # 0 => first[q] = logs[q]
        /\ logs[0] # None => first[0] = logs[0]
        /\ logs[0] = None => first[0].of.next = 0 /\ first[0].of.base = 0
    BY <1>1, <2>1, EnsureLog DEF first
  <2> QED
    BY <2>2
<1>4. /\ second \in [Partition -> Optional(Log)]
      /\ \A q \in Partition : q # p => second[q] = first[q]
      /\ second[p] # None
      /\ first[p] # None => second[p] = first[p]
      /\ first[p] = None => second[p].of.next = 0 /\ second[p].of.base = 0
  BY <1>1, <1>3, EnsureLog DEF second
<1>5. second[p].of.next = next_offset(p)
  BY <1>3, <1>4 DEF next_offset
<1>6. LogsInv => second[p].of.base <= second[p].of.next
  <2>1. CASE logs[p] # None
    BY <2>1, <1>3, <1>4 DEF LogsInv
  <2>2. CASE logs[p] = None
    BY <2>2, <1>3, <1>4
  <2> QED
    BY <2>1, <2>2
<1>7. next_offset(p) \in Nat
  BY DEF next_offset, TypeOK, MemoryType, Optional, Value, None, Log
<1> QED
  BY <1>1, <1>2, <1>3, <1>4, <1>5, <1>6, <1>7, AppendedLog

(* A PRODUCE whose record reached the file, with or without an answer, and  *)
(* one whose record did not.                                                *)
AnyAppend(p) == append_log(p) \/ AppendFails(p)

LEMMA AppendStep ==
    ASSUME TypeOK, NEW p \in Partition, AnyAppend(p)
    PROVE  /\ AppendInMemory(p)
           /\ disk' \in Files
           /\ disk'.topics = IF exists THEN disk.topics ELSE Whole
           /\ disk'.config = disk.config
           /\ \/ /\ disk'.log = [disk.log EXCEPT ![p] = @ + 1]
                 /\ lost' = lost
                 /\ issued' \in {issued, [issued EXCEPT ![p] = Append(@, next_offset(p))]}
              \/ /\ disk'.log = disk.log
                 /\ lost' = lost \cup {p}
                 /\ issued' = issued
<1>1. DiskType
  BY DEF TypeOK
<1>2. /\ Listed \in Files
      /\ Listed.topics = IF exists THEN disk.topics ELSE Whole
      /\ Listed.config = disk.config
      /\ Listed.log = disk.log
  BY <1>1, DiskTypes
<1>3. CASE disk' = WithRecord(Listed, p)
           /\ lost' = lost
           /\ issued' \in {issued, [issued EXCEPT ![p] = Append(@, next_offset(p))]}
  <2>1. AppendInMemory(p)
    BY DEF AnyAppend, append_log, AppendFails
  <2>2. /\ disk' \in Files /\ disk'.topics = Listed.topics /\ disk'.config = Listed.config
        /\ disk'.log = [Listed.log EXCEPT ![p] = @ + 1]
    BY <1>2, <1>3, RecordChanged
  <2> QED
    BY <1>2, <1>3, <2>1, <2>2
<1>4. CASE disk' \in {Listed, WithCut(Listed, p)} /\ lost' = lost \cup {p} /\ issued' = issued
  <2>1. AppendInMemory(p)
    BY DEF AnyAppend, append_log, AppendFails
  <2> QED
    BY <1>2, <1>4, <2>1, CutChanged
<1> QED
  BY <1>3, <1>4 DEF AnyAppend, append_log, AppendFails

LEMMA AppendType ==
    ASSUME TypeOK, NEW p \in Partition, AnyAppend(p)
    PROVE  TypeOK'
<1>0. AppendInMemory(p)
  BY AppendStep
<1>1. /\ config' \in Optional(Config) /\ exists' \in BOOLEAN
      /\ logs' \in [Partition -> Optional(Log)]
      /\ next_offset(p) \in Nat
  BY <1>0, AppendLogs, TopicMutType DEF AppendInMemory, TypeOK, MemoryType
<1>2. DiskType'
  BY AppendStep DEF DiskType
<1>3. issued' \in [Partition -> Seq(Nat)] /\ lost' \subseteq Partition
  <2>1. [issued EXCEPT ![p] = Append(@, next_offset(p))] \in [Partition -> Seq(Nat)]
    BY <1>1 DEF TypeOK, HistoryType
  <2> QED
    BY <2>1, AppendStep DEF TypeOK, HistoryType
<1>4. fetch' \in [Fetcher -> Request]
  <2>1. ASSUME NEW f \in Fetcher
        PROVE  [fetch[f] EXCEPT !.seen = TRUE] \in Request
    BY DEF TypeOK, HistoryType, Request
  <2> QED
    BY <1>0, <2>1 DEF AppendInMemory, TypeOK, HistoryType
<1>5. faults' \in Nat
  BY DEF AnyAppend, append_log, AppendFails, TypeOK, HistoryType
<1>6. UNCHANGED <<up, committed, answer, created, asked, failed>>
  BY <1>0 DEF AppendInMemory
<1> QED
  BY <1>1, <1>2, <1>3, <1>4, <1>5, <1>6 DEF TypeOK, MemoryType, HistoryType

LEMMA CommitType ==
    ASSUME TypeOK, NEW g \in Group, NEW p \in Partition, NEW offset \in Offset,
           commit_offset(g, p, offset) \/ CommitFails(g, p, offset)
    PROVE  TypeOK'
<1>1. offset \in Nat /\ <<g, p>> \in Group \X Partition
  BY TopicsAssumption
<1>2. DiskType'
  <2>1. ASSUME NEW v \in File(Nat)
        PROVE  OffsetFile(g, p, v) \in Files
    BY <1>1 DEF OffsetFile, TypeOK, DiskType, Files
  <2>2. Value(offset) \in File(Nat) /\ Torn \in File(Nat)
    BY <1>1 DEF File, Optional
  <2> QED
    BY <2>1, <2>2 DEF commit_offset, CommitFails, TypeOK, DiskType, Files
<1>3. faults' \in Nat
  BY DEF commit_offset, CommitFails, TypeOK, HistoryType
<1>4. /\ committed' = [committed EXCEPT ![<<g, p>>] = offset]
      /\ asked' = [asked EXCEPT ![<<g, p>>] = offset]
      /\ UNCHANGED <<up, exists, config, logs, fetch, answer, created, issued, failed, lost>>
  BY DEF commit_offset, CommitFails
<1> QED
  BY <1>1, <1>2, <1>3, <1>4 DEF TypeOK, MemoryType, HistoryType

LEMMA FailsType ==
    ASSUME TypeOK,
           ProduceFails \/ \E request \in Requested : CreateFails(request)
    PROVE  TypeOK'
<1>1. CASE ProduceFails
  <2>1. exists' \in BOOLEAN /\ config' \in Optional(Config)
    BY <1>1, TopicMutType DEF ProduceFails, TypeOK, MemoryType
  <2>2. DiskType'
    BY <1>1, ListStored DEF ProduceFails, TypeOK, DiskType
  <2> QED
    BY <1>1, <2>1, <2>2 DEF ProduceFails, TypeOK, MemoryType, HistoryType
<1>2. ASSUME NEW request \in Requested, CreateFails(request)
      PROVE  TypeOK'
  <2> DEFINE cfg == TopicConfig(request)
  <2>1. cfg \in Config /\ Value(cfg) \in Optional(Config)
    BY ConfigTypes DEF Optional
  <2> HIDE DEF cfg
  <2>2. /\ UNCHANGED <<up, logs, committed, fetch, answer, created, issued, asked, lost>>
        /\ faults' = faults + 1
        /\ \/ disk' \in ConfigInterrupted /\ UNCHANGED <<exists, config, failed>>
           \/ disk' = Configured(cfg) /\ config' = Value(cfg) /\ UNCHANGED <<exists, failed>>
           \/ /\ disk' \in ListInterrupted(Configured(cfg), TRUE)
              /\ topic_mut(Value(cfg))
              /\ failed' = TRUE
    BY <1>2 DEF CreateFails, cfg
  <2>3. DiskType'
    <3>1. Configured(cfg) \in Files
      BY <2>1, DiskTypes DEF TypeOK
    <3> QED
      BY <2>2, <3>1, DiskTypes, ListStored DEF TypeOK, DiskType
  <2>4. exists' \in BOOLEAN /\ config' \in Optional(Config)
    BY <2>1, <2>2, TopicMutType DEF TypeOK, MemoryType
  <2>5. failed' \in BOOLEAN
    BY <2>2 DEF TypeOK, HistoryType
  <2> QED
    BY <2>2, <2>3, <2>4, <2>5 DEF TypeOK, MemoryType, HistoryType
<1> QED
  BY <1>1, <1>2

LEMMA CrashType ==
    ASSUME TypeOK, NEW disks, CrashLeaving(disks),
           \A d \in disks : d \in Files
    PROVE  TypeOK'
<1>1. Idle \in Request
  BY TopicsAssumption DEF Idle, Request
<1>2. MemoryType'
  BY DEF CrashLeaving, MemoryType, Optional
<1>3. DiskType'
  BY DEF CrashLeaving, DiskType, Files
<1>4. HistoryType'
  BY <1>1 DEF CrashLeaving, TypeOK, HistoryType, histories
<1> QED
  BY <1>2, <1>3, <1>4 DEF TypeOK

(* What a crash may leave in the files: those of a topic that exists keep    *)
(* their place, though the list may be torn, and records of one that does    *)
(* not exist are only there when it is listed.                               *)
LeftByCrash(d) ==
    /\ d \in Files
    /\ exists => d.topics \in {disk.topics, Torn, Whole} /\ d.config = disk.config
    /\ ~ exists /\ d.topics # Whole => d.log = disk.log
    /\ \A p \in Partition : d.log[p] >= disk.log[p]

AnyCrash ==
    \/ Crash
    \/ CrashDuringOtherTopic
    \/ \E request \in Requested : CrashDuringCreate(request)
    \/ \E p \in Partition : CrashDuringProduce(p)

LEMMA CrashLeaves ==
    ASSUME TypeOK, AnyCrash
    PROVE  \E disks : CrashLeaving(disks) /\ \A d \in disks : LeftByCrash(d)
<1>1. /\ exists \in BOOLEAN
      /\ disk \in Files /\ DiskType
      /\ \A p \in Partition : disk.log[p] \in Nat
  BY DEF TypeOK, MemoryType, DiskType, Files
<1>2. ASSUME NEW d \in Files, d.log = disk.log,
             exists => d.topics \in {disk.topics, Torn, Whole} /\ d.config = disk.config
      PROVE  LeftByCrash(d)
  BY <1>1, <1>2 DEF LeftByCrash
<1>3. CASE Crash
  BY <1>1, <1>2, <1>3 DEF Crash
<1>4. CASE CrashDuringOtherTopic
  <2>1. ASSUME NEW d \in ListInterrupted(disk, exists)
        PROVE  LeftByCrash(d)
    BY <1>1, <1>2, ListStored
  <2> QED
    BY <1>4, <2>1 DEF CrashDuringOtherTopic
<1>5. ASSUME NEW request \in Requested, CrashDuringCreate(request)
      PROVE  \E disks : CrashLeaving(disks) /\ \A d \in disks : LeftByCrash(d)
  <2> DEFINE cfg   == TopicConfig(request)
             disks == ConfigInterrupted \cup ListInterrupted(Configured(cfg), TRUE)
  <2>1. CrashLeaving(disks) /\ exists = FALSE
    BY <1>1, <1>5 DEF CrashDuringCreate
  <2>2. Configured(cfg) \in Files /\ Configured(cfg).log = disk.log
    BY <1>1, ConfigTypes, DiskTypes
  <2> HIDE DEF cfg
  <2>3. ASSUME NEW d \in disks
        PROVE  LeftByCrash(d)
    <3>1. d \in Files /\ d.log = disk.log
      BY <1>1, <2>2, DiskTypes, ListStored
    <3> QED
      BY <1>2, <2>1, <3>1
  <2> QED
    BY <2>1, <2>3
<1>6. ASSUME NEW p \in Partition, CrashDuringProduce(p)
      PROVE  \E disks : CrashLeaving(disks) /\ \A d \in disks : LeftByCrash(d)
  <2> DEFINE disks == {Listed, WithCut(Listed, p), WithRecord(Listed, p)}
                      \cup (IF exists THEN {} ELSE ListInterrupted(disk, TRUE))
  <2>1. CrashLeaving(disks)
    BY <1>6 DEF CrashDuringProduce
  <2>2. /\ Listed \in Files
        /\ Listed.topics = IF exists THEN disk.topics ELSE Whole
        /\ Listed.config = disk.config
        /\ Listed.log = disk.log
    BY <1>1, DiskTypes
  <2>3. LeftByCrash(Listed) /\ LeftByCrash(WithCut(Listed, p))
    BY <1>2, <2>2, CutChanged
  <2>4. LeftByCrash(WithRecord(Listed, p))
    <3>1. /\ WithRecord(Listed, p) \in Files
          /\ WithRecord(Listed, p).topics = Listed.topics
          /\ WithRecord(Listed, p).config = disk.config
          /\ WithRecord(Listed, p).log = [disk.log EXCEPT ![p] = @ + 1]
      BY <2>2, RecordChanged
    <3>2. disk.log \in [Partition -> Nat]
      BY <1>1 DEF Files
    <3>3. \A q \in Partition : WithRecord(Listed, p).log[q] >= disk.log[q]
      BY <3>1, <3>2
    <3> QED
      BY <2>2, <3>1, <3>3 DEF LeftByCrash
  <2>5. ASSUME ~ exists, NEW d \in ListInterrupted(disk, TRUE)
        PROVE  LeftByCrash(d)
    BY <1>1, <1>2, <2>5, ListStored
  <2> QED
    BY <2>1, <2>3, <2>4, <2>5
<1> QED
  BY <1>3, <1>4, <1>5, <1>6 DEF AnyCrash

LEMMA TypeStep == TypeOK /\ [Next]_vars => TypeOK'
<1> SUFFICES ASSUME TypeOK, [Next]_vars
             PROVE  TypeOK'
  OBVIOUS
<1>1. CASE \E request \in Requested : create_topic(request)
  BY <1>1, CreateType
<1>2. CASE ProduceFails \/ \E request \in Requested : CreateFails(request)
  BY <1>2, FailsType
<1>3. CASE AnyCrash
  <2>1. PICK disks : CrashLeaving(disks) /\ \A d \in disks : LeftByCrash(d)
    BY <1>3, CrashLeaves
  <2> QED
    BY <2>1, CrashType DEF LeftByCrash
<1>4. CASE \E p \in Partition : AnyAppend(p)
  BY <1>4, AppendType
<1>5. CASE \E g \in Group, p \in Partition, offset \in Offset :
              commit_offset(g, p, offset) \/ CommitFails(g, p, offset)
  BY <1>5, CommitType
<1>6. CASE \E f \in Fetcher : Poll(f)
  <2>1. PICK f \in Fetcher : Poll(f)
    BY <1>6
  <2>2. logs' \in [Partition -> Optional(Log)]
    BY <2>1, EnsureLog DEF Poll, TypeOK, MemoryType, HistoryType, Request
  <2>3. [fetch[f] EXCEPT !.state = Found(f)] \in Request
    BY DEF TypeOK, HistoryType, Request, Found
  <2>4. fetch' \in [Fetcher -> Request]
    BY <2>1, <2>3 DEF Poll, TypeOK, HistoryType
  <2> QED
    BY <2>1, <2>2, <2>4 DEF Poll, histories, TypeOK, MemoryType, DiskType, HistoryType
<1>11. CASE \E f \in Fetcher : Check(f)
  <2>1. PICK f \in Fetcher : Check(f)
    BY <1>11
  <2>2. fetch[f] \in Request /\ fetch[f].state \in {"records", "empty"}
    BY <2>1 DEF Check, TypeOK, HistoryType
  <2>3. Idle \in Request
    BY TopicsAssumption DEF Idle, Request
  <2>4. [fetch[f] EXCEPT !.state = "polling",
                         !.seen = Available(fetch[f].p, fetch[f].offset)] \in Request
    <3>1. Available(fetch[f].p, fetch[f].offset) \in BOOLEAN
      BY DEF Available
    <3> QED
      BY <2>2, <3>1 DEF Request
  <2>5. fetch' \in [Fetcher -> Request]
    BY <2>1, <2>3, <2>4 DEF Check, TypeOK, HistoryType
  <2>6. [found |-> fetch[f].state, seen |-> fetch[f].seen, left |-> fetch[f].left] \in Answer
    BY <2>2 DEF Request, Answer
  <2>7. answer' \in [Fetcher -> Optional(Answer)]
    BY <2>1, <2>6 DEF Check, TypeOK, HistoryType, Optional
  <2> QED
    BY <2>1, <2>5, <2>7 DEF Check, memory, TypeOK, MemoryType, DiskType, HistoryType
<1>12. CASE OtherTopic \/ OtherTopicFails
  <2>1. DiskType'
    BY <1>12, ListStored DEF OtherTopic, OtherTopicFails, TypeOK, DiskType, MemoryType
  <2>2. faults' \in Nat /\ UNCHANGED <<up, memory, fetch, histories>>
    BY <1>12 DEF OtherTopic, OtherTopicFails, TypeOK, HistoryType
  <2> QED
    BY <2>1, <2>2 DEF memory, histories, TypeOK, MemoryType, HistoryType
<1>7. CASE \E f \in Fetcher, p \in Partition, offset \in Offset, wait \in 0 .. MaxWait :
              Fetch(f, p, offset, wait)
  <2>1. PICK f \in Fetcher, p \in Partition, offset \in Offset, wait \in 0 .. MaxWait :
               Fetch(f, p, offset, wait)
    BY <1>7
  <2>2. offset \in Nat /\ wait \in Nat
    BY TopicsAssumption
  <2>3. Available(p, offset) \in BOOLEAN
    BY DEF Available
  <2>4. [state |-> "polling", p |-> p, offset |-> offset, left |-> wait,
         seen |-> Available(p, offset)] \in Request
    BY <2>2, <2>3 DEF Request
  <2>5. /\ fetch' \in [Fetcher -> Request]
        /\ answer' \in [Fetcher -> Optional(Answer)]
    BY <2>1, <2>4 DEF Fetch, TypeOK, HistoryType, Optional
  <2> QED
    BY <2>1, <2>5 DEF Fetch, memory, TypeOK, MemoryType, DiskType, HistoryType
<1>8. CASE Tick
  <2>1. ASSUME NEW f \in Fetcher
        PROVE  [fetch[f] EXCEPT !.left = Later(@)] \in Request
    <3>1. fetch[f] \in Request /\ Later(fetch[f].left) \in Nat
      BY DEF TypeOK, HistoryType, Request, Later
    <3> QED
      BY <3>1 DEF Request
  <2> QED
    BY <1>8, <2>1 DEF Tick, memory, histories, TypeOK, MemoryType, DiskType, HistoryType
<1>9. CASE Restart
  <2>1. config' \in Optional(Config)
    BY <1>9 DEF Restart, Opens, TypeOK, DiskType, Files, File, Optional
  <2>2. ASSUME NEW p \in Partition
        PROVE  Loaded(p) \in Optional(Log)
    <3>1. disk.topics # None => disk.config \in Optional(Config)
      BY <1>9 DEF Restart, Opens, TypeOK, DiskType, Files, File
    <3>2. disk.topics # None => topic_config(disk.config).max \in Nat \ {0}
      BY <3>1, ConfigTypes DEF Config
    <3> QED
      BY <3>2, LogOfType DEF Loaded, TypeOK, DiskType, Files, Optional
  <2> QED
    BY <1>9, <2>1, <2>2 DEF Restart, histories, TypeOK, MemoryType, DiskType, HistoryType
<1>10. CASE UNCHANGED vars
  BY <1>10 DEF vars, memory, histories, TypeOK, MemoryType, DiskType, HistoryType,
     next_offset
<1> QED
  BY <1>1, <1>2, <1>3, <1>4, <1>5, <1>6, <1>7, <1>8, <1>9, <1>10, <1>11, <1>12
     DEF Next, AnyCrash, AnyAppend

LEMMA TypeInit == Init => TypeOK
<1> SUFFICES ASSUME Init PROVE TypeOK
  OBVIOUS
<1>1. Idle \in Request
  BY TopicsAssumption DEF Idle, Request
<1>2. MemoryType
  BY DEF Init, MemoryType, Optional
<1>4. HistoryType
  <2>1. answer \in [Fetcher -> Optional(Answer)]
    BY DEF Init, Optional
  <2>2. created \in Optional(Config) /\ issued \in [Partition -> Seq(Nat)]
    BY DEF Init, Optional
  <2> QED
    BY <1>1, <2>1, <2>2 DEF Init, HistoryType
<1>3. DiskType
  BY DEF Init, DiskType, Files, File, Optional
<1> QED
  BY <1>2, <1>3, <1>4 DEF TypeOK

(* Every variable keeps its type; in particular the configuration in memory *)
(* is never one of 0 partitions or records, and never that of a torn file.  *)
THEOREM TypeCorrect == Spec => []TypeOK
<1> QED
  BY TypeInit, TypeStep, PTL DEF Spec

-----------------------------------------------------------------------------
(* The invariant, over the kinds of steps. *)
AnyCommit ==
    \E g \in Group, p \in Partition, offset \in Offset :
        commit_offset(g, p, offset) \/ CommitFails(g, p, offset)

AnyFetch ==
    \E f \in Fetcher, p \in Partition, offset \in Offset, wait \in 0 .. MaxWait :
        Fetch(f, p, offset, wait)

AnyOther == OtherTopic \/ OtherTopicFails

(* A step is one of these. *)
LEMMA StepCases ==
    ASSUME [Next]_vars
    PROVE  \/ \E request \in Requested : create_topic(request)
           \/ \E request \in Requested : CreateFails(request)
           \/ ProduceFails
           \/ \E p \in Partition : AnyAppend(p)
           \/ AnyCrash
           \/ AnyOther
           \/ AnyCommit
           \/ AnyFetch
           \/ \E f \in Fetcher : Poll(f)
           \/ \E f \in Fetcher : Check(f)
           \/ Tick
           \/ Restart
           \/ UNCHANGED vars
BY DEF Next, AnyAppend, AnyCrash, AnyOther, AnyCommit, AnyFetch

LEMMA CrashStep ==
    ASSUME TypeOK, AnyCrash
    PROVE  /\ up /\ up' = FALSE
           /\ LeftByCrash(disk')
           /\ exists' = FALSE /\ config' = None
           /\ logs' = [p \in Partition |-> None]
           /\ committed' = [gp \in Group \X Partition |-> 0]
           /\ fetch' = [f \in Fetcher |-> Idle]
           /\ UNCHANGED <<answer, created, issued, asked, failed, lost>>
<1>1. PICK disks : CrashLeaving(disks) /\ \A d \in disks : LeftByCrash(d)
  BY CrashLeaves
<1> QED
  BY <1>1 DEF CrashLeaving, histories

(* Committing touches the offsets only. *)
LEMMA CommitStep ==
    ASSUME TypeOK, AnyCommit
    PROVE  /\ UNCHANGED <<up, exists, config, logs, fetch, answer, created, issued, failed, lost>>
           /\ disk'.topics = disk.topics
           /\ disk'.config = disk.config
           /\ disk'.log = disk.log
           /\ \E g \in Group, p \in Partition, offset \in Nat :
                 /\ committed' = [committed EXCEPT ![<<g, p>>] = offset]
                 /\ asked' = [asked EXCEPT ![<<g, p>>] = offset]
<1>1. PICK g \in Group, p \in Partition, offset \in Offset :
             commit_offset(g, p, offset) \/ CommitFails(g, p, offset)
  BY DEF AnyCommit
<1>2. offset \in Nat
  BY TopicsAssumption
<1>3. \A v : /\ OffsetFile(g, p, v).topics = disk.topics
             /\ OffsetFile(g, p, v).config = disk.config
             /\ OffsetFile(g, p, v).log = disk.log
  BY DEF OffsetFile, TypeOK, DiskType, Files
<1>4. /\ disk'.topics = disk.topics
      /\ disk'.config = disk.config
      /\ disk'.log = disk.log
  BY <1>1, <1>3 DEF commit_offset, CommitFails
<1> QED
  BY <1>1, <1>2, <1>4 DEF commit_offset, CommitFails

(* Storing the list for another topic touches the list only. *)
LEMMA OtherStep ==
    ASSUME TypeOK, AnyOther
    PROVE  /\ up
           /\ UNCHANGED <<up, memory, fetch, histories>>
           /\ disk'.topics \in {disk.topics, Torn, IF exists THEN Whole ELSE None}
           /\ disk'.config = disk.config
           /\ disk'.log = disk.log
BY ListStored DEF AnyOther, OtherTopic, OtherTopicFails, TypeOK, MemoryType, DiskType

LEMMA CommitInvStep ==
    ASSUME TypeOK, CommitInv, [Next]_vars
    PROVE  CommitInv'
<1>1. CASE AnyCommit
  <2>1. PICK g \in Group, p \in Partition, offset \in Nat :
               /\ committed' = [committed EXCEPT ![<<g, p>>] = offset]
               /\ asked' = [asked EXCEPT ![<<g, p>>] = offset]
    BY <1>1, CommitStep
  <2> QED
    BY <2>1 DEF CommitInv, TypeOK, MemoryType, HistoryType
<1>2. CASE AnyCrash
  BY <1>2, CrashStep DEF CommitInv
<1>3. CASE UNCHANGED <<committed, asked>>
  BY <1>3 DEF CommitInv
<1>4. \/ AnyCommit \/ AnyCrash \/ UNCHANGED <<committed, asked>>
  BY StepCases DEF create_topic, CreateFails, ProduceFails, AnyAppend, append_log, AppendFails,
     AppendInMemory, AnyOther, OtherTopic, OtherTopicFails, AnyFetch, Fetch, Poll, Check, Tick,
     Restart, vars, memory, histories
<1> QED
  BY <1>1, <1>2, <1>3, <1>4

LEMMA CreatedInvStep ==
    ASSUME TypeOK, CreatedInv, [Next]_vars
    PROVE  CreatedInv'
<1>1. ASSUME NEW request \in Requested, create_topic(request)
      PROVE  CreatedInv'
  <2> DEFINE cfg == TopicConfig(request)
  <2>1. /\ topic_mut(Value(cfg)) /\ up' = up
        /\ disk' = persist_topics(Configured(cfg), TRUE)
        /\ created' = Value(cfg)
    BY <1>1 DEF create_topic
  <2>2. Value(cfg) # None
    BY DEF Value, None
  <2>3. disk'.config = Value(cfg) /\ disk'.topics = Whole
    <3>1. Configured(cfg) \in Files /\ Configured(cfg).config = Value(cfg)
      BY ConfigTypes, DiskTypes DEF TypeOK
    <3> QED
      BY <2>1, <3>1, ListStored
  <2> QED
    BY <2>1, <2>2, <2>3 DEF CreatedInv, topic_mut
<1>2. ASSUME NEW p \in Partition, AnyAppend(p)
      PROVE  CreatedInv'
  <2>0. up /\ topic_mut(config) /\ created' = created
    BY <1>2, AppendStep DEF AppendInMemory
  <2> SUFFICES ASSUME created # None
               PROVE  CreatedInv'
    BY <2>0 DEF CreatedInv
  <2>1. exists /\ config = created /\ disk.config = created /\ disk.topics \in {Whole, Torn}
    BY <2>0 DEF CreatedInv
  <2>2. exists' = TRUE /\ config' = config /\ created' = created
    BY <2>0, <2>1 DEF topic_mut
  <2>3. disk'.config = disk.config /\ disk'.topics = disk.topics
    BY <1>2, <2>1, AppendStep
  <2> QED
    BY <2>1, <2>2, <2>3 DEF CreatedInv
<1>3. CASE ProduceFails \/ \E request \in Requested : CreateFails(request)
  <2>1. up /\ ~ exists /\ created' = created
    BY <1>3 DEF ProduceFails, CreateFails
  <2> QED
    BY <2>1 DEF CreatedInv
<1>4. CASE AnyCrash
  <2>1. CASE created = None
    BY <1>4, <2>1, CrashStep DEF CreatedInv
  <2>2. CASE created # None
    <3>1. exists /\ disk.config = created /\ disk.topics \in {Whole, Torn}
      BY <1>4, <2>2, CrashStep DEF CreatedInv
    <3> QED
      BY <1>4, <3>1, CrashStep DEF CreatedInv, LeftByCrash
  <2> QED
    BY <2>1, <2>2
<1>5. CASE AnyCommit
  BY <1>5, CommitStep DEF CreatedInv
<1>9. CASE AnyOther
  <2>1. CASE created = None
    BY <1>9, <2>1, OtherStep DEF CreatedInv, histories
  <2>2. CASE created # None
    BY <1>9, <2>2, OtherStep DEF CreatedInv, memory, histories
  <2> QED
    BY <2>1, <2>2
<1>6. CASE Restart
  <2>1. Whole # None /\ Torn # None
    BY DEF Whole, Torn, None
  <2>2. created' = created /\ disk' = disk
        /\ exists' = (disk.topics # None)
        /\ config' = IF disk.topics = None THEN None ELSE disk.config
    BY <1>6 DEF Restart, histories
  <2> QED
    BY <2>1, <2>2 DEF CreatedInv
<1>7. CASE UNCHANGED <<up, exists, config, disk, created>>
  BY <1>7 DEF CreatedInv
<1>8. CASE AnyFetch \/ (\E f \in Fetcher : Poll(f) \/ Check(f)) \/ Tick \/ UNCHANGED vars
  BY <1>7, <1>8 DEF AnyFetch, Fetch, Poll, Check, Tick, vars, memory, histories
<1> QED
  BY StepCases, <1>1, <1>2, <1>3, <1>4, <1>5, <1>6, <1>8, <1>9

LEMMA LogsInvStep ==
    ASSUME TypeOK, LogsInv, [Next]_vars
    PROVE  LogsInv'
<1>0. logs \in [Partition -> Optional(Log)] /\ config \in Optional(Config)
  BY DEF TypeOK, MemoryType
<1>1. ASSUME NEW c \in Optional(Config), NEW p \in Partition
      PROVE  LET l == ensure_log(logs, c, p) IN
             \A q \in Partition : l[q] # None => l[q].of.base <= l[q].of.next
  BY <1>0, EnsureLog DEF LogsInv
<1>2. ASSUME NEW request \in Requested, create_topic(request)
      PROVE  LogsInv'
  <2> DEFINE cfg == TopicConfig(request)
  <2>1. Value(cfg) \in Optional(Config)
    BY ConfigTypes DEF Optional
  <2> HIDE DEF cfg
  <2>2. logs' = [p \in Partition |->
                    IF p < cfg.partitions THEN ensure_log(logs, Value(cfg), p)[p] ELSE logs[p]]
    BY <1>2 DEF create_topic, cfg
  <2> QED
    BY <1>1, <2>1, <2>2 DEF LogsInv
<1>3. ASSUME NEW p \in Partition, AnyAppend(p)
      PROVE  LogsInv'
  <2>0. AppendInMemory(p)
    BY <1>3, AppendStep
  <2>1. ASSUME NEW q \in Partition, q # p, logs'[q] # None
        PROVE  logs'[q].of.base <= logs'[q].of.next
    BY <2>0, <2>1, AppendLogs DEF LogsInv
  <2>2. /\ logs'[p].of.base <= next_offset(p)
        /\ logs'[p].of.next = next_offset(p) + 1
        /\ next_offset(p) \in Nat
        /\ logs'[p] \in Optional(Log) /\ logs'[p] # None
    BY <2>0, AppendLogs
  <2>3. logs'[p].of.base \in Nat
    BY <2>2 DEF Optional, Log, Value
  <2> QED
    BY <2>1, <2>2, <2>3 DEF LogsInv
<1>4. ASSUME NEW f \in Fetcher, Poll(f)
      PROVE  LogsInv'
  <2>1. fetch[f].p \in Partition
    BY DEF TypeOK, HistoryType, Request
  <2> QED
    BY <1>0, <1>1, <1>4, <2>1 DEF Poll, LogsInv
<1>5. CASE AnyCrash
  BY <1>5, CrashStep DEF LogsInv
<1>6. CASE Restart
  <2>1. ASSUME NEW p \in Partition, Loaded(p) # None
        PROVE  Loaded(p).of.base <= Loaded(p).of.next
    <3>1. disk.config \in Optional(Config) /\ disk.log[p] \in Nat
      BY <1>6, <2>1 DEF Loaded, Restart, Opens, TypeOK, DiskType, Files, File
    <3>2. topic_config(disk.config).max \in Nat \ {0}
      BY <3>1, ConfigTypes DEF Config
    <3> QED
      BY <2>1, <3>1, <3>2, LogOfType DEF Loaded
  <2> QED
    BY <1>6, <2>1 DEF Restart, LogsInv
<1>7. CASE UNCHANGED logs
  BY <1>7 DEF LogsInv
<1>8. CASE \/ ProduceFails \/ \E request \in Requested : CreateFails(request)
           \/ AnyOther \/ AnyCommit \/ AnyFetch \/ Tick \/ UNCHANGED vars
           \/ \E f \in Fetcher : Check(f)
  BY <1>7, <1>8, CommitStep, OtherStep
     DEF ProduceFails, CreateFails, AnyFetch, Fetch, Check, Tick, vars, memory
<1> QED
  BY StepCases, <1>2, <1>3, <1>4, <1>5, <1>6, <1>8

(* What is available to a FETCH stays so while the broker runs. *)
LEMMA AvailableStays ==
    ASSUME TypeOK, NEW p \in Partition, NEW offset \in Nat,
           Available(p, offset),
           logs'[p] = logs[p] \/
               /\ LogsInv
               /\ logs'[p] \in Optional(Log) /\ logs'[p] # None
               /\ logs'[p].of.next = logs[p].of.next + 1
               /\ logs'[p].of.base <= logs[p].of.next
    PROVE  Available(p, offset)'
<1>1. CASE logs'[p] = logs[p]
  BY <1>1 DEF Available
<1>2. CASE logs'[p] # logs[p]
  <2>1. /\ logs[p].of \in Log
        /\ logs'[p].of \in Log
    BY <1>2 DEF Available, TypeOK, MemoryType, Optional, Value
  <2>2. /\ logs[p].of.base \in Nat /\ logs[p].of.next \in Nat
        /\ logs'[p].of.base \in Nat /\ logs'[p].of.next \in Nat
    BY <2>1 DEF Log
  <2>3. offset < logs[p].of.next
    BY <2>2, MaxOfTwo DEF Available
  <2>4. Max({offset, logs'[p].of.base}) < logs'[p].of.next
    BY <1>2, <2>2, <2>3, MaxOfTwo
  <2> QED
    BY <1>2, <2>4 DEF Available
<1> QED
  BY <1>1, <1>2

LEMMA FetchInvStep ==
    ASSUME TypeOK, LogsInv, FetchInv, [Next]_vars
    PROVE  FetchInv'
<1>0. /\ logs \in [Partition -> Optional(Log)] /\ config \in Optional(Config)
      /\ \A f \in Fetcher : fetch[f].p \in Partition /\ fetch[f].offset \in Nat
                            /\ fetch[f].seen \in BOOLEAN
  BY DEF TypeOK, MemoryType, HistoryType, Request
<1>1. ASSUME UNCHANGED <<up, fetch, answer>>,
             \A p \in Partition : logs[p] # None => logs'[p] = logs[p]
      PROVE  FetchInv'
  <2>1. ASSUME NEW f \in Fetcher, fetch[f].state = "polling", fetch[f].seen
        PROVE  Available(fetch[f].p, fetch[f].offset)'
    BY <1>0, <1>1, <2>1 DEF FetchInv, Available
  <2> QED
    BY <1>1, <2>1 DEF FetchInv, FetchSeesRecords
<1>2. ASSUME NEW request \in Requested, create_topic(request)
      PROVE  FetchInv'
  <2> DEFINE cfg == TopicConfig(request)
  <2>1. Value(cfg) \in Optional(Config)
    BY ConfigTypes DEF Optional
  <2> HIDE DEF cfg
  <2>2. logs' = [p \in Partition |->
                    IF p < cfg.partitions THEN ensure_log(logs, Value(cfg), p)[p] ELSE logs[p]]
    BY <1>2 DEF create_topic, cfg
  <2>3. \A p \in Partition : logs[p] # None => logs'[p] = logs[p]
    BY <1>0, <2>1, <2>2, EnsureLog
  <2> QED
    BY <1>1, <1>2, <2>3 DEF create_topic
<1>3. ASSUME NEW p \in Partition, AnyAppend(p)
      PROVE  FetchInv'
  <2>0. AppendInMemory(p)
    BY <1>3, AppendStep
  <2>1. /\ up /\ up' = up /\ answer' = answer
        /\ fetch' = [f \in Fetcher |->
              IF fetch[f].state = "polling" /\ fetch[f].p = p
                 /\ fetch[f].offset <= next_offset(p)
              THEN [fetch[f] EXCEPT !.seen = TRUE] ELSE fetch[f]]
    BY <2>0 DEF AppendInMemory
  <2>2. ASSUME NEW f \in Fetcher
        PROVE  /\ fetch'[f].state = fetch[f].state
               /\ fetch'[f].p = fetch[f].p
               /\ fetch'[f].offset = fetch[f].offset
               /\ fetch'[f].seen => fetch[f].seen \/
                     (/\ fetch[f].state = "polling" /\ fetch[f].p = p
                      /\ fetch[f].offset <= next_offset(p))
    BY <2>1 DEF TypeOK, HistoryType, Request
  <2>3. ASSUME NEW f \in Fetcher, fetch[f].state = "polling", fetch[f].seen
        PROVE  Available(fetch[f].p, fetch[f].offset)'
    <3>1. Available(fetch[f].p, fetch[f].offset)
      BY <2>3 DEF FetchInv
    <3>2. CASE fetch[f].p # p
      <4>1. fetch[f].p \in Partition
        BY DEF TypeOK, HistoryType, Request
      <4>2. logs[fetch[f].p] # None
        BY <3>1 DEF Available
      <4>3. logs'[fetch[f].p] = logs[fetch[f].p]
        BY <1>0, <2>0, <3>2, <4>1, <4>2, AppendLogs
      <4> QED
        BY <2>2, <3>1, <4>3 DEF Available
    <3>3. CASE fetch[f].p = p
      <4>1. logs[p] # None /\ next_offset(p) = logs[p].of.next
        BY <3>1, <3>3 DEF Available, next_offset
      <4>2. \A offset \in Nat : Available(p, offset) => Available(p, offset)'
        BY <2>0, <4>1, AppendLogs, AvailableStays
      <4> QED
        BY <1>0, <2>2, <3>1, <3>3, <4>2 DEF Available
    <3> QED
      BY <3>2, <3>3
  <2>4. ASSUME NEW f \in Fetcher, fetch[f].p = p, fetch[f].offset <= next_offset(p)
        PROVE  Available(fetch[f].p, fetch[f].offset)'
    <3>1. /\ logs'[p] \in Optional(Log) /\ logs'[p] # None
          /\ logs'[p].of.next = next_offset(p) + 1
          /\ logs'[p].of.base <= next_offset(p)
          /\ next_offset(p) \in Nat
      BY <2>0, AppendLogs
    <3>2. logs'[p].of.base \in Nat
      BY <3>1 DEF Optional, Value, Log
    <3>3. Max({fetch[f].offset, logs'[p].of.base}) < logs'[p].of.next
      BY <1>0, <2>4, <3>1, <3>2, MaxOfTwo
    <3> QED
      BY <2>2, <2>4, <3>1, <3>3 DEF Available
  <2> QED
    BY <2>1, <2>2, <2>3, <2>4 DEF FetchInv, FetchSeesRecords
<1>4. ASSUME NEW f \in Fetcher, Poll(f)
      PROVE  FetchInv'
  <2>1. \A p \in Partition : logs[p] # None => logs'[p] = logs[p]
    <3>1. logs' = ensure_log(logs, config, fetch[f].p) /\ fetch[f].p \in Partition
      BY <1>0, <1>4 DEF Poll
    <3>2. \A q \in Partition :
             logs[q] # None => ensure_log(logs, config, fetch[f].p)[q] = logs[q]
      BY <1>0, <3>1, EnsureLog
    <3> QED
      BY <3>1, <3>2
  <2>2. /\ up /\ up' = up /\ answer' = answer
        /\ fetch[f].state = "polling"
        /\ fetch' = [fetch EXCEPT ![f] = [@ EXCEPT !.state = Found(f)]]
    BY <1>4 DEF Poll, histories
  <2>3. /\ fetch'[f].state = Found(f) /\ fetch'[f].seen = fetch[f].seen
        /\ Found(f) # "polling"
    BY <2>2 DEF Found, TypeOK, HistoryType, Request
  <2>4. Found(f) = "empty" => ~ fetch[f].seen
    BY <2>2 DEF Found, FetchInv
  <2>5. ASSUME NEW h \in Fetcher, h # f
        PROVE  fetch'[h] = fetch[h]
    BY <2>2, <2>5 DEF TypeOK, HistoryType
  <2>6. ASSUME NEW h \in Fetcher, fetch'[h].state = "polling", fetch'[h].seen
        PROVE  Available(fetch[h].p, fetch[h].offset)'
    <3>1. h # f /\ fetch'[h] = fetch[h]
      BY <2>3, <2>5, <2>6
    <3>2. Available(fetch[h].p, fetch[h].offset)
      BY <2>6, <3>1 DEF FetchInv
    <3> QED
      BY <1>0, <2>1, <3>1, <3>2 DEF Available
  <2>7. \A h \in Fetcher : fetch'[h].state = "empty" => ~ fetch'[h].seen
    BY <2>3, <2>4, <2>5 DEF FetchInv
  <2> QED
    BY <2>2, <2>6, <2>7 DEF FetchInv, FetchSeesRecords
<1>10. ASSUME NEW f \in Fetcher, Check(f)
      PROVE  FetchInv'
  <2>1. UNCHANGED <<up, logs>> /\ fetch[f].state \in {"records", "empty"}
    BY <1>10 DEF Check, memory
  <2>2. up
    BY <2>1 DEF FetchInv
  <2>3. ASSUME NEW h \in Fetcher, h # f
        PROVE  fetch'[h] = fetch[h]
    BY <1>10, <2>3 DEF Check, TypeOK, HistoryType
  <2>4. CASE /\ fetch[f].state = "records" \/ fetch[f].left = 0
             /\ answer' = [answer EXCEPT ![f] = Value([found |-> fetch[f].state,
                               seen |-> fetch[f].seen, left |-> fetch[f].left])]
             /\ fetch' = [fetch EXCEPT ![f] = Idle]
    <3>1. fetch[f].state = "empty" => ~ fetch[f].seen /\ fetch[f].left = 0
      BY <2>4 DEF FetchInv
    <3>2. FetchSeesRecords'
      BY <2>4, <3>1 DEF FetchInv, FetchSeesRecords, TypeOK, HistoryType, Value
    <3>3. fetch'[f].state = "idle"
      BY <2>4 DEF Idle, TypeOK, HistoryType
    <3>4. ASSUME NEW h \in Fetcher, fetch'[h].state = "polling", fetch'[h].seen
          PROVE  Available(fetch[h].p, fetch[h].offset)'
      BY <2>1, <2>3, <3>3, <3>4 DEF FetchInv, Available
    <3>5. \A h \in Fetcher : fetch'[h].state = "empty" => ~ fetch'[h].seen
      BY <2>3, <3>3 DEF FetchInv
    <3> QED
      BY <2>1, <2>2, <3>2, <3>4, <3>5 DEF FetchInv
  <2>5. CASE /\ fetch' = [fetch EXCEPT ![f] = [@ EXCEPT !.state = "polling",
                               !.seen = Available(fetch[f].p, fetch[f].offset)]]
             /\ UNCHANGED answer
    <3>1. /\ fetch'[f].state = "polling"
          /\ fetch'[f].seen = Available(fetch[f].p, fetch[f].offset)
          /\ fetch'[f].p = fetch[f].p /\ fetch'[f].offset = fetch[f].offset
      BY <2>5 DEF TypeOK, HistoryType, Request
    <3>2. ASSUME NEW h \in Fetcher, fetch'[h].state = "polling", fetch'[h].seen
          PROVE  Available(fetch[h].p, fetch[h].offset)'
      <4>1. CASE h = f
        BY <2>1, <3>1, <3>2, <4>1 DEF Available
      <4>2. CASE h # f
        BY <2>1, <2>3, <3>2, <4>2 DEF FetchInv, Available
      <4> QED
        BY <4>1, <4>2
    <3>3. \A h \in Fetcher : fetch'[h].state = "empty" => ~ fetch'[h].seen
      BY <2>3, <3>1 DEF FetchInv
    <3> QED
      BY <2>1, <2>2, <2>5, <3>2, <3>3 DEF FetchInv, FetchSeesRecords
  <2> QED
    BY <1>10, <2>4, <2>5 DEF Check
<1>5. CASE AnyCrash
  BY <1>5, CrashStep DEF FetchInv, FetchSeesRecords, Idle
<1>6. CASE Restart
  BY <1>6 DEF Restart, histories, FetchInv, FetchSeesRecords
<1>7. CASE AnyFetch
  <2>1. PICK f \in Fetcher, p \in Partition, offset \in Offset, wait \in 0 .. MaxWait :
               Fetch(f, p, offset, wait)
    BY <1>7 DEF AnyFetch
  <2>2. /\ up /\ up' = up /\ logs' = logs
        /\ fetch' = [fetch EXCEPT ![f] = [state |-> "polling", p |-> p, offset |-> offset,
                                          left |-> wait, seen |-> Available(p, offset)]]
        /\ answer' = [answer EXCEPT ![f] = None]
    BY <2>1 DEF Fetch, memory
  <2>3. ASSUME NEW h \in Fetcher, fetch'[h].state = "polling", fetch'[h].seen
        PROVE  Available(fetch[h].p, fetch[h].offset)'
    <3>1. CASE h = f
      BY <2>2, <2>3, <3>1 DEF Available, TypeOK, HistoryType
    <3>2. CASE h # f
      BY <2>2, <2>3, <3>2 DEF Available, FetchInv, TypeOK, HistoryType
    <3> QED
      BY <3>1, <3>2
  <2>4. FetchSeesRecords'
    BY <2>2 DEF FetchInv, FetchSeesRecords, TypeOK, HistoryType
  <2>5. \A h \in Fetcher : fetch'[h].state = "empty" => ~ fetch'[h].seen
    BY <2>2 DEF FetchInv, TypeOK, HistoryType
  <2> QED
    BY <2>2, <2>3, <2>4, <2>5 DEF FetchInv
<1>8. CASE Tick
  <2>1. ASSUME NEW f \in Fetcher
        PROVE  /\ fetch'[f].state = fetch[f].state
               /\ fetch'[f].p = fetch[f].p
               /\ fetch'[f].offset = fetch[f].offset
               /\ fetch'[f].seen = fetch[f].seen
    BY <1>8 DEF Tick, TypeOK, HistoryType, Request
  <2>2. UNCHANGED <<up, logs, answer>>
    BY <1>8 DEF Tick, memory, histories
  <2> QED
    BY <2>1, <2>2 DEF FetchInv, FetchSeesRecords, Available
<1>9. CASE ProduceFails \/ (\E request \in Requested : CreateFails(request))
           \/ AnyOther \/ AnyCommit \/ UNCHANGED vars
  BY <1>1, <1>9, CommitStep, OtherStep DEF ProduceFails, CreateFails, vars, memory, histories
<1> QED
  BY StepCases, <1>2, <1>3, <1>4, <1>5, <1>6, <1>7, <1>8, <1>9, <1>10

(* A log that is there keeps its end, and one that is made is empty. *)
LEMMA NextOffsetStays ==
    ASSUME NEW q \in Partition,
           \/ logs'[q] = logs[q]
           \/ logs[q] = None /\ logs'[q].of.next = 0
    PROVE  next_offset(q)' = next_offset(q)
BY DEF next_offset

LEMMA EnsureStays ==
    ASSUME TypeOK, NEW c \in Optional(Config), NEW p \in Partition, NEW q \in Partition
    PROVE  LET l == ensure_log(logs, c, p) IN
           l[q] = logs[q] \/ (logs[q] = None /\ l[q].of.next = 0)
<1>1. logs \in [Partition -> Optional(Log)]
  BY DEF TypeOK, MemoryType
<1>2. CASE q # p
  BY <1>1, <1>2, EnsureLog
<1>3. CASE q = p
  BY <1>1, <1>3, EnsureLog
<1> QED
  BY <1>2, <1>3

(* Where next_offset is the same for every partition. *)
LEMMA StaysNext ==
    ASSUME TypeOK,
           \/ \E request \in Requested : create_topic(request) \/ CreateFails(request)
           \/ ProduceFails \/ AnyOther \/ AnyCommit \/ AnyFetch \/ Tick \/ UNCHANGED vars
           \/ \E f \in Fetcher : Poll(f) \/ Check(f)
    PROVE  \A q \in Partition : next_offset(q)' = next_offset(q)
<1>1. ASSUME NEW request \in Requested, create_topic(request), NEW q \in Partition
      PROVE  next_offset(q)' = next_offset(q)
  <2> DEFINE cfg == TopicConfig(request)
  <2>1. Value(cfg) \in Optional(Config)
    BY ConfigTypes DEF Optional
  <2> HIDE DEF cfg
  <2>2. logs' = [p \in Partition |->
                    IF p < cfg.partitions THEN ensure_log(logs, Value(cfg), p)[p] ELSE logs[p]]
    BY <1>1 DEF create_topic, cfg
  <2> QED
    BY <2>1, <2>2, EnsureStays, NextOffsetStays
<1>2. ASSUME NEW f \in Fetcher, Poll(f), NEW q \in Partition
      PROVE  next_offset(q)' = next_offset(q)
  <2>1. fetch[f].p \in Partition /\ config \in Optional(Config)
    BY DEF TypeOK, MemoryType, HistoryType, Request
  <2>2. logs' = ensure_log(logs, config, fetch[f].p)
    BY <1>2 DEF Poll
  <2> QED
    BY <2>1, <2>2, EnsureStays, NextOffsetStays
<1>3. ASSUME UNCHANGED logs
      PROVE  \A q \in Partition : next_offset(q)' = next_offset(q)
  BY <1>3, NextOffsetStays
<1> QED
  BY <1>1, <1>2, <1>3, CommitStep, OtherStep
     DEF CreateFails, ProduceFails, AnyFetch, Fetch, Check, Tick, vars, memory

(* Where nothing of a topic's files changes but its offset files. *)
LEMMA QuietStep ==
    ASSUME TypeOK,
           \/ AnyCommit \/ AnyFetch \/ Tick \/ UNCHANGED vars
           \/ \E f \in Fetcher : Poll(f) \/ Check(f)
    PROVE  /\ UNCHANGED <<up, exists, config, issued, failed, lost>>
           /\ disk'.topics = disk.topics
           /\ disk'.config = disk.config
           /\ disk'.log = disk.log
           /\ \A q \in Partition : next_offset(q)' = next_offset(q)
<1>1. \A q \in Partition : next_offset(q)' = next_offset(q)
  BY StaysNext
<1> QED
  BY <1>1, CommitStep DEF AnyFetch, Fetch, Tick, Poll, Check, vars, memory, histories

LEMMA ListInvStep ==
    ASSUME TypeOK, ListInv, [Next]_vars
    PROVE  ListInv'
<1>0. /\ up \in BOOLEAN /\ exists \in BOOLEAN /\ failed \in BOOLEAN
      /\ disk \in Files /\ DiskType
  BY DEF TypeOK, MemoryType, DiskType, HistoryType
<1>d. Whole # None /\ Torn # None /\ Whole # Torn
  BY DEF Whole, Torn, None
<1>1. ASSUME NEW request \in Requested, create_topic(request)
      PROVE  ListInv'
  <2>1. up' = up /\ up /\ exists' = TRUE /\ failed' = failed
    BY <1>1 DEF create_topic, topic_mut
  <2>2. disk'.topics = Whole
    BY <1>0, <1>1, ConfigTypes, DiskTypes, ListStored DEF create_topic
  <2> QED
    BY <2>1, <2>2 DEF ListInv
<1>2. ASSUME NEW p \in Partition, AnyAppend(p)
      PROVE  ListInv'
  <2>1. up /\ up' = up /\ exists' = TRUE /\ failed' = failed
    BY <1>2, AppendStep DEF AppendInMemory, topic_mut
  <2>2. ~ failed => disk'.topics \in {Whole, Torn}
    BY <1>0, <1>2, <2>1, AppendStep DEF ListInv
  <2> QED
    BY <2>1, <2>2 DEF ListInv
<1>3. CASE ProduceFails \/ \E request \in Requested : CreateFails(request)
  <2>1. \/ failed' = TRUE
        \/ /\ UNCHANGED <<up, exists, failed, issued>>
           /\ disk'.topics = disk.topics
           /\ disk'.log = disk.log
    <3>1. CASE ProduceFails
      BY <3>1 DEF ProduceFails
    <3>2. ASSUME NEW request \in Requested, CreateFails(request)
          PROVE  \/ failed' = TRUE
                 \/ /\ UNCHANGED <<up, exists, failed, issued>>
                    /\ disk'.topics = disk.topics
                    /\ disk'.log = disk.log
      <4> DEFINE cfg == TopicConfig(request)
      <4>1. \A d \in ConfigInterrupted \cup {Configured(cfg)} :
               d.topics = disk.topics /\ d.log = disk.log
        BY <1>0, ConfigTypes, DiskTypes
      <4>2. \/ failed' = TRUE
            \/ /\ UNCHANGED <<up, exists, failed, issued>>
               /\ disk' \in ConfigInterrupted \cup {Configured(cfg)}
        BY <3>2 DEF CreateFails
      <4> QED
        BY <4>1, <4>2
    <3> QED
      BY <1>3, <3>1, <3>2
  <2>2. \A q \in Partition : next_offset(q)' = next_offset(q)
    BY <1>3, StaysNext
  <2> QED
    BY <2>1, <2>2 DEF ListInv, NothingStored
<1>4. CASE AnyCrash
  <2> SUFFICES ASSUME ~ failed, disk'.topics = None
               PROVE  NothingStored'
    BY <1>4, CrashStep DEF ListInv
  <2>1. up /\ LeftByCrash(disk')
    BY <1>4, CrashStep
  <2>2. ~ exists
    BY <1>d, <2>1 DEF LeftByCrash, ListInv
  <2>3. NothingStored
    BY <2>1, <2>2 DEF ListInv
  <2>4. disk'.log = disk.log /\ issued' = issued
    BY <1>d, <1>4, <2>1, <2>2, CrashStep DEF LeftByCrash
  <2>5. \A q \in Partition : next_offset(q)' = 0
    BY <1>4, CrashStep DEF next_offset
  <2> QED
    BY <2>3, <2>4, <2>5 DEF NothingStored
<1>5. CASE Restart
  <2>1. /\ ~ up /\ up' = TRUE
        /\ disk' = disk /\ issued' = issued /\ failed' = failed
        /\ exists' = (disk.topics # None)
        /\ logs' = [p \in Partition |-> Loaded(p)]
        /\ disk.topics \in {None, Whole}
    BY <1>5 DEF Restart, Opens, histories
  <2>2. disk.topics = None => \A q \in Partition : next_offset(q)' = 0
    BY <2>1 DEF next_offset, Loaded
  <2> QED
    BY <2>1, <2>2 DEF ListInv, NothingStored
<1>6. CASE AnyOther
  <2>1. /\ up /\ UNCHANGED <<up, exists, failed, issued, logs>>
        /\ disk'.topics \in {disk.topics, Torn, IF exists THEN Whole ELSE None}
        /\ disk'.log = disk.log
    BY <1>6, OtherStep DEF memory, histories
  <2>2. \A q \in Partition : next_offset(q)' = next_offset(q)
    BY <1>6, StaysNext
  <2> QED
    BY <2>1, <2>2 DEF ListInv, NothingStored
<1>7. CASE \/ AnyCommit \/ AnyFetch \/ Tick \/ UNCHANGED vars
           \/ \E f \in Fetcher : Poll(f) \/ Check(f)
  BY <1>7, QuietStep DEF ListInv, NothingStored
<1> QED
  BY StepCases, <1>1, <1>2, <1>3, <1>4, <1>5, <1>6, <1>7

LEMMA OffsetInvStep ==
    ASSUME TypeOK, ListInv, OffsetInv, [Next]_vars
    PROVE  OffsetInv'
<1>0. /\ up \in BOOLEAN /\ exists \in BOOLEAN /\ failed \in BOOLEAN
      /\ disk \in Files /\ DiskType
      /\ \A p \in Partition : disk.log[p] \in Nat /\ issued[p] \in Seq(Nat)
  BY DEF TypeOK, MemoryType, DiskType, HistoryType, Files
<1>1. NothingStored' => OffsetInv'
  BY DEF NothingStored, OffsetInv, Kept, InFile, Increasing
<1>2. ASSUME NEW request \in Requested, create_topic(request)
      PROVE  OffsetInv'
  <2>1. up /\ ~ exists /\ failed' = failed /\ issued' = issued
    BY <1>2 DEF create_topic
  <2>2. disk'.log = disk.log
    <3>1. Configured(TopicConfig(request)) \in Files
          /\ Configured(TopicConfig(request)).log = disk.log
      BY <1>0, ConfigTypes, DiskTypes
    <3> QED
      BY <1>2, <3>1, ListStored DEF create_topic
  <2>3. \A q \in Partition : next_offset(q)' = next_offset(q)
    BY <1>2, StaysNext
  <2>4. ~ failed => NothingStored'
    BY <2>1, <2>2, <2>3 DEF ListInv, NothingStored
  <2> QED
    BY <1>1, <2>1, <2>4 DEF OffsetInv
<1>3. ASSUME NEW p \in Partition, AnyAppend(p)
      PROVE  OffsetInv'
  <2>1. AppendInMemory(p)
    BY <1>3, AppendStep
  <2>2. up /\ up' = up /\ failed' = failed /\ topic_mut(config)
    BY <2>1 DEF AppendInMemory
  <2> SUFFICES ASSUME ~ failed, NEW q \in Partition, Covered(q)'
               PROVE  Kept(q)'
    BY <2>2 DEF OffsetInv
  <2>3. Kept(q)
    <3>1. CASE exists
      <4>1. config' = config
        BY <2>2, <3>1 DEF topic_mut
      <4>2. Covered(q)
        BY <1>3, <4>1, AppendStep DEF Covered
      <4> QED
        BY <4>2 DEF OffsetInv
    <3>2. CASE ~ exists
      BY <2>2, <3>2 DEF ListInv, NothingStored, Kept, InFile, Increasing
    <3> QED
      BY <3>1, <3>2
  <2>4. next_offset(p) \in Nat /\ next_offset(p)' = next_offset(p) + 1
    BY <2>1, AppendLogs DEF next_offset
  <2>5. CASE q # p
    <3>1. logs'[q] = logs[q] \/ (logs[q] = None /\ (logs'[q] = None \/ logs'[q].of.next = 0))
      BY <2>1, <2>5, AppendLogs
    <3>2. next_offset(q)' = next_offset(q)
      BY <3>1, NextOffsetStays
    <3>3. /\ issued'[q] = issued[q] /\ disk'.log[q] = disk.log[q]
          /\ q \in lost' <=> q \in lost
      <4>1. issued \in [Partition -> Seq(Nat)] /\ disk.log \in [Partition -> Nat]
        BY DEF TypeOK, HistoryType, DiskType, Files
      <4>2. \/ disk'.log = [disk.log EXCEPT ![p] = @ + 1]
            \/ disk'.log = disk.log
        BY <1>3, AppendStep
      <4>3. disk'.log[q] = disk.log[q]
        BY <2>5, <4>1, <4>2
      <4>4. issued'[q] = issued[q]
        <5>1. issued' \in {issued, [issued EXCEPT ![p] = Append(@, next_offset(p))]}
          BY <1>3, AppendStep
        <5> QED
          BY <2>5, <4>1, <5>1
      <4>5. q \in lost' <=> q \in lost
        BY <1>3, <2>5, AppendStep
      <4> QED
        BY <4>3, <4>4, <4>5
    <3> QED
      BY <2>2, <2>3, <3>2, <3>3 DEF Kept, InFile, Increasing
  <2>6. CASE q = p
    <3>1. CASE disk'.log = disk.log /\ lost' = lost \cup {p}
      BY <1>0, <2>2, <2>3, <2>4, <2>6, <3>1 DEF Kept
    <3>2. CASE /\ disk'.log = [disk.log EXCEPT ![p] = @ + 1]
               /\ lost' = lost
               /\ issued' \in {issued, [issued EXCEPT ![p] = Append(@, next_offset(p))]}
      <4>1. disk'.log[p] = disk.log[p] + 1
        BY <3>2 DEF TypeOK, DiskType, Files
      <4>2. next_offset(p)' >= disk'.log[p]
        BY <1>0, <2>2, <2>3, <2>4, <2>6, <4>1 DEF Kept
      <4>3. ASSUME p \notin lost
            PROVE  InFile(p)'
        <5>1. /\ next_offset(p) = disk.log[p]
              /\ \A i \in DOMAIN issued[p] : issued[p][i] < disk.log[p]
              /\ \A i, j \in DOMAIN issued[p] : i < j => issued[p][i] < issued[p][j]
          BY <2>2, <2>3, <2>6, <4>3 DEF Kept, InFile, Increasing
        <5>2. next_offset(p)' = disk'.log[p]
          BY <2>4, <4>1, <5>1
        <5>3. CASE issued' = issued
          BY <1>0, <4>1, <5>1, <5>2, <5>3 DEF InFile, Increasing
        <5>4. CASE issued' = [issued EXCEPT ![p] = Append(@, next_offset(p))]
          <6>1. issued'[p] = Append(issued[p], disk.log[p])
            BY <5>1, <5>4 DEF TypeOK, HistoryType
          <6>2. /\ Len(issued'[p]) = Len(issued[p]) + 1
                /\ issued'[p][Len(issued[p]) + 1] = disk.log[p]
                /\ \A i \in 1 .. Len(issued[p]) : issued'[p][i] = issued[p][i]
            BY <1>0, <6>1
          <6>3. /\ DOMAIN issued[p] = 1 .. Len(issued[p]) /\ Len(issued[p]) \in Nat
                /\ DOMAIN issued'[p] = 1 .. Len(issued[p]) + 1
            BY <1>0, <6>1
          <6>4. \A i \in DOMAIN issued'[p] : issued'[p][i] < disk'.log[p]
            BY <1>0, <4>1, <5>1, <6>1
          <6>5. ASSUME NEW i \in DOMAIN issued'[p], NEW j \in DOMAIN issued'[p], i < j
                PROVE  issued'[p][i] < issued'[p][j]
            <7>1. i \in 1 .. Len(issued[p])
              BY <6>3, <6>5
            <7>2. CASE j = Len(issued[p]) + 1
              BY <5>1, <6>2, <6>3, <7>1, <7>2
            <7>3. CASE j \in 1 .. Len(issued[p])
              BY <5>1, <6>2, <6>3, <6>5, <7>1, <7>3
            <7> QED
              BY <6>3, <7>2, <7>3
          <6> QED
            BY <5>2, <6>4, <6>5 DEF InFile, Increasing
        <5> QED
          BY <3>2, <5>3, <5>4
      <4> QED
        BY <2>6, <3>2, <4>2, <4>3 DEF Kept
    <3> QED
      BY <1>3, <3>1, <3>2, AppendStep
  <2> QED
    BY <2>5, <2>6
<1>4. CASE ProduceFails \/ \E request \in Requested : CreateFails(request)
  <2>1. up /\ ~ exists /\ issued' = issued
    BY <1>4 DEF ProduceFails, CreateFails
  <2>2. failed' \/ (failed' = failed /\ disk'.log = disk.log)
    <3>1. CASE ProduceFails
      BY <3>1 DEF ProduceFails
    <3>2. ASSUME NEW request \in Requested, CreateFails(request)
          PROVE  failed' \/ (failed' = failed /\ disk'.log = disk.log)
      <4>1. \A d \in ConfigInterrupted \cup {Configured(TopicConfig(request))} :
               d.log = disk.log
        BY <1>0, ConfigTypes, DiskTypes
      <4>2. \/ failed' = TRUE
            \/ /\ failed' = failed
               /\ disk' \in ConfigInterrupted \cup {Configured(TopicConfig(request))}
        BY <3>2 DEF CreateFails
      <4> QED
        BY <4>1, <4>2
    <3> QED
      BY <1>4, <3>1, <3>2
  <2>3. \A q \in Partition : next_offset(q)' = next_offset(q)
    BY <1>4, StaysNext
  <2>4. ~ failed' => NothingStored'
    BY <2>1, <2>2, <2>3 DEF ListInv, NothingStored
  <2> QED
    BY <1>1, <2>4 DEF OffsetInv
<1>5. CASE AnyCrash
  <2>1. /\ up /\ up' = FALSE /\ LeftByCrash(disk')
        /\ issued' = issued /\ config' = None /\ lost' = lost /\ failed' = failed
    BY <1>5, CrashStep
  <2> SUFFICES ASSUME ~ failed, NEW q \in Partition, Covered(q)', q \notin lost
               PROVE  /\ \A i \in DOMAIN issued[q] : issued[q][i] < disk'.log[q]
                      /\ Increasing(issued[q])
    BY <2>1 DEF OffsetInv, Kept, InFile, Increasing
  <2>2. disk'.log[q] \in Nat /\ disk'.log[q] >= disk.log[q]
    BY <2>1 DEF LeftByCrash, Files
  <2>3. /\ \A i \in DOMAIN issued[q] : issued[q][i] < disk.log[q]
        /\ Increasing(issued[q])
    <3>1. CASE exists
      <4>1. disk'.config = disk.config
        BY <2>1, <3>1 DEF LeftByCrash
      <4>2. Covered(q)
        BY <2>1, <4>1, TopicsAssumption DEF Covered, Count, None
      <4> QED
        BY <4>2 DEF OffsetInv, Kept, InFile
    <3>2. CASE ~ exists
      BY <2>1, <3>2 DEF ListInv, NothingStored, Increasing
    <3> QED
      BY <3>1, <3>2
  <2> QED
    BY <1>0, <2>1, <2>2, <2>3
<1>6. CASE Restart
  <2>1. /\ ~ up /\ up' = TRUE
        /\ disk' = disk /\ issued' = issued /\ lost' = lost /\ failed' = failed
        /\ config' = IF disk.topics = None THEN None ELSE disk.config
        /\ logs' = [p \in Partition |-> Loaded(p)]
        /\ Opens
    BY <1>6 DEF Restart, histories
  <2> SUFFICES ASSUME ~ failed, NEW q \in Partition, Covered(q)'
               PROVE  Kept(q)'
    BY <2>1 DEF OffsetInv
  <2>2. Covered(q)
    BY <2>1, TopicsAssumption DEF Covered, Count, None
  <2>3. next_offset(q)' = disk.log[q]
    <3>1. CASE disk.topics = None
      <4>1. Loaded(q) = None
        BY <3>1 DEF Loaded
      <4> QED
        BY <2>1, <3>1, <4>1 DEF ListInv, NothingStored, next_offset
    <3>2. CASE disk.topics # None
      <4>1. disk.config \in Optional(Config)
        BY <1>0, <2>1, <3>2 DEF Opens, Files, File
      <4>2. /\ topic_config(disk.config) \in Config
            /\ Count(disk.config) = topic_config(disk.config).partitions
        BY <4>1, ConfigTypes DEF Count, topic_config, default_for, Optional, None, Value
      <4>3. q < topic_config(disk.config).partitions
        BY <2>1, <3>2, <4>2, TopicsAssumption DEF Covered, Config
      <4>4. Loaded(q) = LogOf(disk.log[q], topic_config(disk.config).max)
        BY <3>2, <4>2, <4>3, TopicsAssumption DEF Loaded, Config
      <4> QED
        BY <1>0, <2>1, <4>2, <4>4, LogOfType DEF next_offset, Config
    <3> QED
      BY <3>1, <3>2
  <2>4. q \notin lost => /\ \A i \in DOMAIN issued[q] : issued[q][i] < disk.log[q]
                         /\ Increasing(issued[q])
    BY <2>2 DEF OffsetInv, Kept, InFile
  <2> QED
    BY <1>0, <2>1, <2>3, <2>4 DEF Kept, InFile, Increasing
<1>7. CASE AnyOther
  <2>1. /\ UNCHANGED <<up, config, failed, issued, lost, logs>>
        /\ disk'.config = disk.config
        /\ disk'.log = disk.log
    BY <1>7, OtherStep DEF memory, histories
  <2>2. \A q \in Partition : next_offset(q)' = next_offset(q)
    BY <1>7, StaysNext
  <2> QED
    BY <2>1, <2>2 DEF OffsetInv, Covered, Kept, InFile, Increasing
<1>8. CASE \/ AnyCommit \/ AnyFetch \/ Tick \/ UNCHANGED vars
           \/ \E f \in Fetcher : Poll(f) \/ Check(f)
  BY <1>8, QuietStep DEF OffsetInv, Covered, Kept, InFile, Increasing
<1> QED
  BY StepCases, <1>2, <1>3, <1>4, <1>5, <1>6, <1>7, <1>8

-----------------------------------------------------------------------------
LEMMA TopicInit == Init => TopicInv
<1> SUFFICES ASSUME Init PROVE TopicInv
  OBVIOUS
<1>1. ListInv /\ OffsetInv
  BY DEF Init, ListInv, OffsetInv, NothingStored, next_offset, Kept, InFile, Increasing
<1>2. CommitInv /\ CreatedInv /\ LogsInv
  BY DEF Init, CommitInv, CreatedInv, LogsInv
<1>3. FetchInv
  BY DEF Init, FetchInv, FetchSeesRecords, Idle
<1> QED
  BY <1>1, <1>2, <1>3 DEF TopicInv

(* The files and the memory of a broker agree on its topic: a covered        *)
(* partition goes on where its file ends unless a record was lost, a created *)
(* topic is stored, and a FETCH finds the records that arrived before it     *)
(* looks.                                                                    *)
THEOREM TopicCorrect == Spec => []TopicInv
<1>1. TypeOK /\ TopicInv /\ [Next]_vars => TopicInv'
  BY ListInvStep, OffsetInvStep, CommitInvStep, CreatedInvStep, LogsInvStep, FetchInvStep
     DEF TopicInv
<1> QED
  BY TopicInit, TypeCorrect, <1>1, PTL DEF Spec

(* No crash and no failing write, of the topic's own requests or of those   *)
(* of other topics that rewrite the shared list, lets the broker run, or     *)
(* leaves it files to open, without a topic whose CREATE_TOPIC was answered  *)
(* (broker.rs create_topic, topic_mut, open_with_cluster_and_id).            *)
THEOREM CreatedTopicSurvivesCorrect == Spec => []CreatedTopicSurvives
<1>1. TopicInv => CreatedTopicSurvives
  <2>1. Whole # None /\ Torn # None
    BY DEF Whole, None, Torn
  <2> QED
    BY <2>1 DEF TopicInv, CreatedInv, CreatedTopicSurvives
<1> QED
  BY <1>1, TopicCorrect, PTL

(* The partitions of the configuration in memory are covered. *)
LEMMA CoveredByConfig ==
    ASSUME TypeOK, NEW p \in Partition, p < topic_config(config).partitions
    PROVE  Covered(p)
BY TopicsAssumption DEF TypeOK, MemoryType, topic_config, default_for, Covered, Count,
   Optional, None, Value

(* No offset of a configured partition is answered twice (append_log,        *)
(* load_partition_log), whatever crashes and fails, as long as storing the   *)
(* list with the topic in it did not fail and all its records are in the     *)
(* file.                                                                     *)
THEOREM OffsetsNeverReissuedCorrect == Spec => []OffsetsNeverReissued
<1>1. TypeOK /\ TopicInv => OffsetsNeverReissued
  BY CoveredByConfig DEF OffsetsNeverReissued, TopicInv, OffsetInv, Kept, InFile, Increasing
<1> QED
  BY <1>1, TypeCorrect, TopicCorrect, PTL

(* GET_LAG never understates how far a group is behind (get_lag,             *)
(* committed_offset), also after a restart that forgot its commits.          *)
THEOREM LagNeverUnderstatedCorrect == Spec => []LagNeverUnderstated
<1>1. TypeOK /\ TopicInv => LagNeverUnderstated
  <2> SUFFICES ASSUME TypeOK, TopicInv, up, ~ failed, NEW g \in Group, NEW p \in Partition,
                      p < topic_config(config).partitions
               PROVE  get_lag(g, p) >= disk.log[p] - asked[<<g, p>>]
    BY DEF LagNeverUnderstated
  <2>1. next_offset(p) >= disk.log[p] /\ next_offset(p) \in Nat
    BY CoveredByConfig DEF TopicInv, OffsetInv, Kept, next_offset, TypeOK, MemoryType, Optional,
       Value, None, Log
  <2>2. /\ <<g, p>> \in Group \X Partition
        /\ disk.log[p] \in Nat
    BY DEF TypeOK, DiskType, Files
  <2>3. /\ committed[<<g, p>>] \in Nat /\ asked[<<g, p>>] \in Nat
        /\ committed[<<g, p>>] \in {0, asked[<<g, p>>]}
    BY <2>2 DEF TypeOK, MemoryType, HistoryType, TopicInv, CommitInv
  <2>4. get_lag(g, p) = Max({0, next_offset(p) - committed[<<g, p>>]})
    BY DEF get_lag, committed_offset
  <2> QED
    BY <2>1, <2>2, <2>3, <2>4, MaxOfTwo
<1> QED
  BY <1>1, TypeCorrect, TopicCorrect, PTL

(* An empty answer to FETCH is given at the deadline, and only if no record  *)
(* was there until its last look under the lock (the Fetch arm of            *)
(* dispatch_message, fetch_log).                                             *)
THEOREM FetchSeesRecordsCorrect == Spec => []FetchSeesRecords
<1>1. TopicInv => FetchSeesRecords
  BY DEF TopicInv, FetchInv
<1> QED
  BY <1>1, TopicCorrect, PTL
=============================================================================
