--------------------------- MODULE PartitionStore ---------------------------
(***************************************************************************)
(* One broker and one of its topic-partitions: the in-memory log with its  *)
(* retention (partition_log.rs), the log file it is rebuilt from           *)
(* (log_store.rs), idempotent produce (broker.rs, idempotency.rs) and      *)
(* fetch. Every operation runs whole under the broker lock, so only a      *)
(* crash can come between its writes: CrashDuringProduce leaves the files  *)
(* as some prefix of the writes of produce_idempotent.                     *)
(*                                                                         *)
(* A message is known by its producer and sequence number. log_meta is     *)
(* left out: it is written and never read.                                 *)
(***************************************************************************)
EXTENDS Integers, Sequences, FiniteSets, Functions

CONSTANTS
    Producer,    \* producer ids
    MaxRecords,  \* max_records of the topic
    MidCrashes,  \* the process may die inside an operation
    MaxSequence, \* bound: sequence numbers
    MaxAppends,  \* bound: records appended
    MaxCrashes,  \* bound: crashes
    MaxFailures  \* bound: writes that fail

ASSUME StoreAssumption ==
    /\ IsFiniteSet(Producer)
    /\ MaxRecords \in Nat \ {0}
    /\ MidCrashes \in BOOLEAN
    /\ MaxSequence \in Nat
    /\ MaxAppends \in Nat
    /\ MaxCrashes \in Nat
    /\ MaxFailures \in Nat

VARIABLES
    up,        \* the process runs
    known,     \* Broker.topics has the topic
    log,       \* the PartitionLog
    idem,      \* idem[p]: IdempotencyState entry of p
    disk,      \* the data directory
    answers,   \* history: R_PRODUCE answers
    position,  \* the offset the running consumer fetches next
    seen,      \* history: records consumers were given
    crashes,   \* crashes so far
    failures   \* failed writes so far

vars == <<up, known, log, idem, disk, answers, position, seen, crashes, failures>>

-----------------------------------------------------------------------------
Sequence == 0 .. MaxSequence
Message  == [producer : Producer, sequence : Sequence]
Record   == [offset : Nat, message : Message]

(* Last sequence and its offset; None stands for a missing entry or file. *)
None  == [sequence |-> -1, offset |-> -1]
Entry == [sequence : Sequence, offset : Nat] \cup {None}

(* broker_metadata.dat lists the topic ("whole"), does not exist or does not *)
(* list it ("none"), or was truncated for rewriting ("torn"). The log file   *)
(* is torn when its last record is incomplete, an idempotency file while it  *)
(* is rewritten.                                                             *)
Disk == [topics : {"none", "torn", "whole"}, data : Seq(Record), torn : BOOLEAN,
         idem : [Producer -> Entry], tornIdem : SUBSET Producer]

-----------------------------------------------------------------------------
(* PartitionLog: new, append with enforce_retention, fetch. *)
NewLog == [base |-> 0, next |-> 0, records |-> <<>>]

(* Mutant of append: retention keeps the oldest records. *)
append_keeping_oldest(l, message) ==
    LET all == Append(l.records, [offset |-> l.next, message |-> message])
    IN  [base |-> all[1].offset, next |-> l.next + 1,
         records |-> SubSeq(all, 1, IF Len(all) > MaxRecords THEN MaxRecords ELSE Len(all))]

append(l, message) ==
    LET all    == Append(l.records, [offset |-> l.next, message |-> message])
        excess == IF Len(all) > MaxRecords THEN Len(all) - MaxRecords ELSE 0
        kept   == SubSeq(all, excess + 1, Len(all))
    IN  [base |-> kept[1].offset, next |-> l.next + 1, records |-> kept]

(* Mutant of Batches: an offset before base_offset is not moved up to it. *)
BatchesFromEnd(l, from) ==
    LET start == IF from < Len(l.records) THEN from ELSE l.base
    IN  IF start >= Len(l.records)
        THEN {<<>>}
        ELSE {SubSeq(l.records, start + 1, end) : end \in start + 1 .. Len(l.records)}

(* The records from an offset on; max_bytes cuts the batch anywhere after    *)
(* the first record.                                                         *)
Batches(l, from) ==
    LET start == (IF from > l.base THEN from ELSE l.base) - l.base
    IN  IF start >= Len(l.records)
        THEN {<<>>}
        ELSE {SubSeq(l.records, start + 1, end) : end \in start + 1 .. Len(l.records)}

(* load_partition_log: the payloads of the file, appended one by one. *)
load_partition_log(data) ==
    LET loaded[n \in 0 .. Len(data)] ==
            IF n = 0 THEN NewLog ELSE append(loaded[n - 1], data[n].message)
    IN  loaded[Len(data)]

-----------------------------------------------------------------------------
(* Mutant of resolve: sequence numbers may leave gaps. *)
resolve_no_gap_check(p, s) ==
    IF idem[p] = None \/ s > idem[p].sequence THEN "append"
    ELSE IF s = idem[p].sequence THEN "return" ELSE "error"

(* IdempotencyState::resolve *)
resolve(p, s) ==
    IF idem[p] = None
    THEN IF s = 0 THEN "append" ELSE "error"
    ELSE CASE s = idem[p].sequence     -> "return"
           [] s = idem[p].sequence + 1 -> "append"
           [] OTHER                    -> "error"

(* Mutant of NewEntry: the offset of the record before. *)
NewEntryBehind(s) == [sequence |-> s, offset |-> log.next - 1]

NewRecord(p, s) == [offset |-> log.next, message |-> [producer |-> p, sequence |-> s]]
NewEntry(s)     == [sequence |-> s, offset |-> log.next]

(* Mutant of WithRecord: the record is not written. *)
WithoutRecord(d, p, s) == d

(* The writes of produce_idempotent, in order: the topic list when the topic *)
(* is new (topic_mut), the record (append_record), the entry (record).       *)
WithTopic(d) == IF known THEN d ELSE [d EXCEPT !.topics = "whole"]
WithRecord(d, p, s) == [d EXCEPT !.data = Append(@, NewRecord(p, s))]
WithEntry(d, p, s) == [d EXCEPT !.idem[p] = NewEntry(s), !.tornIdem = @ \ {p}]

(* Mutant of Stored: the entry is kept in memory only. *)
StoredNoEntry(p, s) == WithRecord(WithTopic(disk), p, s)

Stored(p, s) == WithEntry(WithRecord(WithTopic(disk), p, s), p, s)

Interrupted(p, s) ==
    {disk,
     IF known THEN disk ELSE [disk EXCEPT !.topics = "torn"],
     WithTopic(disk),
     [WithTopic(disk) EXCEPT !.torn = TRUE],
     WithRecord(WithTopic(disk), p, s),
     [WithRecord(WithTopic(disk), p, s) EXCEPT !.tornIdem = @ \cup {p}],
     Stored(p, s)}

(* IDEMPOTENT_PRODUCE of a sequence number that is new. The answer counts as *)
(* sent; a client that does not get it sends the request again.              *)
produce_idempotent(p, s) ==
    /\ up
    /\ resolve(p, s) = "append"
    /\ log.next < MaxAppends
    /\ known' = TRUE
    /\ log' = append(log, [producer |-> p, sequence |-> s])
    /\ idem' = [idem EXCEPT ![p] = NewEntry(s)]
    /\ disk' = Stored(p, s)
    /\ answers' = answers \cup {[producer |-> p, sequence |-> s, offset |-> log.next]}
    /\ UNCHANGED <<up, position, seen, crashes, failures>>

(* A retry is answered with the offset of the first attempt. Sequence        *)
(* numbers that are behind or leave a gap are refused and change nothing.    *)
ReturnOffset(p, s) ==
    /\ up
    /\ resolve(p, s) = "return"
    /\ answers' = answers \cup {[producer |-> p, sequence |-> s, offset |-> idem[p].offset]}
    /\ UNCHANGED <<up, known, log, idem, disk, position, seen, crashes, failures>>

(* One of the writes fails and the error ends the operation; the topic, the  *)
(* record and the entry are put into memory before they are written.         *)
ProduceFails(p, s) ==
    /\ failures < MaxFailures
    /\ failures' = failures + 1
    /\ up
    /\ resolve(p, s) = "append"
    /\ log.next < MaxAppends
    /\ known' = TRUE
    /\ LET message == [producer |-> p, sequence |-> s] IN
       \/ /\ ~ known
          /\ disk' \in {disk, [disk EXCEPT !.topics = "torn"]}
          /\ UNCHANGED <<log, idem>>
       \/ /\ log' = append(log, message)
          /\ disk' \in {WithTopic(disk), [WithTopic(disk) EXCEPT !.torn = TRUE],
                        WithRecord(WithTopic(disk), p, s)}
          /\ UNCHANGED idem
       \/ /\ log' = append(log, message)
          /\ idem' = [idem EXCEPT ![p] = NewEntry(s)]
          /\ disk' \in {WithRecord(WithTopic(disk), p, s),
                        [WithRecord(WithTopic(disk), p, s) EXCEPT !.tornIdem = @ \cup {p}]}
    /\ UNCHANGED <<up, answers, position, seen, crashes>>

-----------------------------------------------------------------------------
(* FETCH and the consumer loop around it (consumer_fetch.rs). *)
fetch_log ==
    /\ up
    /\ \E batch \in Batches(log, position) :
          /\ batch # <<>>
          /\ seen' = seen \cup Range(batch)
          /\ position' = batch[Len(batch)].offset + 1
    /\ UNCHANGED <<up, known, log, idem, disk, answers, crashes, failures>>

-----------------------------------------------------------------------------
(* The process dies. consumer_fetch.rs ends with its connection; the next    *)
(* consumer starts at offset 0.                                              *)
Died(files) ==
    /\ up
    /\ crashes < MaxCrashes
    /\ crashes' = crashes + 1
    /\ up' = FALSE
    /\ disk' = files
    /\ known' = FALSE
    /\ log' = NewLog
    /\ idem' = [p \in Producer |-> None]
    /\ position' = 0
    /\ UNCHANGED <<answers, seen, failures>>

Crash == Died(disk)

CrashDuringProduce(p, s) ==
    /\ MidCrashes
    /\ resolve(p, s) = "append"
    /\ log.next < MaxAppends
    /\ \E files \in Interrupted(p, s) : Died(files)

(* Broker::open reads the topic list, the log of a listed topic and every    *)
(* idempotency file; it fails when one of them ends early. Writes are cut    *)
(* between two write_all calls. A restart that misreads what a broker went   *)
(* on appending behind a torn record is outside the model.                   *)
Opens == disk.topics # "torn" /\ ~ disk.torn /\ disk.tornIdem = {}

load_logs == IF disk.topics = "whole" THEN load_partition_log(disk.data) ELSE NewLog

Restart ==
    /\ ~ up
    /\ Opens
    /\ up' = TRUE
    /\ known' = (disk.topics = "whole")
    /\ log' = load_logs
    /\ idem' = disk.idem
    /\ UNCHANGED <<disk, answers, position, seen, crashes, failures>>

Init ==
    /\ up = TRUE
    /\ known = FALSE
    /\ log = NewLog
    /\ idem = [p \in Producer |-> None]
    /\ disk = [topics |-> "none", data |-> <<>>, torn |-> FALSE,
               idem |-> [p \in Producer |-> None], tornIdem |-> {}]
    /\ answers = {}
    /\ position = 0
    /\ seen = {}
    /\ crashes = 0
    /\ failures = 0

Next ==
    \/ \E p \in Producer, s \in Sequence :
          \/ produce_idempotent(p, s)
          \/ ReturnOffset(p, s)
          \/ ProduceFails(p, s)
          \/ CrashDuringProduce(p, s)
    \/ fetch_log
    \/ Crash
    \/ Restart

Spec == Init /\ [][Next]_vars

-----------------------------------------------------------------------------
TypeOK ==
    /\ up \in BOOLEAN
    /\ known \in BOOLEAN
    /\ log.base \in Nat /\ log.next \in Nat /\ log.records \in Seq(Record)
    /\ idem \in [Producer -> Entry]
    /\ disk \in Disk
    /\ answers \subseteq [producer : Producer, sequence : Sequence, offset : Nat]
    /\ position \in Nat
    /\ seen \subseteq Record
    /\ crashes \in Nat
    /\ failures \in Nat

MessageAt(offset) == disk.data[offset + 1].message

(* The disk never failed. *)
DiskSound == failures = 0

(* As long as no write failed, memory is what a restart would read back, at  *)
(* every moment between two operations: with retention, after crashes inside *)
(* operations, and however often the broker restarted before.                *)
MemoryIsReloadable ==
    DiskSound /\ up => log = load_logs /\ idem = disk.idem

(* The records of a log are the last of the appended ones, at consecutive    *)
(* offsets ending below next_offset, and never more than max_records.        *)
LogIsContiguous ==
    /\ log.base + Len(log.records) = log.next
    /\ Len(log.records) <= MaxRecords
    /\ \A i \in 1 .. Len(log.records) : log.records[i].offset = log.base + i - 1

(* As long as no write failed, a producer's answer is final: the log file    *)
(* holds its message at the offset it was told, and a retry is told the same *)
(* offset, also after a crash inside a later operation.                      *)
AnswersAreFinal ==
    DiskSound => \A a \in answers :
        /\ a.offset \in 0 .. Len(disk.data) - 1
        /\ MessageAt(a.offset) = [producer |-> a.producer, sequence |-> a.sequence]
        /\ \A b \in answers :
              a.producer = b.producer /\ a.sequence = b.sequence => a.offset = b.offset

(* As long as no write failed, the messages of one producer are stored in    *)
(* the order of their sequence numbers and none is left out, and every       *)
(* message that is stored twice takes a crash of its own.                    *)
SequencesInOrder ==
    DiskSound =>
        /\ \A i \in 1 .. Len(disk.data) :
              LET message == disk.data[i].message
                  earlier == {j \in 1 .. i - 1 :
                                 disk.data[j].message.producer = message.producer}
              IN  \/ earlier = {} /\ message.sequence = 0
                  \/ \E j \in earlier :
                        /\ \A k \in earlier : k <= j
                        /\ \/ message = disk.data[j].message
                           \/ message.sequence = disk.data[j].message.sequence + 1
        /\ Len(disk.data) - Cardinality({r.message : r \in Range(disk.data)}) <= crashes

(* As long as no write failed, what a consumer has read stays: the file      *)
(* holds it at the same offset, so that no crash takes back what was         *)
(* consumed, and a consumer is never ahead of the log it reads.              *)
ReadsAreStable ==
    DiskSound =>
        /\ \A record \in seen :
              /\ record.offset < Len(disk.data)
              /\ MessageAt(record.offset) = record.message
        /\ up => position <= log.next

(* A consumer passes over an offset only if it was given the record there or *)
(* retention had evicted it (PartitionLog::fetch starts at base_offset).     *)
FetchSkipsOnlyEvicted ==
    [][\A offset \in position .. position' - 1 :
          \/ offset < log.base
          \/ \E record \in seen' : record.offset = offset]_vars

-----------------------------------------------------------------------------
(* What the documentation says and the code does not do. *)

(* docs/roadmap.md: "Producers survive retries without duplicates". *)
NoDuplicates ==
    \A i, j \in 1 .. Len(disk.data) :
        disk.data[i].message = disk.data[j].message => i = j
=============================================================================
