------------------------------ MODULE Payloads ------------------------------
(***************************************************************************)
(* The structured data inside answers: record batches (fetch_batch.rs,     *)
(* compression.rs), topic descriptions and lag (broker.rs, read by         *)
(* admin.rs), cluster metadata (cluster_state.rs, cluster.rs), and the     *)
(* file cluster_state.dat, which uses the same encoding.                   *)
(*                                                                         *)
(* lz4 is a library and stays outside: a batch is sent with CODEC_NONE, as *)
(* it is by default and whenever compressing would not make it smaller.    *)
(***************************************************************************)
EXTENDS Wire, SequencesExt

(* A list is its length, a u16, and its items. *)
PutList(list, Encode(_)) ==
    Put(Len(list), 2) \o FlattenSeq([i \in DOMAIN list |-> Encode(list[i])])

(* Readers return what they read and the position behind it, or Short when *)
(* the bytes end early.  ReadItems reads n items; found[a] is the one at a. *)
Short == [at |-> -1, item |-> <<>>]

ReadItems(at, n, found) ==
    LET upto[k \in 0 .. n] ==
            IF k = 0 THEN [at |-> at, item |-> <<>>]
            ELSE IF upto[k - 1] = Short \/ found[upto[k - 1].at] = Short THEN Short
            ELSE [at   |-> found[upto[k - 1].at].at,
                  item |-> Append(upto[k - 1].item, found[upto[k - 1].at].item)]
    IN  upto[n]

ReadList(p, at, Read(_, _)) ==
    IF at + 2 > Len(p) THEN Short
    ELSE ReadItems(at + 2, Get(p, at, 2), [a \in 0 .. Len(p) |-> Read(p, a)])

ReadU16(p, at) ==
    IF at + 2 > Len(p) THEN Short ELSE [at |-> at + 2, item |-> Get(p, at, 2)]

PutU16(v) == Put(v, 2)

PutU16s(list)   == PutList(list, PutU16)
ReadU16s(p, at) == ReadList(p, at, ReadU16)

-----------------------------------------------------------------------------
(* encode_records and decode_records: [offset, payload] records. *)
encode_record(record) ==
    Put(record.offset, 8) \o Put(Len(record.payload), 2) \o record.payload

encode_records(records) == PutList(records, encode_record)

read_record(p, at) ==
    IF at + 10 > Len(p) \/ at + 10 + Get(p, at + 8, 2) > Len(p) THEN Short
    ELSE LET len == Get(p, at + 8, 2)
         IN  [at |-> at + 10 + len,
              item |-> [offset |-> Get(p, at, 8), payload |-> Slice(p, at + 10, len)]]

decode_records(p) == ReadList(p, 0, read_record)

(* The byte in front of a batch names its codec. *)
CODEC_NONE == 0
wrap_batch(batch) == <<CODEC_NONE>> \o batch

(* consumer_fetch.rs takes the bytes as they are when they do not unwrap. *)
unwrap_batch(bytes) ==
    IF bytes # <<>> /\ bytes[1] = CODEC_NONE THEN From(bytes, 1) ELSE bytes

-----------------------------------------------------------------------------
(* R_LIST_TOPICS, R_DESCRIBE_TOPIC and R_GET_LAG, and how admin.rs reads    *)
(* them.  What it shows of a list that ends early is left out.              *)
encode_topics(ids) == PutU16s(ids)
decode_topics(p)   == ReadU16s(p, 0)

encode_partition(d) ==
    Put(d.partition, 2) \o Put(d.base, 8) \o Put(d.next, 8) \o Put(d.count, 4) \o
    Put(d.leader, 2) \o PutU16s(d.replicas)

encode_description(parts) == PutList(parts, encode_partition)

read_partition(p, at) ==
    IF at + 26 > Len(p) THEN Short
    ELSE LET replicas == ReadU16s(p, at + 24)
         IN  IF replicas = Short THEN Short
             ELSE [at |-> replicas.at,
                   item |-> [partition |-> Get(p, at, 2), base |-> Get(p, at + 2, 8),
                             next |-> Get(p, at + 10, 8), count |-> Get(p, at + 18, 4),
                             leader |-> Get(p, at + 22, 2), replicas |-> replicas.item]]

decode_description(p) == ReadList(p, 0, read_partition)

encode_lag(d) ==
    Put(d.partition, 2) \o Put(d.committed, 8) \o Put(d.end, 8) \o Put(d.lag, 8)

encode_lags(parts) == PutList(parts, encode_lag)

read_lag(p, at) ==
    IF at + 26 > Len(p) THEN Short
    ELSE [at |-> at + 26,
          item |-> [partition |-> Get(p, at, 2), committed |-> Get(p, at + 2, 8),
                    end |-> Get(p, at + 10, 8), lag |-> Get(p, at + 18, 8)]]

decode_lags(p) == ReadList(p, 0, read_lag)

encode_join_group_response(code, member_id, generation, partitions) ==
    <<code>> \o Put(member_id, 8) \o Put(generation, 4) \o PutU16s(partitions)

-----------------------------------------------------------------------------
(* ClusterState: seen is the sequence of last-seen times in the order the   *)
(* map yields them, and lists are as long as their u16 counts can tell.     *)
ClusterStates ==
    {state \in [kind : {"ClusterState"}, min_isr : U16,
                brokers : Seq([id : U16, host : Bytes, port : U16]),
                assignments : Seq([topic_id : U16, partition_id : U16, leader : U16,
                                   replicas : Seq(U16), leader_epoch : Number]),
                seen : Seq([id : U16, at : Number])] :
        /\ Len(state.seen) \in U16
        /\ \A i \in DOMAIN state.brokers : Len(state.brokers[i].host) \in Byte}

MaxHost == 255   \* longer host names are cut

encode_broker(b) ==
    LET host == IF Len(b.host) <= MaxHost THEN b.host ELSE SubSeq(b.host, 1, MaxHost)
    IN  Put(b.id, 2) \o <<Len(host)>> \o host \o Put(b.port, 2)

encode_assignment(a) ==
    Put(a.topic_id, 2) \o Put(a.partition_id, 2) \o Put(a.leader, 2) \o
    PutU16s(a.replicas) \o Put(a.leader_epoch, 8)

encode_seen(entry) == Put(entry.id, 2) \o Put(entry.at, 8)

encode_brokers(list)     == PutList(list, encode_broker)
encode_assignments(list) == PutList(list, encode_assignment)
encode_seen_list(list)   == PutList(list, encode_seen)

MAGIC == <<68, 77, 81, 67, 83, 1>>

encode_cluster_state(state) ==
    MAGIC \o Put(state.min_isr, 2) \o encode_brokers(state.brokers) \o
    encode_assignments(state.assignments) \o encode_seen_list(state.seen)

encode_cluster_info(state) ==
    <<2>> \o Put(state.min_isr, 2) \o encode_brokers(state.brokers) \o
    encode_assignments(state.assignments)

read_broker(p, at) ==
    IF at + 3 > Len(p) \/ at + 5 + p[at + 3] > Len(p) THEN Short
    ELSE LET host_len == p[at + 3]
         IN  [at |-> at + 5 + host_len,
              item |-> [id |-> Get(p, at, 2), host |-> Slice(p, at + 3, host_len),
                        port |-> Get(p, at + 3 + host_len, 2)]]

(* Mutant of read_assignment: the epoch is read over, as if it were new. *)
read_assignment_without_epoch(p, at) ==
    IF at + 8 > Len(p) THEN Short
    ELSE LET replicas == ReadU16s(p, at + 6)
         IN  IF replicas = Short \/ replicas.at + 8 > Len(p) THEN Short
             ELSE [at |-> replicas.at + 8,
                   item |-> [topic_id |-> Get(p, at, 2), partition_id |-> Get(p, at + 2, 2),
                             leader |-> Get(p, at + 4, 2), replicas |-> replicas.item,
                             leader_epoch |-> 1]]

read_assignment(p, at) ==
    IF at + 8 > Len(p) THEN Short
    ELSE LET replicas == ReadU16s(p, at + 6)
         IN  IF replicas = Short \/ replicas.at + 8 > Len(p) THEN Short
             ELSE [at |-> replicas.at + 8,
                   item |-> [topic_id |-> Get(p, at, 2), partition_id |-> Get(p, at + 2, 2),
                             leader |-> Get(p, at + 4, 2), replicas |-> replicas.item,
                             leader_epoch |-> Get(p, replicas.at, 8)]]

read_seen(p, at) ==
    IF at + 10 > Len(p) THEN Short
    ELSE [at |-> at + 10, item |-> [id |-> Get(p, at, 2), at |-> Get(p, at + 2, 8)]]

read_brokers(p, at)     == ReadList(p, at, read_broker)
read_assignments(p, at) == ReadList(p, at, read_assignment)
read_seen_list(p, at)   == ReadList(p, at, read_seen)

decode_body(p) ==
    LET brokers     == read_brokers(p, 2)
        assignments == read_assignments(p, brokers.at)
        seen        == IF assignments.at + 2 > Len(p) THEN [at |-> Len(p), item |-> <<>>]
                       ELSE read_seen_list(p, assignments.at)
    IN  IF Len(p) < 2 \/ brokers = Short \/ assignments = Short \/ seen = Short THEN Err
        ELSE [kind |-> "ClusterState", min_isr |-> Get(p, 0, 2), brokers |-> brokers.item,
              assignments |-> assignments.item, seen |-> seen.item]

decode_cluster_state(p) ==
    IF Len(p) < Len(MAGIC) \/ Slice(p, 0, Len(MAGIC)) # MAGIC THEN Err
    ELSE decode_body(From(p, Len(MAGIC)))

(* Version 1 (a ClusterConfig without epochs) is sent by no broker. *)
decode_cluster_info(p) ==
    IF p = <<>> \/ p[1] # 2 THEN Err ELSE decode_body(From(p, 1))
=============================================================================
