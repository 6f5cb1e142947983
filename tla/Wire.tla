-------------------------------- MODULE Wire --------------------------------
(***************************************************************************)
(* The bytes on a connection: messages (message.rs) and the two frame      *)
(* formats (protocol.rs).  Operators only; Session runs them.              *)
(*                                                                         *)
(* A message is a record with the name of its variant in kind.  Strings    *)
(* are ASCII, so they are their bytes.  Numbers are below 2^31, the bound  *)
(* of TLC's integers: the upper bytes of a u64 are zero.                   *)
(***************************************************************************)
EXTENDS Integers, Sequences

Err == [kind |-> "Err"]

(* The fields' types; of a u32 or u64, what the bound above leaves. *)
MaxNumber == 2147483647
MaxU16    == 65535
Byte      == 0 .. 255
U16       == 0 .. MaxU16
Number    == 0 .. MaxNumber
Bytes     == Seq(Byte)

(* to_be_bytes and from_be_bytes; positions count from 0 as in the code. *)
Put(v, width) ==
    [i \in 1 .. width |->
        CASE i = width     -> v % 256
          [] i = width - 1 -> (v \div 256) % 256
          [] i = width - 2 -> (v \div 65536) % 256
          [] i = width - 3 -> v \div 16777216
          [] OTHER         -> 0]

Get(p, at, width) ==
    LET byte(i) == IF width >= i THEN p[at + width - i + 1] ELSE 0
    IN  byte(1) + 256 * byte(2) + 65536 * byte(3) + 16777216 * byte(4)

Slice(p, at, n) == SubSeq(p, at + 1, at + n)
From(p, at)     == SubSeq(p, at + 1, Len(p))

-----------------------------------------------------------------------------
(* The requests and the answers there are. *)
RequestMessage ==
    [kind : {"Echo", "Pcm"}, bytes : Bytes] \cup
    [kind : {"ListTopics", "GetCluster"}] \cup
    [kind : {"ProducerRegister"}, port : U16, topic_id : U16] \cup
    [kind : {"ConsumerRegister"}, port : U16, topic_id : U16, group_id : U16] \cup
    [kind : {"Fetch"}, topic_id : U16, partition_id : U16, offset : Number,
     max_bytes : Number, max_wait_ms : Number] \cup
    [kind : {"CommitOffset"}, group_id : U16, topic_id : U16, partition_id : U16,
     offset : Number] \cup
    [kind : {"Produce"}, topic_id : U16, partition_id : U16, payload : Bytes] \cup
    [kind : {"CreateTopic"}, topic_id : U16, partition_count : U16, max_records : Number] \cup
    [kind : {"DescribeTopic"}, topic_id : U16] \cup
    [kind : {"GetLag"}, group_id : U16, topic_id : U16] \cup
    [kind : {"Replicate"}, topic_id : U16, partition_id : U16, offset : Number,
     payload : Bytes] \cup
    [kind : {"IdempotentProduce"}, topic_id : U16, partition_id : U16,
     producer_id : Number, sequence : Number, payload : Bytes] \cup
    [kind : {"BrokerHeartbeat"}, broker_id : U16] \cup
    [kind : {"JoinGroup"}, group_id : U16, topic_id : U16, member_id : Number] \cup
    [kind : {"GroupHeartbeat"}, group_id : U16, member_id : Number, generation : Number] \cup
    [kind : {"Handshake"}, protocol_version : U16, auth_token : Bytes]

AnswerMessage ==
    [kind : {"REcho", "RFetch", "RDescribeTopic", "RListTopics", "RGetLag", "RGetCluster",
             "RJoinGroup"}, bytes : Bytes] \cup
    [kind : {"RProducerRegister", "RConsumerRegister", "RPcm", "RCommitOffset",
             "RCreateTopic", "RReplicate", "RBrokerHeartbeat"}, code : Byte] \cup
    [kind : {"RProduce"}, offset : Number] \cup
    [kind : {"RNotLeader"}, leader : U16] \cup
    [kind : {"RGroupHeartbeat"}, code : Byte, flag : Byte] \cup
    [kind : {"RHandshake"}, code : Byte, version : U16] \cup
    [kind : {"RError"}, code : Byte, bytes : Bytes]

-----------------------------------------------------------------------------
(* The requests: encode and decode of each. *)
encode_producer_register(m) == Put(m.port, 2) \o Put(m.topic_id, 2)

decode_producer_register(p) ==
    IF Len(p) < 4 THEN Err
    ELSE [kind |-> "ProducerRegister", port |-> Get(p, 0, 2), topic_id |-> Get(p, 2, 2)]

encode_consumer_register(m) == Put(m.port, 2) \o Put(m.topic_id, 2) \o Put(m.group_id, 2)

decode_consumer_register(p) ==
    IF Len(p) < 6 THEN Err
    ELSE [kind |-> "ConsumerRegister", port |-> Get(p, 0, 2), topic_id |-> Get(p, 2, 2),
          group_id |-> Get(p, 4, 2)]

encode_broker_heartbeat(m) == Put(m.broker_id, 2)

decode_broker_heartbeat(p) ==
    IF Len(p) < 2 THEN Err ELSE [kind |-> "BrokerHeartbeat", broker_id |-> Get(p, 0, 2)]

encode_join_group(m) == Put(m.group_id, 2) \o Put(m.topic_id, 2) \o Put(m.member_id, 8)

decode_join_group(p) ==
    IF Len(p) < 12 THEN Err
    ELSE [kind |-> "JoinGroup", group_id |-> Get(p, 0, 2), topic_id |-> Get(p, 2, 2),
          member_id |-> Get(p, 4, 8)]

encode_group_heartbeat(m) ==
    Put(m.group_id, 2) \o Put(m.member_id, 8) \o Put(m.generation, 4)

decode_group_heartbeat(p) ==
    IF Len(p) < 14 THEN Err
    ELSE [kind |-> "GroupHeartbeat", group_id |-> Get(p, 0, 2), member_id |-> Get(p, 2, 8),
          generation |-> Get(p, 10, 4)]

encode_handshake(m) ==
    Put(m.protocol_version, 2) \o Put(Len(m.auth_token), 2) \o m.auth_token

decode_handshake(p) ==
    IF Len(p) < 4 \/ Len(p) < 4 + Get(p, 2, 2) THEN Err
    ELSE [kind |-> "Handshake", protocol_version |-> Get(p, 0, 2),
          auth_token |-> Slice(p, 4, Get(p, 2, 2))]

encode_fetch(m) ==
    Put(m.topic_id, 2) \o Put(m.partition_id, 2) \o Put(m.offset, 8) \o
    Put(m.max_bytes, 4) \o Put(m.max_wait_ms, 4)

decode_fetch(p) ==
    IF Len(p) < 16 THEN Err
    ELSE [kind |-> "Fetch", topic_id |-> Get(p, 0, 2), partition_id |-> Get(p, 2, 2),
          offset |-> Get(p, 4, 8), max_bytes |-> Get(p, 12, 4),
          max_wait_ms |-> IF Len(p) >= 20 THEN Get(p, 16, 4) ELSE 0]

encode_commit_offset(m) ==
    Put(m.group_id, 2) \o Put(m.topic_id, 2) \o Put(m.partition_id, 2) \o Put(m.offset, 8)

decode_commit_offset(p) ==
    IF Len(p) < 14 THEN Err
    ELSE [kind |-> "CommitOffset", group_id |-> Get(p, 0, 2), topic_id |-> Get(p, 2, 2),
          partition_id |-> Get(p, 4, 2), offset |-> Get(p, 6, 8)]

encode_produce(m) == Put(m.topic_id, 2) \o Put(m.partition_id, 2) \o m.payload

decode_produce(p) ==
    IF Len(p) < 4 THEN Err
    ELSE [kind |-> "Produce", topic_id |-> Get(p, 0, 2), partition_id |-> Get(p, 2, 2),
          payload |-> From(p, 4)]

encode_create_topic(m) ==
    Put(m.topic_id, 2) \o Put(m.partition_count, 2) \o Put(m.max_records, 4)

decode_create_topic(p) ==
    IF Len(p) < 8 THEN Err
    ELSE [kind |-> "CreateTopic", topic_id |-> Get(p, 0, 2),
          partition_count |-> Get(p, 2, 2), max_records |-> Get(p, 4, 4)]

encode_describe_topic(m) == Put(m.topic_id, 2)

decode_describe_topic(p) ==
    IF Len(p) < 2 THEN Err ELSE [kind |-> "DescribeTopic", topic_id |-> Get(p, 0, 2)]

encode_get_lag(m) == Put(m.group_id, 2) \o Put(m.topic_id, 2)

decode_get_lag(p) ==
    IF Len(p) < 4 THEN Err
    ELSE [kind |-> "GetLag", group_id |-> Get(p, 0, 2), topic_id |-> Get(p, 2, 2)]

encode_replicate(m) ==
    Put(m.topic_id, 2) \o Put(m.partition_id, 2) \o Put(m.offset, 8) \o
    Put(Len(m.payload), 2) \o m.payload

decode_replicate(p) ==
    IF Len(p) < 14 \/ Len(p) < 14 + Get(p, 12, 2) THEN Err
    ELSE [kind |-> "Replicate", topic_id |-> Get(p, 0, 2), partition_id |-> Get(p, 2, 2),
          offset |-> Get(p, 4, 8), payload |-> Slice(p, 14, Get(p, 12, 2))]

encode_idempotent_produce(m) ==
    Put(m.topic_id, 2) \o Put(m.partition_id, 2) \o Put(m.producer_id, 8) \o
    Put(m.sequence, 8) \o m.payload

(* Mutant of decode_idempotent_produce: the sequence is read where the       *)
(* producer's id is.                                                        *)
decode_sequence_early(p) ==
    IF Len(p) < 20 THEN Err
    ELSE [kind |-> "IdempotentProduce", topic_id |-> Get(p, 0, 2),
          partition_id |-> Get(p, 2, 2), producer_id |-> Get(p, 4, 8),
          sequence |-> Get(p, 4, 8), payload |-> From(p, 20)]

decode_idempotent_produce(p) ==
    IF Len(p) < 20 THEN Err
    ELSE [kind |-> "IdempotentProduce", topic_id |-> Get(p, 0, 2),
          partition_id |-> Get(p, 2, 2), producer_id |-> Get(p, 4, 8),
          sequence |-> Get(p, 12, 8), payload |-> From(p, 20)]

-----------------------------------------------------------------------------
(* Message types: the request at position n has type n, the answer 100 + n. *)
Requests ==
    <<"Echo", "ProducerRegister", "ConsumerRegister", "Pcm", "Fetch", "CommitOffset",
      "Produce", "CreateTopic", "DescribeTopic", "ListTopics", "GetLag", "Replicate",
      "GetCluster", "IdempotentProduce", "BrokerHeartbeat", "JoinGroup",
      "GroupHeartbeat", "Handshake">>

Answers ==
    <<"REcho", "RProducerRegister", "RConsumerRegister", "RPcm", "RFetch",
      "RCommitOffset", "RProduce", "RCreateTopic", "RDescribeTopic", "RListTopics",
      "RGetLag", "RReplicate", "RGetCluster", "RNotLeader", "RBrokerHeartbeat",
      "RJoinGroup", "RGroupHeartbeat", "RHandshake", "RError">>

message_type_byte(kind) ==
    IF \E n \in DOMAIN Requests : Requests[n] = kind
    THEN CHOOSE n \in DOMAIN Requests : Requests[n] = kind
    ELSE 100 + CHOOSE n \in DOMAIN Answers : Answers[n] = kind

(* Variants without fields, with bytes, and with one status byte. *)
Bare     == {"ListTopics", "GetCluster"}
OfBytes  == {"Echo", "REcho", "Pcm", "RFetch", "RDescribeTopic", "RListTopics", "RGetLag",
             "RGetCluster", "RJoinGroup"}
OfStatus == {"RProducerRegister", "RConsumerRegister", "RPcm", "RCommitOffset",
             "RCreateTopic", "RReplicate", "RBrokerHeartbeat"}

PayloadOf(m) ==
    CASE m.kind \in Bare                -> <<>>
      [] m.kind \in OfBytes             -> m.bytes
      [] m.kind \in OfStatus            -> <<m.code>>
      [] m.kind = "ProducerRegister"    -> encode_producer_register(m)
      [] m.kind = "ConsumerRegister"    -> encode_consumer_register(m)
      [] m.kind = "Fetch"               -> encode_fetch(m)
      [] m.kind = "CommitOffset"        -> encode_commit_offset(m)
      [] m.kind = "Produce"             -> encode_produce(m)
      [] m.kind = "CreateTopic"         -> encode_create_topic(m)
      [] m.kind = "DescribeTopic"       -> encode_describe_topic(m)
      [] m.kind = "GetLag"              -> encode_get_lag(m)
      [] m.kind = "Replicate"           -> encode_replicate(m)
      [] m.kind = "IdempotentProduce"   -> encode_idempotent_produce(m)
      [] m.kind = "BrokerHeartbeat"     -> encode_broker_heartbeat(m)
      [] m.kind = "JoinGroup"           -> encode_join_group(m)
      [] m.kind = "GroupHeartbeat"      -> encode_group_heartbeat(m)
      [] m.kind = "Handshake"           -> encode_handshake(m)
      [] m.kind = "RProduce"            -> Put(m.offset, 8)
      [] m.kind = "RNotLeader"          -> Put(m.leader, 2)
      [] m.kind = "RGroupHeartbeat"     -> <<m.code, m.flag>>
      [] m.kind = "RHandshake"          -> <<m.code>> \o Put(m.version, 2)
      [] m.kind = "RError"              -> <<m.code>> \o m.bytes

encode_message(m) == <<message_type_byte(m.kind)>> \o PayloadOf(m)

FirstOr0(p) == IF p = <<>> THEN 0 ELSE p[1]

(* An R_ERROR without a code panics, which ends the task as an error does. *)
parse_frame(body) ==
    LET type == body[1]
        kind == IF type \in DOMAIN Requests THEN Requests[type]
                ELSE IF type - 100 \in DOMAIN Answers THEN Answers[type - 100] ELSE "none"
        p    == Tail(body)
    IN  IF body = <<>> THEN Err
        ELSE CASE kind = "none"              -> Err
               [] kind \in Bare              -> [kind |-> kind]
               [] kind \in OfBytes           -> [kind |-> kind, bytes |-> p]
               [] kind \in OfStatus          -> [kind |-> kind, code |-> FirstOr0(p)]
               [] kind = "ProducerRegister"  -> decode_producer_register(p)
               [] kind = "ConsumerRegister"  -> decode_consumer_register(p)
               [] kind = "Fetch"             -> decode_fetch(p)
               [] kind = "CommitOffset"      -> decode_commit_offset(p)
               [] kind = "Produce"           -> decode_produce(p)
               [] kind = "CreateTopic"       -> decode_create_topic(p)
               [] kind = "DescribeTopic"     -> decode_describe_topic(p)
               [] kind = "GetLag"            -> decode_get_lag(p)
               [] kind = "Replicate"         -> decode_replicate(p)
               [] kind = "IdempotentProduce" -> decode_idempotent_produce(p)
               [] kind = "BrokerHeartbeat"   -> decode_broker_heartbeat(p)
               [] kind = "JoinGroup"         -> decode_join_group(p)
               [] kind = "GroupHeartbeat"    -> decode_group_heartbeat(p)
               [] kind = "Handshake"         -> decode_handshake(p)
               [] kind = "RProduce"          ->
                    IF Len(p) < 8 THEN Err ELSE [kind |-> kind, offset |-> Get(p, 0, 8)]
               [] kind = "RNotLeader"        ->
                    IF Len(p) < 2 THEN Err ELSE [kind |-> kind, leader |-> Get(p, 0, 2)]
               [] kind = "RGroupHeartbeat"   ->
                    [kind |-> kind, code |-> FirstOr0(p),
                     flag |-> IF Len(p) < 2 THEN 0 ELSE p[2]]
               [] kind = "RHandshake"        ->
                    IF Len(p) < 3 THEN Err
                    ELSE [kind |-> kind, code |-> p[1], version |-> Get(p, 1, 2)]
               [] kind = "RError"            ->
                    IF p = <<>> THEN Err
                    ELSE [kind |-> kind, code |-> p[1], bytes |-> From(p, 1)]

-----------------------------------------------------------------------------
(* Frames. The length of a v1 frame is one byte and that of a v2 frame two: *)
(* longer ones wrap.  A v1 frame of 255 bytes starts like a v2 frame.       *)
write_message(m) ==
    LET frame == encode_message(m) IN <<Len(frame) % 256>> \o frame

(* Mutant of write_frame: answers carry no correlation id. *)
write_uncorrelated(frame, format) ==
    IF format = "V1" THEN write_message(frame.message)
    ELSE LET inner == encode_message(frame.message)
         IN  <<255, 2>> \o Put((5 + Len(inner)) % 65536, 2) \o <<2>> \o Put(0, 4) \o inner

write_frame(frame, format) ==
    IF format = "V1" THEN write_message(frame.message)
    ELSE LET inner == encode_message(frame.message)
         IN  <<255, 2>> \o Put((5 + Len(inner)) % 65536, 2) \o <<2>> \o
             Put(frame.correlation_id, 4) \o inner

(* What a reader finds at the front of a stream: a frame, used bytes long,  *)
(* an error, or not enough bytes yet.                                       *)
Wait == [status |-> "wait"]
Bad  == [status |-> "error"]

Found(message, id, format, used) ==
    IF message = Err THEN Bad
    ELSE [status |-> "frame", frame |-> [correlation_id |-> id, message |-> message],
          format |-> format, used |-> used]

parse_v2_body(body) ==
    IF Len(body) < 6 \/ body[1] # 2 THEN Bad
    ELSE Found(parse_frame(From(body, 5)), Get(body, 1, 4), "V2", 4 + Len(body))

(* read_message: the reader of clients that only know v1. *)
read_message(s) ==
    IF s = <<>> THEN Wait
    ELSE IF Len(s) < 1 + s[1] THEN Wait
    ELSE Found(parse_frame(Slice(s, 1, s[1])), 0, "V1", 1 + s[1])

read_frame(s) ==
    IF s = <<>> THEN Wait
    ELSE IF s[1] = 0 THEN Bad
    ELSE IF s[1] # 255 THEN read_message(s)
    ELSE IF Len(s) < 2 THEN Wait
    ELSE IF s[2] # 2 THEN Bad
    ELSE IF Len(s) < 4 THEN Wait
    ELSE IF Len(s) < 4 + Get(s, 2, 2) THEN Wait
    ELSE parse_v2_body(Slice(s, 4, Get(s, 2, 2)))
=============================================================================
