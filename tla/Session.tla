------------------------------ MODULE Session -------------------------------
(***************************************************************************)
(* One connection to the broker port: the loop of handle_broker_connection *)
(* and dispatch_message (runner.rs) over the byte streams in both          *)
(* directions, with handshake, authentication and ACL gates, and a client  *)
(* that sends requests in either format, also before it has read earlier   *)
(* answers.  The connection may break at any time.                         *)
(*                                                                         *)
(* What the broker's operations do is modelled elsewhere; here they give   *)
(* any of the answers their handlers have, from small sets of data.  The   *)
(* texts of R_ERROR are left out.                                          *)
(***************************************************************************)
EXTENDS Payloads

CONSTANTS
    Environments,  \* settings of the process (DMQ_... variables)
    Scripts,       \* what a client may send: sequences of requests
    Data           \* Data[kind]: the data answers of that kind may carry

(* The types of the data in answers. *)
DataTypes ==
    [RNotLeader     |-> U16,
     RProduce       |-> Number,
     RFetch         |-> Seq([offset : Number, payload : Bytes]),
     RListTopics    |-> Seq(U16),
     RDescribeTopic |-> Seq([partition : U16, base : Number, next : Number, count : Number,
                             leader : U16, replicas : Seq(U16)]),
     RGetLag        |-> Seq([partition : U16, committed : Number, end : Number, lag : Number]),
     RGetCluster    |-> ClusterStates,
     RJoinGroup     |-> [code : Byte, member_id : Number, generation : Number,
                         partitions : Seq(U16)]]

MaxRequests == 8388607   \* the correlation ids below stay Numbers

ASSUME SessionAssumption ==
    /\ \A s \in Scripts : s \in Seq(RequestMessage) /\ Len(s) <= MaxRequests
    /\ \A kind \in DOMAIN DataTypes : Data[kind] \subseteq DataTypes[kind]
    /\ \A env \in Environments :
          env.require_handshake \in BOOLEAN /\ env.dialback \in BOOLEAN /\ env.deny \in BOOLEAN

VARIABLES
    env,       \* the settings
    script,    \* what this client sends
    session,   \* ConnectionSession
    open,      \* the broker's task still runs
    broken,    \* the connection is lost
    toBroker,  \* bytes the broker has not read yet
    toClient,  \* bytes the client has not read yet
    sent,      \* history: what the client sent
    handled,   \* history: what the broker dispatched
    given,     \* history: what the broker answered
    received   \* history: what the client read

vars == <<env, script, session, open, broken, toBroker, toClient, sent, handled, given,
          received>>

-----------------------------------------------------------------------------
Anonymous == <<97>>   \* "anonymous"
Anyone    == <<42>>   \* "*"
Greeting  == [i \in 1 .. 17 |-> 32]   \* the text in front of an echo

DefaultSession ==
    [wire_format |-> "V1", protocol_version |-> 1, principal |-> Anonymous,
     handshaken |-> FALSE]

(* client.rs process_handshake: the token (DMQ_AUTH_TOKEN, <<>> when it is  *)
(* not set), then the version; 0 is success.                                *)
validate_token(token) == env.token = <<>> \/ token = env.token
validate_protocol_version(version) == version \in {1, 2}

(* Mutant of process_handshake: the token is not looked at. *)
handshake_without_token(m) == IF ~ validate_protocol_version(m.protocol_version) THEN 1 ELSE 0

process_handshake(m) ==
    IF ~ validate_token(m.auth_token) THEN 2
    ELSE IF ~ validate_protocol_version(m.protocol_version) THEN 1 ELSE 0

principal_from_token(token) == IF token = <<>> THEN Anonymous ELSE token

(* Acl::check; rules are <<principal, operation, topic>>, 0 is any topic. *)
AclAllows(principal, op, topic) ==
    \/ ~ env.deny
    \/ \E who \in {principal, Anyone}, t \in {topic, 0} : <<who, op, t>> \in env.acl

-----------------------------------------------------------------------------
(* An answer: the message and the data in it. None ends the connection. *)
None == [kind |-> "None"]
Answer(message) == [message |-> message, data |-> <<>>]
Nothing         == Answer(None)
RError(code)    == Answer([kind |-> "RError", code |-> code, bytes |-> <<>>])
Status(kind, code) == Answer([kind |-> kind, code |-> code])

WithData(kind, bytes, data) ==
    [message |-> [kind |-> kind, bytes |-> bytes], data |-> data]

encode_fetch_answer(records) == wrap_batch(encode_records(records))
encode_join_answer(j) ==
    encode_join_group_response(j.code, j.member_id, j.generation, j.partitions)

(* limits.rs: the longest payload a produce may have. *)
MaxPayload == 255

Produced(m) ==
    {Answer([kind |-> "RNotLeader", leader |-> l]) : l \in Data["RNotLeader"]} \cup
    (IF Len(m.payload) > MaxPayload THEN {}
     ELSE {Answer([kind |-> "RProduce", offset |-> o]) : o \in Data["RProduce"]}) \cup
    {Nothing}

Fetched(m) ==
    {Answer([kind |-> "RNotLeader", leader |-> l]) : l \in Data["RNotLeader"]} \cup
    {WithData("RFetch", encode_fetch_answer(d), d) : d \in Data["RFetch"]} \cup {Nothing}

(* What the broker's operation answers, once the gates let a request pass.  *)
(* R_GET_CLUSTER is that of a broker in a cluster.                          *)
Outcomes(m) ==
    CASE m.kind = "Echo"             ->
            {Answer([kind |-> "REcho", bytes |-> Greeting \o m.bytes])}
      [] m.kind = "ProducerRegister" ->
            IF env.dialback THEN {Status("RProducerRegister", 0), Nothing} ELSE {RError(1)}
      [] m.kind = "ConsumerRegister" ->
            IF env.dialback THEN {Status("RConsumerRegister", 0), Nothing} ELSE {RError(1)}
      [] m.kind = "Fetch"            -> Fetched(m)
      [] m.kind \in {"Produce", "IdempotentProduce"} -> Produced(m)
      [] m.kind = "CommitOffset"     -> {Status("RCommitOffset", 0), Nothing}
      [] m.kind = "CreateTopic"      -> {Status("RCreateTopic", c) : c \in {0, 1}} \cup {Nothing}
      [] m.kind = "DescribeTopic"    ->
            {WithData("RDescribeTopic", encode_description(d), d) : d \in Data["RDescribeTopic"]}
      [] m.kind = "ListTopics"       ->
            {WithData("RListTopics", encode_topics(d), d) : d \in Data["RListTopics"]}
      [] m.kind = "GetLag"           ->
            {WithData("RGetLag", encode_lags(d), d) : d \in Data["RGetLag"]}
      [] m.kind = "Replicate"        -> {Status("RReplicate", c) : c \in {0, 1}}
      [] m.kind = "GetCluster"       ->
            {WithData("RGetCluster", encode_cluster_info(d), d) : d \in Data["RGetCluster"]}
      [] m.kind = "BrokerHeartbeat"  -> {Status("RBrokerHeartbeat", c) : c \in {0, 1}}
      [] m.kind = "JoinGroup"        ->
            {WithData("RJoinGroup", encode_join_answer(d), d) : d \in Data["RJoinGroup"]}
      [] m.kind = "GroupHeartbeat"   ->
            {Answer([kind |-> "RGroupHeartbeat", code |-> c, flag |-> f]) : c, f \in {0, 1}}
      [] OTHER                       -> {Nothing}

(* The gates of dispatch_message: which requests need a handshake, and for  *)
(* which operation the ACL is asked.                                        *)
NeedsHandshake == {"Echo", "Fetch", "Produce", "IdempotentProduce"}
Operation == [Fetch |-> "fetch", Produce |-> "produce", IdempotentProduce |-> "produce",
              CreateTopic |-> "admin"]

Blocked(s, m) == m.kind \in NeedsHandshake /\ env.require_handshake /\ ~ s.handshaken

Denied(s, m) ==
    m.kind \in DOMAIN Operation /\ ~ AclAllows(s.principal, Operation[m.kind], m.topic_id)

Handshaken(s, m) ==
    [s EXCEPT !.handshaken = TRUE, !.protocol_version = m.protocol_version,
              !.principal = principal_from_token(m.auth_token)]

(* The session afterwards, the answer, and whether the operation ran. *)
dispatch_message(s, m) ==
    IF m.kind = "Handshake"
    THEN LET code == process_handshake(m)
         IN  IF code = 0
             THEN {[session |-> Handshaken(s, m), ran |-> FALSE,
                    answer |-> Answer([kind |-> "RHandshake", code |-> 0,
                                       version |-> m.protocol_version])]}
             ELSE {[session |-> s, ran |-> FALSE, answer |-> RError(code)]}
    ELSE IF Blocked(s, m) THEN {[session |-> s, ran |-> FALSE, answer |-> RError(1)]}
    ELSE IF Denied(s, m) THEN {[session |-> s, ran |-> FALSE, answer |-> RError(3)]}
    ELSE {[session |-> s, ran |-> TRUE, answer |-> a] : a \in Outcomes(m)}

-----------------------------------------------------------------------------
(* The connection goes on after a handshake and, once version 2 has been    *)
(* negotiated, after requests in v2 frames.                                 *)
Continues(s, m) ==
    m.kind = "Handshake" \/ (s.wire_format = "V2" /\ s.protocol_version >= 2)

(* One round of handle_broker_connection. *)
Serve ==
    /\ open
    /\ \E next \in {read_frame(toBroker)} :
       /\ next.status = "frame"
       /\ \E out \in dispatch_message([session EXCEPT !.wire_format = next.format],
                                      next.frame.message) :
             LET written == out.answer # Nothing /\ ~ broken
                 frame   == [correlation_id |-> next.frame.correlation_id,
                             message |-> out.answer.message]
             IN
             /\ session' = out.session
             /\ toBroker' = From(toBroker, next.used)
             /\ handled' = Append(handled, [frame |-> next.frame, format |-> next.format,
                                            ran |-> out.ran])
             /\ open' = (written /\ Continues(out.session, next.frame.message))
             /\ given' = IF written THEN Append(given, [frame |-> frame, data |-> out.answer.data])
                         ELSE given
             /\ toClient' = IF written THEN toClient \o write_frame(frame, next.format)
                            ELSE toClient
    /\ UNCHANGED <<env, script, broken, sent, received>>

(* Mutant of ReadFails: the end of the stream is not noticed. *)
ReadFailsOnGarbage ==
    /\ open
    /\ read_frame(toBroker).status = "error"
    /\ open' = FALSE
    /\ UNCHANGED <<env, script, session, broken, toBroker, toClient, sent, handled, given,
                   received>>

(* read_frame fails: a malformed frame, or the stream ends. *)
ReadFails ==
    /\ open
    /\ \E status \in {read_frame(toBroker).status} :
          status = "error" \/ (status = "wait" /\ broken)
    /\ open' = FALSE
    /\ UNCHANGED <<env, script, session, broken, toBroker, toClient, sent, handled, given,
          received>>

-----------------------------------------------------------------------------
(* The client sends its next request (write_message, write_v2). *)
Send(format) ==
    /\ ~ broken
    /\ Len(sent) < Len(script)
    /\ LET id    == IF format = "V1" THEN 0 ELSE 256 * Len(sent) + 1
           frame == [correlation_id |-> id, message |-> script[Len(sent) + 1]]
       IN  /\ sent' = Append(sent, [frame |-> frame, format |-> format])
           /\ toBroker' = toBroker \o write_frame(frame, format)
    /\ UNCHANGED <<env, script, session, open, broken, toClient, handled, given, received>>

(* The client reads the next answer, in the format of its request: with     *)
(* message::read_message as the command-line clients do, or with            *)
(* ClientStream::read_frame.                                                *)
Receive ==
    /\ Len(received) < Len(sent)
    /\ \E next \in {IF sent[Len(received) + 1].format = "V1"
                    THEN read_message(toClient) ELSE read_frame(toClient)} :
          /\ next.status = "frame"
          /\ toClient' = From(toClient, next.used)
          /\ received' = Append(received, next.frame)
    /\ UNCHANGED <<env, script, session, open, broken, toBroker, sent, handled, given>>

(* The connection breaks: of what is under way, either side gets a part. *)
Cuts(s) == {SubSeq(s, 1, n) : n \in {0, Len(s) \div 2, Len(s)}}

Break ==
    /\ ~ broken
    /\ broken' = TRUE
    /\ toBroker' \in Cuts(toBroker)
    /\ toClient' \in Cuts(toClient)
    /\ UNCHANGED <<env, script, session, open, sent, handled, given, received>>

Init ==
    /\ env \in Environments
    /\ script \in Scripts
    /\ session = DefaultSession
    /\ open = TRUE
    /\ broken = FALSE
    /\ toBroker = <<>>
    /\ toClient = <<>>
    /\ sent = <<>>
    /\ handled = <<>>
    /\ given = <<>>
    /\ received = <<>>

Next ==
    \/ \E format \in {"V1", "V2"} : Send(format)
    \/ Serve
    \/ ReadFails
    \/ Receive
    \/ Break

Spec == Init /\ [][Next]_vars

(* The broker's task and the client go on reading what arrives. *)
FairSpec == Spec /\ WF_vars(Serve \/ ReadFails) /\ WF_vars(Receive)

-----------------------------------------------------------------------------
(* The longest frames: a v1 request of 255 bytes is taken for a v2 frame,   *)
(* and longer frames wrap.                                                  *)
LongestV2 == 65530

RequestFits(r) ==
    Len(encode_message(r.frame.message)) <= IF r.format = "V1" THEN 254 ELSE LongestV2

AnswerFits(a, format) ==
    Len(encode_message(a.frame.message)) <= IF format = "V1" THEN 255 ELSE LongestV2

FitsUpTo(i) == \A j \in 1 .. i : RequestFits(sent[j])

(* What the broker dispatches is what the client sent, in that order and    *)
(* with every field, whichever formats are mixed on the connection and      *)
(* wherever it breaks; a frame that was cut is never dispatched.            *)
ArrivesAsSent ==
    /\ Len(handled) <= Len(sent) \/ ~ FitsUpTo(Len(sent))
    /\ \A i \in DOMAIN handled :
          i <= Len(sent) /\ FitsUpTo(i) =>
              /\ handled[i].frame = sent[i].frame
              /\ handled[i].format = sent[i].format

(* The data the repository's readers find in an answer. *)
HaveReaders == {"RFetch", "RListTopics", "RDescribeTopic", "RGetLag"}

DataIn(m) ==
    CASE m.kind = "RFetch"         -> decode_records(unwrap_batch(m.bytes)).item
      [] m.kind = "RListTopics"    -> decode_topics(m.bytes).item
      [] m.kind = "RDescribeTopic" -> decode_description(m.bytes).item
      [] m.kind = "RGetLag"        -> decode_lags(m.bytes).item

(* The i-th answer a client reads is the one the broker gave to its i-th    *)
(* request, under the request's correlation id, and the client's decoders   *)
(* find the data the broker put in: records, descriptions, lag, metadata.   *)
AnswersMatch ==
    \A i \in DOMAIN received :
        FitsUpTo(i) /\ (\A j \in 1 .. i : AnswerFits(given[j], sent[j].format)) =>
            /\ received[i] = given[i].frame
            /\ received[i].correlation_id = sent[i].frame.correlation_id
            /\ received[i].message.kind \in HaveReaders =>
                  DataIn(received[i].message) = given[i].data

(* Cluster metadata survives its encodings: a broker that polls the         *)
(* controller gets its leaders and epochs (without last-seen times), and    *)
(* either of them reads back from cluster_state.dat what it stored.         *)
ClusterMetadataSurvives ==
    \A i \in DOMAIN received :
        (/\ FitsUpTo(i)
         /\ \A j \in 1 .. i : AnswerFits(given[j], sent[j].format)
         /\ received[i].message.kind = "RGetCluster") =>
              LET fetched == decode_cluster_info(received[i].message.bytes) IN
              /\ fetched = [given[i].data EXCEPT !.seen = <<>>]
              /\ \A state \in {given[i].data, fetched} :
                    decode_cluster_state(encode_cluster_state(state)) = state

(* An operation runs only on behalf of the last handshake that succeeded on *)
(* this connection: after one, when handshakes are required, and if the ACL *)
(* lets its principal do it; a failed handshake changes neither.            *)
Accepted(i) ==
    LET m == handled[i].frame.message
    IN  /\ m.kind = "Handshake"
        /\ env.token \in {<<>>, m.auth_token}
        /\ m.protocol_version \in {1, 2}

PrincipalAt(i) ==
    LET accepted == {j \in 1 .. i - 1 : Accepted(j)}
        token    == handled[Max(accepted)].frame.message.auth_token
    IN  IF accepted = {} \/ token = <<>> THEN Anonymous ELSE token

RunsForItsPrincipal ==
    \A i \in DOMAIN handled :
        LET m == handled[i].frame.message IN
        handled[i].ran =>
            /\ env.require_handshake /\ m.kind \in {"Echo", "Fetch", "Produce", "IdempotentProduce"}
                  => \E j \in 1 .. i - 1 : Accepted(j)
            /\ env.deny /\ m.kind \in {"Fetch", "Produce", "IdempotentProduce", "CreateTopic"}
                  => AclAllows(PrincipalAt(i), Operation[m.kind], m.topic_id)

LongestScript == Max({Len(s) : s \in Scripts})

(* Every request that fits is answered, unless the broker ends the          *)
(* connection, and then no request waits for ever on a dead connection.     *)
EveryRequestSettled ==
    \A i \in 1 .. LongestScript :
        (Len(sent) >= i /\ FitsUpTo(i)) ~> (Len(received) >= i \/ ~ open)
=============================================================================
