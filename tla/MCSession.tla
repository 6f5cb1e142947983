----------------------------- MODULE MCSession ------------------------------
(* Values for the constants of Session. *)
EXTENDS Session

Zeros(n) == [i \in 1 .. n |-> 0]
Token    == <<7, 9>>

MCEnvironments ==
    {[require_handshake |-> FALSE, token |-> <<>>, acl |-> {}, deny |-> FALSE,
      dialback |-> TRUE],
     [require_handshake |-> TRUE, token |-> Token, deny |-> TRUE, dialback |-> FALSE,
      acl |-> {<<Token, "produce", 258>>, <<Token, "admin", 0>>, <<Anyone, "fetch", 258>>}]}

Handshakes ==
    {[kind |-> "Handshake", protocol_version |-> 2, auth_token |-> Token],
     [kind |-> "Handshake", protocol_version |-> 1, auth_token |-> Token],
     [kind |-> "Handshake", protocol_version |-> 2, auth_token |-> <<>>],
     [kind |-> "Handshake", protocol_version |-> 3, auth_token |-> Token]}

(* Fields are distinct and wider than a byte where the message allows it. *)
Fetch == [kind |-> "Fetch", topic_id |-> 258, partition_id |-> 3, offset |-> 66051,
          max_bytes |-> 65536, max_wait_ms |-> 500]

AnyRequest ==
    {Fetch, [kind |-> "ListTopics"], [kind |-> "GetCluster"],
     [kind |-> "Echo", bytes |-> <<104, 105>>],
     [kind |-> "Pcm", bytes |-> <<104>>],
     [kind |-> "ProducerRegister", port |-> 7001, topic_id |-> 2],
     [kind |-> "ConsumerRegister", port |-> 7002, topic_id |-> 2, group_id |-> 515],
     [kind |-> "CommitOffset", group_id |-> 515, topic_id |-> 2, partition_id |-> 3,
      offset |-> 66051],
     [kind |-> "CreateTopic", topic_id |-> 2, partition_count |-> 3, max_records |-> 10000],
     [kind |-> "DescribeTopic", topic_id |-> 258],
     [kind |-> "GetLag", group_id |-> 515, topic_id |-> 258],
     [kind |-> "Replicate", topic_id |-> 258, partition_id |-> 3, offset |-> 66051,
      payload |-> <<0, 255>>],
     [kind |-> "IdempotentProduce", topic_id |-> 258, partition_id |-> 3,
      producer_id |-> 770, sequence |-> 66051, payload |-> <<255, 2, 0>>],
     [kind |-> "BrokerHeartbeat", broker_id |-> 259],
     [kind |-> "JoinGroup", group_id |-> 515, topic_id |-> 2, member_id |-> 770],
     [kind |-> "GroupHeartbeat", group_id |-> 515, member_id |-> 770, generation |-> 66051]}
    \cup {[kind |-> "Produce", topic_id |-> 258, partition_id |-> 3, payload |-> Zeros(n)] :
             n \in {0, 249, 250, 256}}

Longest ==
    [kind |-> "Produce", topic_id |-> 258, partition_id |-> 3, payload |-> Zeros(249)]

Good == [kind |-> "Handshake", protocol_version |-> 2, auth_token |-> Token]

(* Every request alone and behind a handshake; a fetch behind any two; and *)
(* one more request behind the longest v1 frame.                           *)
MCScripts ==
    {<<m>> : m \in AnyRequest} \cup {<<Good, m>> : m \in AnyRequest}
    \cup {<<h, g, Fetch>> : h, g \in Handshakes}
    \cup {<<Good, Longest, [kind |-> "ListTopics"]>>}

Record(o, n) == [offset |-> o, payload |-> Zeros(n)]

Cluster ==
    [kind |-> "ClusterState", min_isr |-> 2,
     brokers |-> <<[id |-> 1, host |-> <<98, 49>>, port |-> 7777],
                   [id |-> 2, host |-> <<98>>, port |-> 7778]>>,
     assignments |-> <<[topic_id |-> 1, partition_id |-> 0, leader |-> 2,
                        replicas |-> <<1, 2>>, leader_epoch |-> 258],
                       [topic_id |-> 1, partition_id |-> 1, leader |-> 1,
                        replicas |-> <<2>>, leader_epoch |-> 1]>>,
     seen |-> <<[id |-> 2, at |-> 70000], [id |-> 1, at |-> 70001]>>]

MCData ==
    [RNotLeader |-> {2}, RProduce |-> {66051},
     RFetch |-> {<<>>, <<Record(66051, 2), Record(66052, 0)>>, <<Record(0, 241)>>,
                 <<Record(0, 242)>>},
     RListTopics |-> {<<>>, <<2, 258>>},
     RDescribeTopic |-> {<<>>, <<[partition |-> 0, base |-> 4, next |-> 260, count |-> 256,
                                  leader |-> 2, replicas |-> <<2, 1>>],
                                 [partition |-> 1, base |-> 0, next |-> 1, count |-> 1,
                                  leader |-> 1, replicas |-> <<1>>]>>},
     RGetLag |-> {<<[partition |-> 0, committed |-> 4, end |-> 260, lag |-> 256]>>},
     RGetCluster |-> {Cluster},
     RJoinGroup |-> {[code |-> 0, member_id |-> 1, generation |-> 2, partitions |-> <<0, 1>>]}]
=============================================================================
