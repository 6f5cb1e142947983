-------------------------- MODULE GroupCoordinator --------------------------
(***************************************************************************)
(* The consumer group coordinator (coordinator.rs) behind JOIN_GROUP and   *)
(* GROUP_HEARTBEAT (broker.rs join_group, group_heartbeat), for one group  *)
(* id that consumers of one or more topics use. The group is in memory     *)
(* only, and every request is served whole under the broker lock.          *)
(*                                                                         *)
(* The repository has no group client beyond its tests; the consumer here  *)
(* does what the protocol lets it do: it joins, heartbeats with the id and *)
(* generation it was given, and joins again, with its id or with 0, after  *)
(* a heartbeat that was refused. Requests may be answered by a connection  *)
(* that breaks before the answer is read.                                  *)
(*                                                                         *)
(* rebalance_pending is left out: join and rebalance clear it before the   *)
(* lock is released, so no heartbeat ever reads it set.                    *)
(***************************************************************************)
EXTENDS Integers, FiniteSets

CONSTANTS
    Client,          \* consumers
    Topic,           \* topics
    TopicOf,         \* TopicOf[c]: the topic c consumes
    PartitionCount,  \* PartitionCount[t]: partitions of t
    SessionTimeout,  \* session_timeout_ms, in clock ticks
    Punctual,        \* clients that heartbeat before their session ends
    Mortal,          \* clients that may die
    MaxJoins,        \* bound: JOIN_GROUP requests
    MaxRestarts      \* bound: restarts of the broker

ASSUME GroupAssumption ==
    /\ IsFiniteSet(Client)
    /\ TopicOf \in [Client -> Topic]
    /\ PartitionCount \in [Topic -> Nat]
    /\ SessionTimeout \in Nat
    /\ Punctual \subseteq Client
    /\ Mortal \subseteq Client
    /\ MaxJoins \in Nat
    /\ MaxRestarts \in Nat

VARIABLES
    groups,    \* groups[t]: GroupState of the group on topic t
    client,    \* client[c]: what c was last told
    living,    \* clients still running
    since,     \* since[c]: ticks since c's last accepted request
    joins,     \* JOIN_GROUP requests so far
    restarts   \* restarts so far

vars == <<groups, client, living, since, joins, restarts>>

-----------------------------------------------------------------------------
MemberId   == 1 .. MaxJoins
Generation == 1 .. 1 + 2 * MaxJoins
Ticks      == 0 .. SessionTimeout + 1
Partitions(t) == 0 .. PartitionCount[t] - 1
AllPartitions == UNION {Partitions(t) : t \in Topic}

(* GroupMember; age is now_ms minus last_seen_ms, capped above the timeout. *)
Member == [generation : Generation, parts : SUBSET AllPartitions, age : Ticks]

(* GroupState::new: every group that exists has been joined, and has a *)
(* higher generation.                                                  *)
NoMembers == [id \in {} |-> [generation |-> 1, parts |-> {}, age |-> 0]]
New == [generation |-> 1, members |-> NoMembers]
Exists(t) == groups[t].generation > 1

Outsider == [in |-> FALSE, id |-> 0, generation |-> 0, parts |-> {}]

-----------------------------------------------------------------------------
(* range_assign.  Members of the given generation and members that own      *)
(* nothing take part, or everyone when there is no such member.             *)
Assignees(members, generation) ==
    LET ids == {id \in DOMAIN members :
                   members[id].generation = generation \/ members[id].parts = {}}
    IN  IF ids = {} THEN DOMAIN members ELSE ids

(* Mutant of FirstOf: the remainder of the division is given to no one. *)
FirstOfEven(k, n, count) == k * (count \div n)

(* Where the range of the k-th of n members starts, k from 0: ranges have    *)
(* count \div n partitions, and the first count % n have one more.           *)
FirstOf(k, n, count) ==
    k * (count \div n) + (IF k < count % n THEN k ELSE count % n)

range_assign(count, members, generation) ==
    LET ids     == Assignees(members, generation)
        rank(m) == Cardinality({id \in ids : id < m})
        n       == Cardinality(ids)
    IN  [id \in IF count = 0 THEN {} ELSE ids |->
            FirstOf(rank(id), n, count) .. FirstOf(rank(id) + 1, n, count) - 1]

(* Mutant of next_member_id: ids are counted from 0, which stands for a     *)
(* client without an id.                                                    *)
next_member_id_from_0(members) ==
    CHOOSE id \in 0 .. MaxJoins :
        /\ id \notin DOMAIN members
        /\ \A other \in 0 .. id - 1 : other \in DOMAIN members

next_member_id(members) ==
    CHOOSE id \in 1 .. MaxJoins + 1 :
        /\ id \notin DOMAIN members
        /\ \A other \in 1 .. id - 1 : other \in DOMAIN members

-----------------------------------------------------------------------------
(* GroupState::join under member id: the group afterwards. *)
Joined(t, id) ==
    LET g        == groups[t]
        next     == g.generation + 1
        joined   == [m \in DOMAIN g.members \cup {id} |->
                        IF m = id THEN [generation |-> next, parts |-> {}, age |-> 0]
                                  ELSE g.members[m]]
        assigned == range_assign(PartitionCount[t], joined, next)
    IN  [generation |-> next,
         members    |-> [m \in DOMAIN joined |->
             IF m \in DOMAIN assigned
             THEN [generation |-> next, parts |-> assigned[m], age |-> 0]
             ELSE joined[m]]]

(* JOIN_GROUP of an outsider, answered or not. *)
join_group(c) ==
    /\ c \in living
    /\ ~ client[c].in
    /\ joins < MaxJoins
    /\ joins' = joins + 1
    /\ LET t == TopicOf[c] IN
       \E asked \in {0, client[c].id} :
          LET id    == IF asked = 0 THEN next_member_id(groups[t].members) ELSE asked
              group == Joined(t, id)
          IN  /\ groups' = [groups EXCEPT ![t] = group]
              /\ \/ /\ client' = [client EXCEPT ![c] =
                          [in |-> TRUE, id |-> id, generation |-> group.generation,
                           parts |-> group.members[id].parts]]
                    /\ since' = [since EXCEPT ![c] = 0]
                 \/ UNCHANGED <<client, since>>
    /\ UNCHANGED <<living, restarts>>

-----------------------------------------------------------------------------
(* Mutants of Stale: the timeout is off by one, or never applies. *)
StaleEarly(members) == {m \in DOMAIN members : members[m].age >= SessionTimeout}

NeverStale(members) == {m \in DOMAIN members : FALSE}

(* expire_stale_members and the rebalance that follows it: the remaining     *)
(* members are assigned anew, and keep their own generation.                 *)
Stale(members) == {m \in DOMAIN members : members[m].age > SessionTimeout}

Expired(t) ==
    LET g        == groups[t]
        left     == [m \in DOMAIN g.members \ Stale(g.members) |-> g.members[m]]
        assigned == range_assign(PartitionCount[t], left, g.generation + 1)
    IN  IF Stale(g.members) = {}
        THEN g
        ELSE [generation |-> g.generation + 1,
              members    |-> [m \in DOMAIN left |->
                  IF m \in DOMAIN assigned
                  THEN [left[m] EXCEPT !.parts = assigned[m], !.age = 0]
                  ELSE left[m]]]

(* Mutant of Accepted: the generation is not compared. *)
AcceptedById(group, c) == client[c].id \in DOMAIN group.members

(* Does the group accept this id and generation? *)
Accepted(group, c) ==
    /\ client[c].id \in DOMAIN group.members
    /\ group.members[client[c].id].generation = client[c].generation

(* GROUP_HEARTBEAT of a client that believes to be a member. The request     *)
(* names the group and not the topic: broker.rs takes the first group with   *)
(* that id in a HashMap, so any. Codes 1 and 2 make an outsider of the       *)
(* client, unless the answer is lost.                                        *)
group_heartbeat(c, t) ==
    /\ c \in living
    /\ client[c].in
    /\ Exists(t)
    /\ LET group == Expired(t) IN
       IF Accepted(group, c)
       THEN /\ groups' = [groups EXCEPT ![t] =
                  [group EXCEPT !.members[client[c].id].age = 0]]
            /\ since' \in {since, [since EXCEPT ![c] = 0]}
            /\ UNCHANGED client
       ELSE /\ groups' = [groups EXCEPT ![t] = group]
            /\ client' \in {client, [client EXCEPT ![c].in = FALSE]}
            /\ UNCHANGED since
    /\ UNCHANGED <<living, joins, restarts>>

(* No group of that id: code 1. *)
HeartbeatUnknown(c) ==
    /\ c \in living
    /\ client[c].in
    /\ \A t \in Topic : ~ Exists(t)
    /\ client' \in {client, [client EXCEPT ![c].in = FALSE]}
    /\ UNCHANGED <<groups, living, since, joins, restarts>>

-----------------------------------------------------------------------------
(* Ages past the timeout are all alike. *)
Older(ticks) == IF ticks > SessionTimeout THEN ticks ELSE ticks + 1

(* One tick of the wall clock. *)
Tick ==
    /\ \A c \in living \cap Punctual : client[c].in => since[c] < SessionTimeout
    /\ groups' = [t \in Topic |-> [groups[t] EXCEPT !.members =
          [m \in DOMAIN groups[t].members |->
              [groups[t].members[m] EXCEPT !.age = Older(@)]]]]
    /\ since' = [c \in Client |-> Older(since[c])]
    /\ UNCHANGED <<client, living, joins, restarts>>

Die(c) ==
    /\ c \in living \cap Mortal
    /\ living' = living \ {c}
    /\ UNCHANGED <<groups, client, since, joins, restarts>>

(* Broker::open starts without groups. *)
RestartBroker ==
    /\ restarts < MaxRestarts
    /\ restarts' = restarts + 1
    /\ groups' = [t \in Topic |-> New]
    /\ UNCHANGED <<client, living, since, joins>>

Init ==
    /\ groups = [t \in Topic |-> New]
    /\ client = [c \in Client |-> Outsider]
    /\ living = Client
    /\ since = [c \in Client |-> 0]
    /\ joins = 0
    /\ restarts = 0

Next ==
    \/ \E c \in Client :
          \/ join_group(c)
          \/ \E t \in Topic : group_heartbeat(c, t)
          \/ HeartbeatUnknown(c)
          \/ Die(c)
    \/ Tick
    \/ RestartBroker

Spec == Init /\ [][Next]_vars

(* A living member goes on heartbeating until an answer arrives, and time   *)
(* passes.                                                                  *)
HeartbeatAnswered(c) ==
    /\ (\E t \in Topic : group_heartbeat(c, t)) \/ HeartbeatUnknown(c)
    /\ since'[c] = 0 \/ ~ client'[c].in

Fairness ==
    /\ WF_vars(Tick)
    /\ \A c \in Client : WF_vars(HeartbeatAnswered(c))

FairSpec == Spec /\ Fairness

-----------------------------------------------------------------------------
TypeOK ==
    /\ \A t \in Topic :
          /\ groups[t].generation \in Generation
          /\ DOMAIN groups[t].members \subseteq MemberId
          /\ \A m \in DOMAIN groups[t].members : groups[t].members[m] \in Member
    /\ client \in [Client -> [in : BOOLEAN, id : MemberId \cup {0},
                              generation : Generation \cup {0},
                              parts : SUBSET AllPartitions]]
    /\ living \subseteq Client
    /\ since \in [Client -> Ticks]
    /\ joins \in 0 .. MaxJoins
    /\ restarts \in 0 .. MaxRestarts

(* As long as a group has members, every partition is assigned to one of     *)
(* them: no sequence of joins, expiries and partial rebalances (range_assign *)
(* leaves out members of older generations) drops a partition.               *)
EveryPartitionAssigned ==
    \A t \in Topic :
        DOMAIN groups[t].members # {} =>
            Partitions(t) = UNION {groups[t].members[m].parts : m \in DOMAIN groups[t].members}

(* Until the broker restarts, a membership is accepted from one client only. *)
(* Ids of expired members are given out again and an expired client may ask  *)
(* for its old id, but the generation check of heartbeat tells the claimants *)
(* apart.                                                                    *)
OneClientPerMember ==
    restarts = 0 => \A c, d \in Client :
        /\ TopicOf[c] = TopicOf[d]
        /\ client[c].in /\ Accepted(groups[TopicOf[c]], c)
        /\ client[d].in /\ Accepted(groups[TopicOf[d]], d)
        /\ client[c].id = client[d].id
        => c = d

(* docs/protocol.md on GROUP_HEARTBEAT: "Keep group membership"; until the    *)
(* broker restarts, a living client that heartbeats in time is in the         *)
(* coordinator's books, whatever the other clients do, when every group has   *)
(* one topic.                                                                 *)
HeartbeatsKeepMembership ==
    restarts = 0 => \A c \in living \cap Punctual :
        client[c].in => client[c].id \in DOMAIN groups[TopicOf[c]].members

(* While some client heartbeats, the members that died, and those whose      *)
(* answer to JOIN_GROUP was lost, are expired in the end, although every     *)
(* join and every rebalance renews the sessions of other members.            *)
DeadMembersLeave ==
    ([]<>(\E c \in living : client[c].in)) =>
        <>[](\A t \in Topic : \A m \in DOMAIN groups[t].members :
                \E c \in living : TopicOf[c] = t /\ client[c].in /\ client[c].id = m)

-----------------------------------------------------------------------------
(* What the documentation says and the code does not do. *)

(* coordinator.rs: "divide contiguous partition ranges across sorted member  *)
(* ids"; no partition has two owners.                                        *)
PartitionHasOneOwner ==
    \A t \in Topic : \A m, n \in DOMAIN groups[t].members :
        m # n => groups[t].members[m].parts \cap groups[t].members[n].parts = {}
=============================================================================
