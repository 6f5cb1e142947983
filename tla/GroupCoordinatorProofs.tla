----------------------- MODULE GroupCoordinatorProofs -----------------------
(***************************************************************************)
(* Proofs about GroupCoordinator.tla, for any clients, topics, partition   *)
(* counts and timeout, and whatever the bounds are.                        *)
(***************************************************************************)
EXTENDS GroupCoordinator, OrderFacts, FiniteSetTheorems, TLAPS

-----------------------------------------------------------------------------
(* range_assign.  The ranges start at 0, follow one another and end with    *)
(* the last partition.                                                      *)
LEMMA Division ==
    ASSUME NEW count \in Nat, NEW n \in Nat \ {0}, NEW q, q = count \div n,
           NEW r, r = count % n
    PROVE  q \in Nat /\ r \in Nat /\ r < n /\ count = n * q + r
<1>1. q \in Nat /\ r \in Nat /\ r < n
  OBVIOUS
<1>2. count \in Int /\ n \in Int /\ n > 0 /\ q \in Int /\ r \in Int
  BY <1>1
<1>3. count % n = count - n * (count \div n)
  BY <1>2
<1>4. r = count - n * q
  BY <1>3
<1>5. count = n * q + r
  BY <1>2, <1>4
<1> QED
  BY <1>1, <1>5

LEMMA Distributes ==
    ASSUME NEW q \in Nat, NEW k \in Nat, NEW m \in Nat
    PROVE  /\ (k + m) * q = k * q + m * q
           /\ k * q \in Nat
OBVIOUS

LEMMA FirstOfSteps ==
    ASSUME NEW count \in Nat, NEW n \in Nat \ {0}
    PROVE  /\ FirstOf(0, n, count) = 0
           /\ FirstOf(n, n, count) = count
           /\ \A k \in Nat : FirstOf(k, n, count) \in Nat
           /\ \A k, m \in Nat : FirstOf(k, n, count) <= FirstOf(k + m, n, count)
<1>0. PICK q, r : q = count \div n /\ r = count % n
  OBVIOUS
<1>1. q \in Nat /\ r \in Nat /\ r < n /\ count = n * q + r
  BY <1>0, Division
<1>2. \A k : FirstOf(k, n, count) = k * q + (IF k < r THEN k ELSE r)
  BY <1>0 DEF FirstOf
<1>3. 0 * q = 0
  BY <1>1
<1>4. FirstOf(0, n, count) = 0
  BY <1>1, <1>2, <1>3
<1>5. FirstOf(n, n, count) = count
  BY <1>1, <1>2
<1>6. ASSUME NEW k \in Nat
      PROVE  FirstOf(k, n, count) \in Nat
  BY <1>1, <1>2, Distributes
<1>7. ASSUME NEW k \in Nat, NEW m \in Nat
      PROVE  FirstOf(k, n, count) <= FirstOf(k + m, n, count)
  <2>1. (k + m) * q = k * q + m * q /\ k * q \in Nat /\ m * q \in Nat
    BY <1>1, Distributes
  <2>2. FirstOf(k + m, n, count) =
           k * q + m * q + (IF k + m < r THEN k + m ELSE r)
    BY <1>2, <2>1
  <2>3. FirstOf(k, n, count) = k * q + (IF k < r THEN k ELSE r)
    BY <1>2
  <2> DEFINE x == k * q
             y == m * q
  <2> HIDE DEF x, y
  <2>4. /\ x \in Nat /\ y \in Nat
        /\ FirstOf(k + m, n, count) = x + y + (IF k + m < r THEN k + m ELSE r)
        /\ FirstOf(k, n, count) = x + (IF k < r THEN k ELSE r)
    BY <2>1, <2>2, <2>3 DEF x, y
  <2> QED
    BY <1>1, <2>4
<1> QED
  BY <1>4, <1>5, <1>6, <1>7

-----------------------------------------------------------------------------
(* Rank(ids, m): how many ids sort before m; its range starts there. *)
Rank(ids, m) == Cardinality({id \in ids : id < m})

LEMMA RankBelow ==
    ASSUME NEW ids \in SUBSET Nat, IsFiniteSet(ids), NEW m \in ids
    PROVE  /\ Rank(ids, m) \in Nat
           /\ Rank(ids, m) + 1 <= Cardinality(ids)
           /\ Cardinality(ids) \in Nat \ {0}
<1>1. IsFiniteSet(ids \ {m}) /\ Cardinality(ids \ {m}) = Cardinality(ids) - 1
  BY FS_RemoveElement
<1>2. {id \in ids : id < m} \in SUBSET (ids \ {m})
  OBVIOUS
<1>3. /\ IsFiniteSet({id \in ids : id < m})
      /\ Cardinality({id \in ids : id < m}) <= Cardinality(ids \ {m})
  BY <1>1, <1>2, FS_Subset
<1>4. Cardinality(ids) \in Nat /\ Cardinality({id \in ids : id < m}) \in Nat
  BY <1>3, FS_CardinalityType
<1> QED
  BY <1>1, <1>3, <1>4 DEF Rank

(* The first id has rank 0. *)
LEMMA RankFirst ==
    ASSUME NEW ids \in SUBSET Nat, ids # {}
    PROVE  \E m \in ids : Rank(ids, m) = 0
<1>1. PICK m \in ids : \A id \in ids : m <= id
  BY NatMin
<1>2. \A id \in ids : id \in Nat /\ m \in Nat /\ ~ (id < m)
  BY <1>1
<1>3. {id \in ids : id < m} = {}
  BY <1>2
<1> QED
  BY <1>3, FS_EmptySet DEF Rank

(* Either an id has a successor, whose rank is the next one, or it is the   *)
(* last of all.                                                             *)
LEMMA RankNext ==
    ASSUME NEW ids \in SUBSET Nat, IsFiniteSet(ids), NEW m \in ids
    PROVE  \/ Rank(ids, m) + 1 = Cardinality(ids)
           \/ \E p \in ids : Rank(ids, p) = Rank(ids, m) + 1
<1> DEFINE L(p) == {id \in ids : id < p}
           G    == {id \in ids : id > m}
<1>1. IsFiniteSet(L(m))
  BY FS_Subset
<1>2. Cardinality(L(m) \cup {m}) = Rank(ids, m) + 1
  BY <1>1, FS_AddElement DEF Rank
<1>0. m \in Nat /\ \A id \in ids : id \in Nat
  OBVIOUS
<1>3. CASE G = {}
  <2>0. \A id \in ids : id < m \/ id = m
    BY <1>0, <1>3
  <2>1. ids = L(m) \cup {m}
    BY <2>0
  <2> QED
    BY <1>2, <2>1
<1>4. CASE G # {}
  <2>1. PICK p \in G : \A id \in G : p <= id
    BY <1>4, NatMin
  <2>0. \A id \in ids : id < p <=> id < m \/ id = m
    BY <1>0, <2>1
  <2>2. L(p) = L(m) \cup {m}
    BY <2>0
  <2> QED
    BY <1>2, <2>1, <2>2 DEF Rank
<1> QED
  BY <1>3, <1>4

(* The range of member m, and that the ranges are within the partitions     *)
(* and leave none out.                                                      *)
RangeOf(count, ids, m) ==
    FirstOf(Rank(ids, m), Cardinality(ids), count) ..
        FirstOf(Rank(ids, m) + 1, Cardinality(ids), count) - 1

LEMMA RangesInside ==
    ASSUME NEW count \in Nat, NEW ids \in SUBSET Nat, IsFiniteSet(ids), NEW m \in ids
    PROVE  RangeOf(count, ids, m) \subseteq 0 .. count - 1
<1> DEFINE n == Cardinality(ids)
           k == Rank(ids, m)
<1>1. k \in Nat /\ k + 1 <= n /\ n \in Nat \ {0}
  BY RankBelow
<1> HIDE DEF n, k
<1>a. k + 1 \in Nat
  BY <1>1
<1>2. /\ FirstOf(k, n, count) \in Nat /\ FirstOf(k + 1, n, count) \in Nat
      /\ FirstOf(n, n, count) = count
  BY <1>1, <1>a, FirstOfSteps
<1>3. n - (k + 1) \in Nat /\ k + 1 \in Nat /\ k + 1 + (n - (k + 1)) = n
  BY <1>1
<1>4. \A i, j \in Nat : FirstOf(i, n, count) <= FirstOf(i + j, n, count)
  BY <1>1, FirstOfSteps
<1>5. FirstOf(k + 1, n, count) <= FirstOf(n, n, count)
  BY <1>3, <1>4
<1>6. FirstOf(k + 1, n, count) <= count
  BY <1>2, <1>5
<1>7. RangeOf(count, ids, m) = FirstOf(k, n, count) .. FirstOf(k + 1, n, count) - 1
  BY DEF RangeOf, n, k
<1> QED
  BY <1>2, <1>6, <1>7

LEMMA RangesCover ==
    ASSUME NEW count \in Nat, NEW ids \in SUBSET Nat, IsFiniteSet(ids), ids # {},
           NEW x \in 0 .. count - 1
    PROVE  \E m \in ids : x \in RangeOf(count, ids, m)
<1> DEFINE n     == Cardinality(ids)
           At(k) == FirstOf(k, n, count)
           R     == {k \in 0 .. n - 1 : At(k) <= x /\ \E m \in ids : k = Rank(ids, m)}
<1>1. /\ n \in Nat \ {0}
      /\ \A m \in ids : Rank(ids, m) \in 0 .. n - 1
  <2>1. PICK m \in ids : TRUE
    OBVIOUS
  <2> QED
    BY <2>1, RankBelow
<1>2. At(0) = 0 /\ At(n) = count /\ \A k \in Nat : At(k) \in Nat
  BY <1>1, FirstOfSteps
<1> HIDE DEF n, At
<1>3. R \in SUBSET Nat /\ (\A k \in R : k <= n)
  BY <1>1
<1>4. 0 \in R
  BY <1>1, <1>2, RankFirst
<1>5. PICK k \in R : \A j \in R : j <= k
  BY <1>1, <1>3, <1>4, NatMax
<1>6. PICK m \in ids : k = Rank(ids, m)
  OBVIOUS
<1>7. x < At(k + 1)
  <2>1. CASE k + 1 = n
    BY <1>2, <2>1
  <2>2. CASE k + 1 # n
    <3>1. PICK p \in ids : Rank(ids, p) = k + 1
      BY <1>6, <2>2, RankNext DEF n
    <3>2. k + 1 \notin R /\ k + 1 \in 0 .. n - 1
      BY <1>1, <1>5, <3>1
    <3>3. ~ (At(k + 1) <= x)
      BY <3>1, <3>2
    <3>4. At(k + 1) \in Nat
      BY <1>2
    <3> HIDE DEF R
    <3> QED
      BY <3>3, <3>4
  <2> QED
    BY <2>1, <2>2
<1>8. RangeOf(count, ids, m) = At(k) .. At(k + 1) - 1
  BY <1>6 DEF RangeOf, At, n
<1>9. At(k) <= x /\ At(k) \in Nat /\ At(k + 1) \in Nat
  BY <1>2
<1> QED
  BY <1>7, <1>8, <1>9

(* What the callers of range_assign need: members of the group only, and    *)
(* ranges that together are all the partitions.                             *)
LEMMA AssignCovers ==
    ASSUME NEW count \in Nat, NEW members, NEW generation,
           DOMAIN members \in SUBSET Nat, IsFiniteSet(DOMAIN members)
    PROVE  LET a == range_assign(count, members, generation) IN
           /\ DOMAIN a \subseteq DOMAIN members
           /\ \A m \in DOMAIN a : a[m] \subseteq 0 .. count - 1
           /\ DOMAIN members # {} =>
                 \A x \in 0 .. count - 1 : \E m \in DOMAIN a : x \in a[m]
<1> DEFINE ids == Assignees(members, generation)
           a   == range_assign(count, members, generation)
<1>1. ids \subseteq DOMAIN members /\ (DOMAIN members # {} => ids # {})
  BY DEF Assignees
<1>2. ids \in SUBSET Nat /\ IsFiniteSet(ids)
  BY <1>1, FS_Subset
<1>3. a = [id \in IF count = 0 THEN {} ELSE ids |-> RangeOf(count, ids, id)]
  BY DEF range_assign, RangeOf, Rank
<1> HIDE DEF ids, a
<1>4. DOMAIN a \subseteq DOMAIN members
  BY <1>1, <1>3
<1>5. ASSUME NEW m \in DOMAIN a PROVE a[m] \subseteq 0 .. count - 1
  <2>1. m \in ids /\ a[m] = RangeOf(count, ids, m)
    BY <1>3
  <2> QED
    BY <1>2, <2>1, RangesInside
<1>6. ASSUME DOMAIN members # {}, NEW x \in 0 .. count - 1
      PROVE  \E m \in DOMAIN a : x \in a[m]
  <2>1. PICK m \in ids : x \in RangeOf(count, ids, m)
    BY <1>1, <1>2, <1>6, RangesCover
  <2>2. count # 0
    OBVIOUS
  <2> QED
    BY <1>3, <2>1, <2>2
<1> QED
  BY <1>4, <1>5, <1>6 DEF a

-----------------------------------------------------------------------------
(* The inductive invariant.  The groups are functions on subsets of         *)
(* MemberId; a group has no more members than there were joins, and every   *)
(* generation was paid for by a join or by a member that left.              *)
Memberships == UNION {[S -> Member] : S \in SUBSET MemberId}
Group == [generation : Generation, members : Memberships]

Counted(group, n) ==
    /\ Cardinality(DOMAIN group.members) <= n
    /\ group.generation + Cardinality(DOMAIN group.members) <= 1 + 2 * n

TypeInv ==
    /\ groups \in [Topic -> Group]
    /\ client \in [Client -> [in : BOOLEAN, id : MemberId \cup {0},
                              generation : Generation \cup {0},
                              parts : SUBSET AllPartitions]]
    /\ living \in SUBSET Client
    /\ since \in [Client -> Ticks]
    /\ joins \in 0 .. MaxJoins
    /\ restarts \in 0 .. MaxRestarts
    /\ \A t \in Topic : Counted(groups[t], joins)

(* Generations are handed out in order, and each to one client. *)
GenerationInv ==
    restarts = 0 =>
        /\ \A c \in Client : client[c].generation <= groups[TopicOf[c]].generation
        /\ \A c \in Client : client[c].in => client[c].generation > 0
        /\ \A c, d \in Client :
              /\ c # d
              /\ TopicOf[c] = TopicOf[d]
              /\ client[c].generation = client[d].generation
              => client[c].generation = 0

(* The coordinator never counts a punctual client as longer silent than the *)
(* client has been.                                                         *)
SessionInv ==
    restarts = 0 => \A c \in living \cap Punctual : client[c].in =>
        /\ since[c] <= SessionTimeout
        /\ client[c].id \in DOMAIN groups[TopicOf[c]].members
        /\ groups[TopicOf[c]].members[client[c].id].age <= since[c]

(* The partitions of t are the union of what the members own. *)
Covered(group, t) ==
    DOMAIN group.members # {} =>
        Partitions(t) = UNION {group.members[m].parts : m \in DOMAIN group.members}

LEMMA MembershipsElim ==
    ASSUME NEW f \in Memberships
    PROVE  /\ DOMAIN f \in SUBSET MemberId
           /\ f \in [DOMAIN f -> Member]
BY DEF Memberships

LEMMA MembershipsIntro ==
    ASSUME NEW S \in SUBSET MemberId, NEW f \in [S -> Member]
    PROVE  f \in Memberships
BY DEF Memberships

LEMMA GroupFacts ==
    ASSUME NEW g \in Group
    PROVE  /\ g.generation \in Generation
           /\ g.members \in Memberships
           /\ DOMAIN g.members \in SUBSET MemberId
           /\ DOMAIN g.members \in SUBSET Nat
           /\ IsFiniteSet(DOMAIN g.members)
           /\ Cardinality(DOMAIN g.members) \in Nat
           /\ \A m \in DOMAIN g.members : g.members[m] \in Member
<1>1. g.generation \in Generation /\ g.members \in Memberships
  BY DEF Group
<1>2. DOMAIN g.members \in SUBSET MemberId /\ g.members \in [DOMAIN g.members -> Member]
  BY <1>1, MembershipsElim
<1>3. MemberId \subseteq Nat /\ IsFiniteSet(MemberId)
  BY GroupAssumption, FS_Interval DEF MemberId
<1>4. IsFiniteSet(DOMAIN g.members)
  BY <1>2, <1>3, FS_Subset
<1> QED
  BY <1>1, <1>2, <1>3, <1>4, FS_CardinalityType

(* A reassignment covers the partitions when what it left alone was within  *)
(* them.                                                                    *)
LEMMA ReassignedCovers ==
    ASSUME NEW P, NEW D, NEW a, NEW new,
           \A m \in DOMAIN a : m \in D /\ a[m] \subseteq P /\ new[m].parts = a[m],
           \A m \in D \ DOMAIN a : new[m].parts \subseteq P,
           \A x \in P : \E m \in DOMAIN a : x \in a[m]
    PROVE  P = UNION {new[m].parts : m \in D}
<1>1. ASSUME NEW x \in P PROVE x \in UNION {new[m].parts : m \in D}
  <2>1. PICK m \in DOMAIN a : x \in a[m]
    OBVIOUS
  <2>2. m \in D /\ x \in new[m].parts
    BY <2>1
  <2> QED
    BY <2>2
<1>2. ASSUME NEW m \in D PROVE new[m].parts \subseteq P
  <2>1. CASE m \in DOMAIN a
    BY <2>1
  <2>2. CASE m \notin DOMAIN a
    BY <2>2
  <2> QED
    BY <2>1, <2>2
<1> QED
  BY <1>1, <1>2

(* GroupState::join. *)
LEMMA JoinedFacts ==
    ASSUME TypeInv, NEW t \in Topic, NEW id \in MemberId, joins < MaxJoins,
           Covered(groups[t], t),
           NEW group, group = Joined(t, id)
    PROVE  /\ group \in Group
           /\ group.generation = groups[t].generation + 1
           /\ DOMAIN group.members = DOMAIN groups[t].members \cup {id}
           /\ group.members[id].age = 0
           /\ \A m \in DOMAIN groups[t].members :
                 group.members[m].age <= groups[t].members[m].age
           /\ Counted(group, joins + 1)
           /\ Covered(group, t)
<1> DEFINE g      == groups[t]
           D      == DOMAIN g.members
           E      == D \cup {id}
           next   == g.generation + 1
           fresh  == [generation |-> next, parts |-> {}, age |-> 0]
           joined == [m \in E |-> IF m = id THEN fresh ELSE g.members[m]]
           a      == range_assign(PartitionCount[t], joined, next)
           P      == Partitions(t)
           new    == [m \in E |-> IF m \in DOMAIN a
                                  THEN [generation |-> next, parts |-> a[m], age |-> 0]
                                  ELSE joined[m]]
<1>0. g \in Group /\ Counted(g, joins) /\ joins \in 0 .. MaxJoins
  BY DEF TypeInv
<1>1. /\ group.generation = next
      /\ group.members = new
      /\ group = [generation |-> next, members |-> new]
  BY DEF Joined
<1>2. PartitionCount[t] \in Nat /\ MaxJoins \in Nat /\ SessionTimeout \in Nat
  BY GroupAssumption
<1>3. /\ g.generation \in Generation
      /\ D \in SUBSET MemberId /\ D \in SUBSET Nat /\ IsFiniteSet(D) /\ Cardinality(D) \in Nat
      /\ \A m \in D : g.members[m] \in Member
  BY <1>0, GroupFacts
<1> HIDE DEF g
<1>4. E \in SUBSET MemberId /\ E \in SUBSET Nat /\ IsFiniteSet(E) /\ E # {}
      /\ Cardinality(E) <= Cardinality(D) + 1 /\ Cardinality(E) \in Nat
  <2>1. id \in Nat
    BY DEF MemberId
  <2>2. IsFiniteSet(E) /\ Cardinality(E) = IF id \in D THEN Cardinality(D) ELSE Cardinality(D) + 1
    BY <1>3, FS_AddElement
  <2> QED
    BY <1>3, <2>1, <2>2
<1>5. DOMAIN joined = E
  OBVIOUS
<1>6. /\ DOMAIN a \subseteq E
      /\ \A m \in DOMAIN a : a[m] \subseteq P
      /\ \A x \in P : \E m \in DOMAIN a : x \in a[m]
  <2>0. P = 0 .. PartitionCount[t] - 1
    BY DEF Partitions
  <2>1. DOMAIN joined \in SUBSET Nat /\ IsFiniteSet(DOMAIN joined) /\ DOMAIN joined # {}
    BY <1>4, <1>5
  <2> HIDE DEF joined, E, P
  <2> QED
    BY <1>2, <1>5, <2>0, <2>1, AssignCovers
<1> HIDE DEF a
<1>7. next \in Generation /\ Counted(group, joins + 1)
  <2>1. /\ Cardinality(D) <= joins
        /\ g.generation + Cardinality(D) <= 1 + 2 * joins
    BY <1>0 DEF Counted
  <2>2. DOMAIN group.members = E
    BY <1>1
  <2> HIDE DEF E, D
  <2>3. next \in Generation
    BY <1>0, <1>2, <1>3, <2>1 DEF Generation
  <2>4. Cardinality(E) <= joins + 1 /\ next + Cardinality(E) <= 1 + 2 * (joins + 1)
    BY <1>0, <1>3, <1>4, <2>1 DEF Generation
  <2> QED
    BY <1>1, <2>2, <2>3, <2>4 DEF Counted
<1>8. P \subseteq AllPartitions
  BY DEF AllPartitions
<1>9. \A m \in D : g.members[m].parts \subseteq P
  BY DEF Covered, g
<1> HIDE DEF P
<1>10. 0 \in Ticks
  BY <1>2 DEF Ticks
<1>11. ASSUME NEW m \in E
       PROVE  new[m] \in Member
  <2>1. fresh \in Member
    BY <1>7, <1>10 DEF Member
  <2>2. joined[m] \in Member
    BY <1>3, <2>1
  <2>3. CASE m \in DOMAIN a
    <3>1. a[m] \in SUBSET AllPartitions
      BY <1>6, <1>8, <2>3
    <3>2. [generation |-> next, parts |-> a[m], age |-> 0] \in Member
      BY <1>7, <1>10, <3>1 DEF Member
    <3> QED
      BY <2>3, <3>2
  <2> QED
    BY <2>2, <2>3
<1>12. group \in Group
  <2>1. new \in [E -> Member]
    BY <1>11
  <2>2. new \in Memberships
    BY <1>4, <2>1, MembershipsIntro
  <2> HIDE DEF new, next
  <2> QED
    BY <1>1, <1>7, <2>2 DEF Group
<1>13. new[id].age = 0
  OBVIOUS
<1>14. ASSUME NEW m \in D PROVE new[m].age <= g.members[m].age
  <2>1. g.members[m].age \in Nat
    BY <1>2, <1>3 DEF Member, Ticks
  <2>2. new[m].age \in {0, g.members[m].age}
    OBVIOUS
  <2> QED
    BY <2>1, <2>2
<1>15. P = UNION {new[m].parts : m \in E}
  <2>1. \A m \in DOMAIN a : m \in E /\ a[m] \subseteq P /\ new[m].parts = a[m]
    BY <1>6
  <2>2. \A m \in E \ DOMAIN a : new[m].parts \subseteq P
    BY <1>9
  <2> HIDE DEF new, E
  <2> QED
    BY <1>6, <2>1, <2>2, ReassignedCovers
<1>16. Covered(group, t)
  <2>1. DOMAIN group.members = E
    BY <1>1
  <2> HIDE DEF new, E
  <2> QED
    BY <1>1, <1>15, <2>1 DEF Covered, P
<1>17. DOMAIN new = E
  OBVIOUS
<1> HIDE DEF new
<1> QED
  BY <1>1, <1>7, <1>12, <1>13, <1>14, <1>16, <1>17 DEF g

(* expire_stale_members: only silent members leave, and no one gets older. *)
LEMMA ExpiredFacts ==
    ASSUME TypeInv, NEW t \in Topic, Covered(groups[t], t),
           NEW group, group = Expired(t)
    PROVE  /\ group \in Group
           /\ group.generation >= groups[t].generation
           /\ DOMAIN group.members = DOMAIN groups[t].members \ Stale(groups[t].members)
           /\ \A m \in DOMAIN group.members :
                 group.members[m].age <= groups[t].members[m].age
           /\ Counted(group, joins)
           /\ Covered(group, t)
<1> DEFINE g    == groups[t]
           D    == DOMAIN g.members
           S    == Stale(g.members)
           E    == D \ S
           next == g.generation + 1
           left == [m \in E |-> g.members[m]]
           a    == range_assign(PartitionCount[t], left, next)
           P    == Partitions(t)
           new  == [m \in E |-> IF m \in DOMAIN a
                                THEN [left[m] EXCEPT !.parts = a[m], !.age = 0]
                                ELSE left[m]]
<1>0. g \in Group /\ Counted(g, joins) /\ joins \in 0 .. MaxJoins
  BY DEF TypeInv
<1>2. PartitionCount[t] \in Nat /\ MaxJoins \in Nat /\ SessionTimeout \in Nat
  BY GroupAssumption
<1>3. /\ g.generation \in Generation /\ g.generation \in Nat
      /\ D \in SUBSET MemberId /\ D \in SUBSET Nat /\ IsFiniteSet(D) /\ Cardinality(D) \in Nat
      /\ \A m \in D : g.members[m] \in Member
  BY <1>0, GroupFacts DEF Generation
<1>4. \A m \in D : g.members[m].age \in Nat
  BY <1>2, <1>3 DEF Member, Ticks
<1>5. CASE S = {}
  <2>1. group = g
    BY <1>5 DEF Expired
  <2>2. D \ S = D
    BY <1>5
  <2> HIDE DEF g, S
  <2>3. /\ g.generation >= g.generation
        /\ \A m \in D : g.members[m].age <= g.members[m].age
    BY <1>3, <1>4
  <2> QED
    BY <1>0, <2>1, <2>2, <2>3 DEF g, S
<1>6. CASE S # {}
  <2>1. group = [generation |-> next, members |-> new]
    BY <1>6 DEF Expired
  <2>2. PICK s \in S : s \in D
    BY <1>6 DEF Stale
  <2>3. /\ E \in SUBSET MemberId /\ E \in SUBSET Nat /\ IsFiniteSet(E)
        /\ Cardinality(E) <= Cardinality(D) - 1 /\ Cardinality(E) \in Nat
    <3>1. IsFiniteSet(D \ {s}) /\ Cardinality(D \ {s}) = Cardinality(D) - 1
      BY <1>3, <2>2, FS_RemoveElement
    <3>2. E \in SUBSET (D \ {s})
      BY <2>2
    <3>3. IsFiniteSet(E) /\ Cardinality(E) <= Cardinality(D \ {s})
      BY <3>1, <3>2, FS_Subset
    <3>4. Cardinality(E) \in Nat
      BY <3>3, FS_CardinalityType
    <3> QED
      BY <1>3, <3>1, <3>3, <3>4
  <2> HIDE DEF g, S
  <2>4. DOMAIN left = E /\ DOMAIN new = E /\ group.members = new /\ group.generation = next
    <3>1. DOMAIN left = E /\ DOMAIN new = E
      OBVIOUS
    <3> HIDE DEF new, left, next
    <3>2. group.members = new /\ group.generation = next
      BY <2>1
    <3> QED
      BY <3>1, <3>2
  <2>5. /\ DOMAIN a \subseteq E
        /\ \A m \in DOMAIN a : a[m] \subseteq P
        /\ E # {} => \A x \in P : \E m \in DOMAIN a : x \in a[m]
    <3>0. P = 0 .. PartitionCount[t] - 1
      BY DEF Partitions
    <3>1. DOMAIN left \in SUBSET Nat /\ IsFiniteSet(DOMAIN left)
      BY <2>3, <2>4
    <3> HIDE DEF left, E, P
    <3> QED
      BY <1>2, <2>4, <3>0, <3>1, AssignCovers
  <2> HIDE DEF a
  <2>6. next \in Generation /\ Counted(group, joins)
    <3>1. /\ Cardinality(D) <= joins
          /\ g.generation + Cardinality(D) <= 1 + 2 * joins
      BY <1>0 DEF Counted
    <3>2. DOMAIN group.members = E
      BY <2>4
    <3> HIDE DEF E, D
    <3>3. next + Cardinality(E) <= 1 + 2 * joins /\ Cardinality(E) <= joins
      BY <1>0, <1>3, <2>3, <3>1
    <3>4. next \in Generation
      BY <1>0, <1>2, <1>3, <2>3, <3>3 DEF Generation
    <3> QED
      BY <2>4, <3>2, <3>3, <3>4 DEF Counted
  <2>7. P \subseteq AllPartitions
    BY DEF AllPartitions
  <2>8. \A m \in D : g.members[m].parts \subseteq P
    BY DEF Covered, g
  <2> HIDE DEF P
  <2>9. ASSUME NEW m \in E
        PROVE  /\ new[m] \in Member
               /\ new[m].age <= g.members[m].age
               /\ m \in DOMAIN a => new[m].parts = a[m]
               /\ m \notin DOMAIN a => new[m].parts \subseteq P
    <3>0. /\ left[m] \in Member /\ left[m] = g.members[m]
          /\ left[m].age \in Nat /\ left[m].parts \subseteq P
      BY <1>3, <1>4, <2>8
    <3>1. CASE m \notin DOMAIN a
      <4>1. new[m] = left[m]
        BY <3>1
      <4> HIDE DEF new, left
      <4>2. left[m].age <= left[m].age
        BY <3>0
      <4> QED
        BY <3>0, <3>1, <4>1, <4>2
    <3>2. CASE m \in DOMAIN a
      <4>1. new[m] = [left[m] EXCEPT !.parts = a[m], !.age = 0]
        BY <3>2
      <4>2. a[m] \in SUBSET AllPartitions
        BY <2>5, <2>7, <3>2
      <4>3. 0 \in Ticks
        BY <1>2 DEF Ticks
      <4> HIDE DEF new, left
      <4>4. /\ new[m] \in Member
            /\ new[m].parts = a[m] /\ new[m].age = 0
        <5>1. PICK x, p : x = left[m] /\ p = a[m]
          OBVIOUS
        <5>2. x \in Member /\ p \in SUBSET AllPartitions
          BY <3>0, <4>2, <5>1
        <5>3. new[m] = [x EXCEPT !.parts = p, !.age = 0]
          BY <4>1, <5>1
        <5>4. new[m] = [generation |-> x.generation, parts |-> p, age |-> 0]
          BY <5>2, <5>3 DEF Member
        <5> QED
          BY <4>3, <5>1, <5>2, <5>4 DEF Member
      <4>5. new[m].age <= left[m].age
        BY <3>0, <4>4
      <4> QED
        BY <3>0, <3>2, <4>4, <4>5
    <3> QED
      BY <3>1, <3>2
  <2>10. group \in Group
    <3>1. new \in [E -> Member]
      BY <2>9
    <3>2. new \in Memberships
      BY <2>3, <3>1, MembershipsIntro
    <3> HIDE DEF new, next
    <3> QED
      BY <2>1, <2>6, <3>2 DEF Group
  <2> HIDE DEF new, E
  <2>11. Covered(group, t)
    <3>1. SUFFICES ASSUME E # {} PROVE P = UNION {new[m].parts : m \in E}
      BY <2>4 DEF Covered, P
    <3>2. \A m \in DOMAIN a : m \in E /\ a[m] \subseteq P /\ new[m].parts = a[m]
      BY <2>5, <2>9
    <3>3. \A m \in E \ DOMAIN a : new[m].parts \subseteq P
      BY <2>9
    <3> QED
      BY <2>5, <3>1, <3>2, <3>3, ReassignedCovers
  <2>12. next >= g.generation
    BY <1>3
  <2> QED
    BY <2>4, <2>6, <2>9, <2>10, <2>11, <2>12 DEF g, S, E
<1> QED
  BY <1>5, <1>6

(* A member whose heartbeat is accepted: last_seen_ms is now. *)
Renewed(g, id) == [g EXCEPT !.members[id].age = 0]

LEMMA RenewedFacts ==
    ASSUME NEW g \in Group, NEW id \in DOMAIN g.members, NEW t \in Topic, NEW n,
           Counted(g, n), Covered(g, t),
           NEW group, group = Renewed(g, id)
    PROVE  /\ group \in Group
           /\ group.generation = g.generation
           /\ DOMAIN group.members = DOMAIN g.members
           /\ group.members[id].age = 0
           /\ \A m \in DOMAIN group.members : group.members[m].age <= g.members[m].age
           /\ Counted(group, n)
           /\ Covered(group, t)
<1> DEFINE D == DOMAIN g.members
<1>1. /\ g.generation \in Generation /\ D \in SUBSET MemberId
      /\ \A m \in D : g.members[m] \in Member
      /\ g.members \in [D -> Member]
  BY GroupFacts, MembershipsElim
<1>2. SessionTimeout \in Nat
  BY GroupAssumption
<1>3. /\ group.generation = g.generation
      /\ group.members = [g.members EXCEPT ![id].age = 0]
      /\ group = [generation |-> group.generation, members |-> group.members]
  BY DEF Group, Renewed
<1>4. DOMAIN group.members = D
  BY <1>3
<1>5. ASSUME NEW m \in D
      PROVE  /\ group.members[m] \in Member
             /\ group.members[m].age <= g.members[m].age
             /\ group.members[m].parts = g.members[m].parts
             /\ m = id => group.members[m].age = 0
  <2>1. g.members[m] \in Member /\ g.members[m].age \in Nat
    BY <1>1, <1>2 DEF Member, Ticks
  <2>2. CASE m = id
    <3>1. group.members[m] = [g.members[m] EXCEPT !.age = 0]
      BY <1>3, <2>2
    <3>2. 0 \in Ticks
      BY <1>2 DEF Ticks
    <3> QED
      BY <2>1, <3>1, <3>2 DEF Member
  <2>3. CASE m # id
    <3>1. group.members[m] = g.members[m]
      BY <1>3, <2>3
    <3> QED
      BY <2>1, <2>3, <3>1
  <2> QED
    BY <2>2, <2>3
<1>6. group \in Group
  <2>1. group.members \in [D -> Member]
    BY <1>1, <1>3, <1>5
  <2>2. group.members \in Memberships
    BY <1>1, <2>1, MembershipsIntro
  <2> QED
    BY <1>1, <1>3, <2>2 DEF Group
<1>7. Counted(group, n)
  BY <1>3, <1>4 DEF Counted
<1>8. Covered(group, t)
  <2>1. \A m \in D : group.members[m].parts = g.members[m].parts
    BY <1>5
  <2> QED
    BY <1>4, <2>1 DEF Covered
<1> QED
  BY <1>3, <1>4, <1>5, <1>6, <1>7, <1>8

(* One tick: the members of a group age, and nothing else. *)
Aged(g) ==
    [g EXCEPT !.members =
        [m \in DOMAIN g.members |-> [g.members[m] EXCEPT !.age = Older(@)]]]

LEMMA OlderFacts ==
    ASSUME NEW g \in Group, NEW t \in Topic, NEW n, Counted(g, n), Covered(g, t),
           NEW group, group = Aged(g)
    PROVE  /\ group \in Group
           /\ group.generation = g.generation
           /\ DOMAIN group.members = DOMAIN g.members
           /\ \A m \in DOMAIN group.members : group.members[m].age = Older(g.members[m].age)
           /\ Counted(group, n)
           /\ Covered(group, t)
<1> DEFINE D == DOMAIN g.members
<1>1. /\ g.generation \in Generation /\ D \in SUBSET MemberId
      /\ \A m \in D : g.members[m] \in Member
  BY GroupFacts
<1>2. /\ group.generation = g.generation
      /\ group.members = [m \in D |-> [g.members[m] EXCEPT !.age = Older(@)]]
      /\ group = [generation |-> group.generation, members |-> group.members]
  BY DEF Group, Aged
<1>3. DOMAIN group.members = D
  BY <1>2
<1>4. \A a \in Ticks : Older(a) \in Ticks
  BY GroupAssumption DEF Ticks, Older
<1>5. ASSUME NEW m \in D
      PROVE  /\ group.members[m] \in Member
             /\ group.members[m].age = Older(g.members[m].age)
             /\ group.members[m].parts = g.members[m].parts
  <2>1. g.members[m] \in Member /\ g.members[m].age \in Ticks
    BY <1>1 DEF Member
  <2>2. Older(g.members[m].age) \in Ticks
    BY <1>4, <2>1
  <2>3. group.members[m] = [g.members[m] EXCEPT !.age = Older(g.members[m].age)]
    BY <1>2
  <2> QED
    BY <2>1, <2>2, <2>3 DEF Member
<1>6. group \in Group
  <2>1. group.members \in [D -> Member]
    BY <1>2, <1>5
  <2>2. group.members \in Memberships
    BY <1>1, <2>1, MembershipsIntro
  <2> QED
    BY <1>1, <1>2, <2>2 DEF Group
<1>7. Counted(group, n)
  BY <1>2, <1>3 DEF Counted
<1>8. Covered(group, t)
  <2>1. \A m \in D : group.members[m].parts = g.members[m].parts
    BY <1>5
  <2> QED
    BY <1>3, <2>1 DEF Covered
<1> QED
  BY <1>2, <1>3, <1>5, <1>6, <1>7, <1>8

(* GroupState::new. *)
LEMMA NewFacts ==
    ASSUME NEW n \in Nat, NEW t \in Topic
    PROVE  /\ New \in Group
           /\ New.generation = 1
           /\ DOMAIN New.members = {}
           /\ Counted(New, n)
           /\ Covered(New, t)
<1>1. New.generation = 1 /\ New.members = NoMembers /\ DOMAIN New.members = {}
  BY DEF New, NoMembers
<1>2. NoMembers \in [{} -> Member]
  BY DEF NoMembers
<1>3. NoMembers \in Memberships
  BY <1>2, MembershipsIntro
<1>4. 1 \in Generation
  BY GroupAssumption DEF Generation
<1>5. New \in Group
  BY <1>3, <1>4 DEF New, Group
<1>6. Counted(New, n)
  BY <1>1, FS_EmptySet DEF Counted
<1> QED
  BY <1>1, <1>5, <1>6 DEF Covered

(* next_member_id finds an id, and one within the number of joins. *)
LEMMA NextMemberId ==
    ASSUME TypeInv, NEW t \in Topic, joins < MaxJoins
    PROVE  next_member_id(groups[t].members) \in MemberId
<1> DEFINE D == DOMAIN groups[t].members
           F == {i \in 1 .. MaxJoins + 1 : i \notin D}
           N(i) == i \notin D /\ \A other \in 1 .. i - 1 : other \in D
           id == next_member_id(groups[t].members)
<1>1. groups[t] \in Group /\ Counted(groups[t], joins) /\ joins \in 0 .. MaxJoins
      /\ MaxJoins \in Nat
  BY GroupAssumption DEF TypeInv
<1>2. D \in SUBSET MemberId /\ IsFiniteSet(D) /\ Cardinality(D) \in Nat /\ Cardinality(D) <= joins
  BY <1>1, GroupFacts DEF Counted
<1>3. id = CHOOSE i \in 1 .. MaxJoins + 1 : N(i)
  BY DEF next_member_id
<1> HIDE DEF D, id
<1>4. F \in SUBSET Nat /\ MaxJoins + 1 \in F
  BY <1>1, <1>2 DEF MemberId
<1>5. PICK i \in F : \A j \in F : i <= j
  BY <1>4, NatMin
<1>6. i \in 1 .. MaxJoins + 1 /\ N(i)
  BY <1>1, <1>5
<1>7. id \in 1 .. MaxJoins + 1 /\ N(id)
  BY <1>3, <1>6
<1>8. 1 .. id - 1 \in SUBSET D
  BY <1>7
<1>9. Cardinality(1 .. id - 1) = id - 1
  BY <1>1, <1>7, FS_Interval
<1>10. id - 1 <= joins
  BY <1>1, <1>2, <1>7, <1>8, <1>9, FS_Subset
<1> QED
  BY <1>1, <1>7, <1>10 DEF MemberId, id

-----------------------------------------------------------------------------
(* What the two requests do to the group, in the words of the lemmas above. *)
CoreInv == TypeInv /\ EveryPartitionAssigned

LEMMA CoreFacts ==
    ASSUME CoreInv
    PROVE  /\ \A t \in Topic : groups[t] \in Group /\ Counted(groups[t], joins)
                               /\ Covered(groups[t], t)
           /\ \A c \in Client : TopicOf[c] \in Topic
           /\ MaxJoins \in Nat /\ joins \in Nat /\ SessionTimeout \in Nat /\ MaxRestarts \in Nat
BY GroupAssumption DEF CoreInv, TypeInv, EveryPartitionAssigned, Covered

LEMMA JoinEffect ==
    ASSUME CoreInv, NEW c \in Client, join_group(c), NEW t, t = TopicOf[c]
    PROVE  \E id \in MemberId, group \in Group :
              /\ groups' = [groups EXCEPT ![t] = group]
              /\ group.generation = groups[t].generation + 1
              /\ DOMAIN group.members = DOMAIN groups[t].members \cup {id}
              /\ group.members[id].age = 0
              /\ \A m \in DOMAIN groups[t].members :
                    group.members[m].age <= groups[t].members[m].age
              /\ Counted(group, joins + 1)
              /\ Covered(group, t)
              /\ \/ /\ client' = [client EXCEPT ![c] =
                          [in |-> TRUE, id |-> id, generation |-> group.generation,
                           parts |-> group.members[id].parts]]
                    /\ since' = [since EXCEPT ![c] = 0]
                 \/ UNCHANGED <<client, since>>
<1>1. PICK asked \in {0, client[c].id} :
         LET id    == IF asked = 0 THEN next_member_id(groups[t].members) ELSE asked
             group == Joined(t, id)
         IN  /\ groups' = [groups EXCEPT ![t] = group]
             /\ \/ /\ client' = [client EXCEPT ![c] =
                         [in |-> TRUE, id |-> id, generation |-> group.generation,
                          parts |-> group.members[id].parts]]
                   /\ since' = [since EXCEPT ![c] = 0]
                \/ UNCHANGED <<client, since>>
  BY DEF join_group
<1>2. joins < MaxJoins
  BY DEF join_group
<1>3. t \in Topic /\ TypeInv /\ Covered(groups[t], t)
  BY CoreFacts DEF CoreInv
<1>4. PICK id : id = IF asked = 0 THEN next_member_id(groups[t].members) ELSE asked
  OBVIOUS
<1>5. id \in MemberId
  <2>1. client[c].id \in MemberId \cup {0}
    BY <1>3 DEF TypeInv
  <2>2. next_member_id(groups[t].members) \in MemberId
    BY <1>2, <1>3, NextMemberId
  <2> QED
    BY <1>4, <2>1, <2>2
<1>6. PICK group : group = Joined(t, id)
  OBVIOUS
<1>7. /\ group \in Group
      /\ group.generation = groups[t].generation + 1
      /\ DOMAIN group.members = DOMAIN groups[t].members \cup {id}
      /\ group.members[id].age = 0
      /\ \A m \in DOMAIN groups[t].members :
            group.members[m].age <= groups[t].members[m].age
      /\ Counted(group, joins + 1)
      /\ Covered(group, t)
  BY <1>2, <1>3, <1>5, <1>6, JoinedFacts
<1>8. /\ groups' = [groups EXCEPT ![t] = group]
      /\ \/ /\ client' = [client EXCEPT ![c] =
                  [in |-> TRUE, id |-> id, generation |-> group.generation,
                   parts |-> group.members[id].parts]]
            /\ since' = [since EXCEPT ![c] = 0]
         \/ UNCHANGED <<client, since>>
  BY <1>1, <1>4, <1>6
<1> QED
  BY <1>5, <1>7, <1>8

LEMMA HeartbeatEffect ==
    ASSUME CoreInv, NEW c \in Client, NEW t \in Topic, group_heartbeat(c, t)
    PROVE  \E group \in Group :
              /\ groups' = [groups EXCEPT ![t] = group]
              /\ group.generation >= groups[t].generation
              /\ DOMAIN group.members = DOMAIN groups[t].members \ Stale(groups[t].members)
              /\ \A m \in DOMAIN group.members :
                    group.members[m].age <= groups[t].members[m].age
              /\ Counted(group, joins)
              /\ Covered(group, t)
              /\ \/ /\ client[c].id \in DOMAIN group.members
                    /\ group.members[client[c].id].age = 0
                    /\ since' \in {since, [since EXCEPT ![c] = 0]}
                    /\ UNCHANGED client
                 \/ /\ client' \in {client, [client EXCEPT ![c].in = FALSE]}
                    /\ UNCHANGED since
<1>1. TypeInv /\ Covered(groups[t], t)
  BY CoreFacts DEF CoreInv
<1>2. PICK left : left = Expired(t)
  OBVIOUS
<1>3. /\ left \in Group
      /\ left.generation >= groups[t].generation
      /\ DOMAIN left.members = DOMAIN groups[t].members \ Stale(groups[t].members)
      /\ \A m \in DOMAIN left.members : left.members[m].age <= groups[t].members[m].age
      /\ Counted(left, joins)
      /\ Covered(left, t)
  BY <1>1, <1>2, ExpiredFacts
<1>4. CASE Accepted(left, c)
  <2>1. PICK id : id = client[c].id
    OBVIOUS
  <2>2. id \in DOMAIN left.members
    BY <1>4, <2>1 DEF Accepted
  <2>3. PICK group : group = Renewed(left, id)
    OBVIOUS
  <2>4. /\ groups' = [groups EXCEPT ![t] = group]
        /\ since' \in {since, [since EXCEPT ![c] = 0]}
        /\ UNCHANGED client
    BY <1>2, <1>4, <2>1, <2>3 DEF group_heartbeat, Renewed
  <2>5. /\ group \in Group
        /\ group.generation = left.generation
        /\ DOMAIN group.members = DOMAIN left.members
        /\ group.members[id].age = 0
        /\ \A m \in DOMAIN group.members : group.members[m].age <= left.members[m].age
        /\ Counted(group, joins)
        /\ Covered(group, t)
    BY <1>3, <2>2, <2>3, RenewedFacts
  <2>6. ASSUME NEW m \in DOMAIN group.members
        PROVE  group.members[m].age <= groups[t].members[m].age
    <3>1. group.members[m].age \in Int /\ left.members[m].age \in Int
      BY <1>3, <2>5, CoreFacts, GroupFacts DEF Member, Ticks
    <3>2. groups[t] \in Group /\ m \in DOMAIN groups[t].members
      BY <1>3, <2>5, CoreFacts
    <3>3. groups[t].members[m].age \in Int
      BY <3>2, CoreFacts, GroupFacts DEF Member, Ticks
    <3> QED
      BY <1>3, <2>5, <3>1, <3>3
  <2>7. /\ group.generation >= groups[t].generation
        /\ DOMAIN group.members = DOMAIN groups[t].members \ Stale(groups[t].members)
        /\ id \in DOMAIN group.members
    BY <1>3, <2>2, <2>5
  <2> QED
    BY <2>1, <2>4, <2>5, <2>6, <2>7
<1>5. CASE ~ Accepted(left, c)
  <2>1. /\ groups' = [groups EXCEPT ![t] = left]
        /\ client' \in {client, [client EXCEPT ![c].in = FALSE]}
        /\ UNCHANGED since
    BY <1>2, <1>5 DEF group_heartbeat
  <2> QED
    BY <1>3, <2>1
<1> QED
  BY <1>4, <1>5

-----------------------------------------------------------------------------
(* Every step keeps the type and every partition assigned. *)
LEMMA CoreInit == Init => CoreInv
<1> SUFFICES ASSUME Init PROVE CoreInv
  OBVIOUS
<1>1. \A t \in Topic : New \in Group /\ Counted(New, 0) /\ Covered(New, t)
  BY NewFacts
<1>2. \A t \in Topic : groups[t] = New
  BY DEF Init
<1>3. EveryPartitionAssigned
  BY <1>1, <1>2 DEF EveryPartitionAssigned, Covered
<1>4. groups \in [Topic -> Group] /\ \A t \in Topic : Counted(groups[t], joins)
  BY <1>1, <1>2 DEF Init
<1>5. client \in [Client -> [in : BOOLEAN, id : MemberId \cup {0},
                             generation : Generation \cup {0},
                             parts : SUBSET AllPartitions]]
  BY DEF Init, Outsider
<1>6. /\ living \in SUBSET Client /\ since \in [Client -> Ticks]
      /\ joins \in 0 .. MaxJoins /\ restarts \in 0 .. MaxRestarts
  BY GroupAssumption DEF Init, Ticks
<1> QED
  BY <1>3, <1>4, <1>5, <1>6 DEF CoreInv, TypeInv

LEMMA CountedMore ==
    ASSUME NEW g \in Group, NEW n \in Nat, Counted(g, n)
    PROVE  Counted(g, n + 1)
<1>1. /\ Cardinality(DOMAIN g.members) \in Nat
      /\ g.generation \in Int
  BY GroupFacts DEF Generation
<1> QED
  BY <1>1 DEF Counted

(* When one group is replaced, or none. *)
LEMMA CoreGroup ==
    ASSUME CoreInv, NEW t \in Topic, NEW group \in Group, NEW n \in 0 .. MaxJoins,
           n = joins \/ n = joins + 1,
           groups' = [groups EXCEPT ![t] = group],
           Counted(group, n), Covered(group, t)
    PROVE  /\ groups' \in [Topic -> Group]
           /\ \A u \in Topic : Counted(groups'[u], n)
           /\ EveryPartitionAssigned'
<1>1. groups \in [Topic -> Group]
  BY DEF CoreInv, TypeInv
<1>2. \A u \in Topic : groups'[u] = IF u = t THEN group ELSE groups[u]
  BY <1>1
<1>3. \A u \in Topic : groups[u] \in Group /\ Counted(groups[u], joins) /\ Covered(groups[u], u)
  BY CoreFacts
<1>4. \A u \in Topic : Counted(groups[u], n)
  BY <1>3, CountedMore, CoreFacts
<1>5. \A u \in Topic : Counted(groups'[u], n) /\ Covered(groups'[u], u)
  BY <1>2, <1>3, <1>4
<1>6. EveryPartitionAssigned'
  BY <1>5 DEF EveryPartitionAssigned, Covered
<1> QED
  BY <1>1, <1>5, <1>6

LEMMA CoreStep == CoreInv /\ [Next]_vars => CoreInv'
<1> SUFFICES ASSUME CoreInv, [Next]_vars PROVE CoreInv'
  OBVIOUS
<1> DEFINE View == [in : BOOLEAN, id : MemberId \cup {0},
                    generation : Generation \cup {0}, parts : SUBSET AllPartitions]
<1>1. /\ groups \in [Topic -> Group] /\ client \in [Client -> View]
      /\ living \in SUBSET Client /\ since \in [Client -> Ticks]
      /\ joins \in 0 .. MaxJoins /\ restarts \in 0 .. MaxRestarts
      /\ EveryPartitionAssigned
  BY DEF CoreInv, TypeInv
<1>2. /\ \A t \in Topic : groups[t] \in Group /\ Counted(groups[t], joins)
                          /\ Covered(groups[t], t)
      /\ \A c \in Client : TopicOf[c] \in Topic
      /\ MaxJoins \in Nat /\ joins \in Nat /\ SessionTimeout \in Nat /\ MaxRestarts \in Nat
  BY CoreFacts
<1>3. 0 \in Ticks
  BY <1>2 DEF Ticks
<1>4. ASSUME NEW c \in Client
      PROVE  [client EXCEPT ![c].in = FALSE] \in [Client -> View]
  BY <1>1
<1>5. ASSUME NEW c \in Client, join_group(c)
      PROVE  CoreInv'
  <2> DEFINE t == TopicOf[c]
  <2>1. PICK id \in MemberId, group \in Group :
           /\ groups' = [groups EXCEPT ![t] = group]
           /\ id \in DOMAIN group.members
           /\ Counted(group, joins + 1)
           /\ Covered(group, t)
           /\ \/ /\ client' = [client EXCEPT ![c] =
                       [in |-> TRUE, id |-> id, generation |-> group.generation,
                        parts |-> group.members[id].parts]]
                 /\ since' = [since EXCEPT ![c] = 0]
              \/ UNCHANGED <<client, since>>
    BY <1>5, JoinEffect
  <2>2. joins' = joins + 1 /\ joins' \in 0 .. MaxJoins /\ UNCHANGED <<living, restarts>>
    BY <1>1, <1>2, <1>5 DEF join_group
  <2>3. t \in Topic
    BY <1>2
  <2> HIDE DEF t
  <2>4. /\ groups' \in [Topic -> Group]
        /\ \A u \in Topic : Counted(groups'[u], joins')
        /\ EveryPartitionAssigned'
    BY <2>1, <2>2, <2>3, CoreGroup
  <2>5. client' \in [Client -> View] /\ since' \in [Client -> Ticks]
    <3>1. group.generation \in Generation /\ group.members[id] \in Member
      BY <2>1, GroupFacts
    <3>2. group.members[id].parts \in SUBSET AllPartitions
      BY <3>1 DEF Member
    <3>3. [in |-> TRUE, id |-> id, generation |-> group.generation,
           parts |-> group.members[id].parts] \in View
      BY <3>1, <3>2
    <3> HIDE DEF View
    <3>4. CASE UNCHANGED <<client, since>>
      BY <1>1, <3>4
    <3>5. CASE ~ UNCHANGED <<client, since>>
      BY <1>1, <1>3, <2>1, <3>3, <3>5
    <3> QED
      BY <3>4, <3>5
  <2> QED
    BY <1>1, <2>2, <2>4, <2>5 DEF CoreInv, TypeInv
<1>6. ASSUME NEW c \in Client, NEW t \in Topic, group_heartbeat(c, t)
      PROVE  CoreInv'
  <2>1. PICK group \in Group :
           /\ groups' = [groups EXCEPT ![t] = group]
           /\ Counted(group, joins)
           /\ Covered(group, t)
           /\ \/ /\ since' \in {since, [since EXCEPT ![c] = 0]}
                 /\ UNCHANGED client
              \/ /\ client' \in {client, [client EXCEPT ![c].in = FALSE]}
                 /\ UNCHANGED since
    BY <1>6, HeartbeatEffect
  <2>2. UNCHANGED <<living, joins, restarts>>
    BY <1>6 DEF group_heartbeat
  <2>3. /\ groups' \in [Topic -> Group]
        /\ \A u \in Topic : Counted(groups'[u], joins)
        /\ EveryPartitionAssigned'
    BY <1>1, <2>1, CoreGroup
  <2>4. [since EXCEPT ![c] = 0] \in [Client -> Ticks]
    BY <1>1, <1>3
  <2> HIDE DEF View
  <2>5. client' \in [Client -> View] /\ since' \in [Client -> Ticks]
    BY <1>1, <1>4, <2>1, <2>4
  <2> QED
    BY <1>1, <2>2, <2>3, <2>5 DEF CoreInv, TypeInv, View
<1>7. ASSUME NEW c \in Client, HeartbeatUnknown(c)
      PROVE  CoreInv'
  <2>1. /\ client' \in {client, [client EXCEPT ![c].in = FALSE]}
        /\ UNCHANGED <<groups, living, since, joins, restarts>>
    BY <1>7 DEF HeartbeatUnknown
  <2> HIDE DEF View
  <2>2. client' \in [Client -> View]
    BY <1>1, <1>4, <2>1
  <2>3. EveryPartitionAssigned'
    BY <1>1, <2>1 DEF EveryPartitionAssigned
  <2> QED
    BY <1>1, <1>2, <2>1, <2>2, <2>3 DEF CoreInv, TypeInv, View
<1>8. ASSUME NEW c \in Client, Die(c)
      PROVE  CoreInv'
  <2>1. /\ living' \in SUBSET Client
        /\ UNCHANGED <<groups, client, since, joins, restarts>>
    BY <1>1, <1>8 DEF Die
  <2>2. EveryPartitionAssigned'
    BY <1>1, <2>1 DEF EveryPartitionAssigned
  <2> QED
    BY <1>1, <1>2, <2>1, <2>2 DEF CoreInv, TypeInv
<1>9. ASSUME Tick
      PROVE  CoreInv'
  <2>1. /\ groups' = [t \in Topic |-> Aged(groups[t])]
        /\ since' = [c \in Client |-> Older(since[c])]
        /\ UNCHANGED <<client, living, joins, restarts>>
    BY <1>9 DEF Tick, Aged
  <2>2. \A t \in Topic : groups'[t] = Aged(groups[t])
    BY <2>1
  <2>3. ASSUME NEW t \in Topic
        PROVE  /\ groups'[t] \in Group
               /\ Counted(groups'[t], joins)
               /\ Covered(groups'[t], t)
    BY <1>2, <2>2, OlderFacts
  <2>4. groups' \in [Topic -> Group]
    BY <2>1, <2>2, <2>3
  <2>5. EveryPartitionAssigned'
    BY <2>3 DEF EveryPartitionAssigned, Covered
  <2>6. \A a \in Ticks : Older(a) \in Ticks
    BY <1>2 DEF Ticks, Older
  <2>7. since' \in [Client -> Ticks]
    BY <1>1, <2>1, <2>6
  <2> QED
    BY <1>1, <2>1, <2>3, <2>4, <2>5, <2>7 DEF CoreInv, TypeInv
<1>10. ASSUME RestartBroker
       PROVE  CoreInv'
  <2>1. /\ groups' = [t \in Topic |-> New]
        /\ restarts' \in 0 .. MaxRestarts
        /\ UNCHANGED <<client, living, since, joins>>
    BY <1>1, <1>2, <1>10 DEF RestartBroker
  <2>2. ASSUME NEW t \in Topic
        PROVE  groups'[t] \in Group /\ Counted(groups'[t], joins) /\ Covered(groups'[t], t)
    BY <1>2, <2>1, NewFacts
  <2>3. groups' \in [Topic -> Group]
    BY <2>1, <2>2
  <2>4. EveryPartitionAssigned'
    BY <2>2 DEF EveryPartitionAssigned, Covered
  <2> QED
    BY <1>1, <2>1, <2>2, <2>3, <2>4 DEF CoreInv, TypeInv
<1>11. CASE UNCHANGED vars
  <2>1. UNCHANGED <<groups, client, living, since, joins, restarts>>
    BY <1>11 DEF vars
  <2> QED
    BY <2>1 DEF CoreInv, TypeInv, EveryPartitionAssigned
<1> QED
  BY <1>5, <1>6, <1>7, <1>8, <1>9, <1>10, <1>11 DEF Next

(* The inductive invariant holds of every behaviour of the coordinator. *)
THEOREM CoreCorrect == Spec => []CoreInv
BY CoreInit, CoreStep, PTL DEF Spec

(* The coordinator's state and the clients' views keep their types: the     *)
(* member ids and generations that next_member_id and the rebalances give   *)
(* out stay within the number of joins.                                     *)
THEOREM TypeCorrect == Spec => []TypeOK
<1>1. CoreInv => TypeOK
  <2> SUFFICES ASSUME CoreInv PROVE TypeOK
    OBVIOUS
  <2>1. \A t \in Topic :
           /\ groups[t].generation \in Generation
           /\ DOMAIN groups[t].members \subseteq MemberId
           /\ \A m \in DOMAIN groups[t].members : groups[t].members[m] \in Member
    BY CoreFacts, GroupFacts
  <2> QED
    BY <2>1 DEF CoreInv, TypeInv, TypeOK
<1> QED
  BY <1>1, CoreCorrect, PTL

(* EveryPartitionAssigned, for any number of members and partitions: no     *)
(* sequence of joins, expiries and partial rebalances drops a partition.    *)
THEOREM EveryPartitionAssignedCorrect == Spec => []EveryPartitionAssigned
<1>1. CoreInv => EveryPartitionAssigned
  BY DEF CoreInv
<1> QED
  BY <1>1, CoreCorrect, PTL

-----------------------------------------------------------------------------
(* Generations only grow between restarts, and every join gets a new one. *)
LEMMA GenerationInit == Init => GenerationInv
<1> SUFFICES ASSUME Init PROVE GenerationInv
  OBVIOUS
<1>1. \A c \in Client : TopicOf[c] \in Topic
  BY GroupAssumption
<1>2. \A c \in Client : client[c].in = FALSE /\ client[c].generation = 0
  BY DEF Init, Outsider
<1>3. \A t \in Topic : groups[t].generation = 1
  BY DEF Init, New
<1> QED
  BY <1>1, <1>2, <1>3 DEF GenerationInv

LEMMA GenerationStep ==
    CoreInv /\ GenerationInv /\ [Next]_vars => GenerationInv'
<1> SUFFICES ASSUME CoreInv, GenerationInv, [Next]_vars, restarts' = 0
             PROVE  GenerationInv'
  BY DEF GenerationInv
<1> DEFINE gen(c) == client[c].generation
           top(t) == groups[t].generation
<1>1. /\ \A c \in Client : TopicOf[c] \in Topic
      /\ \A t \in Topic : top(t) \in Nat /\ top(t) > 0
      /\ \A c \in Client : gen(c) \in Nat
      /\ \A c \in Client : client[c].in \in BOOLEAN
      /\ client \in [Client -> [in : BOOLEAN, id : MemberId \cup {0},
                                generation : Generation \cup {0},
                                parts : SUBSET AllPartitions]]
      /\ groups \in [Topic -> Group]
      /\ restarts \in Nat
  <2>1. \A t \in Topic : top(t) \in Generation
    BY CoreFacts, GroupFacts
  <2>2. MaxJoins \in Nat
    BY CoreFacts
  <2>3. \A c \in Client : gen(c) \in Generation \cup {0} /\ client[c].in \in BOOLEAN
    BY DEF CoreInv, TypeInv
  <2>4. \A t \in Topic : top(t) \in Nat /\ top(t) > 0
    BY <2>1, <2>2 DEF Generation
  <2>5. \A c \in Client : gen(c) \in Nat
    BY <2>2, <2>3 DEF Generation
  <2>6. restarts \in Nat
    BY CoreFacts DEF CoreInv, TypeInv
  <2> QED
    BY <2>3, <2>4, <2>5, <2>6, CoreFacts DEF CoreInv, TypeInv
(* It is enough that no generation drops and that no client but one that    *)
(* gets a generation beyond all changes its own.                            *)
<1>2. ASSUME restarts = 0,
             \A t \in Topic : groups'[t].generation \in Nat /\ groups'[t].generation >= top(t),
             NEW W \in SUBSET Client,
             \A c, d \in W : c = d,
             \A c \in W : /\ client'[c].generation = groups'[TopicOf[c]].generation
                          /\ client'[c].generation > top(TopicOf[c]),
             \A c \in Client \ W : /\ client'[c].generation = gen(c)
                                   /\ client'[c].in => client[c].in
      PROVE  GenerationInv'
  <2>0. /\ \A c \in Client : gen(c) <= top(TopicOf[c])
        /\ \A c \in Client : client[c].in => gen(c) > 0
        /\ \A c, d \in Client : c # d /\ TopicOf[c] = TopicOf[d] /\ gen(c) = gen(d) => gen(c) = 0
    BY <1>2 DEF GenerationInv
  <2>1. ASSUME NEW c \in Client
        PROVE  client'[c].generation <= groups'[TopicOf[c]].generation
    BY <1>1, <1>2, <2>0
  <2>2. ASSUME NEW c \in Client, client'[c].in
        PROVE  client'[c].generation > 0
    BY <1>1, <1>2, <2>0, <2>2
  <2>3. ASSUME NEW c \in Client, NEW d \in Client, c # d, TopicOf[c] = TopicOf[d],
               client'[c].generation = client'[d].generation
        PROVE  client'[c].generation = 0
    <3>1. CASE c \in W
      <4>1. d \notin W
        BY <1>2, <2>3, <3>1
      <4>2. client'[c].generation > top(TopicOf[c]) /\ client'[d].generation = gen(d)
        BY <1>2, <3>1, <4>1
      <4>3. gen(d) <= top(TopicOf[c])
        BY <2>0, <2>3
      <4> QED
        BY <1>1, <2>3, <4>2, <4>3
    <3>2. CASE d \in W
      <4>1. c \notin W
        BY <1>2, <2>3, <3>2
      <4>2. client'[d].generation > top(TopicOf[d]) /\ client'[c].generation = gen(c)
        BY <1>2, <3>2, <4>1
      <4>3. gen(c) <= top(TopicOf[d])
        BY <2>0, <2>3
      <4> QED
        BY <1>1, <2>3, <4>2, <4>3
    <3>3. CASE c \notin W /\ d \notin W
      BY <1>2, <2>0, <2>3, <3>3
    <3> QED
      BY <3>1, <3>2, <3>3
  <2> QED
    BY <2>1, <2>2, <2>3 DEF GenerationInv
(* No one is given a generation. *)
<1>3. ASSUME restarts = 0,
             \A t \in Topic : groups'[t].generation \in Nat /\ groups'[t].generation >= top(t),
             \A d \in Client :
                client'[d].generation = gen(d) /\ (client'[d].in => client[d].in)
      PROVE  GenerationInv'
  <2> HIDE DEF gen, top
  <2>1. PICK W : W = {}
    OBVIOUS
  <2>2. /\ W \in SUBSET Client /\ \A c, d \in W : c = d
        /\ \A c \in W : /\ client'[c].generation = groups'[TopicOf[c]].generation
                        /\ client'[c].generation > top(TopicOf[c])
    BY <2>1
  <2>3. \A c \in Client \ W : /\ client'[c].generation = gen(c)
                              /\ client'[c].in => client[c].in
    BY <1>3
  <2> QED
    BY <1>2, <1>3, <2>2, <2>3
<1>4. ASSUME NEW c \in Client, join_group(c)
      PROVE  GenerationInv'
  <2> DEFINE t == TopicOf[c]
  <2>1. PICK id \in MemberId, group \in Group :
           /\ groups' = [groups EXCEPT ![t] = group]
           /\ group.generation = groups[t].generation + 1
           /\ \/ /\ client' = [client EXCEPT ![c] =
                       [in |-> TRUE, id |-> id, generation |-> group.generation,
                        parts |-> group.members[id].parts]]
                 /\ since' = [since EXCEPT ![c] = 0]
              \/ UNCHANGED <<client, since>>
    BY <1>4, JoinEffect
  <2>2. restarts = 0
    BY <1>4 DEF join_group
  <2>3. t \in Topic
    BY <1>1
  <2>4. groups'[t].generation = top(t) + 1 /\ \A u \in Topic : u # t => groups'[u] = groups[u]
    BY <1>1, <2>1, <2>3
  <2>5. \A u \in Topic : groups'[u].generation \in Nat /\ groups'[u].generation >= top(u)
    BY <1>1, <2>4
  <2>6. CASE UNCHANGED <<client, since>>
    <3>1. \A d \in Client : client'[d].generation = gen(d) /\ (client'[d].in => client[d].in)
      BY <2>6
    <3> HIDE DEF t, gen, top
    <3> QED
      BY <1>3, <2>2, <2>5, <3>1
  <2>7. CASE ~ UNCHANGED <<client, since>>
    <3>1. /\ client'[c].generation = top(t) + 1
          /\ \A d \in Client \ {c} : client'[d] = client[d]
      BY <1>1, <2>1, <2>7
    <3>2. /\ client'[c].generation = groups'[TopicOf[c]].generation
          /\ client'[c].generation > top(TopicOf[c])
      BY <1>1, <2>3, <2>4, <3>1
    <3>3. \A d \in Client \ {c} : client'[d].generation = gen(d) /\ (client'[d].in => client[d].in)
      BY <3>1
    <3> HIDE DEF t, gen, top
    <3>4. /\ {c} \in SUBSET Client
          /\ \A d, e \in {c} : d = e
          /\ \A d \in {c} : /\ client'[d].generation = groups'[TopicOf[d]].generation
                            /\ client'[d].generation > top(TopicOf[d])
      BY <3>2
    <3> QED
      BY <1>2, <2>2, <2>5, <3>3, <3>4
  <2> QED
    BY <2>6, <2>7
<1>5. ASSUME NEW c \in Client,
             client' \in {client, [client EXCEPT ![c].in = FALSE]}
      PROVE  \A d \in Client :
                client'[d].generation = gen(d) /\ (client'[d].in => client[d].in)
  <2>1. CASE client' = client
    BY <2>1
  <2>2. CASE client' = [client EXCEPT ![c].in = FALSE]
    BY <1>1, <2>2
  <2> QED
    BY <1>5, <2>1, <2>2
<1>6. ASSUME NEW c \in Client, NEW t \in Topic, group_heartbeat(c, t)
      PROVE  GenerationInv'
  <2>1. PICK group \in Group :
           /\ groups' = [groups EXCEPT ![t] = group]
           /\ group.generation >= groups[t].generation
           /\ \/ UNCHANGED client
              \/ client' \in {client, [client EXCEPT ![c].in = FALSE]}
    BY <1>6, HeartbeatEffect
  <2>2. restarts = 0
    BY <1>6 DEF group_heartbeat
  <2>3. group.generation \in Nat
    <3>1. group.generation \in Generation /\ MaxJoins \in Nat
      BY CoreFacts, GroupFacts
    <3> QED
      BY <3>1 DEF Generation
  <2>4. groups'[t] = group /\ \A u \in Topic : u # t => groups'[u] = groups[u]
    BY <1>1, <2>1
  <2>5. \A u \in Topic : groups'[u].generation \in Nat /\ groups'[u].generation >= top(u)
    BY <1>1, <2>1, <2>3, <2>4
  <2>6. client' \in {client, [client EXCEPT ![c].in = FALSE]}
    BY <2>1
  <2> QED
    BY <1>5, <1>3, <2>2, <2>5, <2>6
<1>7. ASSUME UNCHANGED groups
      PROVE  \A t \in Topic : groups'[t].generation \in Nat /\ groups'[t].generation >= top(t)
  BY <1>1, <1>7
<1>8. ASSUME NEW c \in Client, HeartbeatUnknown(c)
      PROVE  GenerationInv'
  <2>1. /\ client' \in {client, [client EXCEPT ![c].in = FALSE]}
        /\ UNCHANGED groups /\ restarts = 0
    BY <1>8 DEF HeartbeatUnknown
  <2> QED
    BY <1>5, <1>3, <1>7, <2>1
<1>9. ASSUME NEW c \in Client, Die(c)
      PROVE  GenerationInv'
  BY <1>3, <1>7, <1>9 DEF Die
<1>10. ASSUME Tick
       PROVE  GenerationInv'
  <2>1. \A t \in Topic : groups'[t] = Aged(groups[t])
    BY <1>10 DEF Tick, Aged
  <2>2. \A t \in Topic : groups'[t].generation = top(t)
    BY <2>1, CoreFacts, OlderFacts
  <2>3. \A t \in Topic : groups'[t].generation \in Nat /\ groups'[t].generation >= top(t)
    BY <1>1, <2>2
  <2>4. UNCHANGED <<client, restarts>>
    BY <1>10 DEF Tick
  <2>5. \A d \in Client : client'[d].generation = gen(d) /\ (client'[d].in => client[d].in)
    BY <2>4
  <2> QED
    BY <1>3, <2>3, <2>4, <2>5
<1>11. ASSUME RestartBroker
       PROVE  FALSE
  BY <1>1, <1>11 DEF RestartBroker
<1>12. CASE UNCHANGED vars
  BY <1>3, <1>7, <1>12 DEF vars
<1> QED
  BY <1>4, <1>6, <1>8, <1>9, <1>10, <1>11, <1>12 DEF Next

(* OneClientPerMember: until the broker restarts, the generation check of   *)
(* heartbeat lets one client at a time hold a member id, however ids are    *)
(* reused and however many clients there are.                               *)
THEOREM OneClientPerMemberCorrect == Spec => []OneClientPerMember
<1>1. GenerationInv => OneClientPerMember
  <2> SUFFICES ASSUME GenerationInv, restarts = 0, NEW c \in Client, NEW d \in Client,
                      TopicOf[c] = TopicOf[d],
                      client[c].in, Accepted(groups[TopicOf[c]], c),
                      client[d].in, Accepted(groups[TopicOf[d]], d),
                      client[c].id = client[d].id
               PROVE  c = d
    BY DEF OneClientPerMember
  <2>1. client[c].generation = client[d].generation
    BY DEF Accepted
  <2>2. client[c].generation > 0
    BY DEF GenerationInv
  <2>3. ~ (0 > 0)
    OBVIOUS
  <2> QED
    BY <2>1, <2>2, <2>3 DEF GenerationInv
<1> QED
  BY <1>1, CoreCorrect, GenerationInit, GenerationStep, PTL DEF Spec

-----------------------------------------------------------------------------
(* A group id is used for one topic. *)
OneTopicPerGroup == \A t, u \in Topic : t = u

LEMMA SessionInit == Init => SessionInv
<1> SUFFICES ASSUME Init PROVE SessionInv
  OBVIOUS
<1>1. \A c \in Client : client[c].in = FALSE
  BY DEF Init, Outsider
<1>2. living \subseteq Client
  BY DEF Init
<1> QED
  BY <1>1, <1>2 DEF SessionInv

LEMMA SessionStep ==
    ASSUME OneTopicPerGroup
    PROVE  CoreInv /\ SessionInv /\ [Next]_vars => SessionInv'
<1> SUFFICES ASSUME CoreInv, SessionInv, [Next]_vars, restarts' = 0,
                    NEW c \in Client, c \in living', c \in Punctual, client'[c].in
             PROVE  /\ since'[c] <= SessionTimeout
                    /\ client'[c].id \in DOMAIN groups'[TopicOf[c]].members
                    /\ groups'[TopicOf[c]].members[client'[c].id].age <= since'[c]
  <2>1. CoreInv' => living' \subseteq Client
    BY DEF CoreInv, TypeInv
  <2>2. CoreInv /\ [Next]_vars => living' \subseteq Client
    BY <2>1, CoreStep
  <2> QED
    BY <2>2 DEF SessionInv
<1> DEFINE t  == TopicOf[c]
           g  == groups[t]
           own == client[c].id
           Goal == /\ since'[c] <= SessionTimeout
                   /\ client'[c].id \in DOMAIN groups'[t].members
                   /\ groups'[t].members[client'[c].id].age <= since'[c]
<1>1. /\ t \in Topic /\ \A u \in Topic : u = t
      /\ groups \in [Topic -> Group] /\ g \in Group
      /\ client \in [Client -> [in : BOOLEAN, id : MemberId \cup {0},
                                generation : Generation \cup {0},
                                parts : SUBSET AllPartitions]]
      /\ since \in [Client -> Ticks]
      /\ SessionTimeout \in Nat /\ since[c] \in Nat /\ restarts \in Nat
  <2>1. t \in Topic /\ SessionTimeout \in Nat
    BY CoreFacts
  <2>2. since[c] \in Nat
    BY <2>1 DEF CoreInv, TypeInv, Ticks
  <2>3. restarts \in Nat
    BY CoreFacts DEF CoreInv, TypeInv
  <2> QED
    BY <2>1, <2>2, <2>3 DEF CoreInv, TypeInv, OneTopicPerGroup
<1>2. \A m \in DOMAIN g.members : g.members[m].age \in Nat
  <2>1. \A m \in DOMAIN g.members : g.members[m] \in Member
    BY <1>1, GroupFacts
  <2> QED
    BY <1>1, <2>1 DEF Member, Ticks
(* What holds of a client that was a member before the step. *)
<1>3. ASSUME restarts = 0, c \in living, client[c].in
      PROVE  /\ since[c] <= SessionTimeout
             /\ own \in DOMAIN g.members
             /\ g.members[own].age <= since[c]
  BY <1>3 DEF SessionInv
<1>4. ASSUME NEW d \in Client, join_group(d)
      PROVE  Goal
  <2>0. TopicOf[d] = t
    BY <1>1, CoreFacts
  <2>1. PICK i \in MemberId, group \in Group :
           /\ groups' = [groups EXCEPT ![t] = group]
           /\ DOMAIN group.members = DOMAIN g.members \cup {i}
           /\ group.members[i].age = 0
           /\ \A m \in DOMAIN g.members : group.members[m].age <= g.members[m].age
           /\ \/ /\ client' = [client EXCEPT ![d] =
                       [in |-> TRUE, id |-> i, generation |-> group.generation,
                        parts |-> group.members[i].parts]]
                 /\ since' = [since EXCEPT ![d] = 0]
              \/ UNCHANGED <<client, since>>
    <3>1. PICK u : u = TopicOf[d]
      OBVIOUS
    <3>2. \E i \in MemberId, group \in Group :
             /\ groups' = [groups EXCEPT ![u] = group]
             /\ group.generation = groups[u].generation + 1
             /\ DOMAIN group.members = DOMAIN groups[u].members \cup {i}
             /\ group.members[i].age = 0
             /\ \A m \in DOMAIN groups[u].members :
                   group.members[m].age <= groups[u].members[m].age
             /\ Counted(group, joins + 1)
             /\ Covered(group, u)
             /\ \/ /\ client' = [client EXCEPT ![d] =
                         [in |-> TRUE, id |-> i, generation |-> group.generation,
                          parts |-> group.members[i].parts]]
                   /\ since' = [since EXCEPT ![d] = 0]
                \/ UNCHANGED <<client, since>>
      BY <1>4, <3>1, JoinEffect, Zenon
    <3>3. u = t
      BY <2>0, <3>1
    <3> HIDE DEF t
    <3> QED
      BY <3>2, <3>3
  <2>2. groups'[t] = group /\ restarts = 0 /\ c \in living /\ ~ client[d].in
    BY <1>1, <1>4, <2>1 DEF join_group
  <2>3. \A m \in DOMAIN group.members : group.members[m].age \in Int
    <3>1. \A m \in DOMAIN group.members : group.members[m] \in Member
      BY GroupFacts
    <3> QED
      BY <1>1, <3>1 DEF Member, Ticks
  <2>4. CASE client' = client /\ since' = since
    <3>1. client[c].in
      BY <2>4
    <3>2. /\ since[c] <= SessionTimeout /\ own \in DOMAIN g.members
          /\ g.members[own].age <= since[c]
      BY <1>3, <2>2, <3>1
    <3>3. own \in DOMAIN group.members /\ group.members[own].age <= g.members[own].age
      BY <2>1, <3>2
    <3>4. group.members[own].age <= since[c]
      BY <1>1, <1>2, <2>3, <3>2, <3>3
    <3> QED
      BY <2>2, <2>4, <3>2, <3>3, <3>4
  <2>5. CASE c # d /\ client'[c] = client[c] /\ since'[c] = since[c]
    <3>1. client[c].in
      BY <2>5
    <3>2. /\ since[c] <= SessionTimeout /\ own \in DOMAIN g.members
          /\ g.members[own].age <= since[c]
      BY <1>3, <2>2, <3>1
    <3>3. own \in DOMAIN group.members /\ group.members[own].age <= g.members[own].age
      BY <2>1, <3>2
    <3>4. group.members[own].age <= since[c]
      BY <1>1, <1>2, <2>3, <3>2, <3>3
    <3> QED
      BY <2>2, <2>5, <3>2, <3>3, <3>4
  <2>6. CASE c = d /\ client'[c].id = i /\ since'[c] = 0
    BY <1>1, <2>1, <2>2, <2>6
  <2>7. \/ client' = client /\ since' = since
        \/ c # d /\ client'[c] = client[c] /\ since'[c] = since[c]
        \/ c = d /\ client'[c].id = i /\ since'[c] = 0
    BY <1>1, <2>1
  <2> QED
    BY <2>4, <2>5, <2>6, <2>7
(* Ids stay, and in is only reset. *)
<1>5. ASSUME NEW d \in Client,
             client' \in {client, [client EXCEPT ![d].in = FALSE]}
      PROVE  client[c].in /\ client'[c].id = own
  <2>1. CASE client' = client
    BY <2>1
  <2>2. CASE client' = [client EXCEPT ![d].in = FALSE]
    BY <1>1, <2>2
  <2> QED
    BY <1>5, <2>1, <2>2
<1>6. ASSUME NEW d \in Client, NEW u \in Topic, group_heartbeat(d, u)
      PROVE  Goal
  <2>0. u = t
    BY <1>1
  <2>1. PICK group \in Group :
           /\ groups' = [groups EXCEPT ![t] = group]
           /\ DOMAIN group.members = DOMAIN g.members \ Stale(g.members)
           /\ \A m \in DOMAIN group.members : group.members[m].age <= g.members[m].age
           /\ \/ /\ client[d].id \in DOMAIN group.members
                 /\ group.members[client[d].id].age = 0
                 /\ since' \in {since, [since EXCEPT ![d] = 0]}
                 /\ UNCHANGED client
              \/ /\ client' \in {client, [client EXCEPT ![d].in = FALSE]}
                 /\ UNCHANGED since
    BY <1>6, <2>0, HeartbeatEffect
  <2>2. groups'[t] = group /\ restarts = 0 /\ c \in living
    BY <1>1, <1>6, <2>1 DEF group_heartbeat
  <2>3. client' \in {client, [client EXCEPT ![d].in = FALSE]}
    BY <2>1
  <2>4. client[c].in /\ client'[c].id = own
    BY <1>5, <2>3
  <2>5. /\ since[c] <= SessionTimeout /\ own \in DOMAIN g.members
        /\ g.members[own].age <= since[c]
    BY <1>3, <2>2, <2>4
  <2>6. own \notin Stale(g.members)
    BY <1>1, <1>2, <2>5 DEF Stale
  <2>7. own \in DOMAIN group.members /\ group.members[own].age <= g.members[own].age
    BY <2>1, <2>5, <2>6
  <2>8. group.members[own].age \in Int
    <3>1. group.members[own] \in Member
      BY <2>7, GroupFacts
    <3> QED
      BY <1>1, <3>1 DEF Member, Ticks
  <2>9. group.members[own].age <= since[c]
    BY <1>1, <1>2, <2>5, <2>7, <2>8
  <2>10. \/ since'[c] = since[c]
         \/ since'[c] = 0 /\ group.members[own].age = 0
    BY <1>1, <2>1
  <2> QED
    BY <1>1, <2>2, <2>4, <2>5, <2>7, <2>9, <2>10
<1>7. ASSUME restarts = 0, c \in living, client[c].in, client'[c].id = own,
             groups' = groups, since' = since
      PROVE  Goal
  BY <1>3, <1>7
<1>8. ASSUME NEW d \in Client, HeartbeatUnknown(d)
      PROVE  Goal
  <2>1. /\ client' \in {client, [client EXCEPT ![d].in = FALSE]}
        /\ groups' = groups /\ since' = since /\ restarts = 0 /\ c \in living
    BY <1>8 DEF HeartbeatUnknown
  <2> QED
    BY <1>5, <1>7, <2>1
<1>9. ASSUME NEW d \in Client, Die(d)
      PROVE  Goal
  <2>1. /\ client' = client /\ groups' = groups /\ since' = since
        /\ restarts = 0 /\ c \in living
    BY <1>9 DEF Die
  <2> QED
    BY <1>7, <2>1
<1>10. ASSUME Tick
       PROVE  Goal
  <2>1. groups'[t] = Aged(g)
    BY <1>1, <1>10 DEF Tick, Aged
  <2>2. since'[c] = Older(since[c])
    BY <1>10 DEF Tick
  <2>3. client' = client /\ restarts = 0 /\ c \in living
    BY <1>10 DEF Tick
  <2>4. /\ since[c] <= SessionTimeout /\ own \in DOMAIN g.members
        /\ g.members[own].age <= since[c]
    BY <1>3, <2>3
  <2>5. since[c] < SessionTimeout
    BY <1>10, <2>3 DEF Tick
  <2>6. Counted(g, joins) /\ Covered(g, t)
    BY <1>1, CoreFacts
  <2>7. /\ DOMAIN groups'[t].members = DOMAIN g.members
        /\ \A m \in DOMAIN groups'[t].members : groups'[t].members[m].age = Older(g.members[m].age)
    BY <1>1, <2>1, <2>6, OlderFacts
  <2>8. Older(g.members[own].age) = g.members[own].age + 1 /\ Older(since[c]) = since[c] + 1
    BY <1>1, <1>2, <2>4, <2>5 DEF Older
  <2>9. own \in DOMAIN groups'[t].members
        /\ groups'[t].members[own].age = g.members[own].age + 1
    BY <2>4, <2>7, <2>8
  <2>10. since'[c] <= SessionTimeout /\ groups'[t].members[own].age <= since'[c]
    <3>1. since'[c] = since[c] + 1
      BY <2>2, <2>8
    <3>2. since[c] \in Int /\ g.members[own].age \in Int /\ SessionTimeout \in Int
      BY <1>1, <1>2, <2>4
    <3> QED
      BY <3>1, <3>2, <2>4, <2>5, <2>9
  <2> QED
    BY <1>1, <1>2, <2>3, <2>9, <2>10
<1>11. ASSUME RestartBroker
       PROVE  FALSE
  BY <1>1, <1>11 DEF RestartBroker
<1>12. CASE UNCHANGED vars
  <2>1. /\ client' = client /\ groups' = groups /\ since' = since
        /\ restarts = 0 /\ c \in living
    BY <1>12 DEF vars
  <2> QED
    BY <1>7, <2>1
<1> QED
  BY <1>4, <1>6, <1>8, <1>9, <1>10, <1>11, <1>12 DEF Next

(* HeartbeatsKeepMembership: until the broker restarts, a client that       *)
(* heartbeats within the session timeout is never expired by the heartbeats *)
(* of others, for any timeout and number of clients, when the group id is   *)
(* used for one topic (with two, a heartbeat may renew the other group).    *)
THEOREM HeartbeatsKeepMembershipCorrect ==
    ASSUME OneTopicPerGroup
    PROVE  Spec => []HeartbeatsKeepMembership
<1>1. SessionInv => HeartbeatsKeepMembership
  BY DEF SessionInv, HeartbeatsKeepMembership
<1>2. CoreInv /\ SessionInv /\ [Next]_vars => SessionInv'
  BY SessionStep
<1> QED
  BY <1>1, <1>2, CoreCorrect, SessionInit, PTL DEF Spec
=============================================================================
